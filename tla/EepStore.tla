------------------------------ MODULE EepStore ------------------------------
(***************************************************************************)
(* What flash_eep.c promises its callers: a table of small objects.  A     *)
(* save that returns has stored the object; a save cut short by a power    *)
(* failure may leave its own object old, new, torn or missing, and leaves  *)
(* every other object alone; everything is dropped at start-up only when   *)
(* no version is found.                                                    *)
(***************************************************************************)
EXTENDS Naturals, Sequences

CONSTANTS
  Ids,      \* object identifiers
  VER,      \* EEP_ID_VER, one of them
  Data,     \* values: sequences of words
  FF,       \* an erased word
  Missing   \* no object

VARIABLES
  store,    \* [Ids -> Data \cup {Missing}], what flash_read_cfg() finds
  saving    \* the object a running save is for and its value, or <<>>

Idle == saving = <<>>

\* The object of an interrupted save: its header may be there before its data.
Torn(v)     == {[i \in 1 .. Len(v) |-> IF i <= k THEN v[i] ELSE FF] : k \in 0 .. Len(v)}
Unsure(id, v) == {store[id], Missing} \cup Torn(v)

Init == Idle /\ store \in [Ids -> {Missing}]

Begin(id, v) == Idle /\ saving' = <<id, v>> /\ UNCHANGED store

Cut(id, v) == \E d \in Unsure(id, v) : store' = [store EXCEPT ![id] = d]

Progress ==
  /\ ~Idle
  /\ UNCHANGED saving
  /\ Cut(saving[1], saving[2])

Finish ==
  /\ ~Idle
  /\ saving' = <<>>
  /\ store' = [store EXCEPT ![saving[1]] = saving[2]]

PowerLoss ==
  /\ ~Idle
  /\ saving' = <<>>
  /\ Cut(saving[1], saving[2])

\* flash_supported_eep_ver() without a version object of the right size.
Wipe ==
  /\ Idle
  /\ store[VER] = Missing \/ Len(store[VER]) # 1
  /\ store' = [id \in Ids |-> Missing]
  /\ UNCHANGED saving

Next ==
  \/ \E id \in Ids, v \in Data : Begin(id, v)
  \/ Progress \/ Finish \/ PowerLoss \/ Wipe

Spec == Init /\ [][Next]_<<store, saving>>
=============================================================================
