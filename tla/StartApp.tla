------------------------------ MODULE StartApp ------------------------------
(***************************************************************************)
(* The loader of the boot firmware: start_app() and startup_app() of       *)
(* src/hdp16/source/ble_ota.c.  It reads the header of the application,    *)
(* copies the segments that run from RAM and jumps to the start address.   *)
(*                                                                         *)
(* Addresses are members of Addrs; None is the word 0xffffffff.  A segment *)
(* is copied when it runs from another place than its place in flash and   *)
(* is smaller than 128 KiB.  `info_seg' is a local variable of the C       *)
(* function that is read before it is assigned when the start address is   *)
(* None: its first value is arbitrary.                                     *)
(***************************************************************************)
EXTENDS Naturals, FiniteSets

CONSTANTS
  Addrs,     \* run addresses
  None,      \* 0xffffffff
  Zero,      \* the address 0, which startup_app() does not jump to
  SegLimit,  \* segments the loader copies: 15 in the code
  WebLimit   \* segments the web client lets through: 16 in the page

ASSUME StartAppAssumption ==
  /\ None \notin Addrs /\ Zero \notin Addrs /\ None # Zero
  /\ SegLimit \in Nat /\ WebLimit \in Nat

Kinds    == {"xip", "ram", "huge"}  \* in place; to be copied; 128 KiB or more
Segments == [waddr : Addrs \cup {None}, kind : Kinds]

VARIABLES
  header,    \* app_info_t in flash
  table,     \* the segment table behind it
  info_app,  \* the copy of the header the loader works on
  info_seg,  \* the run address in the segment record it works on
  copied,    \* segments copied to RAM
  pc         \* "read", "copy", then "jump" or "stay"

vars == <<header, table, info_app, info_seg, copied, pc>>

Headers == [flag : BOOLEAN, seg_count : 0 .. WebLimit + 1, start_addr : Addrs \cup {None, Zero}]

TypeOK ==
  /\ header \in Headers
  /\ table \in [1 .. header.seg_count -> Segments]
  /\ info_app \in [flag : BOOLEAN, seg_count : 0 .. WebLimit + 1,
                   start_addr : Addrs \cup {None, Zero}]
  /\ info_seg \in Addrs \cup {None, Zero}
  /\ copied \subseteq DOMAIN table
  /\ pc \in {"read", "copy", "jump", "stay"}

Init ==
  /\ header \in Headers
  /\ table \in [1 .. header.seg_count -> Segments]
  /\ info_app = header
  /\ info_seg \in Addrs \cup {None, Zero}
  /\ copied = {}
  /\ pc = "read"

Return(addr) ==
  /\ info_app' = [info_app EXCEPT !.start_addr = addr]
  /\ pc' = IF addr = Zero THEN "stay" ELSE "jump"
  /\ UNCHANGED <<header, table, info_seg, copied>>

NoFlag ==
  pc = "read" /\ ~info_app.flag /\ Return(Zero)

\* A table that is too long is not loaded, and its start address is used.
TooMany ==
  pc = "read" /\ info_app.flag /\ info_app.seg_count > SegLimit /\ Return(info_app.start_addr)

\* The first loop takes a missing start address from info_seg, once for every
\* segment, without reading the table.
Resolve ==
  LET addr == IF info_app.start_addr = None /\ info_app.seg_count > 0
              THEN info_seg ELSE info_app.start_addr
  IN  /\ pc = "read" /\ info_app.flag /\ info_app.seg_count <= SegLimit
      /\ IF addr = None THEN Return(Zero)
         ELSE /\ info_app' = [info_app EXCEPT !.start_addr = addr]
              /\ pc' = "copy"
              /\ UNCHANGED <<header, table, info_seg, copied>>

CopiesTheNext ==  \* mutant
  LET i == header.seg_count - info_app.seg_count + 1 IN
  /\ pc = "copy" /\ info_app.seg_count > 0
  /\ info_seg' = table[i].waddr
  /\ copied' = IF table[i].kind = "ram" THEN copied \cup {i + 1} ELSE copied
  /\ info_app' = [info_app EXCEPT !.seg_count = @ - 1]
  /\ UNCHANGED <<header, table, pc>>

\* The second loop, one segment at a time.
CopySegment ==
  LET i == header.seg_count - info_app.seg_count + 1 IN
  /\ pc = "copy" /\ info_app.seg_count > 0
  /\ info_seg' = table[i].waddr
  /\ copied' = IF table[i].kind = "ram" THEN copied \cup {i} ELSE copied
  /\ info_app' = [info_app EXCEPT !.seg_count = @ - 1]
  /\ UNCHANGED <<header, table, pc>>

Loaded ==
  pc = "copy" /\ info_app.seg_count = 0 /\ Return(info_app.start_addr)

Next == NoFlag \/ TooMany \/ Resolve \/ CopySegment \/ Loaded

Spec == Init /\ [][Next]_vars
-----------------------------------------------------------------------------
\* An application with a start address of its own and no more segments than
\* the loader takes runs with all its RAM segments in place, and only those.
EnteredIsLoaded ==
  pc = "jump" /\ header.seg_count <= SegLimit =>
    /\ copied = {i \in DOMAIN table : table[i].kind = "ram"}
    /\ header.start_addr # None => info_app.start_addr = header.start_addr

\* "if = -1, taken from the first value != -1 of a segment" (ble_ota.c:26, 276).
StartFromSegments ==
  pc = "jump" /\ header.start_addr = None /\ header.seg_count <= SegLimit =>
    \E i \in DOMAIN table :
      /\ info_app.start_addr = table[i].waddr /\ table[i].waddr # None
      /\ \A j \in 1 .. i - 1 : table[j].waddr = None

\* An image the web client accepts (it refuses more than 16 segments) is loaded
\* before it is entered.
WebImagesLoad ==
  pc = "jump" /\ header.seg_count <= WebLimit =>
    copied = {i \in DOMAIN table : table[i].kind = "ram"}
=============================================================================
