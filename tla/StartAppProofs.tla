--------------------------- MODULE StartAppProofs ---------------------------
(***************************************************************************)
(* The loader for every table of segments, every limit, and whatever its   *)
(* uninitialised variable holds.                                           *)
(***************************************************************************)
EXTENDS StartApp, Integers, TLAPS

RamSegments(n) == {i \in 1 .. n : table[i].kind = "ram"}
Done == header.seg_count - info_app.seg_count
OwnStart == header.start_addr # None => info_app.start_addr = header.start_addr

\* The copies of the header and the table, at each step of the loader.
LoadInv ==
  /\ TypeOK
  /\ pc = "read" => info_app = header /\ copied = {}
  /\ pc = "copy" =>
       info_app.seg_count <= header.seg_count /\ copied = RamSegments(Done) /\ OwnStart
  /\ pc = "jump" /\ header.seg_count <= SegLimit =>
       copied = RamSegments(header.seg_count) /\ OwnStart

LEMMA InitLoad == Init => LoadInv
BY StartAppAssumption DEF Init, LoadInv, TypeOK, Headers

LEMMA NextLoad ==
  ASSUME LoadInv, [Next]_vars
  PROVE  LoadInv'
<1> USE StartAppAssumption
<1>a. /\ header \in Headers /\ table \in [1 .. header.seg_count -> Segments]
      /\ info_app \in Headers /\ info_seg \in Addrs \cup {None, Zero}
      /\ copied \subseteq DOMAIN table /\ pc \in {"read", "copy", "jump", "stay"}
      /\ header.seg_count \in Nat /\ info_app.seg_count \in Nat
  BY DEF LoadInv, TypeOK, Headers
<1>b. ASSUME UNCHANGED <<header, table>>, info_app' \in Headers, info_seg' \in Addrs \cup {None, Zero},
             copied' \subseteq DOMAIN table, pc' \in {"read", "copy", "jump", "stay"}
      PROVE  TypeOK'
  BY <1>a, <1>b DEF TypeOK, Headers
<1>c. ASSUME NEW addr \in Addrs \cup {None, Zero}, Return(addr)
      PROVE  /\ TypeOK' /\ UNCHANGED <<header, table, copied>>
             /\ info_app'.start_addr = addr /\ pc' = IF addr = Zero THEN "stay" ELSE "jump"
  BY <1>a, <1>b, <1>c DEF Return, Headers
<1>1. CASE NoFlag
  <2>1. TypeOK' /\ pc' = "stay" BY <1>1, <1>c DEF NoFlag
  <2> QED BY <2>1 DEF LoadInv
<1>2. CASE TooMany
  <2>1. /\ Return(info_app.start_addr) /\ info_app.start_addr \in Addrs \cup {None, Zero}
        /\ ~(header.seg_count <= SegLimit)
    BY <1>2, <1>a DEF TooMany, LoadInv, Headers
  <2>2. TypeOK' /\ header' = header /\ pc' \in {"stay", "jump"} BY <1>c, <2>1
  <2> QED BY <2>1, <2>2 DEF LoadInv
<1>3. CASE Resolve
  <2> DEFINE addr == IF info_app.start_addr = None /\ info_app.seg_count > 0
                     THEN info_seg ELSE info_app.start_addr
  <2>1. addr \in Addrs \cup {None, Zero} BY <1>a DEF Headers
  <2>2. pc = "read" /\ info_app = header /\ copied = {} BY <1>3 DEF Resolve, LoadInv
  <2>3. CASE addr = None
    <3>1. Return(Zero) BY <1>3, <2>3 DEF Resolve
    <3>2. TypeOK' /\ pc' = "stay" BY <1>c, <3>1
    <3> QED BY <3>2 DEF LoadInv
  <2>4. CASE addr # None
    <3>1. /\ info_app' = [info_app EXCEPT !.start_addr = addr] /\ pc' = "copy"
          /\ UNCHANGED <<header, table, info_seg, copied>>
      BY <1>3, <2>4 DEF Resolve
    <3>2. header.start_addr # None => addr = header.start_addr BY <2>2
    <3> HIDE DEF addr
    <3>3. info_app' \in Headers /\ info_app'.start_addr = addr
          /\ info_app'.seg_count = header.seg_count
      BY <1>a, <2>1, <2>2, <3>1 DEF Headers
    <3>4. TypeOK' BY <1>a, <1>b, <3>1, <3>3
    <3>5. RamSegments(Done)' = {} BY <1>a, <3>1, <3>3 DEF RamSegments, Done
    <3> QED BY <1>a, <2>2, <3>1, <3>2, <3>3, <3>4, <3>5 DEF LoadInv, OwnStart
  <2> QED BY <2>3, <2>4
<1>4. CASE CopySegment
  <2> DEFINE i == Done + 1
  <2>1. /\ pc = "copy" /\ pc' = pc /\ info_app.seg_count > 0 /\ UNCHANGED <<header, table>>
        /\ info_seg' = table[i].waddr
        /\ copied' = IF table[i].kind = "ram" THEN copied \cup {i} ELSE copied
        /\ info_app' = [info_app EXCEPT !.seg_count = info_app.seg_count - 1]
    BY <1>4 DEF CopySegment, Done
  <2>2. info_app.seg_count <= header.seg_count /\ copied = RamSegments(Done) /\ OwnStart
    BY <2>1 DEF LoadInv
  <2>3. Done \in Nat /\ i \in 1 .. header.seg_count BY <1>a, <2>1, <2>2 DEF Done
  <2>4. /\ info_app' \in Headers /\ info_app'.start_addr = info_app.start_addr
        /\ info_app'.seg_count = info_app.seg_count - 1
    <3>1. info_app.seg_count - 1 \in 0 .. WebLimit + 1 BY <1>a, <2>1 DEF Headers
    <3> QED BY <1>a, <2>1, <3>1 DEF Headers
  <2>5. table[i].waddr \in Addrs \cup {None, Zero} BY <1>a, <2>3 DEF Segments
  <2>6. Done' = i BY <1>a, <2>1, <2>4 DEF Done
  <2> HIDE DEF i
  <2>7. copied' \subseteq DOMAIN table BY <1>a, <2>1, <2>3
  <2>8. TypeOK' BY <1>a, <1>b, <2>1, <2>4, <2>5, <2>7
  <2>9. RamSegments(Done)' = {j \in 1 .. i : table[j].kind = "ram"} BY <2>1, <2>6 DEF RamSegments
  <2>10. 1 .. i = (1 .. Done) \cup {i} BY <2>3 DEF i
  <2>11. copied' = RamSegments(Done)' BY <2>1, <2>2, <2>9, <2>10 DEF RamSegments
  <2>12. info_app'.seg_count <= header'.seg_count BY <1>a, <2>1, <2>2, <2>4
  <2> QED BY <2>1, <2>2, <2>4, <2>8, <2>11, <2>12 DEF LoadInv, OwnStart
<1>5. CASE Loaded
  <2>1. /\ Return(info_app.start_addr) /\ info_app.start_addr \in Addrs \cup {None, Zero}
        /\ pc = "copy" /\ info_app.seg_count = 0
    BY <1>5, <1>a DEF Loaded, Headers
  <2>2. /\ TypeOK' /\ UNCHANGED <<header, table, copied>> /\ pc' \in {"stay", "jump"}
        /\ info_app'.start_addr = info_app.start_addr
    BY <1>c, <2>1
  <2>3. copied = RamSegments(header.seg_count) /\ OwnStart BY <1>a, <2>1 DEF LoadInv, Done
  <2> QED BY <2>2, <2>3 DEF LoadInv, OwnStart, RamSegments
<1>6. CASE UNCHANGED vars
  BY <1>6 DEF vars, LoadInv, TypeOK, RamSegments, Done, OwnStart
<1> QED BY <1>1, <1>2, <1>3, <1>4, <1>5, <1>6 DEF Next

\* An application the loader enters with no more segments than it takes (it
\* also enters those with more, unloaded) has its RAM segments in place, whatever
\* the uninitialised record held.  Segments are not taken to overlap.
THEOREM EntersLoaded == Spec => []EnteredIsLoaded
<1>1. LoadInv /\ [Next]_vars => LoadInv' BY NextLoad
<1>2. LoadInv => EnteredIsLoaded
  <2> SUFFICES ASSUME LoadInv, pc = "jump", header.seg_count <= SegLimit
               PROVE  /\ copied = {i \in DOMAIN table : table[i].kind = "ram"}
                      /\ header.start_addr # None => info_app.start_addr = header.start_addr
    BY DEF EnteredIsLoaded
  <2>1. DOMAIN table = 1 .. header.seg_count BY DEF LoadInv, TypeOK
  <2> QED BY <2>1 DEF LoadInv, RamSegments, OwnStart
<1> QED BY InitLoad, <1>1, <1>2, PTL DEF Spec
=============================================================================
