---------------------------- MODULE LoggerProofs ----------------------------
(***************************************************************************)
(* The safety of Logger for every size of the ring, every readout and any  *)
(* number of power failures.                                               *)
(***************************************************************************)
EXTENDS Logger, Integers, SequenceTheorems, WellFoundedInduction, TLAPS

Closed(s) == sec[s].id /\ sec[s].flg = "closed"

\* A sector that takes records, with c of them at its beginning.
OpenWith(x, c) ==
  /\ x.id /\ x.flg = "open"
  /\ \A i \in Slots : i > c <=> x.recs[i] = 0

\* The sectors before s are none memo_init() would take.
Behind(s) == \A t \in Secs : t < s => sec[t].id /\ sec[t].flg # "open"

\* An open sector, wherever it is, is filled from its beginning.
FilledInOrder ==
  \A s \in Secs : sec[s].id /\ sec[s].flg = "open" => \E c \in 0 .. SecRecs : OpenWith(sec[s], c)

\* The log is at a place in the first sector memo_init() would take, and on
\* its way from one to the next the sectors before are full.
PlaceInv ==
  /\ job.step \in {"idle", "write", "notify"} =>
       memo.cnt < SecRecs /\ OpenWith(sec[memo.sec], memo.cnt) /\ Behind(memo.sec)
  /\ job.step = "idle" => job = Idle
  /\ job.step \in {"close", "erase", "ident"} => Behind(job.sec)
  /\ job.step = "close" => sec[job.sec].id
  /\ job.step = "ident" => sec[job.sec] = BlankSec
  /\ job.step = "write" => serial < MaxSerial

LogInv == TypeOK /\ FilledInOrder /\ PlaceInv

-----------------------------------------------------------------------------
(* Operators.                                                              *)

LEMMA LeastElement ==
  ASSUME NEW S \in SUBSET Nat, S # {}
  PROVE  \E m \in S : \A n \in S : m <= n
<1> DEFINE R == {p \in Nat \X Nat : p[1] < p[2]}
<1>1. OpToRel(<, Nat) = R BY DEF OpToRel
<1>2. IsWellFoundedOn(R, Nat) BY <1>1, NatLessThanWellFounded
<1>3. \A p, q \in Nat : <<p, q>> \in R <=> p < q OBVIOUS
<1> HIDE DEF R
<1>4. \E x \in S : \A y \in S : ~(<<y, x>> \in R) BY <1>2, WFMin, Zenon
<1>5. PICK x \in S : \A y \in S : ~(<<y, x>> \in R) BY <1>4
<1>6. ASSUME NEW y \in S PROVE x <= y
  <2>1. x \in Nat /\ y \in Nat OBVIOUS
  <2>2. ~(y < x) BY <1>3, <1>5, <2>1
  <2> QED BY <2>1, <2>2
<1> QED BY <1>6

LEMMA NextSecFacts ==
  ASSUME NEW s \in Secs
  PROVE  NextSec(s) \in Secs /\ NextSec(s) = IF s + 1 < NumSecs THEN s + 1 ELSE 0
<1> USE LoggerAssumption DEF Secs
<1>1. CASE s + 1 < NumSecs
  <2>1. (s + 1) % NumSecs = s + 1 BY <1>1
  <2> QED BY <1>1, <2>1 DEF NextSec
<1>2. CASE s + 1 >= NumSecs
  <2>1. s + 1 = NumSecs BY <1>2
  <2>2. NumSecs % NumSecs = 0 OBVIOUS
  <2> QED BY <1>2, <2>1, <2>2 DEF NextSec
<1> QED BY <1>1, <1>2

\* memo_init() finds the first sector it wants ...
LEMMA FirstFound ==
  ASSUME Wanted # {}
  PROVE  First \in Wanted /\ First \in Secs /\ Behind(First)
<1>1. Wanted \in SUBSET Nat /\ \A s \in Wanted : s \in Secs
  BY LoggerAssumption DEF Wanted, Secs
<1>2. \E s \in Wanted : \A t \in Wanted : s <= t BY <1>1, LeastElement
<1>3. First \in Wanted /\ \A t \in Wanted : First <= t BY <1>2 DEF First
<1>4. ASSUME NEW t \in Secs, t < First PROVE sec[t].id /\ sec[t].flg # "open"
  <2>1. t \in Nat /\ First \in Nat BY <1>1, <1>3 DEF Secs
  <2>2. t \notin Wanted BY <1>3, <1>4, <2>1
  <2> QED BY <1>4, <2>2 DEF Wanted
<1> QED BY <1>1, <1>3, <1>4 DEF Behind

\* ... and the number of records in it.
LEMMA UsedFound ==
  ASSUME NEW s \in Secs, NEW c \in 0 .. SecRecs, OpenWith(sec[s], c)
  PROVE  Used(s) = c
<1> USE LoggerAssumption DEF Slots
<1> DEFINE P(n) == /\ \A i \in 1 .. n : sec[s].recs[i] # 0
                   /\ n < SecRecs => sec[s].recs[n + 1] = 0
<1>1. P(c)
  <2>1. ASSUME NEW i \in 1 .. c PROVE sec[s].recs[i] # 0
    <3>1. i \in Slots /\ ~(i > c) OBVIOUS
    <3> QED BY <3>1 DEF OpenWith
  <2>2. ASSUME c < SecRecs PROVE sec[s].recs[c + 1] = 0
    <3>1. c + 1 \in Slots /\ c + 1 > c BY <2>2
    <3> QED BY <3>1 DEF OpenWith
  <2> QED BY <2>1, <2>2
<1>2. ASSUME NEW n \in 0 .. SecRecs, P(n) PROVE n = c
  <2>1. CASE n < c
    <3>1. n + 1 \in Slots /\ ~(n + 1 > c) /\ n < SecRecs BY <2>1
    <3> QED BY <1>2, <3>1 DEF OpenWith
  <2>2. CASE n > c
    <3>1. c + 1 \in Slots /\ c + 1 > c /\ c + 1 \in 1 .. n BY <2>2
    <3> QED BY <1>2, <3>1 DEF OpenWith
  <2> QED BY <2>1, <2>2
<1>3. Used(s) = CHOOSE n \in 0 .. SecRecs : P(n) BY DEF Used
<1> HIDE DEF P
<1> QED BY <1>1, <1>2, <1>3
-----------------------------------------------------------------------------
(* Types.                                                                  *)

Reads == [saved : Places, cnt : Nat, cur : Nat]
Clients == [on : BOOLEAN, want : Nat, recs : Seq(Serials \cup {Torn}), end : BOOLEAN]
Lefts == [reqs : 0 .. MaxRequests, clears : 0 .. MaxClears, crashes : 0 .. MaxCrashes]

LEMMA Constants ==
  /\ NoRecs \in [Slots -> Serials \cup {Torn}] /\ BlankSec \in SectorTypes
  /\ NoRead \in Reads /\ NoClient \in Clients
  /\ 0 \in Secs /\ 1 \in Secs /\ 0 \in 0 .. SecRecs /\ 0 \in Serials
  /\ Idle \in [step : Steps, sec : Secs]
<1> USE LoggerAssumption
<1>1. 0 \in Secs /\ 1 \in Secs /\ 0 \in 0 .. SecRecs /\ 0 \in Serials BY DEF Secs, Serials
<1>2. NoRecs \in [Slots -> Serials \cup {Torn}] BY <1>1 DEF NoRecs
<1>3. BlankSec \in SectorTypes BY <1>2 DEF BlankSec, SectorTypes
<1>4. NoRead \in Reads BY <1>1 DEF NoRead, Reads, Places
<1>5. <<>> \in Seq(Serials \cup {Torn}) OBVIOUS
<1>6. NoClient \in Clients BY <1>5 DEF NoClient, Clients
<1>7. Idle \in [step : Steps, sec : Secs] BY <1>1 DEF Idle, Job, Steps
<1> QED BY <1>1, <1>2, <1>3, <1>4, <1>6, <1>7

\* A block of the readout is a record or the end.
LEMMA GetMemoType ==
  ASSUME TypeOK, NEW n \in Nat \ {0}
  PROVE  GetMemo(n) \in Seq(Serials \cup {Torn})
<1> USE LoggerAssumption
<1> DEFINE c == rd.saved.cnt
           m == rd.saved.sec
           q == (n - c - 1) \div SecRecs
           p == (n - c - 1) % SecRecs
           hops == (1 + q) % NumSecs
           s == (m + NumSecs - hops) % NumSecs
<1>1. c \in 0 .. SecRecs /\ m \in Secs BY DEF TypeOK, Places
<1>2. \A t \in Secs, i \in Slots : sec[t].recs[i] \in Serials \cup {Torn}
  BY DEF TypeOK, SectorTypes
<1>3. CASE n <= c
  <2>1. c - n + 1 \in Slots BY <1>1, <1>3 DEF Slots
  <2>2. GetMemo(n) = <<sec[m].recs[c - n + 1]>> BY <1>3 DEF GetMemo
  <2> QED BY <1>1, <1>2, <2>1, <2>2
<1>4. CASE n > c
  <2>1. n - c - 1 \in Nat BY <1>1, <1>4
  <2>2. q \in Nat /\ p \in 0 .. SecRecs - 1 BY <2>1
  <2>3. hops \in 0 .. NumSecs - 1 BY <2>2
  <2> HIDE DEF hops
  <2>4. s \in Secs BY <1>1, <2>3 DEF Secs
  <2>5. SecRecs - p \in Slots BY <2>2 DEF Slots
  <2>6. GetMemo(n) = IF sec[s].id /\ sec[s].flg = "closed" THEN <<sec[s].recs[SecRecs - p]>> ELSE <<>>
    BY <1>1, <1>4 DEF GetMemo, hops
  <2> HIDE DEF s, p
  <2>7. sec[s].recs[SecRecs - p] \in Serials \cup {Torn} BY <1>2, <2>4, <2>5
  <2>8. <<>> \in Seq(Serials \cup {Torn})
        /\ \A r \in Serials \cup {Torn} : <<r>> \in Seq(Serials \cup {Torn})
    OBVIOUS
  <2> QED BY <2>6, <2>7, <2>8, Zenon
<1> QED BY <1>1, <1>3, <1>4
LEMMA InitLog == Init => LogInv
<1> SUFFICES ASSUME Init PROVE LogInv OBVIOUS
<1> USE LoggerAssumption, Constants
<1>1. sec \in [Secs -> SectorTypes] /\ \A s \in Secs : ~sec[s].id BY DEF Init, BlankSec
<1>2. memo \in Places BY DEF Init, Places
<1>3. rd \in Reads /\ client \in Clients BY DEF Init
<1>4. job \in [step : Steps, sec : Secs] /\ job.step = "boot" BY DEF Init, Job, Steps
<1>5. left \in Lefts BY DEF Init, Lefts
<1>6. summ \in 0 .. Averaging - 1 /\ timer \in BOOLEAN /\ view \in Serials /\ serial \in Serials
  <2>1. 0 \in 0 .. Averaging - 1 OBVIOUS
  <2> QED BY <2>1 DEF Init
<1>7. TypeOK BY <1>1, <1>2, <1>3, <1>4, <1>5, <1>6 DEF TypeOK, Reads, Clients, Lefts
<1>8. FilledInOrder BY <1>1 DEF FilledInOrder
<1>9. PlaceInv BY <1>4 DEF PlaceInv
<1> QED BY <1>7, <1>8, <1>9 DEF LogInv

\* A sector record with one field put anew.
LEMMA SectorPut ==
  ASSUME NEW x \in SectorTypes
  PROVE  /\ \A f \in {"open", "closed", "torn"} : [x EXCEPT !.flg = f] \in SectorTypes
         /\ \A b \in BOOLEAN : [x EXCEPT !.id = b] \in SectorTypes
         /\ \A i \in Slots, r \in Serials \cup {Torn} : [x EXCEPT !.recs[i] = r] \in SectorTypes
BY DEF SectorTypes

LEMMA NextLogType ==
  ASSUME LogInv, [Next]_vars
  PROVE  TypeOK'
<1> USE LoggerAssumption, Constants
<1> USE DEF LogInv
<1> DEFINE Jobs == [step : Steps, sec : Secs]
<1>a. /\ sec \in [Secs -> SectorTypes] /\ memo \in Places /\ rd \in Reads /\ summ \in 0 .. Averaging - 1
      /\ job \in Jobs /\ timer \in BOOLEAN /\ client \in Clients
      /\ view \in Serials /\ serial \in Serials /\ left \in Lefts
  BY DEF TypeOK, Reads, Clients, Lefts
<1>b. ASSUME sec' \in [Secs -> SectorTypes], memo' \in Places, rd' \in Reads, summ' \in 0 .. Averaging - 1,
             job' \in Jobs, timer' \in BOOLEAN, client' \in Clients,
             view' \in Serials, serial' \in Serials, left' \in Lefts
      PROVE  TypeOK'
  BY <1>b DEF TypeOK, Reads, Clients, Lefts
<1>c. Idle \in Jobs /\ \A step \in Steps, s \in Secs : Job(step, s) \in Jobs BY DEF Job
<1>d. job.sec \in Secs /\ memo.sec \in Secs /\ memo.cnt \in 0 .. SecRecs BY <1>a DEF Places
<1>e. "close" \in Steps /\ "erase" \in Steps /\ "ident" \in Steps /\ "write" \in Steps
      /\ "clear" \in Steps /\ "notify" \in Steps /\ "boot" \in Steps
  BY DEF Steps
<1> HIDE DEF Jobs
<1> USE <1>a, <1>c, <1>d, <1>e
<1>1. CASE Boot
  <2>1. UNCHANGED <<sec, readVars, summ, serial, left>> BY <1>1 DEF Boot
  <2>2. CASE Wanted = {}
    BY <1>1, <1>b, <2>1, <2>2 DEF Boot, readVars
  <2>3. CASE Wanted # {}
    <3>1. First \in Secs /\ First \in Wanted BY <2>3, FirstFound
    <3>2. CASE ~sec[First].id
      BY <1>1, <1>b, <2>1, <2>3, <3>1, <3>2 DEF Boot, readVars
    <3>3. CASE sec[First].id
      <4>1. sec[First].flg = "open" BY <3>1, <3>3 DEF Wanted
      <4>2. PICK c \in 0 .. SecRecs : OpenWith(sec[First], c) BY <3>1, <3>3, <4>1 DEF FilledInOrder
      <4>3. Used(First) \in 0 .. SecRecs BY <3>1, <4>2, UsedFound
      <4>4. [sec |-> First, cnt |-> Used(First)] \in Places BY <3>1, <4>3 DEF Places
      <4>5. /\ \/ job' = Idle /\ memo' = [sec |-> First, cnt |-> Used(First)]
               \/ job' = Job("close", First) /\ UNCHANGED memo
        BY <1>1, <2>3, <3>3 DEF Boot
      <4> QED BY <1>b, <2>1, <3>1, <4>4, <4>5 DEF readVars
    <3> QED BY <3>2, <3>3
  <2> QED BY <2>2, <2>3
<1>2. CASE CloseSector
  <2>1. sec' \in [Secs -> SectorTypes] BY <1>2, SectorPut DEF CloseSector
  <2>2. job' \in Jobs BY <1>2, NextSecFacts DEF CloseSector
  <2> QED BY <1>2, <1>b, <2>1, <2>2 DEF CloseSector, readVars
<1>3. CASE EraseSector
  BY <1>3, <1>b DEF EraseSector, readVars
<1>4. CASE WriteId
  <2>1. sec' \in [Secs -> SectorTypes] BY <1>4, SectorPut DEF WriteId
  <2>2. memo' \in Places BY <1>4 DEF WriteId, Places
  <2> QED BY <1>4, <1>b, <2>1, <2>2 DEF WriteId, readVars
<1>5. CASE Measure
  BY <1>5, <1>b DEF Measure, flashVars, readVars
\* What Put writes is a sector, when the place is one in it.
<1>6. ASSUME job.step = "write", NEW r \in Serials \cup {Torn}
      PROVE  Put(r) \in [Secs -> SectorTypes]
  <2>1. Slot \in Slots BY <1>6 DEF PlaceInv, Slot, Slots
  <2>2. Torn \in Serials \cup {Torn} OBVIOUS
  <2>3. DEFINE x == sec[memo.sec]
               w == IF x.recs[Slot] = 0 THEN r ELSE Torn
  <2>4. w \in Serials \cup {Torn} BY <1>6
  <2>5. [x EXCEPT !.recs[Slot] = w] \in SectorTypes BY <2>1, <2>4, SectorPut
  <2>6. Put(r) = [sec EXCEPT ![memo.sec] = [x EXCEPT !.recs[Slot] = w]] BY DEF Put
  <2> HIDE DEF x, w
  <2> QED BY <2>5, <2>6
<1>7. CASE WriteRecord
  <2>1. serial + 1 \in Serials BY <1>7 DEF WriteRecord, PlaceInv, Serials
  <2>2. sec' \in [Secs -> SectorTypes] BY <1>6, <1>7, <2>1 DEF WriteRecord
  <2>3. memo' \in Places BY <1>7 DEF WriteRecord, Places
  <2>4. job' \in Jobs BY <1>7 DEF WriteRecord
  <2> QED BY <1>7, <1>b, <2>1, <2>2, <2>3, <2>4 DEF WriteRecord, readVars
<1>8. CASE ClearMemo
  <2>1. memo' \in Places BY <1>8 DEF ClearMemo, Places
  <2>2. left' \in Lefts BY <1>8 DEF ClearMemo, Lefts
  <2> QED BY <1>8, <1>b, <2>1, <2>2 DEF ClearMemo
<1>9. CASE ClearSector
  BY <1>9, <1>b DEF ClearSector, readVars
<1>10. CASE Connect
  <2>1. client' \in Clients BY <1>10 DEF Connect, NoClient, Clients
  <2> QED BY <1>10, <1>b, <2>1 DEF Connect, flashVars
<1>11. CASE Cancel
  <2>1. rd' \in Reads BY <1>11 DEF Cancel, Reads
  <2>2. client' \in Clients BY <1>11 DEF Cancel, Clients
  <2>3. left' \in Lefts BY <1>11 DEF Cancel, Lefts
  <2> QED BY <1>11, <1>b, <2>1, <2>2, <2>3 DEF Cancel, flashVars
<1>12. ASSUME NEW n \in Requests, Request(n) PROVE TypeOK'
  <2>0. n \in Nat OBVIOUS
  <2>1. rd' \in Reads BY <1>12, <2>0 DEF Request, Reads
  <2>2. client' \in Clients BY <1>12, <2>0 DEF Request, Clients, NoClient
  <2>3. left' \in Lefts BY <1>12 DEF Request, Lefts
  <2> QED BY <1>12, <1>b, <2>1, <2>2, <2>3 DEF Request, flashVars
<1>13. CASE NotifyEvent
  BY <1>13, <1>b DEF NotifyEvent, flashVars
<1>14. CASE SendBlock \/ NoBuffer \/ NotConnected
  <2>1. rd.cur + 1 \in Nat /\ rd.cnt \in Nat BY DEF Reads
  <2>2. rd' \in Reads
    <3>1. \A x \in Nat : [rd EXCEPT !.cur = rd.cur + 1, !.cnt = x] \in Reads
                       /\ [rd EXCEPT !.cnt = x] \in Reads
      BY <2>1 DEF Reads
    <3>2. \E x \in Nat : rd' = [rd EXCEPT !.cur = rd.cur + 1, !.cnt = x] \/ rd' = [rd EXCEPT !.cnt = x]
      <4> DEFINE x == IF Ends THEN 0 ELSE rd.cnt
      <4>1. x \in Nat BY <2>1
      <4>2. rd' = [rd EXCEPT !.cur = rd.cur + 1, !.cnt = x] \/ rd' = [rd EXCEPT !.cnt = x]
        BY <1>14 DEF SendBlock, NoBuffer, NotConnected
      <4> HIDE DEF x
      <4> QED BY <4>1, <4>2
    <3> QED BY <3>1, <3>2
  <2>3. client' \in Clients
    <3>1. GetMemo(rd.cur + 1) \in Seq(Serials \cup {Torn}) BY <2>1, GetMemoType DEF Reads
    <3>2. client.recs \o GetMemo(rd.cur + 1) \in Seq(Serials \cup {Torn})
      BY <3>1, ConcatProperties DEF Clients
    <3> QED BY <1>14, <3>2 DEF SendBlock, NoBuffer, NotConnected, Clients
  <2>4. job' \in Jobs BY <1>14 DEF SendBlock, NoBuffer, NotConnected
  <2>5. timer' \in BOOLEAN BY <1>14 DEF SendBlock, NoBuffer, NotConnected
  <2> QED
    BY <1>14, <1>b, <2>2, <2>3, <2>4, <2>5 DEF SendBlock, NoBuffer, NotConnected, flashVars
<1>15. CASE Disconnect
  BY <1>15, <1>b DEF Disconnect, flashVars
<1>16. CASE PowerLoss
  <2>1. sec' \in [Secs -> SectorTypes]
    <3>1. CASE job.step = "write" /\ sec' = Put(Torn) BY <1>6, <3>1
    <3>2. CASE sec' = [sec EXCEPT ![job.sec].flg = "torn"] \/ sec' = [sec EXCEPT ![job.sec].id = FALSE]
      <4>1. [sec[job.sec] EXCEPT !.flg = "torn"] \in SectorTypes
            /\ [sec[job.sec] EXCEPT !.id = FALSE] \in SectorTypes
        BY SectorPut
      <4> QED BY <3>2, <4>1
    <3> QED BY <1>16, <3>1, <3>2 DEF PowerLoss
  <2>2. left' \in Lefts BY <1>16 DEF PowerLoss, Lefts
  <2>3. memo' \in Places /\ summ' \in 0 .. Averaging - 1 BY <1>16 DEF PowerLoss, Places
  <2> QED BY <1>16, <1>b, <2>1, <2>2, <2>3 DEF PowerLoss
<1>17. CASE UNCHANGED vars
  BY <1>17, <1>b DEF vars, flashVars, readVars
<1> QED
  BY <1>1, <1>2, <1>3, <1>4, <1>5, <1>7, <1>8, <1>9, <1>10, <1>11, <1>12, <1>13, <1>14, <1>15,
     <1>16, <1>17
  DEF Next, Run
-----------------------------------------------------------------------------
(* The place of the log.                                                   *)

\* A step that changes one sector, and no other.
LEMMA FilledKept ==
  ASSUME FilledInOrder, NEW s \in Secs, \A t \in Secs : t # s => sec'[t] = sec[t],
         sec'[s].id /\ sec'[s].flg = "open" => \E c \in 0 .. SecRecs : OpenWith(sec'[s], c)
  PROVE  FilledInOrder'
<1> SUFFICES ASSUME NEW t \in Secs, sec'[t].id, sec'[t].flg = "open"
             PROVE  \E c \in 0 .. SecRecs : OpenWith(sec'[t], c)
  BY DEF FilledInOrder
<1>1. CASE t = s BY <1>1
<1>2. CASE t # s BY <1>2 DEF FilledInOrder
<1> QED BY <1>1, <1>2

LEMMA BlankIsOpen ==
  ASSUME NEW x, x.id, x.flg = "open", x.recs = NoRecs
  PROVE  OpenWith(x, 0)
<1>1. \A i \in Slots : i > 0 /\ NoRecs[i] = 0 BY LoggerAssumption DEF NoRecs, Slots
<1> QED BY <1>1 DEF OpenWith

\* A record, whole or torn, goes behind those that are there.
LEMMA PutFacts ==
  ASSUME LogInv, job.step = "write", NEW r \in (Serials \cup {Torn}) \ {0}, sec' = Put(r)
  PROVE  /\ \A t \in Secs : t # memo.sec => sec'[t] = sec[t]
         /\ \A t \in Secs : sec'[t].id = sec[t].id /\ sec'[t].flg = sec[t].flg
         /\ sec'[memo.sec].recs = [sec[memo.sec].recs EXCEPT ![Slot] = r]
         /\ OpenWith(sec'[memo.sec], memo.cnt + 1)
         /\ Slot \in Slots /\ Slot = memo.cnt + 1
<1> USE LoggerAssumption DEF LogInv
<1>1. /\ sec \in [Secs -> SectorTypes] /\ memo.sec \in Secs /\ memo.cnt \in 0 .. SecRecs
      /\ sec[memo.sec].recs \in [Slots -> Serials \cup {Torn}]
  BY DEF TypeOK, Places, SectorTypes
<1>2. memo.cnt < SecRecs /\ OpenWith(sec[memo.sec], memo.cnt) BY DEF PlaceInv
<1>3. Slot \in Slots /\ Slot = memo.cnt + 1 BY <1>1, <1>2 DEF Slot, Slots
<1>4. sec[memo.sec].recs[Slot] = 0
  <2>1. Slot > memo.cnt BY <1>1, <1>3
  <2> QED BY <1>2, <1>3, <2>1 DEF OpenWith
<1>5. sec' = [sec EXCEPT ![memo.sec].recs[Slot] = r] BY <1>1, <1>3, <1>4 DEF Put, SectorTypes
<1>6. /\ \A t \in Secs : t # memo.sec => sec'[t] = sec[t]
      /\ sec'[memo.sec].recs = [sec[memo.sec].recs EXCEPT ![Slot] = r]
      /\ sec'[memo.sec].id = sec[memo.sec].id /\ sec'[memo.sec].flg = sec[memo.sec].flg
  BY <1>1, <1>5 DEF SectorTypes
<1>7. ASSUME NEW i \in Slots PROVE i > memo.cnt + 1 <=> sec'[memo.sec].recs[i] = 0
  <2>0. i \in Int BY DEF Slots
  <2>1. CASE i = Slot BY <1>1, <1>3, <1>6, <2>0, <2>1
  <2>2. CASE i # Slot
    <3>1. sec'[memo.sec].recs[i] = sec[memo.sec].recs[i] BY <1>1, <1>6, <2>2
    <3>2. i > memo.cnt <=> sec[memo.sec].recs[i] = 0 BY <1>2 DEF OpenWith
    <3> QED BY <1>1, <1>3, <2>0, <2>2, <3>1, <3>2
  <2> QED BY <2>1, <2>2
<1>8. \A t \in Secs : sec'[t].id = sec[t].id /\ sec'[t].flg = sec[t].flg BY <1>6
<1>9. OpenWith(sec'[memo.sec], memo.cnt + 1) BY <1>2, <1>6, <1>7 DEF OpenWith
<1> QED BY <1>3, <1>6, <1>8, <1>9

LEMMA NextPlace ==
  ASSUME LogInv, [Next]_vars
  PROVE  FilledInOrder' /\ PlaceInv'
<1> USE LoggerAssumption, Constants
<1> USE DEF LogInv
<1>a. /\ sec \in [Secs -> SectorTypes] /\ job.sec \in Secs /\ memo.sec \in Secs
      /\ memo.cnt \in 0 .. SecRecs /\ serial \in Serials
  BY DEF TypeOK, Places
<1>b. \A s \in Secs : s \in Nat BY DEF Secs
\* Steps that leave the flash and the place alone, between two events.
<1>1. ASSUME UNCHANGED <<sec, memo, serial>>, job.step \in {"idle", "notify"},
             \/ job' = Idle
             \/ job' = Job("notify", 0)
             \/ job' = Job("write", memo.sec) /\ serial < MaxSerial
             \/ UNCHANGED job
      PROVE  FilledInOrder' /\ PlaceInv'
  <2>1. FilledInOrder' BY <1>1 DEF FilledInOrder
  <2>2. PlaceInv' BY <1>1 DEF PlaceInv, Behind, Idle, Job
  <2> QED BY <2>1, <2>2
<1>2. CASE Boot
  <2>1. sec' = sec /\ serial' = serial BY <1>2 DEF Boot
  <2>2. FilledInOrder' BY <2>1 DEF FilledInOrder
  <2>3. CASE Wanted = {}
    <3>1. job' = Job("erase", 0) BY <1>2, <2>3 DEF Boot
    <3>2. Behind(0)' BY <1>b DEF Behind
    <3> QED BY <2>2, <3>1, <3>2 DEF PlaceInv, Job
  <2>4. CASE Wanted # {}
    <3>1. First \in Secs /\ First \in Wanted /\ Behind(First) BY <2>4, FirstFound
    <3> DEFINE f == First
    <3>2. f \in Secs /\ Behind(f) BY <3>1
    <3> HIDE DEF f
    <3>3. \A s : s = f => (\A t \in Secs : t < s => sec'[t].id /\ sec'[t].flg # "open")
      BY <2>1, <3>2 DEF Behind
    <3>4. CASE ~sec[f].id
      <4>1. job' = Job("erase", f) BY <1>2, <2>4, <3>4 DEF Boot, f
      <4> QED BY <2>2, <3>3, <4>1 DEF PlaceInv, Job, Behind
    <3>5. CASE sec[f].id
      <4>1. sec[f].flg = "open" BY <3>1, <3>5 DEF Wanted, f
      <4>2. PICK c \in 0 .. SecRecs : OpenWith(sec[f], c) BY <3>2, <3>5, <4>1 DEF FilledInOrder
      <4>3. Used(f) = c BY <3>2, <4>2, UsedFound
      <4>4. CASE c < SecRecs
        <5>1. job' = Idle /\ memo' = [sec |-> f, cnt |-> c]
          BY <1>2, <2>4, <3>5, <4>3, <4>4 DEF Boot, f
        <5> QED BY <2>1, <2>2, <3>3, <4>2, <4>4, <5>1 DEF PlaceInv, Idle, Job, Behind
      <4>5. CASE ~(c < SecRecs)
        <5>1. job' = Job("close", f) BY <1>2, <2>4, <3>5, <4>3, <4>5 DEF Boot, f
        <5> QED BY <2>1, <2>2, <3>3, <3>5, <5>1 DEF PlaceInv, Job, Behind
      <4> QED BY <4>4, <4>5
    <3> QED BY <3>4, <3>5
  <2> QED BY <2>3, <2>4
<1>3. CASE CloseSector
  <2> DEFINE s == job.sec
             n == NextSec(s)
  <2>1. /\ sec' = [sec EXCEPT ![s].flg = "closed"] /\ job' = Job("erase", n)
        /\ Behind(s) /\ sec[s].id
    BY <1>3 DEF CloseSector, PlaceInv
  <2>2. s \in Secs /\ n \in Secs /\ (n = IF s + 1 < NumSecs THEN s + 1 ELSE 0)
    BY <1>a, NextSecFacts
  <2> HIDE DEF s, n
  <2>3. /\ \A t \in Secs : t # s => sec'[t] = sec[t]
        /\ sec'[s].flg = "closed" /\ sec'[s].id
    BY <1>a, <2>1, <2>2 DEF SectorTypes
  <2>4. FilledInOrder' BY <2>2, <2>3, FilledKept
  <2>5. ASSUME NEW t \in Secs, t < n PROVE sec'[t].id /\ sec'[t].flg # "open"
    <3>1. t = s \/ t < s BY <1>b, <2>2, <2>5
    <3> QED BY <2>1, <2>3, <3>1 DEF Behind
  <2> QED BY <2>1, <2>4, <2>5 DEF PlaceInv, Job, Behind
<1>4. CASE EraseSector
  <2> DEFINE s == job.sec
  <2>1. s \in Secs /\ sec' = [sec EXCEPT ![s] = BlankSec] /\ job' = Job("ident", s) /\ Behind(s)
    BY <1>4, <1>a DEF EraseSector, PlaceInv
  <2> HIDE DEF s
  <2>2. (\A t \in Secs : t # s => sec'[t] = sec[t]) /\ sec'[s] = BlankSec BY <1>a, <2>1
  <2>3. FilledInOrder' BY <2>1, <2>2, FilledKept DEF BlankSec
  <2>4. ASSUME NEW t \in Secs, t < s PROVE sec'[t].id /\ sec'[t].flg # "open"
    <3>1. t # s BY <1>b, <2>1, <2>4
    <3> QED BY <2>1, <2>2, <2>4, <3>1 DEF Behind
  <2> QED BY <2>1, <2>2, <2>3, <2>4 DEF PlaceInv, Job, Behind
<1>5. CASE WriteId
  <2> DEFINE s == job.sec
  <2>1. /\ s \in Secs /\ sec' = [sec EXCEPT ![s].id = TRUE] /\ memo' = [sec |-> s, cnt |-> 0]
        /\ job' = Idle /\ Behind(s) /\ sec[s] = BlankSec
    BY <1>5, <1>a DEF WriteId, PlaceInv
  <2> HIDE DEF s
  <2>2. /\ \A t \in Secs : t # s => sec'[t] = sec[t]
        /\ sec'[s].id /\ sec'[s].flg = "open" /\ sec'[s].recs = NoRecs
    BY <1>a, <2>1 DEF BlankSec
  <2>3. OpenWith(sec'[s], 0) BY <2>2, BlankIsOpen
  <2>4. FilledInOrder' BY <2>1, <2>2, <2>3, FilledKept
  <2>5. ASSUME NEW t \in Secs, t < s PROVE sec'[t].id /\ sec'[t].flg # "open"
    <3>1. t # s BY <1>b, <2>1, <2>5
    <3> QED BY <2>1, <2>2, <2>5, <3>1 DEF Behind
  <2>6. 0 < SecRecs OBVIOUS
  <2> QED BY <2>1, <2>3, <2>4, <2>5, <2>6 DEF PlaceInv, Idle, Job, Behind
<1>6. CASE Measure
  BY <1>6, <1>1 DEF Measure, flashVars, Idle, Job
<1>7. CASE WriteRecord
  <2> DEFINE m == memo.sec
             c == memo.cnt
  <2>1. /\ m \in Secs /\ c \in 0 .. SecRecs /\ Behind(m) /\ OpenWith(sec[m], c)
        /\ serial < MaxSerial /\ job.step = "write"
    BY <1>7, <1>a DEF WriteRecord, PlaceInv
  <2>2. serial + 1 \in (Serials \cup {Torn}) \ {0} BY <1>a, <2>1 DEF Serials
  <2>3. /\ \A t \in Secs : t # m => sec'[t] = sec[t]
        /\ \A t \in Secs : sec'[t].id = sec[t].id /\ sec'[t].flg = sec[t].flg
        /\ OpenWith(sec'[m], c + 1)
    BY <1>7, <2>1, <2>2, PutFacts DEF WriteRecord
  <2>4. IF c >= SecRecs - 1 THEN job' = Job("close", m) /\ UNCHANGED memo
        ELSE job' = Idle /\ memo' = [memo EXCEPT !.cnt = c + 1]
    BY <1>7 DEF WriteRecord
  <2>5. memo'.sec = m /\ (~(c >= SecRecs - 1) => memo'.cnt = c + 1)
    BY <2>4, <1>a DEF TypeOK, Places
  <2>6. sec[m].id BY <2>1 DEF OpenWith
  <2> HIDE DEF m, c
  <2>7. c + 1 \in 0 .. SecRecs \/ c >= SecRecs BY <2>1
  <2>8. c < SecRecs BY <1>7 DEF WriteRecord, PlaceInv, c
  <2>9. FilledInOrder'
    <3>1. c + 1 \in 0 .. SecRecs BY <2>1, <2>8
    <3> QED BY <2>1, <2>3, <3>1, FilledKept
  <2>10. \A t \in Secs : t < m => sec'[t].id /\ sec'[t].flg # "open" BY <2>1, <2>3 DEF Behind
  <2>11. CASE c >= SecRecs - 1
    BY <2>1, <2>3, <2>4, <2>6, <2>9, <2>10, <2>11 DEF PlaceInv, Job, Behind
  <2>12. CASE ~(c >= SecRecs - 1)
    <3>1. c + 1 < SecRecs BY <2>1, <2>12
    <3> QED BY <2>1, <2>3, <2>4, <2>5, <2>9, <2>10, <2>12, <3>1 DEF PlaceInv, Job, Idle, Behind
  <2> QED BY <2>11, <2>12
<1>8. CASE ClearMemo
  <2>1. FilledInOrder' BY <1>8 DEF ClearMemo, FilledInOrder
  <2> QED BY <1>8, <2>1 DEF ClearMemo, PlaceInv, Job
<1>9. CASE ClearSector
  <2>1. FilledInOrder'
    <3>1. CASE sec' = sec BY <3>1 DEF FilledInOrder
    <3>2. CASE sec' = [sec EXCEPT ![job.sec] = BlankSec]
      <4>1. (\A t \in Secs : t # job.sec => sec'[t] = sec[t]) /\ sec'[job.sec] = BlankSec
        BY <1>a, <3>2
      <4> QED BY <1>a, <4>1, FilledKept DEF BlankSec
    <3> QED BY <1>9, <3>1, <3>2 DEF ClearSector
  <2>2. Behind(0)' BY <1>b DEF Behind
  <2>3. job' = Job("erase", 0) \/ job'.step = "clear" BY <1>9 DEF ClearSector, Job
  <2> QED BY <2>1, <2>2, <2>3 DEF PlaceInv, Job
<1>10. ASSUME Connect \/ Cancel \/ Disconnect \/ (\E n \in Requests : Request(n))
              \/ NotifyEvent \/ SendBlock \/ NoBuffer \/ NotConnected
       PROVE  FilledInOrder' /\ PlaceInv'
  <2>1. job.step \in {"idle", "notify"} /\ UNCHANGED <<sec, memo, serial>>
    <3>1. CASE NotifyEvent \/ SendBlock \/ NoBuffer \/ NotConnected
      <4>1. CASE NotifyEvent BY <4>1 DEF NotifyEvent, flashVars, Idle, Job
      <4>2. CASE SendBlock BY <4>2 DEF SendBlock, flashVars
      <4>3. CASE NoBuffer BY <4>3 DEF NoBuffer, flashVars
      <4>4. CASE NotConnected BY <4>4 DEF NotConnected, flashVars
      <4> QED BY <3>1, <4>1, <4>2, <4>3, <4>4
    <3>2. CASE Connect \/ Cancel \/ Disconnect
      BY <3>2 DEF Connect, Cancel, Disconnect, flashVars, Idle, Job
    <3>3. CASE \E n \in Requests : Request(n)
      BY <3>3 DEF Request, flashVars, Idle, Job
    <3> QED BY <1>10, <3>1, <3>2, <3>3
  <2>2. job' = Idle \/ job' = Job("notify", 0) \/ UNCHANGED job
    BY <1>10 DEF Connect, Cancel, Disconnect, Request, NotifyEvent, SendBlock, NoBuffer, NotConnected
  <2> QED BY <1>1, <2>1, <2>2
<1>11. CASE PowerLoss
  <2>1. job' = Job("boot", 0) BY <1>11 DEF PowerLoss
  <2>2. PlaceInv' BY <2>1 DEF PlaceInv, Job
  <2>3. FilledInOrder'
    <3>1. CASE sec' = sec BY <3>1 DEF FilledInOrder
    <3>2. CASE job.step = "write" /\ sec' = Put(Torn)
      <4>1. Torn \in (Serials \cup {Torn}) \ {0} BY DEF Torn
      <4>2. (\A t \in Secs : t # memo.sec => sec'[t] = sec[t]) /\ OpenWith(sec'[memo.sec], memo.cnt + 1)
        BY <3>2, <4>1, PutFacts
      <4>3. memo.cnt + 1 \in 0 .. SecRecs BY <1>a, <3>2 DEF PlaceInv
      <4> QED BY <1>a, <4>2, <4>3, FilledKept
    <3>3. CASE sec' = [sec EXCEPT ![job.sec].flg = "torn"] \/ sec' = [sec EXCEPT ![job.sec].id = FALSE]
      <4>1. /\ \A t \in Secs : t # job.sec => sec'[t] = sec[t]
            /\ sec'[job.sec].flg = "torn" \/ sec'[job.sec].id = FALSE
        BY <1>a, <3>3 DEF SectorTypes
      <4> QED BY <1>a, <4>1, FilledKept
    <3> QED BY <1>11, <3>1, <3>2, <3>3 DEF PowerLoss
  <2> QED BY <2>2, <2>3
<1>12. CASE UNCHANGED vars
  <2>1. UNCHANGED <<sec, memo, serial, job>> BY <1>12 DEF vars, flashVars
  <2> QED BY <2>1 DEF FilledInOrder, PlaceInv, Behind
<1> QED
  BY <1>2, <1>3, <1>4, <1>5, <1>6, <1>7, <1>8, <1>9, <1>10, <1>11, <1>12 DEF Next, Run
-----------------------------------------------------------------------------
LEMMA LogInvariant == Spec => []LogInv
<1>1. LogInv /\ [Next]_vars => LogInv'
  <2> SUFFICES ASSUME LogInv, [Next]_vars PROVE LogInv' OBVIOUS
  <2> QED BY NextLogType, NextPlace DEF LogInv
<1> QED BY InitLog, <1>1, PTL DEF Spec

\* Log, readout and reader keep the shape of their state.
THEOREM LogTyped == Spec => []TypeOK
<1>1. LogInv => TypeOK BY DEF LogInv
<1> QED BY <1>1, LogInvariant, PTL

\* Between two events memo_init() would find the very place the log is at,
\* whatever power failures, clears and turns of the ring came before.
THEOREM RestartIsSafe == Spec => []RestartFindsPlace
<1>1. ASSUME LogInv, job = Idle
      PROVE  Wanted # {} /\ sec[First].id /\ memo = [sec |-> First, cnt |-> Used(First)]
  <2>1. memo \in Places /\ memo.sec \in Secs /\ memo.cnt \in 0 .. SecRecs
    BY <1>1 DEF LogInv, TypeOK, Places
  <2>2. OpenWith(sec[memo.sec], memo.cnt) /\ Behind(memo.sec)
    BY <1>1 DEF LogInv, PlaceInv, Idle, Job
  <2>3. memo.sec \in Wanted BY <2>1, <2>2 DEF Wanted, OpenWith
  <2>4. First \in Wanted /\ First \in Secs /\ Behind(First) BY <2>3, FirstFound
  <2>5. First = memo.sec
    <3>1. ~(First < memo.sec) BY <2>2, <2>4 DEF Behind, Wanted
    <3>2. ~(memo.sec < First) BY <2>1, <2>3, <2>4 DEF Behind, Wanted
    <3> QED BY <2>1, <2>4, <3>1, <3>2 DEF Secs
  <2>6. Used(memo.sec) = memo.cnt BY <2>1, <2>2, UsedFound
  <2> QED BY <2>1, <2>2, <2>3, <2>5, <2>6 DEF OpenWith, Places
<1>2. LogInv => RestartFindsPlace BY <1>1 DEF RestartFindsPlace
<1> QED BY <1>2, LogInvariant, PTL

\* A record is only ever programmed over erased flash, behind the records of
\* an open sector.
THEOREM RecordsOnErased == Spec => []RecordOnErased
<1>1. ASSUME LogInv, job.step = "write"
      PROVE  LET s == sec[memo.sec] IN
             s.id /\ s.flg = "open" /\ \A i \in Slots : i >= Slot <=> s.recs[i] = 0
  <2>1. OpenWith(sec[memo.sec], memo.cnt) /\ memo.cnt \in Int
    BY <1>1 DEF LogInv, PlaceInv, TypeOK, Places
  <2>2. \A i \in Slots : i \in Int BY DEF Slots
  <2> QED BY <2>1, <2>2 DEF OpenWith, Slot
<1>2. LogInv => RecordOnErased BY <1>1 DEF RecordOnErased
<1> QED BY <1>2, LogInvariant, PTL
-----------------------------------------------------------------------------
(* What the readout relies on, as long as no power failure has hit the log. *)

\* Sectors back from sector m to s.
Hops(m, s) == IF s <= m THEN m - s ELSE m + NumSecs - s

\* With the next record to go behind c of them in sector m, the closed sectors
\* hold the records before those, each at its distance ...
Behindhand(m, c) ==
  \A s \in Secs : s # m /\ Closed(s) =>
    \A i \in Slots : sec[s].recs[i] = serial - c - (Hops(m, s) * SecRecs) + i

\* ... and they follow each other: behind one without an id there is none.
Linked(m) ==
  \A s \in Secs : s # m /\ sec[s].id =>
    /\ Closed(s)
    /\ \A t \in Secs : t # m /\ Hops(m, t) < Hops(m, s) => Closed(t)

Ring(m, c) == Behindhand(m, c) /\ Linked(m)
OwnRecords(m, c) == \A i \in Slots : i <= c => sec[m].recs[i] = serial - c + i

\* Where the log is (or is going) in the ring, and what is in it.
RingInv ==
  /\ job.step \in {"idle", "write", "notify"} =>
       Ring(memo.sec, memo.cnt) /\ OwnRecords(memo.sec, memo.cnt)
  /\ job.step = "close" =>
       Ring(job.sec, SecRecs) /\ OwnRecords(job.sec, SecRecs) /\ sec[job.sec].flg = "open"
  /\ job.step \in {"erase", "ident"} => Ring(job.sec, 0)
  /\ job.step = "clear" => \A s \in Secs : 0 < s /\ s < job.sec => ~sec[s].id
  /\ job.step = "boot" => \A s \in Secs : ~sec[s].id

\* How far the log has moved on from the place a readout has begun at, at most
\* into the next sector.
SameSector(s, c) ==
  /\ job.step \in {"idle", "write", "notify"}
  /\ memo.sec = s /\ memo.cnt >= c /\ serial = view + memo.cnt - c
FullSector(s, c) == job.step = "close" /\ job.sec = s /\ serial = view + SecRecs - c
NextSector(s, c) ==
  /\ Closed(s)
  /\ \/ /\ job.step \in {"erase", "ident"} /\ job.sec = NextSec(s)
        /\ serial = view + SecRecs - c
     \/ /\ job.step \in {"idle", "write", "notify"} /\ memo.sec = NextSec(s)
        /\ serial = view + SecRecs - c + memo.cnt /\ memo.cnt <= c

\* The records a place with c of them in its sector can be behind.
Reach(c) == c + ((NumSecs - 1) * SecRecs)

\* A running readout: the log has not caught up with it from behind.
Reading ==
  /\ client.on /\ ~client.end /\ client.want = rd.cnt
  /\ rd.saved.cnt < SecRecs
  /\ \/ SameSector(rd.saved.sec, rd.saved.cnt)
     \/ FullSector(rd.saved.sec, rd.saved.cnt)
     \/ NextSector(rd.saved.sec, rd.saved.cnt)
  /\ job.step = "write" => serial < view + SecRecs
  /\ Len(client.recs) = rd.cur /\ rd.cur <= Reach(rd.saved.cnt)
  /\ job.step # "notify" \/ Closed(rd.saved.sec) => rd.cur < Reach(rd.saved.cnt)

ReadInv ==
  /\ view <= serial
  /\ client.end => rd.cnt = 0
  /\ job.step = "notify" => rd.cnt # 0
  /\ view # 0 /\ rd.cnt # 0 => Reading

UnbrokenInv == Unbroken => RingInv /\ ReadInv /\ NewestFirst /\ NothingLeftOut

LEMMA HopsFacts ==
  ASSUME NEW m \in Secs, NEW s \in Secs
  PROVE  /\ Hops(m, s) \in 0 .. NumSecs - 1
         /\ Hops(m, s) = 0 <=> s = m
         /\ Hops(NextSec(m), m) = 1
         /\ s # NextSec(m) => Hops(NextSec(m), s) = Hops(m, s) + 1
         /\ NextSec(m) # m /\ Hops(m, NextSec(m)) = NumSecs - 1
         /\ \A t \in Secs : Hops(m, t) = Hops(m, s) => t = s
<1> USE LoggerAssumption
<1>1. /\ NextSec(m) \in Secs /\ NextSec(m) = IF m + 1 < NumSecs THEN m + 1 ELSE 0
  BY NextSecFacts
<1>2. \A t \in Secs : t \in Int /\ 0 <= t /\ t < NumSecs BY DEF Secs
<1>3. m \in Int /\ s \in Int /\ 0 <= m /\ m < NumSecs /\ 0 <= s /\ s < NumSecs BY <1>2
<1>4. NumSecs \in Int /\ NumSecs >= 2 OBVIOUS
<1>5. \A t \in Secs : Hops(m, t) = Hops(m, s) => t = s BY <1>2, <1>3, <1>4 DEF Hops
<1> HIDE LoggerAssumption
<1>6. Hops(NextSec(m), m) = 1 BY <1>1, <1>3, <1>4 DEF Hops
<1>7. s # NextSec(m) => Hops(NextSec(m), s) = Hops(m, s) + 1 BY <1>1, <1>3, <1>4 DEF Hops
<1>8. NextSec(m) # m /\ Hops(m, NextSec(m)) = NumSecs - 1 BY <1>1, <1>3, <1>4 DEF Hops
<1>9. Hops(m, s) \in 0 .. NumSecs - 1 /\ (Hops(m, s) = 0 <=> s = m) BY <1>3, <1>4 DEF Hops
<1> QED BY <1>5, <1>6, <1>7, <1>8, <1>9

\* The ring as seen from m does not depend on sector m; a record more there
\* is a record more behind the others.
LEMMA RingKept ==
  ASSUME NEW m \in Secs, NEW c, NEW d, Ring(m, c),
         \A t \in Secs : t # m => sec'[t] = sec[t], serial' - d = serial - c
  PROVE  Ring(m, d)'
<1>1. \A t \in Secs : t # m => (Closed(t)' <=> Closed(t)) /\ (sec'[t].id <=> sec[t].id)
  BY DEF Closed
<1>2. \A t \in Secs : t # m => sec'[t].recs = sec[t].recs OBVIOUS
<1>3. Behindhand(m, d)'
  <2>1. ASSUME NEW s \in Secs, s # m, Closed(s)', NEW i \in Slots
        PROVE  sec'[s].recs[i] = serial' - d - (Hops(m, s) * SecRecs) + i
    BY <1>1, <1>2, <2>1 DEF Ring, Behindhand
  <2> QED BY <2>1 DEF Behindhand, Hops
<1>4. Linked(m)' BY <1>1 DEF Ring, Linked, Hops
<1> QED BY <1>3, <1>4 DEF Ring

\* Closing a full sector, the log turns to the next.
LEMMA RingTurns ==
  ASSUME NEW m \in Secs, TypeOK, Ring(m, SecRecs), OwnRecords(m, SecRecs), sec[m].id,
         \A t \in Secs : t # m => sec'[t] = sec[t], sec'[m] = [sec[m] EXCEPT !.flg = "closed"],
         UNCHANGED serial
  PROVE  Ring(NextSec(m), 0)' /\ Closed(m)'
<1> USE LoggerAssumption
<1> DEFINE n == NextSec(m)
<1>1. n \in Secs /\ n # m BY NextSecFacts, HopsFacts
<1>2. \A t \in Secs : t # m => (Closed(t)' <=> Closed(t)) /\ sec'[t] = sec[t]
  BY DEF Closed
<1>3. Closed(m)' /\ sec'[m].recs = sec[m].recs
  <2>1. sec[m] \in SectorTypes BY DEF TypeOK
  <2> QED BY <2>1 DEF Closed, SectorTypes
<1>4. \A t \in Secs : t # n => Hops(n, t) = Hops(m, t) + 1 BY HopsFacts
<1>5. Hops(m, m) = 0 /\ \A t \in Secs : Hops(m, t) \in Nat /\ (t # m => Hops(m, t) > 0)
  <2>1. \A t \in Secs : Hops(m, t) \in 0 .. NumSecs - 1 BY HopsFacts
  <2>2. \A t \in Secs : Hops(m, t) = 0 <=> t = m BY HopsFacts
  <2> QED BY <2>1, <2>2
<1> HIDE DEF n
<1>6. serial \in Int /\ SecRecs \in Int /\ \A i \in Slots : i \in Int /\ i <= SecRecs
  BY DEF TypeOK, Serials, Slots
<1>7. Behindhand(n, 0)'
  <2>1. ASSUME NEW s \in Secs, s # n, Closed(s)', NEW i \in Slots
        PROVE  sec'[s].recs[i] = serial - 0 - (Hops(n, s) * SecRecs) + i
    <3>1. CASE s = m
      <4>1. sec[m].recs[i] = serial - SecRecs + i BY <1>6 DEF OwnRecords
      <4>2. Hops(n, m) * SecRecs = SecRecs BY <1>1, <1>4, <1>5, <1>6
      <4>3. sec'[s].recs[i] = sec[m].recs[i] BY <1>3, <3>1
      <4>4. serial - 0 - (Hops(n, s) * SecRecs) + i = serial - SecRecs + i BY <1>6, <3>1, <4>2
      <4> QED BY <4>1, <4>3, <4>4
    <3>2. CASE s # m
      <4>1. sec[s].recs[i] = serial - SecRecs - (Hops(m, s) * SecRecs) + i
        BY <1>2, <2>1, <3>2 DEF Ring, Behindhand
      <4>2. Hops(n, s) * SecRecs = Hops(m, s) * SecRecs + SecRecs BY <1>4, <1>5, <1>6, <2>1
      <4>3. Hops(m, s) * SecRecs \in Int BY <1>5, <1>6
      <4> QED BY <1>2, <1>6, <3>2, <4>1, <4>2, <4>3
    <3> QED BY <3>1, <3>2
  <2>2. \A s \in Secs : Hops(n, s)' = Hops(n, s) BY DEF Hops
  <2> QED BY <2>1 DEF Behindhand, Hops
<1>8. Linked(n)'
  <2>1. ASSUME NEW s \in Secs, s # n, sec'[s].id PROVE Closed(s)'
    BY <1>2, <1>3, <2>1 DEF Ring, Linked
  <2>2. ASSUME NEW s \in Secs, s # n, sec'[s].id, NEW t \in Secs, t # n, Hops(n, t) < Hops(n, s)
        PROVE  Closed(t)'
    <3>1. CASE t = m BY <1>3, <3>1
    <3>2. CASE t # m
      <4>1. Hops(m, t) < Hops(m, s) BY <1>4, <1>5, <2>2
      <4>2. s # m BY <1>5, <3>2, <4>1
      <4> QED BY <1>2, <2>2, <3>2, <4>1, <4>2 DEF Ring, Linked
    <3> QED BY <3>1, <3>2
  <2> QED BY <2>1, <2>2 DEF Linked, Hops
<1> QED BY <1>3, <1>7, <1>8 DEF Ring, n

LEMMA NextRing ==
  ASSUME LogInv, [Next]_vars, Unbroken, Unbroken', RingInv
  PROVE  RingInv'
<1> USE LoggerAssumption
<1> USE DEF LogInv
<1>a. /\ sec \in [Secs -> SectorTypes] /\ memo.sec \in Secs /\ memo.cnt \in 0 .. SecRecs
      /\ memo \in Places /\ serial \in Nat /\ job.sec \in Secs
  BY DEF TypeOK, Places, Serials
<1>b. 0 \in Secs BY DEF Secs
<1>1. ASSUME UNCHANGED <<sec, memo, serial>>, job.step \in {"idle", "write", "notify"},
             job'.step \in {"idle", "write", "notify"}
      PROVE  RingInv'
  <2>1. Ring(memo.sec, memo.cnt)' /\ OwnRecords(memo.sec, memo.cnt)'
    BY <1>1 DEF RingInv, Ring, Behindhand, Linked, Closed, Hops, OwnRecords
  <2> QED BY <1>1, <2>1 DEF RingInv
<1>2. CASE Boot
  <2>1. sec' = sec /\ \A s \in Secs : ~sec[s].id BY <1>2 DEF Boot, RingInv
  <2>2. 0 \in Wanted BY <1>b, <2>1 DEF Wanted
  <2>3. First \in Secs BY <2>2, FirstFound
  <2>4. job' = Job("erase", First) BY <1>2, <2>1, <2>2, <2>3 DEF Boot
  <2>5. Ring(job.sec, 0)' BY <2>1 DEF Ring, Behindhand, Linked, Closed
  <2> QED BY <2>4, <2>5 DEF RingInv, Job
<1>3. CASE CloseSector
  <2>1. PICK s \in Secs : s = job.sec BY <1>a
  <2>2. sec' = [sec EXCEPT ![s].flg = "closed"] /\ serial' = serial /\ job' = Job("erase", NextSec(s))
    BY <1>3, <2>1 DEF CloseSector
  <2>3. Ring(s, SecRecs) /\ OwnRecords(s, SecRecs) /\ sec[s].id
    BY <1>3, <2>1 DEF CloseSector, RingInv, PlaceInv
  <2>4. (\A t \in Secs : t # s => sec'[t] = sec[t]) /\ sec'[s] = [sec[s] EXCEPT !.flg = "closed"]
    BY <1>a, <2>2
  <2>5. Ring(NextSec(s), 0)' BY <2>2, <2>3, <2>4, RingTurns
  <2>6. job'.sec = NextSec(s) /\ job'.step = "erase" BY <2>2 DEF Job
  <2>7. Ring(job.sec, 0)' BY <2>5, <2>6
  <2> QED BY <2>6, <2>7 DEF RingInv
<1>4. CASE EraseSector
  <2>1. PICK s \in Secs : s = job.sec BY <1>a
  <2>2. sec' = [sec EXCEPT ![s] = BlankSec] /\ serial' = serial /\ job' = Job("ident", s)
    BY <1>4, <2>1 DEF EraseSector
  <2>3. Ring(s, 0) BY <1>4, <2>1 DEF EraseSector, RingInv
  <2>4. \A t \in Secs : t # s => sec'[t] = sec[t] BY <1>a, <2>2
  <2>5. Ring(s, 0)' BY <2>2, <2>3, <2>4, RingKept
  <2>6. job'.sec = s /\ job'.step = "ident" BY <2>2 DEF Job
  <2>7. Ring(job.sec, 0)' BY <2>5, <2>6
  <2> QED BY <2>6, <2>7 DEF RingInv
<1>5. CASE WriteId
  <2>1. PICK s \in Secs : s = job.sec BY <1>a
  <2>2. /\ sec' = [sec EXCEPT ![s].id = TRUE] /\ serial' = serial /\ job' = Idle
        /\ memo' = [sec |-> s, cnt |-> 0]
    BY <1>5, <2>1 DEF WriteId
  <2>3. Ring(s, 0) BY <1>5, <2>1 DEF WriteId, RingInv
  <2>4. \A t \in Secs : t # s => sec'[t] = sec[t] BY <1>a, <2>2
  <2>5. Ring(s, 0)' BY <2>2, <2>3, <2>4, RingKept
  <2>6. job'.step = "idle" /\ memo'.sec = s /\ memo'.cnt = 0 BY <2>2 DEF Job, Idle
  <2>7. OwnRecords(s, 0)' BY DEF OwnRecords, Slots
  <2>8. Ring(memo.sec, memo.cnt)' /\ OwnRecords(memo.sec, memo.cnt)' BY <2>5, <2>6, <2>7
  <2> QED BY <2>6, <2>8 DEF RingInv
<1>6. CASE Measure
  <2>1. UNCHANGED <<sec, memo, serial>> /\ job.step = "idle" /\ job'.step \in {"idle", "write"}
    BY <1>6 DEF Measure, flashVars, Idle, Job
  <2> QED BY <1>1, <2>1
<1>7. CASE WriteRecord
  <2>1. PICK m \in Secs, c \in 0 .. SecRecs : m = memo.sec /\ c = memo.cnt BY <1>a
  <2>2. /\ job.step = "write" /\ c < SecRecs /\ OpenWith(sec[m], c) /\ serial < MaxSerial
        /\ Ring(m, c) /\ OwnRecords(m, c)
    BY <1>7, <2>1 DEF WriteRecord, PlaceInv, RingInv
  <2>3. sec' = [sec EXCEPT ![m].recs[c + 1] = serial + 1] /\ serial' = serial + 1
    <3>1. sec' = [sec EXCEPT ![m].recs[c + 1] = IF @ = 0 THEN serial + 1 ELSE Torn]
      BY <1>7, <2>1 DEF WriteRecord, Put, Slot
    <3>2. c + 1 \in Slots /\ c + 1 > c BY <2>2 DEF Slots
    <3>3. sec[m].recs[c + 1] = 0 BY <2>2, <3>2 DEF OpenWith
    <3> QED BY <1>7, <3>1, <3>3 DEF WriteRecord
  <2>4. /\ \A t \in Secs : t # m => sec'[t] = sec[t]
        /\ sec'[m] = [sec[m] EXCEPT !.recs[c + 1] = serial + 1]
    BY <1>a, <2>3
  <2>5. sec[m] \in SectorTypes BY <1>a
  <2>6. sec'[m].recs = [sec[m].recs EXCEPT ![c + 1] = serial + 1] /\ sec'[m].flg = sec[m].flg
    BY <2>4, <2>5 DEF SectorTypes
  <2>7. Ring(m, c + 1)'
    <3>1. serial' - (c + 1) = serial - c BY <1>a, <2>3
    <3> QED BY <2>2, <2>4, <3>1, RingKept
  <2>8. OwnRecords(m, c + 1)'
    <3>1. ASSUME NEW i \in Slots, i <= c + 1 PROVE sec'[m].recs[i] = serial' - (c + 1) + i
      <4>0. c + 1 \in Slots /\ i \in Int /\ c \in Int /\ serial' = serial + 1 BY <2>2, <2>3 DEF Slots
      <4>1. CASE i = c + 1
        <5>1. sec'[m].recs[i] = serial + 1 BY <2>5, <2>6, <4>0, <4>1 DEF SectorTypes
        <5> QED BY <1>a, <4>0, <4>1, <5>1
      <4>2. CASE i # c + 1
        <5>1. sec'[m].recs[i] = sec[m].recs[i] BY <2>5, <2>6, <4>2 DEF SectorTypes
        <5>2. sec[m].recs[i] = serial - c + i BY <2>2, <3>1, <4>0, <4>2 DEF OwnRecords
        <5> QED BY <1>a, <4>0, <5>1, <5>2
      <4> QED BY <4>1, <4>2
    <3> QED BY <3>1, Zenon DEF OwnRecords
  <2>9. CASE c >= SecRecs - 1
    <3>1. c + 1 = SecRecs BY <2>2, <2>9
    <3>2. job' = Job("close", m) BY <1>7, <2>1, <2>9 DEF WriteRecord
    <3>3. job'.step = "close" /\ job'.sec = m BY <3>2 DEF Job
    <3>4. Ring(m, SecRecs)' /\ OwnRecords(m, SecRecs)' BY <2>7, <2>8, <3>1
    <3>5. Ring(job.sec, SecRecs)' /\ OwnRecords(job.sec, SecRecs)' BY <3>3, <3>4
    <3> QED BY <2>2, <2>6, <3>3, <3>5 DEF RingInv, OpenWith
  <2>10. CASE ~(c >= SecRecs - 1)
    <3>1. job' = Idle /\ memo' = [memo EXCEPT !.cnt = c + 1] BY <1>7, <2>1, <2>10 DEF WriteRecord
    <3>2. job'.step = "idle" /\ memo'.sec = m /\ memo'.cnt = c + 1
      BY <1>a, <2>1, <3>1 DEF Idle, Job, Places
    <3>3. Ring(memo.sec, memo.cnt)' /\ OwnRecords(memo.sec, memo.cnt)' BY <2>7, <2>8, <3>2
    <3> QED BY <3>2, <3>3 DEF RingInv
  <2> QED BY <2>9, <2>10
<1>8. CASE ClearMemo
  <2>1. job'.step = "clear" /\ job'.sec = 1 BY <1>8 DEF ClearMemo, Job
  <2>2. \A s \in Secs : ~(0 < s /\ s < 1) BY DEF Secs
  <2> QED BY <2>1, <2>2 DEF RingInv
<1>9. CASE ClearSector
  <2>1. PICK s \in Secs : s = job.sec BY <1>a
  <2>2. \A t \in Secs : 0 < t /\ t < s => ~sec[t].id BY <1>9, <2>1 DEF ClearSector, RingInv
  <2>3. ~sec'[s].id /\ \A t \in Secs : t # s => sec'[t] = sec[t]
    <3>1. CASE sec[s].id
      <4>1. sec' = [sec EXCEPT ![s] = BlankSec] BY <1>9, <2>1, <3>1 DEF ClearSector
      <4> QED BY <1>a, <4>1 DEF BlankSec
    <3>2. CASE ~sec[s].id
      <4>1. sec' = sec BY <1>9, <2>1, <3>2 DEF ClearSector
      <4> QED BY <3>2, <4>1
    <3> QED BY <3>1, <3>2
  <2>4. \A t \in Secs : 0 < t /\ t < s + 1 => ~sec'[t].id
    <3>1. \A t \in Secs : t < s + 1 => t < s \/ t = s BY DEF Secs
    <3> QED BY <2>2, <2>3, <3>1
  <2>5. CASE s + 1 \in Secs
    <3>1. job' = Job("clear", s + 1) BY <1>9, <2>1, <2>5 DEF ClearSector
    <3>2. job'.step = "clear" /\ job'.sec = s + 1 BY <3>1 DEF Job
    <3> QED BY <2>4, <3>2 DEF RingInv
  <2>6. CASE s + 1 \notin Secs
    <3>1. job' = Job("erase", 0) BY <1>9, <2>1, <2>6 DEF ClearSector
    <3>2. job'.step = "erase" /\ job'.sec = 0 BY <3>1 DEF Job
    <3>3. \A t \in Secs : t # 0 => 0 < t /\ t < s + 1 BY <2>6 DEF Secs
    <3>4. \A t \in Secs : t # 0 => ~sec'[t].id BY <2>4, <3>3
    <3>5. Ring(0, 0)' BY <3>4 DEF Ring, Behindhand, Linked, Closed
    <3>6. Ring(job.sec, 0)' BY <3>2, <3>5
    <3> QED BY <3>2, <3>6 DEF RingInv
  <2> QED BY <2>5, <2>6
<1>10. CASE Connect \/ Cancel \/ Disconnect \/ \E n \in Requests : Request(n)
  <2>1. CASE Connect \/ Cancel \/ Disconnect
    <3>1. UNCHANGED <<sec, memo, serial>> /\ job.step = "idle" /\ job' = job
      BY <2>1 DEF Connect, Cancel, Disconnect, flashVars, Idle, Job
    <3> QED BY <1>1, <3>1
  <2>2. CASE \E n \in Requests : Request(n)
    <3>1. UNCHANGED <<sec, memo, serial>> /\ job.step = "idle" /\ job'.step = "notify"
      BY <2>2 DEF Request, flashVars, Idle, Job
    <3> QED BY <1>1, <3>1
  <2> QED BY <1>10, <2>1, <2>2
<1>11. CASE NotifyEvent \/ SendBlock \/ NoBuffer \/ NotConnected
  <2>1. UNCHANGED <<sec, memo, serial>> /\ job.step \in {"idle", "notify"}
    <3>1. CASE NotifyEvent BY <3>1 DEF NotifyEvent, flashVars, Idle, Job
    <3>2. CASE SendBlock BY <3>2 DEF SendBlock, flashVars
    <3>3. CASE NoBuffer BY <3>3 DEF NoBuffer, flashVars
    <3>4. CASE NotConnected BY <3>4 DEF NotConnected, flashVars
    <3> QED BY <1>11, <3>1, <3>2, <3>3, <3>4
  <2>2. job'.step \in {"idle", "notify"}
    <3>1. CASE NotifyEvent BY <3>1 DEF NotifyEvent, Idle, Job
    <3>2. CASE SendBlock
      <4>1. job' = Idle \/ job' = job BY <3>2 DEF SendBlock
      <4> QED BY <2>1, <4>1 DEF Idle, Job
    <3>3. CASE NoBuffer BY <3>3 DEF NoBuffer, Idle, Job
    <3>4. CASE NotConnected BY <3>4 DEF NotConnected, Idle, Job
    <3> QED BY <1>11, <3>1, <3>2, <3>3, <3>4
  <2> QED BY <1>1, <2>1, <2>2
<1>12. CASE PowerLoss
  <2>1. left' = [left EXCEPT !.crashes = left.crashes - 1] /\ left.crashes > 0 BY <1>12 DEF PowerLoss
  <2>2. left \in Lefts BY DEF TypeOK, Lefts
  <2>3. left'.crashes = left.crashes - 1 /\ left.crashes \in Nat BY <2>1, <2>2 DEF Lefts
  <2> QED BY <2>3 DEF Unbroken
<1>13. CASE UNCHANGED vars
  <2>1. UNCHANGED <<sec, memo, serial, job>> BY <1>13 DEF vars, flashVars
  <2> QED BY <2>1 DEF RingInv, Ring, Behindhand, Linked, Closed, Hops, OwnRecords
<1> QED
  BY <1>2, <1>3, <1>4, <1>5, <1>6, <1>7, <1>8, <1>9, <1>10, <1>11, <1>12, <1>13 DEF Next, Run
-----------------------------------------------------------------------------
(* Where get_memo() finds a record.                                        *)

LEMMA Division ==
  ASSUME NEW k \in Nat \ {0}, NEW a \in Nat
  PROVE  a = (a \div k) * k + (a % k) /\ a % k \in 0 .. k - 1 /\ a \div k \in Nat
OBVIOUS

LEMMA MultiplesGrow ==
  ASSUME NEW k \in Nat, NEW p \in Int, NEW q \in Int, p <= q
  PROVE  p * k <= q * k
OBVIOUS

\* Going back h sectors from one.
LEMMA SectorBack ==
  ASSUME NEW m \in Secs, NEW h \in 1 .. NumSecs
  PROVE  LET s == (m + NumSecs - (h % NumSecs)) % NumSecs
         IN  s \in Secs /\ (h < NumSecs => Hops(m, s) = h) /\ (h = NumSecs => s = m)
<1> USE LoggerAssumption DEF Secs
<1> DEFINE s == (m + NumSecs - (h % NumSecs)) % NumSecs
<1>1. CASE h = NumSecs
  <2>1. h % NumSecs = 0 BY <1>1
  <2>2. (m + NumSecs) % NumSecs = m OBVIOUS
  <2>3. s = m BY <2>1, <2>2
  <2> QED BY <1>1, <2>3
<1>2. CASE h < NumSecs
  <2>1. h % NumSecs = h BY <1>2
  <2>2. s = (m + NumSecs - h) % NumSecs BY <2>1
  <2>3. CASE h <= m
    <3>1. m + NumSecs - h = NumSecs + (m - h) /\ m - h \in 0 .. NumSecs - 1 BY <2>3
    <3>2. (m + NumSecs - h) % NumSecs = m - h BY <3>1
    <3>3. s = m - h BY <2>2, <3>2
    <3> QED BY <1>2, <2>3, <3>3 DEF Hops
  <2>4. CASE h > m
    <3>1. m + NumSecs - h \in 0 .. NumSecs - 1 BY <1>2, <2>4
    <3>2. (m + NumSecs - h) % NumSecs = m + NumSecs - h BY <3>1
    <3>3. s = m + NumSecs - h BY <2>2, <3>2
    <3> QED BY <1>2, <2>4, <3>3 DEF Hops
  <2> QED BY <2>3, <2>4
<1> QED BY <1>1, <1>2

LEMMA BlockBack ==
  ASSUME TypeOK, NEW n \in Nat, n > rd.saved.cnt, n <= Reach(rd.saved.cnt) + 1
  PROVE  \E h \in 1 .. NumSecs, s \in Secs :
           LET back == n - rd.saved.cnt
               slot == h * SecRecs - back + 1
           IN  /\ (h - 1) * SecRecs < back /\ back <= h * SecRecs
               /\ h < NumSecs => Hops(rd.saved.sec, s) = h
               /\ h = NumSecs => s = rd.saved.sec
               /\ slot \in Slots
               /\ GetMemo(n) = IF Closed(s) THEN <<sec[s].recs[slot]>> ELSE <<>>
<1> USE LoggerAssumption
<1> DEFINE c == rd.saved.cnt
           m == rd.saved.sec
           b == n - c - 1
           q == b \div SecRecs
           p == b % SecRecs
           h == 1 + q
           s == (m + NumSecs - (h % NumSecs)) % NumSecs
<1>1. c \in 0 .. SecRecs /\ m \in Secs BY DEF TypeOK, Places
<1>2. b \in Nat /\ b <= (NumSecs - 1) * SecRecs /\ n - c = b + 1 BY <1>1 DEF Reach
<1>3. GetMemo(n) = IF Closed(s) THEN <<sec[s].recs[SecRecs - p]>> ELSE <<>>
  BY <1>1 DEF GetMemo, Closed
<1> HIDE DEF b
<1>4. b = q * SecRecs + p /\ p \in 0 .. SecRecs - 1 /\ q \in Nat BY <1>2, Division
<1> HIDE DEF q, p
<1>5. h * SecRecs = q * SecRecs + SecRecs /\ q * SecRecs \in Nat BY <1>4
<1>6. h \in 1 .. NumSecs
  <2>1. ASSUME q >= NumSecs PROVE FALSE
    <3>1. NumSecs * SecRecs <= q * SecRecs BY <1>4, <2>1, MultiplesGrow
    <3>2. NumSecs * SecRecs = (NumSecs - 1) * SecRecs + SecRecs OBVIOUS
    <3> QED BY <1>2, <1>4, <1>5, <3>1, <3>2
  <2> QED BY <1>4, <2>1
<1>7. (h - 1) * SecRecs < n - c /\ n - c <= h * SecRecs
  <2>1. (h - 1) * SecRecs = q * SecRecs BY <1>4
  <2> QED BY <1>2, <1>4, <1>5, <2>1
<1>8. h * SecRecs - (n - c) + 1 = SecRecs - p BY <1>2, <1>4, <1>5
<1>9. SecRecs - p \in Slots BY <1>4 DEF Slots
<1> HIDE DEF h
<1>10. s \in Secs /\ (h < NumSecs => Hops(m, s) = h) /\ (h = NumSecs => s = m)
  BY <1>1, <1>6, SectorBack
<1> HIDE DEF s
<1> QED BY <1>3, <1>6, <1>7, <1>8, <1>9, <1>10
-----------------------------------------------------------------------------
(* A running readout, seen from the sector the log is in: it has moved on by d *)
(* sectors, none or one, since the request.                                *)

Since(d, m, k) ==
  /\ d \in {0, 1} /\ m \in Secs /\ k \in 0 .. SecRecs
  /\ Linked(m) /\ OpenWith(sec[m], k)
  /\ serial = view - rd.saved.cnt + (d * SecRecs) + k
  /\ d = 0 => m = rd.saved.sec /\ k >= rd.saved.cnt
  /\ d = 1 => m = NextSec(rd.saved.sec) /\ k <= rd.saved.cnt /\ Closed(rd.saved.sec)
  /\ \A i \in Slots : i <= k => sec[m].recs[i] = view - rd.saved.cnt + (d * SecRecs) + i
  /\ \A t \in Secs, i \in Slots : t # m /\ Closed(t) =>
       sec[t].recs[i] = view - rd.saved.cnt - ((Hops(m, t) - d) * SecRecs) + i

LEMMA SinceRequest ==
  ASSUME LogInv, RingInv, ReadInv, view # 0, rd.cnt # 0, job.step = "notify"
  PROVE  \E d \in {0, 1} : Since(d, memo.sec, memo.cnt)
<1> USE LoggerAssumption
<1> DEFINE m == memo.sec
           k == memo.cnt
           c == rd.saved.cnt
<1>1. /\ m \in Secs /\ k \in 0 .. SecRecs /\ c \in 0 .. SecRecs /\ rd.saved.sec \in Secs
      /\ serial \in Int /\ view \in Int
  BY DEF LogInv, TypeOK, Places, Serials
<1>2. Behindhand(m, k) /\ OwnRecords(m, k) /\ Linked(m) /\ OpenWith(sec[m], k)
  BY DEF RingInv, Ring, LogInv, PlaceInv
<1>3. SameSector(rd.saved.sec, c) \/ NextSector(rd.saved.sec, c)
  BY DEF ReadInv, Reading, FullSector
<1>4. \A i \in Slots : i \in Int BY DEF Slots
<1>5. \A t \in Secs : Hops(m, t) \in Int
  <2>1. \A t \in Secs : Hops(m, t) \in 0 .. NumSecs - 1 BY <1>1, HopsFacts
  <2> QED BY <2>1
<1>6. CASE SameSector(rd.saved.sec, c)
  <2>1. m = rd.saved.sec /\ k >= c /\ serial = view + k - c BY <1>6 DEF SameSector
  <2> HIDE DEF m, k, c
  <2>2. \A i \in Slots : i <= k => sec[m].recs[i] = view - c + (0 * SecRecs) + i
    <3>1. ASSUME NEW i \in Slots, i <= k PROVE sec[m].recs[i] = view - c + (0 * SecRecs) + i
      <4>1. sec[m].recs[i] = serial - k + i BY <1>2, <3>1 DEF OwnRecords
      <4> QED BY <1>1, <1>4, <2>1, <4>1
    <3> QED BY <3>1
  <2>3. ASSUME NEW t \in Secs, NEW i \in Slots, t # m, Closed(t)
        PROVE  sec[t].recs[i] = view - c - ((Hops(m, t) - 0) * SecRecs) + i
    <3>1. sec[t].recs[i] = serial - k - (Hops(m, t) * SecRecs) + i BY <1>2, <2>3 DEF Behindhand
    <3>2. Hops(m, t) - 0 = Hops(m, t) /\ Hops(m, t) * SecRecs \in Int BY <1>5
    <3> QED BY <1>1, <1>4, <2>1, <3>1, <3>2
  <2>4. serial = view - c + (0 * SecRecs) + k BY <1>1, <2>1
  <2>5. Since(0, m, k) BY <1>1, <1>2, <2>1, <2>2, <2>3, <2>4 DEF Since, c
  <2> QED BY <2>5 DEF m, k
<1>7. CASE NextSector(rd.saved.sec, c)
  <2>1. /\ m = NextSec(rd.saved.sec) /\ k <= c /\ serial = view + SecRecs - c + k
        /\ Closed(rd.saved.sec)
    BY <1>7 DEF NextSector
  <2> HIDE DEF m, k, c
  <2>2. \A i \in Slots : i <= k => sec[m].recs[i] = view - c + (1 * SecRecs) + i
    <3>1. ASSUME NEW i \in Slots, i <= k PROVE sec[m].recs[i] = view - c + (1 * SecRecs) + i
      <4>1. sec[m].recs[i] = serial - k + i BY <1>2, <3>1 DEF OwnRecords
      <4> QED BY <1>1, <1>4, <2>1, <4>1
    <3> QED BY <3>1
  <2>3. ASSUME NEW t \in Secs, NEW i \in Slots, t # m, Closed(t)
        PROVE  sec[t].recs[i] = view - c - ((Hops(m, t) - 1) * SecRecs) + i
    <3>1. sec[t].recs[i] = serial - k - (Hops(m, t) * SecRecs) + i BY <1>2, <2>3 DEF Behindhand
    <3>2. (Hops(m, t) - 1) * SecRecs = Hops(m, t) * SecRecs - SecRecs BY <1>5
    <3>3. Hops(m, t) * SecRecs \in Int BY <1>5
    <3> QED BY <1>1, <1>4, <2>1, <3>1, <3>2, <3>3
  <2>4. serial = view - c + (1 * SecRecs) + k BY <1>1, <2>1
  <2>5. Since(1, m, k) BY <1>1, <1>2, <2>1, <2>2, <2>3, <2>4 DEF Since, c
  <2> QED BY <2>5 DEF m, k
<1> QED BY <1>3, <1>6, <1>7

\* What a block of the readout holds: the record due, or the end; the end only
\* where the ring has no record further back, and no block leaves the ring.
LEMMA BlockRead ==
  ASSUME TypeOK, rd.saved.cnt < SecRecs, NEW d \in {0, 1}, NEW m, NEW k, Since(d, m, k),
         NEW n \in Nat \ {0}, n <= Reach(rd.saved.cnt) + 1,
         Closed(rd.saved.sec) => n <= Reach(rd.saved.cnt)
  PROVE  /\ GetMemo(n) = <<>> \/ GetMemo(n) = <<view + 1 - n>>
         /\ GetMemo(n) # <<>> => n <= Reach(rd.saved.cnt)
                                 /\ (Closed(rd.saved.sec) => n < Reach(rd.saved.cnt))
         /\ GetMemo(n) = <<>> => \A t \in Secs, i \in Slots :
              sec[t].id /\ sec[t].recs[i] # 0 /\ sec[t].recs[i] <= view =>
                sec[t].recs[i] > view + 1 - n
<1> USE LoggerAssumption
<1> DEFINE c == rd.saved.cnt
           o == rd.saved.sec
<1>1. c \in 0 .. SecRecs - 1 /\ o \in Secs /\ view \in Int BY DEF TypeOK, Places, Serials
<1>2. m \in Secs /\ k \in 0 .. SecRecs /\ ~Closed(m) /\ OpenWith(sec[m], k) /\ Linked(m)
  BY DEF Since, OpenWith, Closed
<1>3. /\ d = 0 => m = o /\ k >= c
      /\ d = 1 => m = NextSec(o) /\ k <= c /\ Closed(o)
      /\ \A i \in Slots : i <= k => sec[m].recs[i] = view - c + (d * SecRecs) + i
      /\ \A t \in Secs, i \in Slots : t # m /\ Closed(t) =>
           sec[t].recs[i] = view - c - ((Hops(m, t) - d) * SecRecs) + i
  BY DEF Since
<1>4. Reach(c) = c + ((NumSecs - 1) * SecRecs) /\ (NumSecs - 1) * SecRecs \in Nat
      /\ (NumSecs - 1) * SecRecs >= SecRecs
  <2>1. 1 * SecRecs <= (NumSecs - 1) * SecRecs BY MultiplesGrow
  <2> QED BY <2>1 DEF Reach
<1>5. \A t \in Secs : Hops(m, t) \in 0 .. NumSecs - 1 BY <1>2, HopsFacts
<1>6. \A i \in Slots : i \in Int /\ 1 <= i /\ i <= SecRecs BY DEF Slots
<1>7. ASSUME NEW h \in 1 .. NumSecs - 1, NEW s \in Secs, Hops(o, s) = h, d = 1 => s # m
      PROVE  s # m /\ Hops(m, s) = h + d
  <2>1. CASE d = 0
    <3>1. m = o BY <1>3, <2>1
    <3>2. Hops(o, s) = 0 <=> s = o BY <1>1, HopsFacts
    <3> QED BY <1>7, <2>1, <3>1, <3>2
  <2>2. CASE d = 1
    <3>1. m = NextSec(o) /\ s # m BY <1>3, <1>7, <2>2
    <3>2. Hops(NextSec(o), s) = Hops(o, s) + 1 BY <1>1, <3>1, HopsFacts
    <3> QED BY <1>7, <2>2, <3>1, <3>2
  <2> QED BY <2>1, <2>2
<1>8. CASE n <= c
  <2>1. GetMemo(n) = <<sec[o].recs[c - n + 1]>> BY <1>8 DEF GetMemo
  <2>2. c - n + 1 \in Slots BY <1>1, <1>8 DEF Slots
  <2>3. sec[o].recs[c - n + 1] = view + 1 - n
    <3>1. CASE d = 0
      <4>1. sec[m].recs[c - n + 1] = view - c + (d * SecRecs) + (c - n + 1)
        BY <1>1, <1>2, <1>3, <2>2, <3>1
      <4>2. d * SecRecs = 0 BY <3>1
      <4> QED BY <1>1, <1>3, <3>1, <4>1, <4>2
    <3>2. CASE d = 1
      <4>1. m = NextSec(o) /\ Closed(o) BY <1>3, <3>2
      <4>2. o # m /\ Hops(m, o) = 1 BY <1>1, <4>1, HopsFacts
      <4>3. sec[o].recs[c - n + 1] = view - c - ((Hops(m, o) - d) * SecRecs) + (c - n + 1)
        BY <1>1, <1>3, <2>2, <4>1, <4>2
      <4>4. (Hops(m, o) - d) * SecRecs = 0 BY <3>2, <4>2
      <4> QED BY <1>1, <4>3, <4>4
    <3> QED BY <3>1, <3>2
  <2>4. n < Reach(c) BY <1>1, <1>4, <1>8
  <2> QED BY <1>1, <1>4, <2>1, <2>3, <2>4
<1>9. CASE n > c
  <2>1. PICK h \in 1 .. NumSecs, s \in Secs :
          /\ (h - 1) * SecRecs < n - c /\ n - c <= h * SecRecs
          /\ h < NumSecs => Hops(o, s) = h
          /\ h = NumSecs => s = o
          /\ h * SecRecs - (n - c) + 1 \in Slots
          /\ GetMemo(n) = IF Closed(s) THEN <<sec[s].recs[h * SecRecs - (n - c) + 1]>> ELSE <<>>
    BY <1>9, BlockBack
  <2>2. h * SecRecs \in Int /\ (h - 1) * SecRecs \in Int OBVIOUS
  <2> DEFINE a == h * SecRecs
             e == (h - 1) * SecRecs
             w == (NumSecs - 1) * SecRecs
  <2>a. a \in Int /\ e \in Int /\ w \in Int /\ w >= SecRecs BY <1>4, <2>2
  <2>b. e < n - c /\ n - c <= a BY <2>1
  <2>c. Reach(c) = c + w BY <1>4
  <2>d. c \in Int /\ n \in Int /\ SecRecs \in Int /\ SecRecs > 0 BY <1>1
  <2> HIDE DEF a, e, w
  <2>3. CASE Closed(s)
    <3>1. h < NumSecs
      <4>1. ASSUME h = NumSecs PROVE FALSE
        <5>1. e = w BY <4>1 DEF e, w
        <5>2. n > Reach(c) BY <2>a, <2>b, <2>c, <2>d, <5>1
        <5>3. Closed(o) BY <2>1, <2>3, <4>1
        <5> QED BY <1>1, <1>4, <5>2, <5>3
      <4> QED BY <4>1
    <3>2. s # m /\ Hops(m, s) = h + d BY <1>2, <1>7, <2>1, <2>3, <3>1
    <3>3. sec[s].recs[h * SecRecs - (n - c) + 1] = view + 1 - n
      <4>1. sec[s].recs[h * SecRecs - (n - c) + 1]
              = view - c - ((Hops(m, s) - d) * SecRecs) + (h * SecRecs - (n - c) + 1)
        BY <1>3, <2>1, <2>3, <3>2
      <4>2. Hops(m, s) - d = h BY <3>2
      <4>3. (Hops(m, s) - d) * SecRecs = h * SecRecs BY <4>2
      <4> QED BY <1>1, <2>2, <4>1, <4>3
    <3>4. n <= Reach(c)
      <4>1. a <= w BY <3>1, MultiplesGrow DEF a, w
      <4> QED BY <2>a, <2>b, <2>c, <2>d, <4>1
    <3>5. ASSUME Closed(o) PROVE n < Reach(c)
      <4>1. d = 1 /\ m = NextSec(o) BY <1>2, <1>3, <3>5
      <4>2. Hops(o, m) = NumSecs - 1 BY <1>1, <4>1, HopsFacts
      <4>3. h # NumSecs - 1
        <5>1. Hops(o, m) = Hops(o, s) => m = s BY <1>1, <1>2, HopsFacts
        <5> QED BY <2>1, <3>1, <3>2, <4>2, <5>1
      <4>4. a <= (NumSecs - 2) * SecRecs BY <3>1, <4>3, MultiplesGrow DEF a
      <4>5. (NumSecs - 2) * SecRecs = w - SecRecs BY DEF w
      <4>6. a <= w - SecRecs BY <4>4, <4>5
      <4> QED BY <2>a, <2>b, <2>c, <2>d, <4>6
    <3>6. GetMemo(n) = <<view + 1 - n>> BY <2>1, <2>3, <3>3
    <3> QED BY <1>1, <3>4, <3>5, <3>6
  <2>4. CASE ~Closed(s)
    <3>1. ASSUME NEW t \in Secs, NEW i \in Slots, sec[t].id, sec[t].recs[i] # 0,
                 sec[t].recs[i] <= view, sec[t].recs[i] <= view + 1 - n
          PROVE  FALSE
      <4>1. CASE t = m
        <5>1. i <= k BY <1>2, <1>6, <3>1, <4>1 DEF OpenWith
        <5>2. sec[m].recs[i] = view - c + (d * SecRecs) + i BY <1>3, <5>1
        <5>3. d * SecRecs >= 0 /\ d * SecRecs \in Int
          <6>1. CASE d = 0 BY <6>1
          <6>2. CASE d = 1 BY <6>2
          <6> QED BY <6>1, <6>2
        <5> QED BY <1>1, <1>6, <1>9, <3>1, <4>1, <5>2, <5>3
      <4>2. CASE t # m
        <5> DEFINE g == Hops(m, t)
        <5>1. g \in 0 .. NumSecs - 1 /\ Closed(t) BY <1>2, <1>5, <3>1, <4>2 DEF Linked
        <5>2. sec[t].recs[i] = view - c - ((g - d) * SecRecs) + i BY <1>3, <4>2, <5>1
        <5>3. (g - d) * SecRecs \in Int BY <5>1
        <5>4. (g - d) * SecRecs > (h - 1) * SecRecs
          <6> DEFINE z == (g - d) * SecRecs
          <6>1. sec[t].recs[i] = view - c - z + i /\ z \in Int BY <5>2, <5>3
          <6> HIDE DEF z
          <6>2. view - c - z + i <= view + 1 - n BY <3>1, <6>1
          <6>3. z > e BY <1>1, <1>6, <2>a, <2>b, <2>d, <6>1, <6>2
          <6> QED BY <6>3 DEF z, e
        <5>5. g - d >= h
          <6>1. ASSUME g - d <= h - 1 PROVE FALSE
            <7>1. (g - d) * SecRecs <= (h - 1) * SecRecs BY <5>1, <6>1, MultiplesGrow
            <7> QED BY <2>2, <5>3, <5>4, <7>1
          <6> QED BY <5>1, <6>1
        <5>6. h < NumSecs /\ Hops(o, s) = h BY <2>1, <5>1, <5>5
        <5>7. d = 1 => s # m
          <6>1. ASSUME d = 1, s = m PROVE FALSE
            <7>1. Hops(o, m) = NumSecs - 1 BY <1>1, <1>3, <6>1, HopsFacts
            <7> QED BY <5>1, <5>5, <5>6, <6>1, <7>1
          <6> QED BY <6>1
        <5>8. s # m /\ Hops(m, s) = h + d BY <1>7, <5>6, <5>7
        <5>9. Hops(m, s) <= g BY <5>1, <5>5, <5>8
        <5>10. CASE Hops(m, s) = g
          <6>1. s = t BY <1>2, <5>10, HopsFacts
          <6> QED BY <2>4, <5>1, <6>1
        <5>11. CASE Hops(m, s) < g BY <1>2, <2>4, <3>1, <4>2, <5>8, <5>11 DEF Linked
        <5> QED BY <5>1, <5>8, <5>9, <5>10, <5>11
      <4> QED BY <4>1, <4>2
    <3>2. \A t \in Secs, i \in Slots : sec[t].id /\ sec[t].recs[i] <= view => sec[t].recs[i] \in Int
      <4>1. \A t \in Secs, i \in Slots : sec[t].recs[i] \in Serials \cup {Torn}
        BY DEF TypeOK, SectorTypes
      <4> QED BY <4>1 DEF Serials, Torn
    <3>3. ASSUME NEW t \in Secs, NEW i \in Slots, sec[t].id, sec[t].recs[i] # 0, sec[t].recs[i] <= view
          PROVE  sec[t].recs[i] > view + 1 - n
      <4>1. ~(sec[t].recs[i] <= view + 1 - n) BY <3>1, <3>3
      <4>2. sec[t].recs[i] \in Int BY <3>2, <3>3
      <4> QED BY <1>1, <4>1, <4>2
    <3>4. GetMemo(n) = <<>> BY <2>1, <2>4
    <3> QED BY <3>3, <3>4
  <2> QED BY <2>3, <2>4
<1> QED BY <1>1, <1>8, <1>9

\* The block that is due in a turn of wrk_notify().
LEMMA NextBlock ==
  ASSUME LogInv, RingInv, ReadInv, view # 0, job.step = "notify"
  PROVE  /\ GetMemo(rd.cur + 1) = <<>> \/ GetMemo(rd.cur + 1) = <<view - rd.cur>>
         /\ GetMemo(rd.cur + 1) # <<>> =>
              /\ rd.cur + 1 <= Reach(rd.saved.cnt)
              /\ Closed(rd.saved.sec) => rd.cur + 1 < Reach(rd.saved.cnt)
         /\ GetMemo(rd.cur + 1) = <<>> => \A t \in Secs, i \in Slots :
              sec[t].id /\ sec[t].recs[i] # 0 /\ sec[t].recs[i] <= view =>
                sec[t].recs[i] > view - rd.cur
<1> USE LoggerAssumption
<1>1. rd.cnt # 0 /\ Reading BY DEF ReadInv
<1>2. TypeOK /\ rd.saved.cnt < SecRecs /\ rd.saved.cnt \in Nat /\ rd.cur \in Nat /\ view \in Int
  BY <1>1 DEF LogInv, TypeOK, Places, Reading, Serials
<1>3. PICK d \in {0, 1} : Since(d, memo.sec, memo.cnt) BY <1>1, SinceRequest
<1>4. PICK m, k : m = memo.sec /\ k = memo.cnt OBVIOUS
<1>5. Since(d, m, k) BY <1>3, <1>4
<1>6. Reach(rd.saved.cnt) \in Int
  <2>1. (NumSecs - 1) * SecRecs \in Int OBVIOUS
  <2> QED BY <1>2, <2>1 DEF Reach
<1>7. PICK n \in Nat \ {0} : n = rd.cur + 1 BY <1>2
<1>8. n <= Reach(rd.saved.cnt) + 1 BY <1>1, <1>2, <1>6, <1>7 DEF Reading
<1>9. Closed(rd.saved.sec) => n <= Reach(rd.saved.cnt) BY <1>1, <1>2, <1>6, <1>7 DEF Reading
<1>10. view + 1 - n = view - rd.cur BY <1>2, <1>7
<1>11. /\ GetMemo(n) = <<>> \/ GetMemo(n) = <<view + 1 - n>>
       /\ GetMemo(n) # <<>> => n <= Reach(rd.saved.cnt)
                               /\ (Closed(rd.saved.sec) => n < Reach(rd.saved.cnt))
       /\ GetMemo(n) = <<>> => \A t \in Secs, i \in Slots :
            sec[t].id /\ sec[t].recs[i] # 0 /\ sec[t].recs[i] <= view =>
              sec[t].recs[i] > view + 1 - n
  BY <1>2, <1>5, <1>8, <1>9, BlockRead
<1> QED BY <1>7, <1>10, <1>11

\* A step of the log leaves a readout as it is, if the log does not move on too
\* far and brings no old record back.
LEMMA LogStep ==
  ASSUME LogInv, LogInv', ReadInv, NewestFirst, NothingLeftOut, Unbroken,
         UNCHANGED readVars, job.step # "notify", job'.step # "notify", serial <= serial',
         view # 0 /\ rd.cnt # 0 =>
           (\/ SameSector(rd.saved.sec, rd.saved.cnt)
            \/ FullSector(rd.saved.sec, rd.saved.cnt)
            \/ NextSector(rd.saved.sec, rd.saved.cnt))',
         view # 0 /\ rd.cnt # 0 /\ job'.step = "write" => serial' < view + SecRecs,
         view # 0 => \A s \in Secs, i \in Slots :
           sec'[s].id /\ sec'[s].recs[i] # 0 /\ sec'[s].recs[i] <= view =>
             sec[s].id /\ sec[s].recs[i] = sec'[s].recs[i]
  PROVE  ReadInv' /\ NewestFirst' /\ NothingLeftOut'
<1>1. rd' = rd /\ client' = client /\ view' = view BY DEF readVars
<1>2. view' <= serial' BY <1>1 DEF ReadInv, LogInv, TypeOK, Serials
<1>3. ASSUME view # 0, rd.cnt # 0 PROVE Reading'
  <2>1. Reading BY <1>3 DEF ReadInv
  <2> QED BY <1>1, <1>3, <2>1 DEF Reading, Reach
<1>4. ReadInv' BY <1>1, <1>2, <1>3 DEF ReadInv
<1>5. NewestFirst' BY <1>1 DEF NewestFirst
<1>6. NothingLeftOut'
  <2> SUFFICES ASSUME client'.end, view' # 0, NEW s \in Secs, NEW i \in Slots,
                      sec'[s].id, sec'[s].recs[i] # 0, sec'[s].recs[i] <= view',
                      sec'[s].recs[i] + client'.want > view'
               PROVE  \E j \in 1 .. Len(client'.recs) : client'.recs[j] = sec'[s].recs[i]
    BY DEF NothingLeftOut
  <2>1. sec[s].id /\ sec[s].recs[i] = sec'[s].recs[i] BY <1>1
  <2> QED BY <1>1, <2>1 DEF NothingLeftOut
<1> QED BY <1>4, <1>5, <1>6

LEMMA NextRead ==
  ASSUME LogInv, LogInv', [Next]_vars, Unbroken, Unbroken', RingInv, ReadInv,
         NewestFirst, NothingLeftOut
  PROVE  ReadInv' /\ NewestFirst' /\ NothingLeftOut'
<1> USE LoggerAssumption
<1>a. /\ sec \in [Secs -> SectorTypes] /\ memo.sec \in Secs /\ memo.cnt \in 0 .. SecRecs
      /\ memo \in Places /\ serial \in Nat /\ view \in Nat /\ job.sec \in Secs
      /\ rd \in Reads /\ client \in Clients
  BY DEF LogInv, TypeOK, Places, Serials, Reads, Clients
<1>b. PICK o \in Secs, c \in 0 .. SecRecs : o = rd.saved.sec /\ c = rd.saved.cnt
  BY <1>a DEF Reads, Places
<1>c. view # 0 /\ rd.cnt # 0 =>
        /\ Reading /\ c < SecRecs
        /\ SameSector(o, c) \/ FullSector(o, c) \/ NextSector(o, c)
  BY <1>b DEF ReadInv, Reading
<1>d. NextSec(o) # o /\ NextSec(o) \in Secs BY NextSecFacts, HopsFacts
<1>e. ASSUME view' = 0, client'.end => rd'.cnt = 0, job'.step = "notify" => rd'.cnt # 0
      PROVE  ReadInv' /\ NewestFirst' /\ NothingLeftOut'
  <2>1. view' <= serial' BY <1>e DEF LogInv, TypeOK, Serials
  <2> QED BY <1>e, <2>1 DEF ReadInv, NewestFirst, NothingLeftOut
<1>1. CASE Boot
  <2>1. /\ job.step = "boot" /\ job'.step \in {"idle", "erase", "close"}
        /\ sec' = sec /\ UNCHANGED readVars /\ serial' = serial
    BY <1>1 DEF Boot, Idle, Job
  <2>2. ~(view # 0 /\ rd.cnt # 0) BY <1>c, <2>1 DEF SameSector, FullSector, NextSector
  <2> QED BY <1>a, <2>1, <2>2, LogStep
<1>2. CASE CloseSector
  <2>1. PICK s \in Secs : s = job.sec BY <1>a
  <2>2. /\ job.step = "close" /\ sec' = [sec EXCEPT ![s].flg = "closed"] /\ serial' = serial
        /\ job' = Job("erase", NextSec(s)) /\ UNCHANGED readVars
    BY <1>2, <2>1 DEF CloseSector
  <2>3. job'.step = "erase" /\ job'.sec = NextSec(s) BY <2>2 DEF Job
  <2>4. /\ \A t \in Secs : sec'[t].id = sec[t].id /\ sec'[t].recs = sec[t].recs
        /\ sec'[s].flg = "closed"
    BY <1>a, <2>2 DEF SectorTypes
  <2>5. ASSUME view # 0, rd.cnt # 0 PROVE NextSector(o, c)'
    <3>1. s = o /\ serial = view + SecRecs - c
      BY <1>c, <2>1, <2>2, <2>5 DEF SameSector, FullSector, NextSector
    <3>2. sec[s].id BY <2>1, <2>2 DEF LogInv, PlaceInv
    <3> QED BY <2>2, <2>3, <2>4, <3>1, <3>2 DEF NextSector, Closed, readVars
  <2>6. rd' = rd BY <2>2 DEF readVars
  <2> QED BY <1>a, <1>b, <2>2, <2>3, <2>4, <2>5, <2>6, LogStep
<1>3. CASE EraseSector
  <2>1. PICK s \in Secs : s = job.sec BY <1>a
  <2>2. /\ job.step = "erase" /\ sec' = [sec EXCEPT ![s] = BlankSec] /\ serial' = serial
        /\ job' = Job("ident", s) /\ UNCHANGED readVars
    BY <1>3, <2>1 DEF EraseSector
  <2>3. job'.step = "ident" /\ job'.sec = s BY <2>2 DEF Job
  <2>4. (\A t \in Secs : t # s => sec'[t] = sec[t]) /\ ~sec'[s].id BY <1>a, <2>2 DEF BlankSec
  <2>5. ASSUME view # 0, rd.cnt # 0 PROVE NextSector(o, c)'
    <3>1. s = NextSec(o) /\ serial = view + SecRecs - c /\ Closed(o)
      BY <1>c, <2>1, <2>2, <2>5 DEF SameSector, FullSector, NextSector
    <3>2. sec'[o] = sec[o] BY <1>d, <2>4, <3>1
    <3> QED BY <2>2, <2>3, <3>1, <3>2 DEF NextSector, Closed, readVars
  <2>6. rd' = rd BY <2>2 DEF readVars
  <2>7. \A t \in Secs, i \in Slots : sec'[t].id => sec[t].id /\ sec[t].recs[i] = sec'[t].recs[i]
    BY <2>4
  <2> QED BY <1>a, <1>b, <2>2, <2>3, <2>5, <2>6, <2>7, LogStep
<1>4. CASE WriteId
  <2>1. PICK s \in Secs : s = job.sec BY <1>a
  <2>2. /\ job.step = "ident" /\ sec' = [sec EXCEPT ![s].id = TRUE] /\ serial' = serial
        /\ job' = Idle /\ memo' = [sec |-> s, cnt |-> 0] /\ UNCHANGED readVars
    BY <1>4, <2>1 DEF WriteId
  <2>3. job'.step = "idle" /\ memo'.sec = s /\ memo'.cnt = 0 BY <2>2 DEF Job, Idle
  <2>4. (\A t \in Secs : t # s => sec'[t] = sec[t]) /\ sec'[s].recs = NoRecs
    <3>1. sec[s] = BlankSec BY <2>1, <2>2 DEF LogInv, PlaceInv
    <3> QED BY <1>a, <2>2, <3>1 DEF BlankSec
  <2>5. ASSUME view # 0, rd.cnt # 0 PROVE NextSector(o, c)'
    <3>1. s = NextSec(o) /\ serial = view + SecRecs - c /\ Closed(o)
      BY <1>c, <2>1, <2>2, <2>5 DEF SameSector, FullSector, NextSector
    <3>2. sec'[o] = sec[o] BY <1>d, <2>4, <3>1
    <3>3. serial' = view' + SecRecs - c + memo'.cnt /\ memo'.cnt <= c
      BY <1>a, <2>2, <2>3, <3>1 DEF readVars
    <3> QED BY <2>3, <3>1, <3>2, <3>3 DEF NextSector, Closed, readVars
  <2>6. rd' = rd BY <2>2 DEF readVars
  <2>7. \A t \in Secs, i \in Slots : sec'[t].id /\ sec'[t].recs[i] # 0 =>
          sec[t].id /\ sec[t].recs[i] = sec'[t].recs[i]
    BY <2>4 DEF NoRecs
  <2> QED BY <1>a, <1>b, <2>2, <2>3, <2>5, <2>6, <2>7, LogStep
<1>5. CASE Measure
  <2>1. /\ job = Idle /\ job.step = "idle" /\ job'.step \in {"idle", "write"}
        /\ sec' = sec /\ memo' = memo /\ UNCHANGED readVars /\ serial' = serial
        /\ view # 0 /\ ~client.end => serial < view + SecRecs
    BY <1>5 DEF Measure, Idle, Job, flashVars
  <2>2. rd' = rd /\ view' = view BY <2>1 DEF readVars
  <2>3. ASSUME view # 0, rd.cnt # 0 PROVE SameSector(o, c)' \/ NextSector(o, c)'
    <3>1. CASE SameSector(o, c) BY <2>1, <2>2, <3>1 DEF SameSector
    <3>2. CASE NextSector(o, c) BY <2>1, <2>2, <3>2 DEF NextSector, Closed
    <3> QED BY <1>c, <2>1, <2>3, <3>1, <3>2 DEF FullSector
  <2>4. ASSUME view # 0, rd.cnt # 0 PROVE serial' < view + SecRecs
    BY <1>c, <2>1, <2>4 DEF Reading
  <2> QED BY <1>a, <1>b, <2>1, <2>2, <2>3, <2>4, LogStep
<1>6. CASE WriteRecord
  <2>1. PICK m \in Secs, k \in 0 .. SecRecs : m = memo.sec /\ k = memo.cnt BY <1>a
  <2>2. /\ job.step = "write" /\ k < SecRecs /\ OpenWith(sec[m], k) /\ serial < MaxSerial
        /\ serial' = serial + 1 /\ UNCHANGED readVars
    BY <1>6, <2>1 DEF WriteRecord, LogInv, PlaceInv
  <2>3. serial + 1 \in (Serials \cup {Torn}) \ {0} BY <1>a, <2>2 DEF Serials
  <2>4. /\ \A t \in Secs : t # m => sec'[t] = sec[t]
        /\ \A t \in Secs : sec'[t].id = sec[t].id /\ sec'[t].flg = sec[t].flg
        /\ \A i \in Slots : sec'[m].recs[i] = sec[m].recs[i] \/ sec'[m].recs[i] = serial + 1
    <3>1. k + 1 \in Slots /\ k + 1 > k BY <2>2 DEF Slots
    <3>2. sec[m].recs[k + 1] = 0 BY <2>2, <3>1 DEF OpenWith
    <3>3. sec' = [sec EXCEPT ![m].recs[k + 1] = IF @ = 0 THEN serial + 1 ELSE Torn]
      BY <1>6, <2>1 DEF WriteRecord, Put, Slot
    <3>4. sec' = [sec EXCEPT ![m].recs[k + 1] = serial + 1] BY <3>2, <3>3
    <3> QED BY <1>a, <3>1, <3>4 DEF SectorTypes
  <2>5. rd' = rd /\ view' = view BY <2>2 DEF readVars
  <2>6. ASSUME view # 0, rd.cnt # 0
        PROVE  SameSector(o, c)' \/ FullSector(o, c)' \/ NextSector(o, c)'
    <3>1. serial < view + SecRecs BY <1>c, <2>2, <2>6 DEF Reading
    <3>2. CASE SameSector(o, c)
      <4>1. m = o /\ k >= c /\ serial = view + k - c BY <2>1, <3>2 DEF SameSector
      <4>2. CASE k >= SecRecs - 1
        <5>1. job' = Job("close", m) BY <1>6, <2>1, <4>2 DEF WriteRecord
        <5>2. job'.step = "close" /\ job'.sec = o BY <4>1, <5>1 DEF Job
        <5>3. serial' = view' + SecRecs - c BY <1>a, <2>2, <2>5, <4>1, <4>2
        <5> QED BY <5>2, <5>3 DEF FullSector
      <4>3. CASE ~(k >= SecRecs - 1)
        <5>1. job' = Idle /\ memo' = [memo EXCEPT !.cnt = k + 1] BY <1>6, <2>1, <4>3 DEF WriteRecord
        <5>2. job'.step = "idle" /\ memo'.sec = o /\ memo'.cnt = k + 1
          BY <1>a, <2>1, <4>1, <5>1 DEF Idle, Job, Places
        <5>3. k + 1 >= c /\ serial' = view' + (k + 1) - c BY <1>a, <2>2, <2>5, <4>1
        <5> QED BY <5>2, <5>3 DEF SameSector
      <4> QED BY <4>2, <4>3
    <3>3. CASE NextSector(o, c)
      <4>1. m = NextSec(o) /\ k <= c /\ serial = view + SecRecs - c + k /\ Closed(o)
        BY <2>1, <2>2, <3>3 DEF NextSector
      <4>2. k < c /\ c < SecRecs BY <1>a, <1>c, <2>6, <3>1, <4>1
      <4>3. job' = Idle /\ memo' = [memo EXCEPT !.cnt = k + 1]
        <5>1. ~(k >= SecRecs - 1) BY <4>2
        <5> QED BY <1>6, <2>1, <5>1 DEF WriteRecord
      <4>4. job'.step = "idle" /\ memo'.sec = NextSec(o) /\ memo'.cnt = k + 1
        BY <1>a, <2>1, <4>1, <4>3 DEF Idle, Job, Places
      <4>5. k + 1 <= c /\ serial' = view' + SecRecs - c + (k + 1) BY <1>a, <2>2, <2>5, <4>1, <4>2
      <4>6. Closed(o)' BY <2>4, <4>1 DEF Closed
      <4> QED BY <4>4, <4>5, <4>6 DEF NextSector
    <3> QED BY <1>c, <2>2, <2>6, <3>2, <3>3 DEF FullSector
  <2>7. job'.step \in {"close", "idle"}
    BY <1>6 DEF WriteRecord, Idle, Job
  <2>8. ASSUME NEW t \in Secs, NEW i \in Slots, sec'[t].id, sec'[t].recs[i] <= view
        PROVE  sec[t].id /\ sec[t].recs[i] = sec'[t].recs[i]
    <3>1. view < serial + 1 BY <1>a DEF ReadInv
    <3>2. sec'[t].recs[i] # serial + 1 BY <1>a, <2>8, <3>1
    <3> QED BY <2>4, <2>8, <3>2
  <2> QED BY <1>a, <1>b, <2>2, <2>5, <2>6, <2>7, <2>8, LogStep
<1>f. ASSUME view' = view, client' = client, UNCHANGED sec PROVE NewestFirst' /\ NothingLeftOut'
  BY <1>f DEF NewestFirst, NothingLeftOut
<1>7. CASE ClearMemo
  <2>1. /\ view' = 0 /\ client' = client /\ rd' = rd /\ job'.step = "clear"
    BY <1>7 DEF ClearMemo, Job
  <2> QED BY <1>e, <2>1 DEF ReadInv
<1>8. CASE ClearSector
  <2>1. /\ job.step = "clear" /\ job'.step \in {"clear", "erase"} /\ UNCHANGED readVars
        /\ serial' = serial /\ (sec' = sec \/ sec' = [sec EXCEPT ![job.sec] = BlankSec])
    BY <1>8 DEF ClearSector, Job
  <2>2. ~(view # 0 /\ rd.cnt # 0) BY <1>c, <2>1 DEF SameSector, FullSector, NextSector
  <2>3. \A t \in Secs, i \in Slots : sec'[t].id => sec[t].id /\ sec[t].recs[i] = sec'[t].recs[i]
    <3>1. CASE sec' = sec BY <3>1
    <3>2. CASE sec' = [sec EXCEPT ![job.sec] = BlankSec]
      <4>1. (\A t \in Secs : t # job.sec => sec'[t] = sec[t]) /\ ~sec'[job.sec].id
        BY <1>a, <3>2 DEF BlankSec
      <4> QED BY <4>1
    <3> QED BY <2>1, <3>1, <3>2
  <2> QED BY <1>a, <2>1, <2>2, <2>3, LogStep
<1>9. CASE Connect
  <2>1. /\ job.step = "idle" /\ job' = job /\ rd' = rd /\ view' = view /\ serial' = serial
        /\ ~client.on /\ client' = [NoClient EXCEPT !.on = TRUE]
    BY <1>9 DEF Connect, Idle, Job
  <2>2. ~client'.end /\ client'.recs = <<>> BY <2>1 DEF NoClient
  <2>3. ~(view # 0 /\ rd.cnt # 0) BY <1>c, <2>1 DEF Reading
  <2>4. ReadInv' BY <2>1, <2>2, <2>3 DEF ReadInv
  <2> QED BY <2>2, <2>4 DEF NewestFirst, NothingLeftOut
<1>10. CASE Cancel
  <2>1. job.step = "idle" /\ job' = job /\ view' = 0 /\ rd' = [rd EXCEPT !.cnt = 0]
    BY <1>10 DEF Cancel, Idle, Job
  <2>2. rd'.cnt = 0 BY <1>a, <2>1 DEF Reads
  <2> QED BY <1>e, <2>1, <2>2
<1>11. CASE Disconnect
  <2>1. job.step = "idle" /\ job' = job /\ view' = 0 /\ client' = NoClient
    BY <1>11 DEF Disconnect, Idle, Job
  <2> QED BY <1>e, <2>1 DEF NoClient
<1>12. CASE \E n \in Requests : Request(n)
  <2>1. PICK n \in Requests : Request(n) BY <1>12
  <2>2. /\ job.step = "idle" /\ client.on /\ rd' = [saved |-> memo, cnt |-> n, cur |-> 0]
        /\ job' = Job("notify", 0) /\ client' = [NoClient EXCEPT !.on = TRUE, !.want = n]
        /\ view' = serial /\ sec' = sec /\ memo' = memo /\ serial' = serial
    BY <2>1 DEF Request, Idle, Job, flashVars
  <2>3. n \in Nat /\ n # 0 OBVIOUS
  <2>4. /\ client'.on /\ ~client'.end /\ client'.want = n /\ client'.recs = <<>>
        /\ rd'.cnt = n /\ rd'.cur = 0 /\ rd'.saved = memo
    BY <2>2 DEF NoClient
  <2>5. job'.step = "notify" BY <2>2 DEF Job
  <2>6. /\ memo.cnt < SecRecs /\ ~Closed(memo.sec)
    BY <2>2 DEF LogInv, PlaceInv, OpenWith, Closed
  <2>7. Reading'
    <3>1. SameSector(rd.saved.sec, rd.saved.cnt)'
      <4>1. memo'.sec = rd'.saved.sec /\ memo'.cnt = rd'.saved.cnt BY <2>2, <2>4
      <4>2. memo'.cnt >= rd'.saved.cnt /\ serial' = view' + memo'.cnt - rd'.saved.cnt
        BY <1>a, <2>2, <2>4
      <4> QED BY <2>5, <4>1, <4>2 DEF SameSector
    <3>2. 0 <= Reach(memo.cnt)
      <4>1. 0 * SecRecs <= (NumSecs - 1) * SecRecs /\ (NumSecs - 1) * SecRecs \in Int
        BY MultiplesGrow
      <4> QED BY <1>a, <4>1 DEF Reach
    <3>3. Reach(rd.saved.cnt)' = Reach(memo.cnt) BY <2>4 DEF Reach
    <3>4. ~Closed(rd.saved.sec)' BY <2>2, <2>4, <2>6 DEF Closed
    <3>5. Len(client'.recs) = rd'.cur BY <2>4
    <3> QED BY <2>4, <2>5, <2>6, <3>1, <3>2, <3>3, <3>4, <3>5 DEF Reading
  <2>8. ReadInv'
    <3>1. view' <= serial' BY <1>a, <2>2
    <3> QED BY <2>3, <2>4, <2>7, <3>1 DEF ReadInv
  <2> QED BY <2>4, <2>8 DEF NewestFirst, NothingLeftOut
<1>13. CASE NotifyEvent
  <2>1. /\ job.step = "idle" /\ UNCHANGED flashVars /\ rd' = rd /\ client' = client /\ view' = view
        /\ serial' = serial /\ job'.step \in {"idle", "notify"} /\ (job'.step = "notify" => rd.cnt # 0)
    BY <1>13 DEF NotifyEvent, Idle, Job
  <2>2. sec' = sec /\ memo' = memo BY <2>1 DEF flashVars
  <2>3. ASSUME view # 0, rd.cnt # 0 PROVE Reading'
    <3>1. SameSector(o, c)' \/ NextSector(o, c)'
      <4>1. CASE SameSector(o, c) BY <2>1, <2>2, <4>1 DEF SameSector
      <4>2. CASE NextSector(o, c) BY <2>1, <2>2, <4>2 DEF NextSector, Closed
      <4> QED BY <1>c, <2>1, <2>3, <4>1, <4>2 DEF FullSector
    <3>2. rd'.saved.sec = o /\ rd'.saved.cnt = c BY <1>b, <2>1
    <3>3. (SameSector(rd.saved.sec, rd.saved.cnt) \/ NextSector(rd.saved.sec, rd.saved.cnt))'
      BY <3>1, <3>2
    <3> QED BY <1>c, <2>1, <2>2, <2>3, <3>3 DEF Reading, Reach, Closed
  <2>4. ReadInv' BY <2>1, <2>3 DEF ReadInv
  <2> QED BY <1>f, <2>1, <2>2, <2>4
<1>14. CASE SendBlock
  <2>1. /\ job.step = "notify" /\ client.on
        /\ rd' = [rd EXCEPT !.cur = rd.cur + 1, !.cnt = IF Ends THEN 0 ELSE rd.cnt]
        /\ client' = IF Ends THEN [client EXCEPT !.end = TRUE]
                     ELSE [client EXCEPT !.recs = client.recs \o GetMemo(rd.cur + 1)]
        /\ job' = IF Ends THEN Idle ELSE job
        /\ sec' = sec /\ memo' = memo /\ view' = view /\ serial' = serial
    BY <1>14 DEF SendBlock, flashVars
  <2>2. rd.cnt # 0 /\ ~client.end /\ rd.cnt \in Nat /\ rd.cur \in Nat
    BY <1>a, <2>1 DEF ReadInv, Reads
  <2>3. rd'.cur = rd.cur + 1 /\ rd'.saved = rd.saved /\ rd'.cnt = IF Ends THEN 0 ELSE rd.cnt
    BY <1>a, <2>1 DEF Reads
  <2>4. CASE Ends
    <3>1. client' = [client EXCEPT !.end = TRUE] /\ job' = Idle /\ rd'.cnt = 0 BY <2>1, <2>3, <2>4
    <3>2. client'.recs = client.recs /\ client'.want = client.want BY <1>a, <3>1 DEF Clients
    <3>3. job'.step = "idle" BY <3>1 DEF Idle, Job
    <3>4. ReadInv' BY <2>1, <3>1, <3>3 DEF ReadInv
    <3>5. NewestFirst' BY <2>1, <3>2 DEF NewestFirst
    <3>6. ASSUME view # 0, NEW s \in Secs, NEW i \in Slots, sec[s].id, sec[s].recs[i] # 0,
                 sec[s].recs[i] <= view, sec[s].recs[i] + client.want > view
          PROVE  \E j \in 1 .. Len(client.recs) : client.recs[j] = sec[s].recs[i]
      <4>1. Reading BY <1>c, <2>2, <3>6
      <4>2. Len(client.recs) = rd.cur /\ client.want = rd.cnt BY <4>1 DEF Reading
      <4>3. PICK r : r = sec[s].recs[i] OBVIOUS
      <4>4. r \in Nat /\ r <= view /\ r + rd.cnt > view
        <5>1. sec[s].recs[i] \in Serials \cup {Torn} BY <1>a DEF SectorTypes
        <5> QED BY <3>6, <4>2, <4>3, <5>1 DEF Serials, Torn
      <4>5. r > view - rd.cur
        <5>1. CASE rd.cur + 1 > rd.cnt BY <1>a, <2>2, <4>4, <5>1
        <5>2. CASE GetMemo(rd.cur + 1) = <<>>
          <6>1. sec[s].recs[i] > view - rd.cur BY <2>1, <3>6, <5>2, NextBlock
          <6> QED BY <4>3, <6>1
        <5> QED BY <2>4, <5>1, <5>2 DEF Ends
      <4>6. view + 1 - r \in 1 .. Len(client.recs) BY <1>a, <2>2, <4>2, <4>4, <4>5
      <4>7. client.recs[view + 1 - r] = view + 1 - (view + 1 - r) BY <3>6, <4>6 DEF NewestFirst
      <4>8. view + 1 - (view + 1 - r) = r BY <1>a, <4>4
      <4> QED BY <4>3, <4>6, <4>7, <4>8
    <3>7. NothingLeftOut'
      <4> SUFFICES ASSUME view' # 0, NEW s \in Secs, NEW i \in Slots,
                          sec'[s].id, sec'[s].recs[i] # 0, sec'[s].recs[i] <= view',
                          sec'[s].recs[i] + client'.want > view'
                   PROVE  \E j \in 1 .. Len(client'.recs) : client'.recs[j] = sec'[s].recs[i]
        BY DEF NothingLeftOut
      <4>1. sec' = sec /\ view' = view BY <2>1
      <4>2. \E j \in 1 .. Len(client.recs) : client.recs[j] = sec[s].recs[i]
        BY <3>2, <3>6, <4>1
      <4> QED BY <3>2, <4>1, <4>2
    <3> QED BY <3>4, <3>5, <3>7
  <2>5. CASE ~Ends
    <3>1. /\ client' = [client EXCEPT !.recs = client.recs \o GetMemo(rd.cur + 1)]
          /\ job' = job /\ rd'.cnt = rd.cnt /\ GetMemo(rd.cur + 1) # <<>>
      BY <2>1, <2>3, <2>5 DEF Ends
    <3>2. /\ client'.recs = client.recs \o GetMemo(rd.cur + 1) /\ client'.want = client.want
          /\ client'.end = client.end /\ client'.on = client.on
      BY <1>a, <3>1 DEF Clients
    <3>3. CASE view = 0 BY <1>e, <2>1, <2>2, <3>1, <3>2, <3>3
    <3>4. CASE view # 0
      <4>1. Reading /\ c < SecRecs /\ (SameSector(o, c) \/ NextSector(o, c))
        BY <1>c, <2>1, <2>2, <3>4 DEF FullSector
      <4>2. /\ GetMemo(rd.cur + 1) = <<view - rd.cur>>
            /\ rd.cur + 1 <= Reach(rd.saved.cnt)
            /\ Closed(rd.saved.sec) => rd.cur + 1 < Reach(rd.saved.cnt)
        BY <2>1, <3>1, <3>4, NextBlock
      <4>3. client.recs \in Seq(Serials \cup {Torn}) /\ Len(client.recs) = rd.cur
        BY <1>a, <4>1 DEF Clients, Reading
      <4>4. client.recs \in Seq(Int) /\ view - rd.cur \in Int
        <5>1. Serials \cup {Torn} \subseteq Int BY DEF Serials, Torn
        <5> QED BY <1>a, <2>2, <4>3, <5>1
      <4>5. /\ Len(client'.recs) = rd.cur + 1
            /\ \A i \in 1 .. rd.cur : client'.recs[i] = client.recs[i]
            /\ client'.recs[rd.cur + 1] = view - rd.cur
        <5>1. PICK q \in Seq(Int), e \in Int : q = client.recs /\ e = view - rd.cur BY <4>4
        <5>2. client'.recs = q \o <<e>> /\ Len(q) = rd.cur BY <3>2, <4>2, <4>3, <5>1
        <5>3. /\ Len(q \o <<e>>) = Len(q) + 1 /\ (q \o <<e>>)[Len(q) + 1] = e
              /\ \A i \in 1 .. Len(q) : (q \o <<e>>)[i] = q[i]
          OBVIOUS
        <5> QED BY <5>1, <5>2, <5>3
      <4>6. NewestFirst'
        <5>1. ASSUME NEW i \in 1 .. Len(client'.recs) PROVE client'.recs[i] = view + 1 - i
          <6>1. CASE i \in 1 .. rd.cur
            <7>1. client.recs[i] = view + 1 - i BY <3>4, <4>3, <6>1 DEF NewestFirst
            <7> QED BY <4>5, <6>1, <7>1
          <6>2. CASE i = rd.cur + 1 BY <1>a, <2>2, <4>5, <6>2
          <6> QED BY <2>2, <4>5, <6>1, <6>2
        <5> QED BY <2>1, <5>1 DEF NewestFirst
      <4>7. Reading'
        <5>1. SameSector(o, c)' \/ NextSector(o, c)'
          <6>1. CASE SameSector(o, c) BY <2>1, <3>1, <6>1 DEF SameSector
          <6>2. CASE NextSector(o, c) BY <2>1, <3>1, <6>2 DEF NextSector, Closed
          <6> QED BY <4>1, <6>1, <6>2
        <5>2. rd'.saved.sec = o /\ rd'.saved.cnt = c BY <1>b, <2>3
        <5>3. (SameSector(rd.saved.sec, rd.saved.cnt) \/ NextSector(rd.saved.sec, rd.saved.cnt))'
          BY <5>1, <5>2
        <5>4. /\ Len(client'.recs) = rd'.cur /\ rd'.cur <= Reach(rd.saved.cnt)'
              /\ Closed(rd.saved.sec)' => rd'.cur < Reach(rd.saved.cnt)'
          BY <2>1, <2>3, <4>2, <4>5 DEF Reach, Closed
        <5> QED BY <2>1, <2>3, <3>1, <3>2, <4>1, <5>3, <5>4 DEF Reading
      <4>8. ReadInv'
        <5>1. view' <= serial' BY <2>1 DEF ReadInv
        <5> QED BY <2>2, <3>1, <3>2, <4>7, <5>1 DEF ReadInv
      <4>9. NothingLeftOut' BY <2>2, <3>2 DEF NothingLeftOut
      <4> QED BY <4>6, <4>8, <4>9
    <3> QED BY <3>3, <3>4
  <2> QED BY <2>4, <2>5
<1>15. CASE NoBuffer
  <2>1. /\ job.step = "notify" /\ client.on /\ job' = Idle
        /\ rd' = [rd EXCEPT !.cnt = IF Ends THEN 0 ELSE rd.cnt]
        /\ sec' = sec /\ memo' = memo /\ client' = client /\ view' = view /\ serial' = serial
    BY <1>15 DEF NoBuffer, flashVars
  <2>2. /\ rd'.cur = rd.cur /\ rd'.saved = rd.saved /\ rd'.cnt = (IF Ends THEN 0 ELSE rd.cnt)
        /\ rd.cur \in Nat /\ job'.step = "idle"
    BY <1>a, <2>1 DEF Reads, Idle, Job
  <2>3. ASSUME view # 0, rd'.cnt # 0 PROVE Reading'
    <3>1. rd.cnt # 0 /\ rd'.cnt = rd.cnt /\ GetMemo(rd.cur + 1) # <<>> BY <2>2, <2>3 DEF Ends
    <3>2. Reading /\ c < SecRecs /\ (SameSector(o, c) \/ NextSector(o, c))
      BY <1>c, <2>1, <2>3, <3>1 DEF FullSector
    <3>3. rd.cur + 1 <= Reach(rd.saved.cnt) BY <2>1, <2>3, <3>1, NextBlock
    <3>4. Reach(rd.saved.cnt) \in Int
      <4>1. (NumSecs - 1) * SecRecs \in Int OBVIOUS
      <4> QED BY <1>b, <4>1 DEF Reach
    <3>5. rd.cur < Reach(rd.saved.cnt) BY <2>2, <3>3, <3>4
    <3>6. SameSector(o, c)' \/ NextSector(o, c)'
      <4>1. CASE SameSector(o, c) BY <2>1, <2>2, <4>1 DEF SameSector
      <4>2. CASE NextSector(o, c) BY <2>1, <2>2, <4>2 DEF NextSector, Closed
      <4> QED BY <3>2, <4>1, <4>2
    <3>7. rd'.saved.sec = o /\ rd'.saved.cnt = c BY <1>b, <2>2
    <3>8. (SameSector(rd.saved.sec, rd.saved.cnt) \/ NextSector(rd.saved.sec, rd.saved.cnt))'
      BY <3>6, <3>7
    <3>9. Reach(rd.saved.cnt)' = Reach(rd.saved.cnt) BY <2>2 DEF Reach
    <3> QED BY <2>1, <2>2, <3>1, <3>2, <3>5, <3>8, <3>9 DEF Reading
  <2>4. ReadInv' BY <2>1, <2>2, <2>3 DEF ReadInv
  <2> QED BY <1>f, <2>1, <2>4
<1>16. CASE NotConnected
  <2>1. /\ job.step = "notify" /\ ~client.on /\ job' = Idle
        /\ rd' = [rd EXCEPT !.cur = rd.cur + 1, !.cnt = IF Ends THEN 0 ELSE rd.cnt]
        /\ sec' = sec /\ memo' = memo /\ client' = client /\ view' = view /\ serial' = serial
    BY <1>16 DEF NotConnected, flashVars
  <2>2. rd'.cnt = (IF Ends THEN 0 ELSE rd.cnt) /\ job'.step = "idle"
    BY <1>a, <2>1 DEF Reads, Idle, Job
  <2>3. ~(view # 0 /\ rd.cnt # 0) BY <1>c, <2>1 DEF Reading
  <2>4. ReadInv' BY <2>1, <2>2, <2>3 DEF ReadInv
  <2> QED BY <1>f, <2>1, <2>4
<1>17. CASE PowerLoss
  <2>1. left' = [left EXCEPT !.crashes = left.crashes - 1] /\ left.crashes > 0 BY <1>17 DEF PowerLoss
  <2>2. left \in Lefts BY DEF LogInv, TypeOK, Lefts
  <2>3. left'.crashes = left.crashes - 1 /\ left.crashes \in Nat BY <2>1, <2>2 DEF Lefts
  <2> QED BY <2>3 DEF Unbroken
<1>18. CASE UNCHANGED vars
  <2>1. UNCHANGED <<sec, memo, rd, client, job, serial, view>> BY <1>18 DEF vars
  <2>2. ReadInv'
    BY <2>1 DEF ReadInv, Reading, SameSector, FullSector, NextSector, NextSec, Closed, Reach
  <2> QED BY <1>f, <2>1, <2>2
<1> QED
  BY <1>1, <1>2, <1>3, <1>4, <1>5, <1>6, <1>7, <1>8, <1>9, <1>10, <1>11, <1>12, <1>13, <1>14,
     <1>15, <1>16, <1>17, <1>18 DEF Next, Run
-----------------------------------------------------------------------------
LEMMA UnbrokenInvariant == Spec => []UnbrokenInv
<1>1. Init => UnbrokenInv
  <2> SUFFICES ASSUME Init PROVE UnbrokenInv OBVIOUS
  <2> USE LoggerAssumption
  <2>1. job.step = "boot" /\ \A s \in Secs : ~sec[s].id BY DEF Init, Job, BlankSec
  <2>2. RingInv BY <2>1 DEF RingInv
  <2>3. client.recs = <<>> /\ ~client.end /\ view = 0 /\ serial = 0 BY DEF Init, NoClient
  <2>4. ReadInv BY <2>1, <2>3 DEF ReadInv
  <2> QED BY <2>2, <2>3, <2>4 DEF UnbrokenInv, NewestFirst, NothingLeftOut
<1>2. LogInv /\ LogInv' /\ UnbrokenInv /\ [Next]_vars => UnbrokenInv'
  <2> SUFFICES ASSUME LogInv, LogInv', UnbrokenInv, [Next]_vars, Unbroken' PROVE UnbrokenInv'
    BY DEF UnbrokenInv
  <2>1. Unbroken
    <3>1. left \in Lefts /\ left' \in Lefts BY DEF LogInv, TypeOK, Lefts
    <3>2. CASE PowerLoss
      <4>1. left' = [left EXCEPT !.crashes = left.crashes - 1] BY <3>2 DEF PowerLoss
      <4>2. left'.crashes = left.crashes - 1 /\ left.crashes \in 0 .. MaxCrashes BY <3>1, <4>1 DEF Lefts
      <4> QED BY <4>2, LoggerAssumption DEF Unbroken
    <3>3. CASE ~PowerLoss
      <4>1. left'.crashes = left.crashes
        <5>1. CASE ClearMemo BY <3>1, <5>1 DEF ClearMemo, Lefts
        <5>2. CASE Cancel BY <3>1, <5>2 DEF Cancel, Lefts
        <5>3. CASE \E n \in Requests : Request(n) BY <3>1, <5>3 DEF Request, Lefts
        <5>4. CASE ~(ClearMemo \/ Cancel \/ \E n \in Requests : Request(n))
          <6>1. left' = left
            BY <3>3, <5>4 DEF Next, Run, Boot, CloseSector, EraseSector, WriteId, WriteRecord, ClearSector,
               Measure, Connect, NotifyEvent, SendBlock, NoBuffer, NotConnected, Disconnect, vars
          <6> QED BY <6>1
        <5> QED BY <5>1, <5>2, <5>3, <5>4
      <4> QED BY <4>1 DEF Unbroken
    <3> QED BY <3>2, <3>3
  <2>2. RingInv /\ ReadInv /\ NewestFirst /\ NothingLeftOut BY <2>1 DEF UnbrokenInv
  <2>3. RingInv' BY <2>1, <2>2, NextRing
  <2>4. ReadInv' /\ NewestFirst' /\ NothingLeftOut' BY <2>1, <2>2, NextRead
  <2> QED BY <2>3, <2>4 DEF UnbrokenInv
<1> QED BY LogInvariant, <1>1, <1>2, PTL DEF Spec

\* However the log moves on meanwhile, a reader gets the records in order,
\* newest first, without a gap.
THEOREM ReadNewestFirst == Spec => []NewestFirst
<1>1. UnbrokenInv => NewestFirst BY DEF UnbrokenInv, NewestFirst
<1> QED BY <1>1, UnbrokenInvariant, PTL

\* When the reader is told that this is all, it has all that it asked for and
\* that is still there.
THEOREM ReadLeavesNothingOut == Spec => []NothingLeftOut
<1>1. UnbrokenInv => NothingLeftOut BY DEF UnbrokenInv, NothingLeftOut
<1> QED BY <1>1, UnbrokenInvariant, PTL
=============================================================================
