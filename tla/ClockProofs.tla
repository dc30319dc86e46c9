----------------------------- MODULE ClockProofs -----------------------------
(***************************************************************************)
(* Clock's properties for every width of the counter, length of a second,   *)
(* addition of a restart and set of times.                                  *)
(***************************************************************************)
EXTENDS Clock, TLAPS

\* While the time since the last reading fits the mask, the counter has gone on
\* by it, and wrapped at most once.
GapFits ==
  past.gap < Mask => rtc = tik + past.gap \/ rtc + Width = tik + past.gap

\* What a restart finds is what the last reading or setting left.
RegsBehind == regs.sec = sec /\ regs.add <= add

CInv == TypeOK /\ GapFits /\ RegsBehind /\ NeverAhead /\ LosesATick

\* Unsigned arithmetic: a number below the modulus is kept, one that is too
\* large by the modulus is brought back.
LEMMA ModOnce ==
  ASSUME NEW m \in Nat \ {0}, NEW x \in 0 .. m - 1
  PROVE  x % m = x /\ (m + x) % m = x
OBVIOUS

\* What a reading counts is a number below the mask.
LEMMA ElapsedBelow ==
  ASSUME TypeOK
  PROVE  Elapsed(rtc, tik) \in 0 .. Mask - 1
<1> DEFINE u == IF rtc <= tik THEN Width + rtc - tik ELSE (Width - 1) - tik + rtc
<1>1. u \in Nat
  BY ClockAssumption DEF TypeOK
<1>2. u % Width \in Nat
  <2> HIDE DEF u
  <2> QED BY <1>1, ClockAssumption
<1>3. Elapsed(rtc, tik) = (u % Width) % Mask
  BY DEF Elapsed
<1> HIDE DEF u
<1> QED BY <1>2, <1>3, ClockAssumption

\* A reading never counts more than has passed, and one that comes in time at
\* most a tick less (config.c:82-85).
LEMMA ElapsedFits ==
  ASSUME TypeOK, GapFits
  PROVE  /\ Elapsed(rtc, tik) \in Nat
         /\ Elapsed(rtc, tik) <= past.gap
         /\ past.gap < Mask => past.gap <= Elapsed(rtc, tik) + 1
<1>1. CASE past.gap >= Mask
  BY <1>1, ElapsedBelow, ClockAssumption DEF TypeOK
<1>2. CASE past.gap < Mask
  <2>1. past.gap \in 0 .. Width - 1 /\ past.gap \in 0 .. Mask - 1
    BY <1>2, ClockAssumption DEF TypeOK
  <2>2. CASE rtc = tik + past.gap /\ rtc # tik
    <3>1. (Width - 1) - tik + rtc = Width + (past.gap - 1)
      BY <2>1, <2>2, ClockAssumption DEF TypeOK
    <3>2. past.gap - 1 \in 0 .. Width - 1 /\ past.gap - 1 \in 0 .. Mask - 1
      BY <2>1, <2>2, ClockAssumption DEF TypeOK
    <3>3. (Width + (past.gap - 1)) % Width = past.gap - 1
      BY <3>2, ModOnce, ClockAssumption
    <3>4. (past.gap - 1) % Mask = past.gap - 1
      BY <3>2, ModOnce, ClockAssumption
    <3>5. ~(rtc <= tik)
      BY <2>1, <2>2 DEF TypeOK
    <3>6. Elapsed(rtc, tik) = past.gap - 1
      BY <3>1, <3>3, <3>4, <3>5 DEF Elapsed
    <3> QED BY <3>2, <3>6, <2>1
  <2>3. CASE rtc = tik + past.gap /\ rtc = tik
    <3>1. Width + rtc - tik = Width + past.gap /\ rtc <= tik
      BY <2>1, <2>3, ClockAssumption DEF TypeOK
    <3>2. Elapsed(rtc, tik) = past.gap
      BY <3>1, <2>1, ModOnce, ClockAssumption DEF Elapsed
    <3> QED BY <3>2, <2>1
  <2>4. CASE rtc + Width = tik + past.gap
    <3>1. Width + rtc - tik = past.gap /\ rtc <= tik
      BY <2>1, <2>4, ClockAssumption DEF TypeOK
    <3>2. Elapsed(rtc, tik) = past.gap
      BY <3>1, <2>1, ModOnce, ClockAssumption DEF Elapsed
    <3> QED BY <3>2, <2>1
  <2> QED BY <1>2, <2>2, <2>3, <2>4 DEF GapFits
<1> QED BY <1>1, <1>2, ClockAssumption DEF TypeOK

\* Carrying seconds over changes nothing of the time shown, leaves at most a
\* second in the fraction and takes no second away.
LEMMA CarryKeeps ==
  ASSUME NEW s \in Nat, NEW a \in Nat
  PROVE  /\ Carry(s, a)[1] \in Nat /\ Carry(s, a)[1] >= s
         /\ Carry(s, a)[2] \in 0 .. Second
         /\ Carry(s, a)[1] * Second + Carry(s, a)[2] = s * Second + a
<1> DEFINE n == IF a > Second THEN (a - 1) \div Second ELSE 0
<1>1. n \in Nat /\ a - n * Second \in 0 .. Second
  <2>1. CASE a > Second
    <3>1. (a - 1) \in Nat
      BY <2>1, ClockAssumption
    <3>2. /\ (a - 1) \div Second \in Nat /\ (a - 1) % Second \in 0 .. Second - 1
          /\ a - 1 = Second * ((a - 1) \div Second) + ((a - 1) % Second)
      BY <3>1, ClockAssumption
    <3> QED BY <2>1, <3>1, <3>2, ClockAssumption
  <2>2. CASE ~(a > Second)
    BY <2>2, ClockAssumption
  <2> QED BY <2>1, <2>2
<1>2. Carry(s, a) = <<s + n, a - n * Second>>
  BY DEF Carry
<1> HIDE DEF n
<1>3. (s + n) * Second + (a - n * Second) = s * Second + a
  BY <1>1, ClockAssumption
<1> QED BY <1>1, <1>2, <1>3, ClockAssumption

LEMMA CInvInit == Init => CInv
BY ClockAssumption
DEF Init, CInv, TypeOK, GapFits, RegsBehind, NeverAhead, LosesATick, Shown, Clocks

\* get_utc_time_sec() keeps the invariant: the time shown goes on by what is
\* counted, which is the time that passed or a tick less.
LEMMA ReadingKeeps ==
  ASSUME CInv, Reading
  PROVE  CInv' /\ sec' >= sec
<1> DEFINE e == Elapsed(rtc, tik)
           c == Carry(sec, add + e)
<1> USE DEF CInv
<1>1. e \in Nat /\ e <= past.gap /\ (past.gap < Mask => past.gap <= e + 1)
  BY ElapsedFits
<1>2. add + e \in Nat /\ sec \in Nat
  BY <1>1, ClockAssumption DEF TypeOK
<1>3. /\ c[1] \in Nat /\ c[1] >= sec /\ c[2] \in 0 .. Second
      /\ c[1] * Second + c[2] = sec * Second + (add + e)
  <2> HIDE DEF e
  <2> QED BY <1>2, CarryKeeps
<1>4. /\ sec' = c[1] /\ add' = c[2] /\ regs' = [sec |-> c[1], add |-> c[2]]
      /\ tik' = rtc /\ rtc' = rtc /\ ideal' = ideal
      /\ past' = [gap |-> 0, reads |-> past.reads + 1, starts |-> past.starts,
                  inTime |-> past.inTime /\ past.gap < Mask]
  BY DEF Reading, Counted, Saves
<1> HIDE DEF e, c
<1>5. /\ past' \in [gap : Nat, reads : Nat, starts : Nat, inTime : BOOLEAN]
      /\ past'.gap = 0 /\ past'.reads = past.reads + 1 /\ past'.starts = past.starts
      /\ past'.inTime => past.inTime /\ past.gap < Mask
  <2> DEFINE in == past.inTime /\ past.gap < Mask
  <2>1. in \in BOOLEAN /\ (in => past.inTime /\ past.gap < Mask)
    OBVIOUS
  <2>2. past' = [gap |-> 0, reads |-> past.reads + 1, starts |-> past.starts, inTime |-> in]
    BY <1>4
  <2> HIDE DEF in
  <2> QED BY <2>1, <2>2 DEF TypeOK
<1>6. TypeOK'
  BY <1>3, <1>4, <1>5, ClockAssumption DEF TypeOK, Clocks
<1>7. GapFits' /\ RegsBehind'
  BY <1>3, <1>4, <1>5, <1>6 DEF GapFits, RegsBehind, TypeOK
<1>8. Shown' = Shown + e
  <2>1. sec * Second \in Nat /\ c[1] * Second \in Nat
    BY <1>2, <1>3, ClockAssumption
  <2>2. Shown' = c[1] * Second + c[2]
    BY <1>4 DEF Shown
  <2>3. add \in Nat
    BY ClockAssumption DEF TypeOK
  <2> QED BY <2>1, <2>2, <2>3, <1>1, <1>3 DEF Shown
<1>9. Shown \in Nat
  BY ClockAssumption DEF Shown, TypeOK
<1>10. NeverAhead'
  BY <1>1, <1>4, <1>5, <1>8, <1>9, ClockAssumption DEF NeverAhead, TypeOK
<1>11. LosesATick'
  BY <1>1, <1>4, <1>5, <1>8, <1>9, ClockAssumption DEF LosesATick, TypeOK
<1> QED BY <1>3, <1>4, <1>6, <1>7, <1>10, <1>11

\* Setting the clock keeps the invariant: the fraction it keeps is at most a
\* second and what a restart added.
LEMMA SetKeeps ==
  ASSUME CInv, NEW t \in Times, SetTime(t)
  PROVE  CInv'
<1> DEFINE c == Carry(t, add)
<1> USE DEF CInv
<1>1. t \in Nat /\ add \in 0 .. Second + Extra /\ add \in Nat
  BY ClockAssumption DEF TypeOK
<1>2. c[1] \in Nat /\ c[2] \in 0 .. Second /\ c[1] * Second + c[2] = t * Second + add
  BY <1>1, CarryKeeps
<1>3. /\ sec' = c[1] /\ add' = c[2] /\ regs' = [sec |-> c[1], add |-> c[2]]
      /\ tik' = rtc /\ rtc' = rtc /\ ideal' = t * Second
      /\ past' = [gap |-> 0, reads |-> 0, starts |-> 0, inTime |-> TRUE]
  BY DEF SetTime, Saves
<1> HIDE DEF c
<1>4. t * Second \in Nat
  BY <1>1, ClockAssumption
<1>5. TypeOK'
  BY <1>2, <1>3, <1>4, ClockAssumption DEF TypeOK, Clocks
<1>6. GapFits' /\ RegsBehind'
  BY <1>2, <1>3, <1>5 DEF GapFits, RegsBehind, TypeOK
<1>7. Shown' = t * Second + add
  BY <1>2, <1>3 DEF Shown
<1>8. NeverAhead' /\ LosesATick'
  BY <1>1, <1>3, <1>4, <1>7, ClockAssumption DEF NeverAhead, LosesATick
<1> QED BY <1>5, <1>6, <1>8

\* A restart shows the time of the last reading and adds what it is taken to
\* last.
LEMMA RestartKeeps ==
  ASSUME CInv, Restart
  PROVE  CInv' /\ sec' >= sec
<1> USE DEF CInv
<1>1. /\ sec' = sec /\ add' = regs.add + Extra /\ regs' = regs /\ ideal' = ideal
      /\ tik' = rtc /\ rtc' = rtc
      /\ past' = [gap |-> 0, reads |-> past.reads, starts |-> past.starts + 1, inTime |-> FALSE]
  BY DEF Restart, RegsBehind
<1>2. /\ past' \in [gap : Nat, reads : Nat, starts : Nat, inTime : BOOLEAN]
      /\ past'.gap = 0 /\ past'.starts = past.starts + 1 /\ ~past'.inTime
  BY <1>1 DEF TypeOK
<1>3. TypeOK'
  BY <1>1, <1>2, ClockAssumption DEF TypeOK, Clocks
<1>4. GapFits' /\ RegsBehind'
  BY <1>1, <1>2, <1>3, ClockAssumption DEF GapFits, RegsBehind, TypeOK, Clocks
<1>5. sec * Second \in Nat /\ Extra * (past.starts + 2) = Extra * (past.starts + 1) + Extra
  BY ClockAssumption DEF TypeOK
<1>6. Extra * (past.starts + 1) \in Nat
  BY ClockAssumption DEF TypeOK
<1>7. NeverAhead'
  <2>1. Extra * (past'.starts + 1) = Extra * (past.starts + 1) + Extra
    BY <1>2, <1>5, ClockAssumption DEF TypeOK
  <2>2. Shown' <= Shown + Extra
    BY <1>1, <1>5, ClockAssumption DEF Shown, RegsBehind, TypeOK, Clocks
  <2>3. Shown \in Nat /\ Shown' \in Nat
    BY <1>3, <1>5, <1>1, ClockAssumption DEF Shown, TypeOK
  <2> QED BY <1>1, <1>2, <1>6, <2>1, <2>2, <2>3, ClockAssumption DEF NeverAhead, TypeOK
<1> QED BY <1>1, <1>2, <1>3, <1>4, <1>7 DEF LosesATick, TypeOK

\* While time passes the counter and the time since the last reading go on
\* together, and the counter wraps.
LEMMA PassKeeps ==
  ASSUME CInv, Pass
  PROVE  CInv' /\ sec' = sec
<1> USE DEF CInv
<1>1. /\ rtc' = IF rtc = Width - 1 THEN 0 ELSE rtc + 1
      /\ ideal' = ideal + 1 /\ tik' = tik /\ sec' = sec /\ add' = add /\ regs' = regs
      /\ past' = [past EXCEPT !.gap = @ + 1]
  BY DEF Pass
<1>2. /\ past' \in [gap : Nat, reads : Nat, starts : Nat, inTime : BOOLEAN]
      /\ past'.gap = past.gap + 1 /\ past'.reads = past.reads
      /\ past'.starts = past.starts /\ past'.inTime = past.inTime
  BY <1>1 DEF TypeOK
<1>3. TypeOK'
  BY <1>1, <1>2, ClockAssumption DEF TypeOK
<1>4. GapFits'
  BY <1>1, <1>2, ClockAssumption DEF GapFits, TypeOK
<1>5. RegsBehind'
  BY <1>1 DEF RegsBehind
<1>6. Shown' = Shown /\ Shown \in Nat /\ Extra * (past.starts + 1) \in Nat
  BY <1>1, ClockAssumption DEF Shown, TypeOK
<1>7. NeverAhead' /\ LosesATick'
  BY <1>1, <1>2, <1>6, ClockAssumption DEF NeverAhead, LosesATick, TypeOK
<1> QED BY <1>1, <1>3, <1>4, <1>5, <1>7

\* The invariant is inductive.
LEMMA CInvInvariant == Spec => []CInv
<1>1. CInv /\ [Next]_vars => CInv'
  <2> SUFFICES ASSUME CInv, [Next]_vars PROVE CInv'
    OBVIOUS
  <2>1. CASE Reading
    BY <2>1, ReadingKeeps
  <2>2. CASE Sets
    BY <2>2, SetKeeps DEF Sets
  <2>3. CASE Restart
    BY <2>3, RestartKeeps
  <2>4. CASE Pass
    BY <2>4, PassKeeps
  <2>5. CASE UNCHANGED vars
    BY <2>5
    DEF vars, CInv, TypeOK, GapFits, RegsBehind, NeverAhead, LosesATick, Shown
  <2> QED BY <2>1, <2>2, <2>3, <2>4, <2>5 DEF Next
<1> QED BY CInvInit, <1>1, PTL DEF Spec

\* The clock's variables keep their types; the fraction stays below a second
\* and what a restart adds.
THEOREM ClockTyped == Spec => []TypeOK
<1>1. CInv => TypeOK
  BY DEF CInv
<1> QED BY CInvInvariant, <1>1, PTL

\* The clock is ahead of the time by a fraction of a second at most, and what
\* restarts added, however seldom it is read and however its counter wraps.
THEOREM ClockNeverAhead == Spec => []NeverAhead
<1>1. CInv => NeverAhead
  BY DEF CInv
<1> QED BY CInvInvariant, <1>1, PTL

\* Read in time, the clock loses at most a tick with each reading.
THEOREM ClockLosesATick == Spec => []LosesATick
<1>1. CInv => LosesATick
  BY DEF CInv
<1> QED BY CInvInvariant, <1>1, PTL

\* Seconds never go back but by setting the clock.
THEOREM SecondsGoOn == Spec => NeverGoesBack
<1>1. CInv /\ [Next]_vars => [sec' >= sec \/ Sets]_vars
  <2> SUFFICES ASSUME CInv, Next PROVE sec' >= sec \/ Sets
    OBVIOUS
  <2>1. CASE Reading
    BY <2>1, ReadingKeeps
  <2>2. CASE Restart
    BY <2>2, RestartKeeps
  <2>3. CASE Pass
    BY <2>3, PassKeeps DEF CInv, TypeOK
  <2> QED BY <2>1, <2>2, <2>3 DEF Next
<1> QED BY CInvInvariant, <1>1, PTL DEF Spec, NeverGoesBack
=============================================================================
