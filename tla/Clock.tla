-------------------------------- MODULE Clock --------------------------------
(***************************************************************************)
(* The clock of a device (config.c): seconds and a fraction that go on by   *)
(* what the counter of the 32 kHz oscillator has counted since the last     *)
(* reading.  There is no clock interrupt: a reading is made with every      *)
(* advertising event and, in a connection, with every measurement.          *)
(*                                                                          *)
(* Time is counted in ticks of that counter.  The conversion to             *)
(* microseconds with the measured frequency of the oscillator is left out.  *)
(***************************************************************************)
EXTENDS Naturals

CONSTANTS
  Width,    \* values of the counter and of a uint32_t: 2^32
  Mask,     \* config.c:87: ticks that a reading can count, 2^21
  Second,   \* ticks of a second
  Extra,    \* config.c:67: what a restart is taken to last
  Times,    \* the seconds a phone may set
  MaxTime,  \* bounds of a run: ticks, readings and restarts since
  MaxReads, \* the clock was set
  MaxStarts

ASSUME ClockAssumption ==
  /\ Width \in Nat \ {0} /\ Mask \in 1 .. Width /\ Second \in Nat \ {0} /\ Extra \in Nat
  /\ Times \subseteq Nat /\ MaxTime \in Nat /\ MaxReads \in Nat /\ MaxStarts \in Nat

VARIABLES
  rtc,   \* AP_AON->RTCCNT
  tik,   \* clkt.utc_time_tik
  sec,   \* clkt.utc_time_sec
  add,   \* clkt.utc_time_add
  regs,  \* SLEEP_R[3] and SLEEP_R[2], which a restart keeps
  ideal, \* what a perfect clock shows
  past   \* ticks since tik was read; readings and restarts since the clock was
         \* set, and whether these readings, without a restart, came in time

vars == <<rtc, tik, sec, add, regs, ideal, past>>

Clocks == [sec : Nat, add : Nat]

Init ==
  /\ rtc = 0 /\ tik = 0 /\ sec = 0 /\ add = 0
  /\ regs = [sec |-> 0, add |-> 0]
  /\ ideal = 0
  /\ past = [gap |-> 0, reads |-> 0, starts |-> 0, inTime |-> TRUE]

TypeOK ==
  /\ rtc \in 0 .. Width - 1 /\ tik \in 0 .. Width - 1
  /\ sec \in Nat /\ add \in 0 .. Second + Extra
  /\ regs \in Clocks /\ regs.add <= Second
  /\ ideal \in Nat
  /\ past \in [gap : Nat, reads : Nat, starts : Nat, inTime : BOOLEAN]

Shown == sec * Second + add
-----------------------------------------------------------------------------
\* mutant: a bit too few of the difference is kept
HalfKept(new, old) ==
  ((IF new <= old THEN Width + new - old ELSE (Width - 1) - old + new) % Width) % (Mask \div 2)

\* mutant: the difference is taken without its sign
Unsigned(new, old) == (IF new <= old THEN old - new ELSE new - old) % Mask

\* The ticks between two values of the counter, in unsigned arithmetic.  Its
\* two branches are the wrong way round, so that a tick is missed unless the
\* counter has wrapped.
Elapsed(new, old) ==
  ((IF new <= old THEN Width + new - old ELSE (Width - 1) - old + new) % Width) % Mask

\* Whole seconds go from the fraction to the seconds, but not the last one.
Carry(s, a) ==
  LET n == IF a > Second THEN (a - 1) \div Second ELSE 0 IN <<s + n, a - n * Second>>

Counted == add + Elapsed(rtc, tik)

\* mutant: the seconds are not saved
SavesNothing(c) == UNCHANGED regs

Saves(c) == regs' = [sec |-> c[1], add |-> c[2]]

\* get_utc_time_sec()
Reading ==
  /\ past.reads < MaxReads
  /\ LET c == Carry(sec, Counted) IN sec' = c[1] /\ add' = c[2] /\ Saves(c)
  /\ tik' = rtc
  /\ past' = [gap |-> 0, reads |-> past.reads + 1, starts |-> past.starts,
              inTime |-> past.inTime /\ past.gap < Mask]
  /\ UNCHANGED <<rtc, ideal>>

\* CMD_ID_UTC_TIME: the fraction stays as it is, and a reading follows.
SetTime(t) ==
  /\ LET c == Carry(t, add) IN sec' = c[1] /\ add' = c[2] /\ Saves(c)
  /\ tik' = rtc
  /\ ideal' = t * Second
  /\ past' = [gap |-> 0, reads |-> 0, starts |-> 0, inTime |-> TRUE]
  /\ UNCHANGED rtc

\* restore_utc_time_sec()
Restart ==
  /\ past.starts < MaxStarts
  /\ sec' = regs.sec /\ add' = regs.add + Extra
  /\ tik' = rtc
  /\ past' = [gap |-> 0, reads |-> past.reads, starts |-> past.starts + 1, inTime |-> FALSE]
  /\ UNCHANGED <<rtc, regs, ideal>>

Pass ==
  /\ ideal < MaxTime
  /\ rtc' = IF rtc = Width - 1 THEN 0 ELSE rtc + 1
  /\ ideal' = ideal + 1
  /\ past' = [past EXCEPT !.gap = @ + 1]
  /\ UNCHANGED <<tik, sec, add, regs>>

Sets == \E t \in Times : SetTime(t)

Next == Reading \/ Sets \/ Restart \/ Pass

Spec == Init /\ [][Next]_vars
-----------------------------------------------------------------------------
\* The clock is never further ahead of the time that passed than the fraction
\* it had when it was set and what the restarts added.
NeverAhead == Shown + past.gap <= ideal + Second + Extra * (past.starts + 1)

\* Readings that come in time lose at most a tick each.
LosesATick == past.inTime => ideal <= Shown + past.gap + past.reads

\* Seconds, which records are stamped with, never go back, not over a
\* restart either, but when the clock is set.
NeverGoesBack == [][sec' >= sec \/ Sets]_vars
=============================================================================
