---------------------------- MODULE TagAppProofs ----------------------------
(***************************************************************************)
(* TagApp's safety for every set of keys, length of the log and melody.    *)
(***************************************************************************)
EXTENDS TagApp, SequenceTheorems, TLAPS

SameKeys(s, t) ==
  t.new = s.new /\ t.key = s.key /\ t.own = s.own /\ t.saving = s.saving /\ t.cmd = s.cmd
SameSound(s, t) == t.sound = s.sound /\ t.lock = s.lock /\ t.timer = s.timer
SameRing(s, t) ==
  t.slots = s.slots /\ t.read = s.read /\ t.write = s.write /\ t.count = s.count
\* The log's own event apart.
SameEvents(s, t) == \A e \in {"TONE", "PIN", "CMD"} : e \in t.evts <=> e \in s.evts

\* The place to write is behind the messages that wait.
Ring(s) == s.write = (s.read + s.count) % QueueSize

\* The messages at c places from r on.
Messages(slots, r, c) == [i \in 1 .. c |-> slots[(r + i - 1) % QueueSize]]

\* What a step may do to the log: what LogIsQueue says, and Ring stays.
Logged(s, t) ==
  /\ Ring(t)
  /\ \/ Queue(t) = Queue(s)
     \/ \E m \in {"cmd", "button"} : Len(Queue(s)) < QueueSize /\ Queue(t) = Append(Queue(s), m)
     \/ Queue(t) = <<>>
-----------------------------------------------------------------------------
(* The inductive invariant.                                                *)

StoredKey == IF flash.key = Absent THEN Zeros ELSE flash.key

\* RAM and flash agree but for what is being saved, and the address is that of
\* the key but for what `apart' accounts for.
StoreInv ==
  /\ d.saving # "key" => d.key = StoredKey
  /\ d.saving # "addr" => flash.addr = d.own
  /\ d.saving = "key" => d.key = d.new /\ d.cmd[1] = "second"
  /\ d.saving = "addr" => d.cmd[1] = "second" \/ past.apart
  /\ d.saving # "addr" /\ flash.key \in Keys => flash.addr = AddrOf(flash.key) \/ past.apart
  /\ d.saving = "addr" /\ d.key \in Keys => d.own = AddrOf(d.key) \/ past.apart
  /\ d.saving # "no" => "CMD" \notin d.evts
  /\ "CMD" \in d.evts => d.cmd \in Commands

Pending(c) == "CMD" \in d.evts /\ d.cmd[1] = c
Installs   == d.saving # "no" /\ d.cmd[1] = "second"

\* The page only asks for a key, or is answered, once its user has given one.
WantInv ==
  page.inbox # <<>> \/ Pending("first") \/ Pending("second") \/ Installs => page.want \in Keys

\* An exchange with the phone has one message under way at a time: the first
\* half, its answer, the second half (which may be saved meanwhile) or its answer.
ExchangeInv ==
  /\ page.inbox \in {<<>>, <<"first">>, <<"second">>}
  /\ Pending("first") => d.cmd[2] = page.want[1]
  /\ Pending("second") => d.cmd[2] = page.want[2] /\ d.new[1] = page.want[1]
  /\ page.inbox = <<"first">> => d.new[1] = page.want[1]
  /\ Pending("first") \/ Pending("second") \/ Installs =>
       page.inbox = <<>> /\ ~page.told
  /\ page.inbox = <<"first">> => ~page.told
  /\ Installs => d.key = page.want

\* A key that is answered, or shown as set, is in use and in flash.
ToldInv ==
  page.told \/ page.inbox = <<"second">> =>
    page.want \in Keys /\ d.key = page.want /\ flash.key = page.want

\* What holds for every user, and what for one who waits for an answer.
AnyInv     == TypeOK /\ Ring(d) /\ StoppedIsSilent /\ StoreInv /\ WantInv
PatientInv == KeyIsWhole /\ ExchangeInv /\ ToldInv
-----------------------------------------------------------------------------
(* The log.                                                                *)

\* A number below the modulus is kept, one too large by the modulus brought back.
LEMMA ModOnce ==
  ASSUME NEW m \in Nat \ {0}, NEW x \in 0 .. m - 1
  PROVE  x % m = x /\ (m + x) % m = x
OBVIOUS

LEMMA SameRingLogged ==
  ASSUME NEW s, NEW t, Ring(s), SameRing(s, t)
  PROVE  Logged(s, t)
<1>1. Queue(t) = Queue(s) BY DEF SameRing, Queue
<1>2. Ring(t) BY DEF SameRing, Ring
<1> QED BY <1>1, <1>2 DEF Logged

\* A step to an empty log.
LEMMA EmptyLogged ==
  ASSUME NEW s, NEW t, t.count = 0, t.read \in 0 .. QueueSize - 1, t.write = t.read
  PROVE  Logged(s, t)
<1>1. Queue(t) = <<>> BY DEF Queue
<1>2. Ring(t) BY ModOnce, QueueSizeAssumption DEF Ring
<1> QED BY <1>1, <1>2 DEF Logged

\* The next place to write, and the places of the messages that wait, which
\* are other ones.
LEMMA RingPlaces ==
  ASSUME NEW r \in 0 .. QueueSize - 1, NEW c \in 0 .. QueueSize - 1
  PROVE  /\ (r + c) % QueueSize \in 0 .. QueueSize - 1
         /\ (((r + c) % QueueSize) + 1) % QueueSize = (r + (c + 1)) % QueueSize
         /\ \A i \in 1 .. c : (r + i - 1) % QueueSize # (r + c) % QueueSize
<1> USE QueueSizeAssumption
<1>1. \A x \in 0 .. QueueSize - 1 : x % QueueSize = x /\ (QueueSize + x) % QueueSize = x
  BY ModOnce
<1>2. ASSUME NEW x \in 0 .. (2 * QueueSize) - 1
      PROVE  x % QueueSize = IF x < QueueSize THEN x ELSE x - QueueSize
  <2>1. CASE x < QueueSize BY <1>1, <2>1
  <2>2. CASE x >= QueueSize
    <3>1. x - QueueSize \in 0 .. QueueSize - 1 /\ x = QueueSize + (x - QueueSize) BY <2>2
    <3> QED BY <1>1, <2>2, <3>1
  <2> QED BY <2>1, <2>2
<1>3. (r + c) % QueueSize = IF r + c < QueueSize THEN r + c ELSE r + c - QueueSize
  BY <1>2
<1>4. (r + (c + 1)) % QueueSize = IF r + c + 1 < QueueSize THEN r + c + 1 ELSE r + c + 1 - QueueSize
  BY <1>2
<1>5. (((r + c) % QueueSize) + 1) % QueueSize = (r + (c + 1)) % QueueSize
  <2> DEFINE w == (r + c) % QueueSize
  <2>1. w \in 0 .. QueueSize - 1 /\ (w = r + c \/ w = r + c - QueueSize) BY <1>3
  <2> HIDE DEF w
  <2>2. (w + 1) % QueueSize = IF w + 1 < QueueSize THEN w + 1 ELSE w + 1 - QueueSize
    BY <1>2, <2>1
  <2>3. (w + 1) % QueueSize = (r + (c + 1)) % QueueSize BY <1>3, <1>4, <2>1, <2>2 DEF w
  <2> QED BY <2>3 DEF w
<1>6. ASSUME NEW i \in 1 .. c
      PROVE  (r + i - 1) % QueueSize # (r + c) % QueueSize
  <2>1. (r + i - 1) % QueueSize = IF r + i - 1 < QueueSize THEN r + i - 1 ELSE r + i - 1 - QueueSize
    BY <1>2
  <2> QED BY <1>3, <2>1
<1> QED BY <1>3, <1>5, <1>6

\* The messages that wait are `count' ones.
LEMMA QueueLen ==
  ASSUME NEW r \in 0 .. QueueSize - 1, NEW c \in 0 .. QueueSize,
         NEW slots \in [0 .. QueueSize - 1 -> {"none", "cmd", "button"}]
  PROVE  Messages(slots, r, c) \in Seq({"none", "cmd", "button"}) /\ Len(Messages(slots, r, c)) = c
<1> DEFINE S == {"none", "cmd", "button"}
           q == [i \in 1 .. c |-> slots[(r + i - 1) % QueueSize]]
<1>1. c \in Nat BY QueueSizeAssumption
<1>2. \A i \in 1 .. c : (r + i - 1) % QueueSize \in 0 .. QueueSize - 1 BY QueueSizeAssumption
<1>3. q \in [1 .. c -> S] BY <1>2
<1> HIDE DEF q
<1>4. q \in Seq(S) BY <1>1, <1>3, SeqDef
<1>5. Len(q) = c BY <1>1, <1>3, <1>4
<1> QED BY <1>4, <1>5 DEF q, Messages

LEMMA RingAppends ==
  ASSUME NEW r \in 0 .. QueueSize - 1, NEW c \in 0 .. QueueSize - 1,
         NEW slots \in [0 .. QueueSize - 1 -> {"none", "cmd", "button"}], NEW m \in {"cmd", "button"}
  PROVE  Messages([slots EXCEPT ![(r + c) % QueueSize] = m], r, c + 1) = Append(Messages(slots, r, c), m)
<1> DEFINE w == (r + c) % QueueSize
           p(i) == (r + i - 1) % QueueSize
           old == [i \in 1 .. c |-> slots[p(i)]]
           new == [i \in 1 .. c + 1 |-> [slots EXCEPT ![w] = m][p(i)]]
           S == {"none", "cmd", "button"}
<1>0. c \in Nat BY QueueSizeAssumption
<1>1. \A i \in 1 .. c : p(i) # w BY RingPlaces
<1>2. p(c + 1) = w
  <2>1. r + (c + 1) - 1 = r + c BY QueueSizeAssumption
  <2> QED BY <2>1
<1>3. w \in 0 .. QueueSize - 1 BY RingPlaces
<1>4. \A i \in 1 .. c : p(i) \in 0 .. QueueSize - 1 BY QueueSizeAssumption
<1> HIDE DEF w, p
<1>5. old \in [1 .. c -> S] BY <1>4
<1>6. \A i \in 1 .. c : new[i] = old[i]
  <2> TAKE i \in 1 .. c
  <2>1. i \in 1 .. c + 1 BY <1>0
  <2> QED BY <1>1, <1>3, <1>4, <2>1
<1>7. new[c + 1] = m
  <2>1. c + 1 \in 1 .. c + 1 BY <1>0
  <2> QED BY <1>2, <1>3, <2>1
<1>8. DOMAIN new = 1 .. c + 1 OBVIOUS
<1>9. new = [i \in DOMAIN new |-> new[i]] OBVIOUS
<1> HIDE DEF old, new
<1>10. old \in Seq(S) /\ Len(old) = c
  <2>1. old \in Seq(S) BY <1>0, <1>5, SeqDef
  <2> QED BY <1>0, <1>5, <2>1
<1>11. Append(old, m) = [i \in 1 .. c + 1 |-> IF i <= c THEN old[i] ELSE m]
  <2> DEFINE app == [i \in 1 .. c + 1 |-> IF i <= c THEN old[i] ELSE m]
  <2>1. DOMAIN Append(old, m) = 1 .. c + 1 BY <1>0, <1>10
  <2>2. \A i \in 1 .. c + 1 : Append(old, m)[i] = IF i <= c THEN old[i] ELSE m
    BY <1>0, <1>10
  <2>3. Append(old, m) \in Seq(S) BY <1>10
  <2>5. Append(old, m) \in [1 .. Len(Append(old, m)) -> S] BY <2>3, LenProperties
  <2>4. Append(old, m) = [i \in DOMAIN Append(old, m) |-> Append(old, m)[i]] BY <2>5
  <2> QED BY <2>1, <2>2, <2>4
<1>12. new = [i \in 1 .. c + 1 |-> IF i <= c THEN old[i] ELSE m]
  <2>1. \A i \in 1 .. c + 1 : new[i] = IF i <= c THEN old[i] ELSE m
    <3> TAKE i \in 1 .. c + 1
    <3>1. i <= c \/ i = c + 1 BY <1>0
    <3>2. i <= c => i \in 1 .. c BY <1>0
    <3> QED BY <1>0, <1>6, <1>7, <3>1, <3>2
  <2> QED BY <1>8, <1>9, <2>1
<1>13. new = Append(old, m) BY <1>11, <1>12
<1> QED BY <1>13 DEF new, old, w, p, Messages

\* nus_log_printf()
LEMMA QueueLogIs ==
  ASSUME NEW s \in Devices, NEW m \in {"cmd", "button"}
  PROVE  /\ QueueLog(s, m) \in Devices
         /\ SameKeys(s, QueueLog(s, m)) /\ SameSound(s, QueueLog(s, m))
         /\ SameEvents(s, QueueLog(s, m))
         /\ Ring(s) => Logged(s, QueueLog(s, m))
<1> DEFINE t == [s EXCEPT !.slots[s.write] = m, !.write = (@ + 1) % QueueSize, !.count = @ + 1,
                          !.evts = @ \cup {"LOG"}]
<1>1. CASE s.count >= QueueSize
  <2>1. QueueLog(s, m) = s BY <1>1 DEF QueueLog
  <2>2. SameKeys(s, s) /\ SameSound(s, s) /\ SameEvents(s, s) /\ SameRing(s, s)
    BY DEF SameKeys, SameSound, SameEvents, SameRing
  <2> QED BY <2>1, <2>2, SameRingLogged
<1>2. CASE s.count < QueueSize
  <2>0. QueueLog(s, m) = t BY <1>2, QueueSizeAssumption DEF QueueLog, Devices
  <2>1. (s.write + 1) % QueueSize \in 0 .. QueueSize - 1 /\ s.count + 1 \in 0 .. QueueSize
    BY <1>2, QueueSizeAssumption DEF Devices
  <2>2. t \in Devices
    <3>1. s.evts \cup {"LOG"} \in SUBSET Events BY DEF Devices, Events
    <3>2. [s.slots EXCEPT ![s.write] = m] \in [0 .. QueueSize - 1 -> {"none", "cmd", "button"}]
      BY DEF Devices
    <3> QED BY <2>1, <3>1, <3>2 DEF Devices
  <2>3. SameKeys(s, t) /\ SameSound(s, t) BY DEF SameKeys, SameSound, Devices
  <2>4. SameEvents(s, t) BY DEF SameEvents, Devices
  <2>5. ASSUME Ring(s) PROVE Logged(s, t)
    <3>1. /\ t.read = s.read /\ t.count = s.count + 1 /\ t.write = (s.write + 1) % QueueSize
          /\ t.slots = [s.slots EXCEPT ![s.write] = m]
      BY DEF Devices
    <3>2. s.read \in 0 .. QueueSize - 1 /\ s.count \in 0 .. QueueSize - 1
          /\ s.slots \in [0 .. QueueSize - 1 -> {"none", "cmd", "button"}]
      BY <1>2, QueueSizeAssumption DEF Devices
    <3> HIDE DEF t
    <3>3. s.write = (s.read + s.count) % QueueSize BY <2>5 DEF Ring
    <3>4. (((s.read + s.count) % QueueSize) + 1) % QueueSize = (s.read + (s.count + 1)) % QueueSize
      BY <3>2, RingPlaces
    <3>5. Ring(t) BY <3>1, <3>3, <3>4 DEF Ring
    <3>6. Queue(t) = Append(Queue(s), m)
      <4>1. /\ Queue(t) = Messages([s.slots EXCEPT ![(s.read + s.count) % QueueSize] = m], s.read, s.count + 1)
            /\ Queue(s) = Messages(s.slots, s.read, s.count)
        BY <3>1, <3>3 DEF Queue, Messages
      <4>2. Messages([s.slots EXCEPT ![(s.read + s.count) % QueueSize] = m], s.read, s.count + 1)
              = Append(Messages(s.slots, s.read, s.count), m)
        BY <3>2, RingAppends, Zenon
      <4> QED BY <4>1, <4>2
    <3>7. Len(Queue(s)) < QueueSize
      <4>1. Len(Messages(s.slots, s.read, s.count)) = s.count
        <5>1. s.count \in 0 .. QueueSize BY <3>2, QueueSizeAssumption
        <5> QED BY <3>2, <5>1, QueueLen, Zenon
      <4>2. s.count < QueueSize BY <3>2, QueueSizeAssumption
      <4> QED BY <4>1, <4>2 DEF Queue, Messages
    <3> QED BY <3>5, <3>6, <3>7 DEF Logged
  <2> QED BY <2>0, <2>2, <2>3, <2>4, <2>5
<1> QED BY <1>1, <1>2, QueueSizeAssumption DEF Devices

\* nus_log_process()
LEMMA SendLogIs ==
  ASSUME NEW s \in Devices
  PROVE  /\ SendLog(s) \in Devices
         /\ SameKeys(s, SendLog(s)) /\ SameSound(s, SendLog(s)) /\ SameEvents(s, SendLog(s))
         /\ Ring(s) => Logged(s, SendLog(s))
<1> DEFINE t == [s EXCEPT !.slots = [i \in DOMAIN @ |-> "none"], !.read = (@ + s.count) % QueueSize,
                          !.count = 0]
<1>0. SendLog(s) = t BY DEF SendLog
<1>1. (s.read + s.count) % QueueSize \in 0 .. QueueSize - 1 /\ 0 \in 0 .. QueueSize
  BY QueueSizeAssumption DEF Devices
<1>2. t \in Devices
  <2>1. [i \in DOMAIN s.slots |-> "none"] \in [0 .. QueueSize - 1 -> {"none", "cmd", "button"}]
    BY DEF Devices
  <2> QED BY <1>1, <2>1 DEF Devices
<1>3. SameKeys(s, t) /\ SameSound(s, t) BY DEF SameKeys, SameSound, Devices
<1>4. SameEvents(s, t) BY DEF SameEvents, Devices
<1>5. ASSUME Ring(s) PROVE Logged(s, t)
  <2>1. t.count = 0 /\ t.read = (s.read + s.count) % QueueSize /\ t.write = s.write BY DEF Devices
  <2> HIDE DEF t
  <2> QED BY <1>1, <1>5, <2>1, EmptyLogged DEF Ring
<1> QED BY <1>0, <1>2, <1>3, <1>4, <1>5
-----------------------------------------------------------------------------
(* The buzzer.                                                             *)

LEMMA NoteIs ==
  ASSUME NEW s \in Devices, NEW b \in BOOLEAN, NEW i \in 1 .. Len(Melody)
  PROVE  \A t : t = [Note(s, b) EXCEPT !.timer = TRUE, !.idx = i] =>
           /\ t \in Devices /\ t.evts = s.evts /\ t.lock = t.sound
           /\ SameKeys(s, t) /\ SameRing(s, t)
<1> DEFINE t == [Note(s, b) EXCEPT !.timer = TRUE, !.idx = i]
<1>1. t \in Devices BY ZenonT(60) DEF Note, Devices
<1>2. t.evts = s.evts /\ SameKeys(s, t) /\ SameRing(s, t)
  BY DEF Note, Devices, SameKeys, SameRing
<1>3. t.sound = b /\ t.lock = b BY ZenonT(60) DEF Note, Devices
<1> HIDE DEF t
<1>4. t.lock = t.sound BY <1>3, Zenon
<1> QED BY <1>1, <1>2, <1>4 DEF t

LEMMA ToneIs ==
  ASSUME NEW s \in Devices
  PROVE  /\ Tone(s) \in Devices /\ Tone(s).evts = s.evts /\ Tone(s).lock = Tone(s).sound
         /\ SameKeys(s, Tone(s)) /\ SameRing(s, Tone(s))
<1>1. s.idx \in 1 .. Len(Melody) BY DEF Devices
<1>2. Len(Melody) \in Nat \ {0} BY MelodyAssumption
<1>3. (s.idx % Len(Melody)) + 1 \in 1 .. Len(Melody) BY <1>1, <1>2
<1>4. Melody[s.idx] \in BOOLEAN BY <1>1, MelodyAssumption
<1>5. Tone(s) = [Note(s, Melody[s.idx]) EXCEPT !.timer = TRUE, !.idx = (s.idx % Len(Melody)) + 1]
  BY DEF Tone, Note, Devices
<1> DEFINE b == Melody[s.idx]
           i == (s.idx % Len(Melody)) + 1
<1>6. b \in BOOLEAN /\ i \in 1 .. Len(Melody) BY <1>3, <1>4
<1>7. Tone(s) = [Note(s, b) EXCEPT !.timer = TRUE, !.idx = i] BY <1>5
<1> HIDE DEF b, i
<1> QED BY <1>6, <1>7, NoteIs, Zenon

LEMMA BuzzerStartIs ==
  ASSUME NEW s \in Devices
  PROVE  LET t == BuzzerStart(s) IN
         /\ t \in Devices /\ t.evts = s.evts /\ t.lock = t.sound
         /\ SameKeys(s, t) /\ SameRing(s, t)
<1> DEFINE u == [s EXCEPT !.timer = FALSE, !.idx = 1]
<1>1. Len(Melody) \in Nat \ {0} BY MelodyAssumption
<1>2. 1 \in 1 .. Len(Melody) BY <1>1
<1>3. u \in Devices BY <1>2, ZenonT(60) DEF Devices
<1>4. u.evts = s.evts /\ SameKeys(s, u) /\ SameRing(s, u) BY DEF Devices, SameKeys, SameRing
<1>5. BuzzerStart(s) = Tone(u) BY DEF BuzzerStart
<1> HIDE DEF u
<1>6. /\ Tone(u) \in Devices /\ Tone(u).evts = u.evts /\ Tone(u).lock = Tone(u).sound
      /\ SameKeys(u, Tone(u)) /\ SameRing(u, Tone(u))
  BY <1>3, ToneIs
<1> QED BY <1>4, <1>5, <1>6 DEF SameKeys, SameRing

LEMMA BuzzerStopIs ==
  ASSUME NEW s \in Devices
  PROVE  LET t == BuzzerStop(s) IN
         /\ t \in Devices /\ t.evts = s.evts /\ t.lock = t.sound /\ ~t.sound /\ ~t.timer
         /\ SameKeys(s, t) /\ SameRing(s, t)
<1> DEFINE t == [s EXCEPT !.sound = FALSE, !.lock = FALSE, !.timer = FALSE]
<1>1. BuzzerStop(s) = t BY DEF BuzzerStop
<1>2. t \in Devices BY ZenonT(60) DEF Devices
<1>3. t.evts = s.evts /\ SameKeys(s, t) /\ SameRing(s, t) BY DEF Devices, SameKeys, SameRing
<1>4. t.sound = FALSE /\ t.lock = FALSE /\ t.timer = FALSE BY DEF Devices
<1> QED BY <1>1, <1>2, <1>3, <1>4
-----------------------------------------------------------------------------
(* The commands, as seen from the RAM `s' they are handled in.             *)

FirstStep(s, u) ==
  /\ u.new = [s.new EXCEPT ![1] = s.cmd[2]] /\ u.key = s.key /\ u.own = s.own /\ u.saving = s.saving
  /\ SameSound(s, u)
SecondStep(s, u) ==
  /\ u.new = <<s.new[1], s.cmd[2]>> /\ u.key = u.new /\ u.own = s.own
  /\ u.saving = IF u.new = s.key THEN "no" ELSE "key"
  /\ SameSound(s, u)
AddressStep(s, u) ==
  /\ u.new = s.new /\ u.key = s.key
  /\ (u.own = s.own /\ u.saving = s.saving) \/ (u.own = "other" /\ u.saving = "addr")
  /\ SameSound(s, u)
BuzzerStep(s, u) ==
  /\ u.new = s.new /\ u.key = s.key /\ u.own = s.own /\ u.saving = s.saving
  /\ u.lock = u.sound
  /\ s.cmd[2] = FALSE => ~u.sound /\ ~u.timer

LEMMA CommandTypes ==
  ASSUME NEW c \in Commands
  PROVE  /\ c[1] \in {"first", "second", "buzzer", "address"}
         /\ c[1] \in {"first", "second"} => c[2] \in Halves
         /\ c[1] = "buzzer" => c[2] \in BOOLEAN
BY DEF Commands, Halves

LEMMA FirstIs ==
  ASSUME NEW t \in Devices, NEW h \in Halves
  PROVE  /\ First(t, h) \in Devices /\ First(t, h).new = [t.new EXCEPT ![1] = h]
         /\ First(t, h).key = t.key /\ First(t, h).own = t.own /\ First(t, h).saving = t.saving
         /\ First(t, h).cmd = t.cmd /\ First(t, h).evts = t.evts
         /\ SameSound(t, First(t, h)) /\ SameRing(t, First(t, h))
<1> DEFINE n == [t.new EXCEPT ![1] = h]
           u == [t EXCEPT !.new = n]
<1>1. First(t, h) = u BY DEF First, Devices
<1>2. n \in HalfValues \X HalfValues BY DEF Devices, HalfValues
<1> HIDE DEF n
<1>3. u \in Devices BY <1>2, ZenonT(60) DEF Devices
<1>4. u.new = n /\ u.key = t.key /\ u.own = t.own /\ u.saving = t.saving /\ u.cmd = t.cmd /\ u.evts = t.evts
  BY DEF Devices
<1>5. SameSound(t, u) /\ SameRing(t, u) BY DEF Devices, SameSound, SameRing
<1> QED BY <1>1, <1>3, <1>4, <1>5 DEF n

LEMMA SecondIs ==
  ASSUME NEW t \in Devices, NEW h \in Halves
  PROVE  /\ Second(t, h) \in Devices /\ Second(t, h).new = <<t.new[1], h>>
         /\ Second(t, h).key = <<t.new[1], h>> /\ Second(t, h).own = t.own
         /\ Second(t, h).saving = IF <<t.new[1], h>> = t.key THEN "no" ELSE "key"
         /\ Second(t, h).cmd = t.cmd /\ Second(t, h).evts = t.evts
         /\ SameSound(t, Second(t, h)) /\ SameRing(t, Second(t, h))
<1> DEFINE n == <<t.new[1], h>>
           v == IF n = t.key THEN "no" ELSE "key"
           u == [t EXCEPT !.new = n, !.key = n, !.saving = v]
<1>1. Second(t, h) = u BY DEF Second
<1>2. n \in HalfValues \X HalfValues BY DEF Devices, HalfValues
<1>3. v \in {"no", "key", "addr"} OBVIOUS
<1> HIDE DEF n, v
<1>4. u \in Devices BY <1>2, <1>3, ZenonT(60) DEF Devices
<1>5. u.new = n /\ u.key = n /\ u.own = t.own /\ u.saving = v /\ u.cmd = t.cmd /\ u.evts = t.evts
  BY DEF Devices
<1>6. SameSound(t, u) /\ SameRing(t, u) BY DEF Devices, SameSound, SameRing
<1> QED BY <1>1, <1>4, <1>5, <1>6 DEF n, v

LEMMA SetAddressIs ==
  ASSUME NEW t \in Devices
  PROVE  LET u == SetAddress(t) IN
         /\ u \in Devices /\ u.new = t.new /\ u.key = t.key /\ u.cmd = t.cmd /\ u.evts = t.evts
         /\ (u.own = t.own /\ u.saving = t.saving) \/ (u.own = "other" /\ u.saving = "addr")
         /\ SameSound(t, u) /\ SameRing(t, u)
<1> DEFINE u == [t EXCEPT !.own = "other", !.saving = "addr"]
<1>1. CASE t.own = "other"
  <2>1. SetAddress(t) = t BY <1>1 DEF SetAddress
  <2>2. SameSound(t, t) /\ SameRing(t, t) BY DEF SameSound, SameRing
  <2> QED BY <2>1, <2>2
<1>2. CASE t.own # "other"
  <2>1. SetAddress(t) = u BY <1>2 DEF SetAddress
  <2>2. "other" \in AddrValues BY DEF AddrValues
  <2>3. u \in Devices BY <2>2, ZenonT(60) DEF Devices
  <2>4. /\ u.new = t.new /\ u.key = t.key /\ u.cmd = t.cmd /\ u.evts = t.evts
        /\ u.own = "other" /\ u.saving = "addr"
    BY DEF Devices
  <2>5. SameSound(t, u) /\ SameRing(t, u) BY DEF Devices, SameSound, SameRing
  <2> QED BY <2>1, <2>3, <2>4, <2>5
<1> QED BY <1>1, <1>2

\* cmd_parser(): what any of the commands does.
LEMMA CommandedIs ==
  ASSUME NEW s \in Devices, s.cmd \in Commands
  PROVE  LET u == Commanded(s) IN
         /\ u \in Devices /\ u.cmd = s.cmd /\ SameEvents(s, u)
         /\ Ring(s) => Logged(s, u)
         /\ \/ s.cmd[1] = "first" /\ FirstStep(s, u)
            \/ s.cmd[1] = "second" /\ SecondStep(s, u)
            \/ s.cmd[1] = "address" /\ AddressStep(s, u)
            \/ s.cmd[1] = "buzzer" /\ BuzzerStep(s, u)
<1> DEFINE t == QueueLog(s, "cmd")
<1>1. /\ t \in Devices /\ SameKeys(s, t) /\ SameSound(s, t) /\ SameEvents(s, t)
      /\ Ring(s) => Logged(s, t)
  BY QueueLogIs
<1>2. /\ s.cmd[1] \in {"first", "second", "buzzer", "address"}
      /\ s.cmd[1] \in {"first", "second"} => s.cmd[2] \in Halves
      /\ s.cmd[1] = "buzzer" => s.cmd[2] \in BOOLEAN
  BY CommandTypes
<1>3. Commanded(s) =
        CASE s.cmd[1] = "first"   -> First(t, s.cmd[2])
          [] s.cmd[1] = "second"  -> Second(t, s.cmd[2])
          [] s.cmd[1] = "address" -> SetAddress(t)
          [] s.cmd[1] = "buzzer"  -> IF s.cmd[2] THEN BuzzerStart(t) ELSE BuzzerStop(t)
  BY DEF Commanded
<1> HIDE DEF t
\* What does not touch the log leaves what it did to the log.
<1>4. ASSUME NEW u, SameRing(t, u), Ring(s) PROVE Logged(s, u)
  <2>1. Logged(s, t) BY <1>1, <1>4
  <2>2. Queue(u) = Queue(t) BY <1>4 DEF SameRing, Queue
  <2>3. Ring(u) BY <1>4, <2>1 DEF SameRing, Ring, Logged
  <2> QED BY <2>1, <2>2, <2>3 DEF Logged
<1>5. CASE s.cmd[1] = "first"
  <2>1. Commanded(s) = First(t, s.cmd[2]) BY <1>3, <1>5
  <2>2. s.cmd[2] \in Halves BY <1>2, <1>5
  <2> DEFINE u == First(t, s.cmd[2])
  <2>3. /\ u \in Devices /\ u.new = [t.new EXCEPT ![1] = s.cmd[2]]
        /\ u.key = t.key /\ u.own = t.own /\ u.saving = t.saving
        /\ u.cmd = t.cmd /\ u.evts = t.evts
        /\ SameSound(t, u) /\ SameRing(t, u)
    BY <1>1, <2>2, FirstIs
  <2> HIDE DEF u
  <2>4. FirstStep(s, u) BY <1>1, <2>3 DEF FirstStep, SameKeys, SameSound
  <2>5. u.cmd = s.cmd /\ SameEvents(s, u) BY <1>1, <2>3 DEF SameKeys, SameEvents
  <2> QED BY <1>4, <1>5, <2>1, <2>3, <2>4, <2>5 DEF u
<1>6. CASE s.cmd[1] = "second"
  <2>1. Commanded(s) = Second(t, s.cmd[2]) BY <1>3, <1>6
  <2>2. s.cmd[2] \in Halves BY <1>2, <1>6
  <2> DEFINE u == Second(t, s.cmd[2])
  <2>3. /\ u \in Devices /\ u.new = <<t.new[1], s.cmd[2]>>
        /\ u.key = <<t.new[1], s.cmd[2]>> /\ u.own = t.own
        /\ u.saving = IF <<t.new[1], s.cmd[2]>> = t.key THEN "no" ELSE "key"
        /\ u.cmd = t.cmd /\ u.evts = t.evts
        /\ SameSound(t, u) /\ SameRing(t, u)
    BY <1>1, <2>2, SecondIs
  <2> HIDE DEF u
  <2>4. SecondStep(s, u) BY <1>1, <2>3 DEF SecondStep, SameKeys, SameSound
  <2>5. u.cmd = s.cmd /\ SameEvents(s, u) BY <1>1, <2>3 DEF SameKeys, SameEvents
  <2> QED BY <1>4, <1>6, <2>1, <2>3, <2>4, <2>5 DEF u
<1>7. CASE s.cmd[1] = "address"
  <2>1. Commanded(s) = SetAddress(t) BY <1>3, <1>7
  <2> DEFINE u == SetAddress(t)
  <2>3. /\ u \in Devices /\ u.new = t.new /\ u.key = t.key /\ u.cmd = t.cmd /\ u.evts = t.evts
        /\ (u.own = t.own /\ u.saving = t.saving) \/ (u.own = "other" /\ u.saving = "addr")
        /\ SameSound(t, u) /\ SameRing(t, u)
    BY <1>1, SetAddressIs
  <2> HIDE DEF u
  <2>4. AddressStep(s, u) BY <1>1, <2>3 DEF AddressStep, SameKeys, SameSound
  <2>5. u.cmd = s.cmd /\ SameEvents(s, u) BY <1>1, <2>3 DEF SameKeys, SameEvents
  <2> QED BY <1>4, <1>7, <2>1, <2>3, <2>4, <2>5 DEF u
<1>8. CASE s.cmd[1] = "buzzer"
  <2>1. Commanded(s) = IF s.cmd[2] THEN BuzzerStart(t) ELSE BuzzerStop(t) BY <1>3, <1>8
  <2> DEFINE u == Commanded(s)
  <2>2. /\ u \in Devices /\ u.evts = t.evts /\ u.lock = u.sound
        /\ SameKeys(t, u) /\ SameRing(t, u)
        /\ s.cmd[2] = FALSE => ~u.sound /\ ~u.timer
    <3>1. CASE s.cmd[2] = TRUE
      <4>1. u = BuzzerStart(t) BY <2>1, <3>1
      <4> QED BY <1>1, <3>1, <4>1, BuzzerStartIs
    <3>2. CASE s.cmd[2] = FALSE
      <4>1. u = BuzzerStop(t) BY <2>1, <3>2
      <4> QED BY <1>1, <4>1, BuzzerStopIs
    <3> QED BY <1>2, <1>8, <3>1, <3>2
  <2> HIDE DEF u
  <2>4. BuzzerStep(s, u) BY <1>1, <2>2 DEF BuzzerStep, SameKeys
  <2>5. u.cmd = s.cmd /\ SameEvents(s, u) BY <1>1, <2>2 DEF SameKeys, SameEvents
  <2> QED BY <1>4, <1>8, <2>2, <2>4, <2>5 DEF u
<1> QED BY <1>2, <1>5, <1>6, <1>7, <1>8
-----------------------------------------------------------------------------
(* Saves, events and resets.                                               *)

LEMMA KeySavedIs ==
  ASSUME NEW s \in Devices
  PROVE  LET u == KeySaved(s) IN
         /\ u \in Devices /\ u.key = s.key /\ u.cmd = s.cmd /\ u.evts = s.evts
         /\ \/ u.own = s.own /\ u.saving = "no" /\ s.own = AddrOf(s.new)
            \/ u.own = AddrOf(s.new) /\ u.saving = "addr"
         /\ SameSound(s, u) /\ SameRing(s, u)
<1> DEFINE a == AddrOf(s.new)
           n == [s.new EXCEPT ![1] = "spoilt"]
           w == IF s.own = a THEN "no" ELSE "addr"
           u == [s EXCEPT !.new = n, !.own = a, !.saving = w]
<1>1. a \in AddrValues BY DEF AddrOf, AddrValues, Devices
<1>2. n \in HalfValues \X HalfValues BY DEF Devices, HalfValues
<1>3. w \in {"no", "key", "addr"} OBVIOUS
<1>4. KeySaved(s) = u
  <2> DEFINE t == [s EXCEPT !.new[1] = "spoilt"]
  <2>1. t = [s EXCEPT !.new = n] OBVIOUS
  <2>2. CASE s.own = a
    <3>1. KeySaved(s) = [t EXCEPT !.saving = "no"] BY <2>2 DEF KeySaved
    <3>2. [[s EXCEPT !.new = n] EXCEPT !.saving = "no"] = u BY <2>2 DEF Devices
    <3> QED BY <2>1, <3>1, <3>2
  <2>3. CASE s.own # a
    <3>1. KeySaved(s) = [t EXCEPT !.own = a, !.saving = "addr"] BY <2>3 DEF KeySaved
    <3>2. [[s EXCEPT !.new = n] EXCEPT !.own = a, !.saving = "addr"] = u BY <2>3 DEF Devices
    <3> QED BY <2>1, <3>1, <3>2
  <2> QED BY <2>2, <2>3
<1>5. \/ a = s.own /\ w = "no"
      \/ w = "addr"
  OBVIOUS
<1>9. a = AddrOf(s.new) OBVIOUS
<1> HIDE DEF a, n, w
<1>6. u \in Devices BY <1>1, <1>2, <1>3, ZenonT(60) DEF Devices
<1>7. u.own = a /\ u.saving = w /\ u.key = s.key /\ u.cmd = s.cmd /\ u.evts = s.evts BY DEF Devices
<1>8. SameSound(s, u) /\ SameRing(s, u) BY DEF Devices, SameSound, SameRing
<1> QED BY <1>4, <1>5, <1>6, <1>7, <1>8, <1>9

LEMMA AddrSavedIs ==
  ASSUME NEW s \in Devices
  PROVE  LET u == AddrSaved(s) IN
         /\ u \in Devices /\ u.key = s.key /\ u.new = s.new /\ u.own = s.own
         /\ u.cmd = s.cmd /\ u.evts = s.evts /\ u.saving = "no"
         /\ SameSound(s, u) /\ SameRing(s, u)
<1> DEFINE u == [s EXCEPT !.saving = "no", !.reboot = TRUE]
<1>1. AddrSaved(s) = u BY DEF AddrSaved
<1>2. u \in Devices BY ZenonT(60) DEF Devices
<1>3. /\ u.key = s.key /\ u.new = s.new /\ u.own = s.own
      /\ u.cmd = s.cmd /\ u.evts = s.evts /\ u.saving = "no"
  BY DEF Devices
<1>4. SameSound(s, u) /\ SameRing(s, u) BY DEF Devices, SameSound, SameRing
<1> QED BY <1>1, <1>2, <1>3, <1>4

LEMMA DoneIs ==
  ASSUME NEW s \in Devices
  PROVE  LET u == Done(s) IN
         /\ u \in Devices /\ u.key = s.key /\ u.new = s.new /\ u.own = s.own
         /\ u.evts = s.evts /\ u.saving = s.saving
         /\ u.saving # "no" => u.cmd = s.cmd
         /\ SameSound(s, u) /\ SameRing(s, u)
<1> DEFINE u == [s EXCEPT !.cmd = Handled]
<1>1. CASE s.saving = "no"
  <2>1. Done(s) = u BY <1>1 DEF Done
  <2>2. u \in Devices BY ZenonT(60) DEF Devices
  <2>3. /\ u.key = s.key /\ u.new = s.new /\ u.own = s.own /\ u.evts = s.evts
        /\ u.saving = s.saving
    BY DEF Devices
  <2>4. SameSound(s, u) /\ SameRing(s, u) BY DEF Devices, SameSound, SameRing
  <2> QED BY <1>1, <2>1, <2>2, <2>3, <2>4
<1>2. CASE s.saving # "no"
  <2>1. Done(s) = s BY <1>2 DEF Done
  <2>2. SameSound(s, s) /\ SameRing(s, s) BY DEF SameSound, SameRing
  <2> QED BY <2>1, <2>2
<1> QED BY <1>1, <1>2

\* Events come and go one at a time.
LEMMA EventsAre ==
  ASSUME NEW s \in Devices, NEW E \in SUBSET Events
  PROVE  LET t == [s EXCEPT !.evts = E] IN
         t \in Devices /\ t.evts = E /\ SameKeys(s, t) /\ SameSound(s, t) /\ SameRing(s, t)
<1> DEFINE t == [s EXCEPT !.evts = E]
<1>1. t \in Devices BY ZenonT(60) DEF Devices
<1>2. t.evts = E /\ SameKeys(s, t) /\ SameSound(s, t) /\ SameRing(s, t)
  BY DEF Devices, SameKeys, SameSound, SameRing
<1> QED BY <1>1, <1>2

LEMMA WritesIs ==
  ASSUME NEW s \in Devices, NEW c \in Commands
  PROVE  LET t == [s EXCEPT !.cmd = c, !.evts = @ \cup {"CMD"}] IN
         /\ t \in Devices /\ t.cmd = c /\ t.evts = s.evts \cup {"CMD"}
         /\ t.new = s.new /\ t.key = s.key /\ t.own = s.own /\ t.saving = s.saving
         /\ SameSound(s, t) /\ SameRing(s, t)
<1> DEFINE E == s.evts \cup {"CMD"}
           t == [s EXCEPT !.cmd = c, !.evts = E]
<1>1. E \in SUBSET Events BY DEF Devices, Events
<1> HIDE DEF E
<1>2. t \in Devices BY <1>1, ZenonT(60) DEF Devices
<1>3. /\ t.cmd = c /\ t.evts = E
      /\ t.new = s.new /\ t.key = s.key /\ t.own = s.own /\ t.saving = s.saving
  BY DEF Devices
<1>4. SameSound(s, t) /\ SameRing(s, t) BY DEF Devices, SameSound, SameRing
<1> QED BY <1>2, <1>3, <1>4 DEF E

LEMMA RamIs ==
  ASSUME NEW f \in Flashes
  PROVE  /\ Ram(f) \in Devices
         /\ Ram(f).evts = {} /\ Ram(f).saving = "no" /\ Ram(f).own = f.addr
         /\ Ram(f).key = IF f.key = Absent THEN Zeros ELSE f.key
         /\ Ram(f).sound = FALSE /\ Ram(f).lock = FALSE /\ Ram(f).timer = FALSE
         /\ Ram(f).count = 0 /\ Ram(f).read = 0 /\ Ram(f).write = 0
<1> DEFINE key == IF f.key = Absent THEN Zeros ELSE f.key
           slots == [i \in 0 .. QueueSize - 1 |-> "none"]
<1>1. key \in HalfValues \X HalfValues BY DEF Flashes, HalfValues, Zeros
<1>2. slots \in [0 .. QueueSize - 1 -> {"none", "cmd", "button"}] OBVIOUS
<1>3. Ram(f) = [evts |-> {}, cmd |-> Handled, saving |-> "no", reboot |-> FALSE,
                new |-> Zeros, key |-> key, own |-> f.addr,
                sound |-> FALSE, lock |-> FALSE, timer |-> FALSE, idx |-> 1,
                slots |-> slots, read |-> 0, write |-> 0, count |-> 0]
  BY DEF Ram
<1>4. 0 \in 0 .. QueueSize - 1 /\ 0 \in 0 .. QueueSize BY QueueSizeAssumption
<1>5. 1 \in 1 .. Len(Melody)
  <2>1. Len(Melody) \in Nat \ {0} BY MelodyAssumption
  <2> QED BY <2>1
<1>6. Zeros \in HalfValues \X HalfValues BY DEF HalfValues, Zeros
<1>7. f.addr \in AddrValues BY DEF Flashes
<1>8. key = IF f.key = Absent THEN Zeros ELSE f.key OBVIOUS
<1> HIDE DEF key, slots
<1>10. /\ {} \in SUBSET Events /\ Handled \in Commands \cup {Handled} /\ "no" \in {"no", "key", "addr"}
       /\ FALSE \in BOOLEAN
  OBVIOUS
<1>9. Ram(f) \in Devices
  BY <1>1, <1>2, <1>3, <1>4, <1>5, <1>6, <1>7, <1>10, SMTT(60) DEF Devices
<1> QED BY <1>3, <1>8, <1>9
-----------------------------------------------------------------------------
(* What each action does to the RAM.                                       *)

LEMMA LoggedFrom ==
  ASSUME NEW s, NEW t, NEW u, SameRing(s, t), Logged(t, u)
  PROVE  Logged(s, u)
<1>1. Queue(t) = Queue(s) BY DEF SameRing, Queue
<1> QED BY <1>1 DEF Logged

\* Nothing of the keys, the settings or a command moves.
Aside ==
  /\ SameKeys(d, d') /\ ("CMD" \in d'.evts <=> "CMD" \in d.evts)
  /\ flash' = flash /\ past'.apart = past.apart

LEMMA ToneStep ==
  ASSUME TypeOK, Ring(d), ToneEvent
  PROVE  /\ d' \in Devices /\ Logged(d, d') /\ Aside
         /\ d'.evts = d.evts \ {"TONE"} /\ d'.lock = d'.sound
         /\ UNCHANGED <<flash, link, page, past>>
<1> DEFINE E == d.evts \ {"TONE"}
           s == [d EXCEPT !.evts = E]
<1>1. d \in Devices /\ E \in SUBSET Events BY DEF TypeOK, Devices
<1>2. d' = Tone(s) /\ UNCHANGED <<flash, link, page, past>> BY DEF ToneEvent
<1>3. E = d.evts \ {"TONE"} OBVIOUS
<1> HIDE DEF E
<1>4. s \in Devices /\ s.evts = E /\ SameKeys(d, s) /\ SameRing(d, s) BY <1>1, EventsAre
<1> HIDE DEF s
<1>5. /\ Tone(s) \in Devices /\ Tone(s).evts = s.evts /\ Tone(s).lock = Tone(s).sound
      /\ SameKeys(s, Tone(s)) /\ SameRing(s, Tone(s))
  BY <1>4, ToneIs
<1>6. Ring(s) BY <1>4 DEF Ring, SameRing
<1>7. Logged(s, d') BY <1>2, <1>5, <1>6, SameRingLogged
<1>8. Logged(d, d') BY <1>4, <1>7, LoggedFrom
<1>9. Aside BY <1>2, <1>3, <1>4, <1>5 DEF Aside, SameKeys
<1> QED BY <1>2, <1>3, <1>4, <1>5, <1>8, <1>9

LEMMA PinStep ==
  ASSUME TypeOK, Ring(d), PinEvent
  PROVE  /\ d' \in Devices /\ Logged(d, d') /\ Aside
         /\ "TONE" \notin d'.evts
         /\ \/ SameSound(d, d') /\ past' = past
            \/ ~d'.sound /\ ~d'.timer /\ d'.lock = d'.sound /\ past' = [past EXCEPT !.playing = FALSE]
         /\ UNCHANGED <<flash, link, page>>
<1> DEFINE E == d.evts \ {"PIN"}
           s == [d EXCEPT !.evts = E]
<1>1. d \in Devices /\ E \in SUBSET Events BY DEF TypeOK, Devices
<1>2. PICK down \in BOOLEAN :
        /\ d' = IF down THEN QueueLog(s, "button") ELSE BuzzerStop(s)
        /\ past' = IF down THEN past ELSE [past EXCEPT !.playing = FALSE]
  BY DEF PinEvent
<1>3. "TONE" \notin d.evts /\ UNCHANGED <<flash, link, page>> BY DEF PinEvent
<1>4. E = d.evts \ {"PIN"} OBVIOUS
<1> HIDE DEF E
<1>5. s \in Devices /\ s.evts = E /\ SameKeys(d, s) /\ SameSound(d, s) /\ SameRing(d, s)
  BY <1>1, EventsAre
<1> HIDE DEF s
<1>6. Ring(s) BY <1>5 DEF Ring, SameRing
<1>7. CASE down = TRUE
  <2>1. d' = QueueLog(s, "button") /\ past' = past BY <1>2, <1>7
  <2>2. d' \in Devices /\ SameKeys(s, d') /\ SameSound(s, d') /\ SameEvents(s, d') /\ Logged(s, d')
    BY <1>5, <1>6, <2>1, QueueLogIs
  <2>3. Aside BY <1>3, <1>4, <1>5, <2>1, <2>2 DEF Aside, SameKeys, SameEvents
  <2>4. SameSound(d, d') BY <1>5, <2>2 DEF SameSound
  <2>5. "TONE" \notin d'.evts BY <1>3, <1>4, <1>5, <2>2 DEF SameEvents
  <2> QED BY <1>3, <1>5, <2>1, <2>2, <2>3, <2>4, <2>5, LoggedFrom
<1>8. CASE down = FALSE
  <2>1. d' = BuzzerStop(s) /\ past' = [past EXCEPT !.playing = FALSE] BY <1>2, <1>8
  <2>2. /\ d' \in Devices /\ d'.evts = s.evts /\ d'.lock = d'.sound /\ ~d'.sound /\ ~d'.timer
        /\ SameKeys(s, d') /\ SameRing(s, d')
    BY <1>5, <2>1, BuzzerStopIs
  <2>3. Logged(s, d') BY <1>6, <2>2, SameRingLogged
  <2>4. past'.apart = past.apart BY <2>1 DEF TypeOK
  <2>5. Aside BY <1>3, <1>4, <1>5, <2>2, <2>4 DEF Aside, SameKeys
  <2> QED BY <1>3, <1>4, <1>5, <2>1, <2>2, <2>3, <2>5, LoggedFrom
<1> QED BY <1>7, <1>8

LEMMA LogStep ==
  ASSUME TypeOK, Ring(d), LogEvent
  PROVE  /\ d' \in Devices /\ Logged(d, d') /\ Aside
         /\ SameSound(d, d') /\ ("TONE" \in d'.evts <=> "TONE" \in d.evts)
         /\ UNCHANGED <<flash, link, page, past>>
<1> DEFINE E == d.evts \ {"LOG"}
           s == [d EXCEPT !.evts = E]
<1>1. d \in Devices /\ E \in SUBSET Events BY DEF TypeOK, Devices
<1>2. d' = SendLog(s) /\ UNCHANGED <<flash, link, page, past>> BY DEF LogEvent
<1>3. E = d.evts \ {"LOG"} OBVIOUS
<1> HIDE DEF E
<1>4. s \in Devices /\ s.evts = E /\ SameKeys(d, s) /\ SameSound(d, s) /\ SameRing(d, s)
  BY <1>1, EventsAre
<1> HIDE DEF s
<1>5. Ring(s) BY <1>4 DEF Ring, SameRing
<1>6. d' \in Devices /\ SameKeys(s, d') /\ SameSound(s, d') /\ SameEvents(s, d') /\ Logged(s, d')
  BY <1>2, <1>4, <1>5, SendLogIs
<1>7. Aside BY <1>2, <1>3, <1>4, <1>6 DEF Aside, SameKeys, SameEvents
<1>8. SameSound(d, d') BY <1>4, <1>6 DEF SameSound
<1>9. "TONE" \in d'.evts <=> "TONE" \in d.evts BY <1>3, <1>4, <1>6 DEF SameEvents
<1> QED BY <1>2, <1>4, <1>6, <1>7, <1>8, <1>9, LoggedFrom

\* A command is handled: its buffer has been read, and the events before it
\* have been handled.
LEMMA CmdStep ==
  ASSUME TypeOK, Ring(d), StoreInv, CmdEvent
  PROVE  /\ d' \in Devices /\ Logged(d, d')
         /\ d.saving = "no" /\ "CMD" \in d.evts /\ d.cmd \in Commands
         /\ "CMD" \notin d'.evts /\ "TONE" \notin d'.evts
         /\ d'.saving # "no" => d'.cmd = d.cmd
         /\ \/ d.cmd[1] = "first" /\ FirstStep(d, d')
            \/ d.cmd[1] = "second" /\ SecondStep(d, d')
            \/ d.cmd[1] = "address" /\ AddressStep(d, d')
            \/ d.cmd[1] = "buzzer" /\ BuzzerStep(d, d')
<1> DEFINE E == d.evts \ {"CMD"}
           s == [d EXCEPT !.evts = E]
           u == Commanded(s)
<1>1. d \in Devices /\ E \in SUBSET Events BY DEF TypeOK, Devices
<1>2. d' = Done(u) BY DEF CmdEvent
<1>3. /\ d.saving = "no" /\ "CMD" \in d.evts /\ "TONE" \notin d.evts /\ d.cmd \in Commands
  BY DEF CmdEvent, Takes, StoreInv
<1>4. E = d.evts \ {"CMD"} OBVIOUS
<1> HIDE DEF E
<1>5. s \in Devices /\ s.evts = E /\ SameKeys(d, s) /\ SameSound(d, s) /\ SameRing(d, s)
  BY <1>1, EventsAre
<1> HIDE DEF s
<1>6. Ring(s) /\ s.cmd \in Commands BY <1>3, <1>5 DEF Ring, SameRing, SameKeys
<1>7. /\ u \in Devices /\ u.cmd = s.cmd /\ SameEvents(s, u) /\ Logged(s, u)
      /\ \/ s.cmd[1] = "first" /\ FirstStep(s, u)
         \/ s.cmd[1] = "second" /\ SecondStep(s, u)
         \/ s.cmd[1] = "address" /\ AddressStep(s, u)
         \/ s.cmd[1] = "buzzer" /\ BuzzerStep(s, u)
  BY <1>5, <1>6, CommandedIs
<1> HIDE DEF u
<1>8. /\ d' \in Devices /\ d'.key = u.key /\ d'.new = u.new /\ d'.own = u.own
      /\ d'.evts = u.evts /\ d'.saving = u.saving
      /\ d'.saving # "no" => d'.cmd = u.cmd
      /\ SameSound(u, d') /\ SameRing(u, d')
  BY <1>2, <1>7, DoneIs
<1>9. Ring(u) BY <1>7 DEF Logged
<1>10. Logged(s, d')
  <2>1. Queue(d') = Queue(u) /\ Ring(d') BY <1>8, <1>9 DEF SameRing, Queue, Ring
  <2> QED BY <1>7, <2>1 DEF Logged
<1>11. "CMD" \notin d'.evts /\ "TONE" \notin d'.evts BY <1>3, <1>4, <1>5, <1>7, <1>8 DEF SameEvents
<1>12. d'.saving # "no" => d'.cmd = d.cmd BY <1>5, <1>7, <1>8 DEF SameKeys
<1>13. /\ FirstStep(s, u) => FirstStep(d, d')
       /\ SecondStep(s, u) => SecondStep(d, d')
       /\ AddressStep(s, u) => AddressStep(d, d')
       /\ BuzzerStep(s, u) => BuzzerStep(d, d')
  BY <1>5, <1>8 DEF FirstStep, SecondStep, AddressStep, BuzzerStep, SameKeys, SameSound
<1>14. s.cmd = d.cmd BY <1>5 DEF SameKeys
<1> QED BY <1>3, <1>5, <1>7, <1>8, <1>10, <1>11, <1>12, <1>13, <1>14, LoggedFrom

LEMMA SaveStep ==
  ASSUME TypeOK, Ring(d), SaveEnds
  PROVE  /\ d' \in Devices /\ Logged(d, d') /\ SameSound(d, d') /\ d'.evts = d.evts /\ d'.key = d.key
         /\ d'.saving # "no" => d'.cmd = d.cmd
         /\ \/ /\ d.saving = "key" /\ flash' = [flash EXCEPT !.key = d.key]
               /\ \/ d'.own = d.own /\ d'.saving = "no" /\ d.own = AddrOf(d.new)
                  \/ d'.own = AddrOf(d.new) /\ d'.saving = "addr"
            \/ /\ d.saving = "addr" /\ flash' = [flash EXCEPT !.addr = d.own]
               /\ d'.own = d.own /\ d'.saving = "no" /\ d'.new = d.new
<1>1. d \in Devices BY DEF TypeOK
<1>2. CASE d.saving = "key"
  <2> DEFINE u == KeySaved(d)
  <2>1. d' = Done(u) /\ flash' = [flash EXCEPT !.key = d.key] BY <1>2 DEF SaveEnds
  <2>2. /\ u \in Devices /\ u.key = d.key /\ u.cmd = d.cmd /\ u.evts = d.evts
        /\ \/ u.own = d.own /\ u.saving = "no" /\ d.own = AddrOf(d.new)
           \/ u.own = AddrOf(d.new) /\ u.saving = "addr"
        /\ SameSound(d, u) /\ SameRing(d, u)
    BY <1>1, KeySavedIs
  <2> HIDE DEF u
  <2>3. /\ d' \in Devices /\ d'.key = u.key /\ d'.own = u.own
        /\ d'.evts = u.evts /\ d'.saving = u.saving
        /\ d'.saving # "no" => d'.cmd = u.cmd
        /\ SameSound(u, d') /\ SameRing(u, d')
    BY <2>1, <2>2, DoneIs
  <2>4. SameSound(d, d') /\ SameRing(d, d') BY <2>2, <2>3 DEF SameSound, SameRing
  <2>5. Logged(d, d') BY <2>4, SameRingLogged
  <2> QED BY <1>2, <2>1, <2>2, <2>3, <2>4, <2>5
<1>3. CASE d.saving = "addr"
  <2> DEFINE u == AddrSaved(d)
  <2>1. d' = Done(u) /\ flash' = [flash EXCEPT !.addr = d.own] BY <1>3 DEF SaveEnds
  <2>2. /\ u \in Devices /\ u.key = d.key /\ u.own = d.own /\ u.new = d.new
        /\ u.cmd = d.cmd /\ u.evts = d.evts /\ u.saving = "no"
        /\ SameSound(d, u) /\ SameRing(d, u)
    BY <1>1, AddrSavedIs
  <2> HIDE DEF u
  <2>3. /\ d' \in Devices /\ d'.key = u.key /\ d'.own = u.own /\ d'.new = u.new
        /\ d'.evts = u.evts /\ d'.saving = u.saving
        /\ d'.saving # "no" => d'.cmd = u.cmd
        /\ SameSound(u, d') /\ SameRing(u, d')
    BY <2>1, <2>2, DoneIs
  <2>4. SameSound(d, d') /\ SameRing(d, d') BY <2>2, <2>3 DEF SameSound, SameRing
  <2>5. Logged(d, d') BY <2>4, SameRingLogged
  <2> QED BY <1>3, <2>1, <2>2, <2>3, <2>4, <2>5
<1> QED BY <1>2, <1>3 DEF SaveEnds

\* A command is put into the buffer.
LEMMA WriteStep ==
  ASSUME TypeOK, Ring(d), NEW c \in Commands, Writes(c)
  PROVE  /\ d' \in Devices /\ Logged(d, d') /\ SameSound(d, d')
         /\ d.saving = "no" /\ link
         /\ d'.cmd = c /\ d'.evts = d.evts \cup {"CMD"}
         /\ d'.new = d.new /\ d'.key = d.key /\ d'.own = d.own /\ d'.saving = d.saving
<1>1. d \in Devices BY DEF TypeOK
<1>2. /\ d.saving = "no" /\ link
      /\ d' = [d EXCEPT !.cmd = c, !.evts = @ \cup {"CMD"}]
  BY DEF Writes
<1>3. /\ d' \in Devices /\ d'.cmd = c /\ d'.evts = d.evts \cup {"CMD"}
      /\ d'.new = d.new /\ d'.key = d.key /\ d'.own = d.own /\ d'.saving = d.saving
      /\ SameSound(d, d') /\ SameRing(d, d')
  BY <1>1, <1>2, WritesIs
<1> QED BY <1>2, <1>3, SameRingLogged

LEMMA TimerStep ==
  ASSUME TypeOK, Ring(d), TimerFires
  PROVE  /\ d' \in Devices /\ Logged(d, d') /\ Aside
         /\ d.timer /\ d'.lock = d.lock /\ d'.sound = d.sound
         /\ UNCHANGED <<flash, link, page, past>>
<1> DEFINE E == d.evts \cup {"TONE"}
           t == [d EXCEPT !.timer = FALSE, !.evts = E]
<1>1. d \in Devices /\ E \in SUBSET Events BY DEF TypeOK, Devices, Events
<1>2. d' = t /\ d.timer /\ UNCHANGED <<flash, link, page, past>> BY DEF TimerFires
<1>3. "CMD" \in E <=> "CMD" \in d.evts OBVIOUS
<1> HIDE DEF E
<1>4. t \in Devices BY <1>1, ZenonT(60) DEF Devices
<1>5. t.evts = E /\ SameKeys(d, t) /\ SameRing(d, t) /\ t.lock = d.lock /\ t.sound = d.sound
  BY <1>1 DEF Devices, SameKeys, SameRing
<1> HIDE DEF t
<1>6. Logged(d, d') BY <1>2, <1>5, SameRingLogged
<1>7. Aside BY <1>2, <1>3, <1>5 DEF Aside
<1> QED BY <1>2, <1>4, <1>5, <1>6, <1>7

LEMMA KeyMoveStep ==
  ASSUME TypeOK, Ring(d), KeyMoves
  PROVE  /\ d' \in Devices /\ Logged(d, d') /\ Aside
         /\ SameSound(d, d') /\ ("TONE" \in d'.evts <=> "TONE" \in d.evts)
         /\ UNCHANGED <<flash, link, page, past>>
<1> DEFINE E == d.evts \cup {"PIN"}
           t == [d EXCEPT !.evts = E]
<1>1. d \in Devices /\ E \in SUBSET Events BY DEF TypeOK, Devices, Events
<1>2. d' = t /\ UNCHANGED <<flash, link, page, past>> BY DEF KeyMoves
<1>3. ("CMD" \in E <=> "CMD" \in d.evts) /\ ("TONE" \in E <=> "TONE" \in d.evts) OBVIOUS
<1> HIDE DEF E
<1>4. t \in Devices /\ t.evts = E /\ SameKeys(d, t) /\ SameSound(d, t) /\ SameRing(d, t)
  BY <1>1, EventsAre
<1> HIDE DEF t
<1>5. Logged(d, d') BY <1>2, <1>4, SameRingLogged
<1>6. Aside BY <1>2, <1>3, <1>4 DEF Aside
<1> QED BY <1>2, <1>3, <1>4, <1>5, <1>6

LEMMA RamStep ==
  ASSUME flash' \in Flashes, d' = Ram(flash')
  PROVE  /\ d' \in Devices /\ Logged(d, d')
         /\ d'.evts = {} /\ d'.saving = "no" /\ d'.own = flash'.addr
         /\ d'.key = IF flash'.key = Absent THEN Zeros ELSE flash'.key
         /\ d'.sound = FALSE /\ d'.lock = FALSE /\ d'.timer = FALSE
<1> DEFINE f == flash'
<1>1. f \in Flashes /\ d' = Ram(f) OBVIOUS
<1> HIDE DEF f
<1>2. /\ Ram(f) \in Devices
      /\ Ram(f).evts = {} /\ Ram(f).saving = "no" /\ Ram(f).own = f.addr
      /\ Ram(f).key = IF f.key = Absent THEN Zeros ELSE f.key
      /\ Ram(f).sound = FALSE /\ Ram(f).lock = FALSE /\ Ram(f).timer = FALSE
      /\ Ram(f).count = 0 /\ Ram(f).read = 0 /\ Ram(f).write = 0
  BY <1>1, RamIs
<1>3. 0 \in 0 .. QueueSize - 1 BY QueueSizeAssumption
<1>4. Logged(d, d') BY <1>1, <1>2, <1>3, EmptyLogged
<1> QED BY <1>1, <1>2, <1>4 DEF f
-----------------------------------------------------------------------------
(* What holds however the phone is used.                                   *)

Rests == [apart : BOOLEAN, playing : BOOLEAN]

LEMMA PageIs ==
  ASSUME NEW p \in Pages, NEW q \in Seq({"first", "second"}), NEW w \in Keys \cup {Zeros}
  PROVE  /\ [p EXCEPT !.inbox = q] \in Pages
         /\ [p EXCEPT !.inbox = q, !.told = TRUE] \in Pages
         /\ [p EXCEPT !.want = w, !.told = FALSE] \in Pages
<1>1. [p EXCEPT !.inbox = q] \in Pages BY ZenonT(60) DEF Pages
<1>2. [p EXCEPT !.inbox = q, !.told = TRUE] \in Pages BY ZenonT(60) DEF Pages
<1>3. [p EXCEPT !.want = w, !.told = FALSE] \in Pages BY ZenonT(60) DEF Pages
<1> QED BY <1>1, <1>2, <1>3

LEMMA AnswerIs ==
  ASSUME page \in Pages, NEW c \in {"first", "second"}, Answer(c) \/ UNCHANGED page
  PROVE  /\ page' \in Pages /\ page'.want = page.want /\ page'.told = page.told
         /\ page'.inbox = page.inbox \/ page'.inbox = Append(page.inbox, c)
<1> DEFINE q == Append(page.inbox, c)
<1>1. CASE page' = page BY <1>1
<1>2. CASE page' = [page EXCEPT !.inbox = q]
  <2>1. q \in Seq({"first", "second"}) BY DEF Pages
  <2>2. q = Append(page.inbox, c) OBVIOUS
  <2> HIDE DEF q
  <2>3. [page EXCEPT !.inbox = q] \in Pages BY <2>1, ZenonT(60) DEF Pages
  <2>4. page'.want = page.want /\ page'.told = page.told /\ page'.inbox = q BY <1>2 DEF Pages
  <2> QED BY <1>2, <2>2, <2>3, <2>4
<1> QED BY <1>1, <1>2 DEF Answer

LEMMA StoreAside ==
  ASSUME StoreInv, Aside
  PROVE  StoreInv'
BY DEF StoreInv, Aside, SameKeys, StoredKey

LEMMA WantAside ==
  ASSUME WantInv, Aside, page' = page
  PROVE  WantInv'
BY DEF WantInv, Pending, Installs, Aside, SameKeys

LEMMA InitAny == Init => AnyInv
<1> SUFFICES ASSUME Init PROVE AnyInv
  OBVIOUS
<1>1. NoFlash \in Flashes BY DEF NoFlash, Flashes, AddrValues
<1>2. d = Ram(NoFlash) /\ flash = NoFlash BY DEF Init
<1>3. /\ d \in Devices /\ d.evts = {} /\ d.saving = "no" /\ d.own = flash.addr
      /\ d.key = IF flash.key = Absent THEN Zeros ELSE flash.key
      /\ d.sound = FALSE /\ d.lock = FALSE /\ d.timer = FALSE
      /\ d.count = 0 /\ d.read = 0 /\ d.write = 0
  BY <1>1, <1>2, RamIs
<1>4. TypeOK
  <2>1. page \in Pages
    <3>1. <<>> \in Seq({"first", "second"}) /\ FALSE \in BOOLEAN OBVIOUS
    <3> QED BY <3>1 DEF Init, Pages
  <2>2. link \in BOOLEAN /\ past \in Rests BY DEF Init, Rests
  <2> QED BY <1>1, <1>2, <1>3, <2>1, <2>2 DEF TypeOK, Rests
<1>5. Ring(d) BY <1>3, QueueSizeAssumption, ModOnce DEF Ring
<1>6. StoppedIsSilent BY <1>3 DEF StoppedIsSilent
<1>7. StoreInv
  <2>1. flash.key \notin Keys BY <1>2, KeysAssumption DEF NoFlash, Absent
  <2> QED BY <1>3, <2>1 DEF StoreInv, StoredKey
<1>8. WantInv BY <1>3 DEF Init, WantInv, Pending, Installs
<1> QED BY <1>4, <1>5, <1>6, <1>7, <1>8 DEF AnyInv

LEMMA StepAny ==
  ASSUME AnyInv, [Next]_vars
  PROVE  AnyInv' /\ Logged(d, d')
<1> USE DEF AnyInv
<1> SUFFICES /\ TypeOK' /\ StoppedIsSilent' /\ StoreInv' /\ WantInv'
             /\ Logged(d, d')
  BY DEF Logged
<1>1. CASE ToneEvent
  <2>1. /\ d' \in Devices /\ Logged(d, d') /\ Aside
        /\ d'.evts = d.evts \ {"TONE"} /\ d'.lock = d'.sound
        /\ UNCHANGED <<flash, link, page, past>>
    BY <1>1, ToneStep
  <2>2. past.playing BY <1>1 DEF ToneEvent, Takes, StoppedIsSilent
  <2>3. StoppedIsSilent' BY <2>1, <2>2 DEF StoppedIsSilent
  <2>4. TypeOK' BY <2>1 DEF TypeOK
  <2> QED BY <2>1, <2>3, <2>4, StoreAside, WantAside
<1>2. CASE PinEvent
  <2>1. /\ d' \in Devices /\ Logged(d, d') /\ Aside
        /\ "TONE" \notin d'.evts
        /\ \/ SameSound(d, d') /\ past' = past
           \/ ~d'.sound /\ ~d'.timer /\ d'.lock = d'.sound /\ past' = [past EXCEPT !.playing = FALSE]
        /\ UNCHANGED <<flash, link, page>>
    BY <1>2, PinStep
  <2>2. [past EXCEPT !.playing = FALSE] \in Rests BY ZenonT(60) DEF TypeOK, Rests
  <2>3. TypeOK' BY <2>1, <2>2 DEF TypeOK, Rests
  <2>4. StoppedIsSilent' BY <2>1 DEF StoppedIsSilent, SameSound
  <2> QED BY <2>1, <2>3, <2>4, StoreAside, WantAside
<1>3. CASE CmdEvent
  <2>1. /\ d' \in Devices /\ Logged(d, d')
        /\ d.saving = "no" /\ "CMD" \in d.evts /\ d.cmd \in Commands
        /\ "CMD" \notin d'.evts /\ "TONE" \notin d'.evts
        /\ d'.saving # "no" => d'.cmd = d.cmd
        /\ \/ d.cmd[1] = "first" /\ FirstStep(d, d')
           \/ d.cmd[1] = "second" /\ SecondStep(d, d')
           \/ d.cmd[1] = "address" /\ AddressStep(d, d')
           \/ d.cmd[1] = "buzzer" /\ BuzzerStep(d, d')
    BY <1>3, CmdStep
  <2>2. UNCHANGED <<flash, link>> BY <1>3 DEF CmdEvent
  <2>3. page' \in Pages
    <3>1. CASE d.cmd[1] \in {"first", "second"} /\ Answer(d.cmd[1]) BY <3>1, AnswerIs DEF TypeOK
    <3>2. CASE UNCHANGED page BY <3>2 DEF TypeOK
    <3> QED BY <1>3, <3>1, <3>2 DEF CmdEvent
  <2> DEFINE on == IF d.cmd[1] = "buzzer" THEN d.cmd[2] ELSE past.playing
             ap == past.apart \/ d.cmd[1] = "address"
  <2>4. on \in BOOLEAN /\ ap \in BOOLEAN BY <2>1, CommandTypes DEF TypeOK
  <2>5. past' = [past EXCEPT !.playing = on, !.apart = ap] BY <1>3 DEF CmdEvent
  <2>6. on = IF d.cmd[1] = "buzzer" THEN d.cmd[2] ELSE past.playing OBVIOUS
  <2>6a. (past.apart => ap) /\ (d.cmd[1] = "address" => ap) OBVIOUS
  <2> HIDE DEF on, ap
  <2>7. past' \in Rests BY <2>4, <2>5, ZenonT(60) DEF TypeOK, Rests
  <2>8. past'.playing = on /\ past'.apart = ap BY <2>5 DEF TypeOK
  <2>9. TypeOK' BY <2>1, <2>2, <2>3, <2>7 DEF TypeOK, Rests
  <2>10. StoppedIsSilent'
    <3>1. CASE d.cmd[1] = "buzzer" /\ BuzzerStep(d, d')
      <4>1. on = FALSE => d.cmd[2] = FALSE BY <2>6, <3>1
      <4>2. on = TRUE \/ on = FALSE BY <2>4
      <4> QED BY <2>1, <2>8, <3>1, <4>1, <4>2 DEF StoppedIsSilent, BuzzerStep
    <3>2. CASE d.cmd[1] # "buzzer" /\ SameSound(d, d')
      BY <2>1, <2>6, <2>8, <3>2 DEF StoppedIsSilent, SameSound
    <3> QED BY <2>1, <3>1, <3>2 DEF FirstStep, SecondStep, AddressStep
  <2>11. StoreInv'
    <3>1. d.key = StoredKey /\ flash.addr = d.own BY <2>1 DEF StoreInv
    <3>2. flash.key \in Keys => flash.addr = AddrOf(flash.key) \/ past'.apart
      BY <2>1, <2>6a, <2>8 DEF StoreInv
    <3>3. StoredKey' = StoredKey /\ flash' = flash BY <2>2 DEF StoredKey
    <3>4. CASE d'.own = d.own /\ d'.saving = "no" /\ d'.key = d.key
      BY <2>1, <3>1, <3>2, <3>3, <3>4 DEF StoreInv
    <3>5. CASE d.cmd[1] = "second" /\ SecondStep(d, d')
      <4>1. CASE d'.saving = "no" BY <3>4, <3>5, <4>1 DEF SecondStep
      <4>2. CASE d'.saving = "key"
        BY <2>1, <3>1, <3>2, <3>3, <3>5, <4>2 DEF StoreInv, SecondStep
      <4> QED BY <3>5, <4>1, <4>2 DEF SecondStep
    <3>6. CASE d.cmd[1] = "address" /\ AddressStep(d, d')
      <4>1. past'.apart BY <2>6a, <2>8, <3>6
      <4>2. CASE d'.saving = "addr"
        BY <2>1, <3>1, <3>2, <3>3, <3>6, <4>1, <4>2 DEF StoreInv, AddressStep
      <4> QED BY <2>1, <3>4, <3>6, <4>2 DEF AddressStep
    <3> QED BY <2>1, <3>4, <3>5, <3>6 DEF FirstStep, BuzzerStep
  <2>12. WantInv'
    <3>1. page'.want = page.want /\ (page'.inbox # page.inbox => d.cmd[1] \in {"first", "second"})
      <4>1. CASE d.cmd[1] \in {"first", "second"} /\ Answer(d.cmd[1]) BY <4>1, AnswerIs DEF TypeOK
      <4>2. CASE UNCHANGED page BY <4>2
      <4> QED BY <1>3, <4>1, <4>2 DEF CmdEvent
    <3>2. d'.saving # "no" /\ d'.cmd[1] = "second" => d.cmd[1] = "second" BY <2>1
    <3>3. Pending("first") \/ Pending("second") <=> d.cmd[1] \in {"first", "second"}
      BY <2>1 DEF Pending
    <3> QED BY <2>1, <3>1, <3>2, <3>3 DEF WantInv, Pending, Installs
  <2> QED BY <2>1, <2>9, <2>10, <2>11, <2>12
<1>4. CASE LogEvent
  <2>1. /\ d' \in Devices /\ Logged(d, d') /\ Aside
        /\ SameSound(d, d') /\ ("TONE" \in d'.evts <=> "TONE" \in d.evts)
        /\ UNCHANGED <<flash, link, page, past>>
    BY <1>4, LogStep
  <2>2. TypeOK' BY <2>1 DEF TypeOK
  <2>3. StoppedIsSilent' BY <2>1 DEF StoppedIsSilent, SameSound
  <2> QED BY <2>1, <2>2, <2>3, StoreAside, WantAside
<1>5. CASE SaveEnds
  <2>1. /\ d' \in Devices /\ Logged(d, d') /\ SameSound(d, d') /\ d'.evts = d.evts /\ d'.key = d.key
        /\ d'.saving # "no" => d'.cmd = d.cmd
        /\ \/ /\ d.saving = "key" /\ flash' = [flash EXCEPT !.key = d.key]
              /\ \/ d'.own = d.own /\ d'.saving = "no" /\ d.own = AddrOf(d.new)
                 \/ d'.own = AddrOf(d.new) /\ d'.saving = "addr"
           \/ /\ d.saving = "addr" /\ flash' = [flash EXCEPT !.addr = d.own]
              /\ d'.own = d.own /\ d'.saving = "no"
    BY <1>5, SaveStep
  <2>2. page' \in Pages
    <3>1. Answer("second") \/ UNCHANGED page BY <1>5 DEF SaveEnds
    <3> QED BY <3>1, AnswerIs DEF TypeOK
  <2>3. flash' \in Flashes
    <3>1. d.key \in HalfValues \X HalfValues /\ d.own \in AddrValues BY DEF TypeOK, Devices
    <3>2. flash \in Flashes BY DEF TypeOK
    <3>3. [flash EXCEPT !.key = d.key] \in Flashes BY <3>1, <3>2, ZenonT(60) DEF Flashes
    <3>4. [flash EXCEPT !.addr = d.own] \in Flashes BY <3>1, <3>2, ZenonT(60) DEF Flashes
    <3> QED BY <2>1, <3>3, <3>4
  <2> DEFINE ap == past.apart /\ d.saving = "addr"
  <2>4. ap \in BOOLEAN /\ (ap <=> past.apart /\ d.saving = "addr") OBVIOUS
  <2>5. past' = [past EXCEPT !.apart = ap] BY <1>5 DEF SaveEnds
  <2> HIDE DEF ap
  <2>6. past' \in Rests BY <2>4, <2>5, ZenonT(60) DEF TypeOK, Rests
  <2>7. past'.apart = ap /\ past'.playing = past.playing BY <2>5 DEF TypeOK
  <2>8. TypeOK' BY <1>5, <2>1, <2>2, <2>3, <2>6 DEF TypeOK, Rests, SaveEnds
  <2>9. StoppedIsSilent' BY <2>1, <2>7 DEF StoppedIsSilent, SameSound
  <2>10. StoreInv'
    <3>1. CASE d.saving = "key"
      <4>1. flash'.key = d.key /\ flash'.addr = flash.addr BY <2>1, <3>1 DEF TypeOK, Flashes
      <4>2. d.key = d.new /\ d.cmd[1] = "second" /\ flash.addr = d.own /\ "CMD" \notin d.evts
        BY <3>1 DEF StoreInv
      <4>3. d.key # Absent
        <5>1. d.key[1] \in HalfValues BY DEF TypeOK, Devices
        <5>2. \A k \in Keys : k[1] # "none" /\ k[2] # "none" BY KeysAssumption
        <5>3. "none" \notin HalfValues BY <5>2 DEF HalfValues, Halves
        <5>4. Absent[1] = "none" BY DEF Absent
        <5> QED BY <5>1, <5>3, <5>4
      <4>4. StoredKey' = d.key BY <4>1, <4>3 DEF StoredKey
      <4> QED BY <2>1, <3>1, <4>1, <4>2, <4>4 DEF StoreInv
    <3>2. CASE d.saving = "addr"
      <4>1. flash'.addr = d.own /\ flash'.key = flash.key BY <2>1, <3>2 DEF TypeOK, Flashes
      <4>2. /\ d.key = StoredKey /\ "CMD" \notin d.evts
            /\ d.key \in Keys => d.own = AddrOf(d.key) \/ past.apart
        BY <3>2 DEF StoreInv
      <4>3. StoredKey' = StoredKey BY <4>1 DEF StoredKey
      <4>4. flash.key \in Keys => d.key = flash.key BY <4>2, KeysAssumption DEF StoredKey, Absent
      <4> QED BY <2>1, <2>4, <2>7, <3>2, <4>1, <4>2, <4>3, <4>4 DEF StoreInv
    <3> QED BY <2>1, <3>1, <3>2
  <2>11. WantInv'
    <3>1. Answer("second") \/ UNCHANGED page BY <1>5 DEF SaveEnds
    <3>2. page'.want = page.want BY <3>1, AnswerIs DEF TypeOK
    <3>3. page' # page => d.cmd[1] = "second" BY <1>5 DEF SaveEnds
    <3>4. d.saving # "no" /\ "CMD" \notin d.evts BY <2>1 DEF StoreInv
    <3> QED BY <2>1, <3>2, <3>3, <3>4 DEF WantInv, Pending, Installs
  <2> QED BY <2>1, <2>8, <2>9, <2>10, <2>11
<1>6. CASE TimerFires
  <2>1. /\ d' \in Devices /\ Logged(d, d') /\ Aside
        /\ d.timer /\ d'.lock = d.lock /\ d'.sound = d.sound
        /\ UNCHANGED <<flash, link, page, past>>
    BY <1>6, TimerStep
  <2>2. TypeOK' BY <2>1 DEF TypeOK
  <2>3. past.playing BY <2>1 DEF StoppedIsSilent
  <2>4. StoppedIsSilent' BY <2>1, <2>3 DEF StoppedIsSilent
  <2> QED BY <2>1, <2>2, <2>4, StoreAside, WantAside
<1>7. CASE KeyMoves
  <2>1. /\ d' \in Devices /\ Logged(d, d') /\ Aside
        /\ SameSound(d, d') /\ ("TONE" \in d'.evts <=> "TONE" \in d.evts)
        /\ UNCHANGED <<flash, link, page, past>>
    BY <1>7, KeyMoveStep
  <2>2. TypeOK' BY <2>1 DEF TypeOK
  <2>3. StoppedIsSilent' BY <2>1 DEF StoppedIsSilent, SameSound
  <2> QED BY <2>1, <2>2, <2>3, StoreAside, WantAside
\* A command is written: the buffer is all that changes.
<1>8. ASSUME NEW c \in Commands, Writes(c), UNCHANGED <<flash, link, past>>, page' \in Pages,
             c[1] \in {"first", "second"} => page'.want \in Keys,
             page'.inbox = <<>> \/ page'.want \in Keys
      PROVE  TypeOK' /\ StoppedIsSilent' /\ StoreInv' /\ WantInv' /\ Logged(d, d')
  <2>1. /\ d' \in Devices /\ Logged(d, d') /\ SameSound(d, d')
        /\ d.saving = "no" /\ link
        /\ d'.cmd = c /\ d'.evts = d.evts \cup {"CMD"}
        /\ d'.new = d.new /\ d'.key = d.key /\ d'.own = d.own /\ d'.saving = d.saving
    BY <1>8, WriteStep
  <2>2. TypeOK' BY <1>8, <2>1 DEF TypeOK
  <2>3. StoppedIsSilent' BY <1>8, <2>1 DEF StoppedIsSilent, SameSound
  <2>4. StoreInv' BY <1>8, <2>1 DEF StoreInv, StoredKey
  <2>5. WantInv' BY <1>8, <2>1 DEF WantInv, Pending, Installs
  <2> QED BY <2>1, <2>2, <2>3, <2>4, <2>5
\* Only the page, or the link, changes.
<1>9. ASSUME UNCHANGED <<d, flash, past>>, page' \in Pages, link' \in BOOLEAN,
             page'.want = page.want, page'.inbox = <<>> \/ page.inbox # <<>>
      PROVE  TypeOK' /\ StoppedIsSilent' /\ StoreInv' /\ WantInv' /\ Logged(d, d')
  <2>1. SameRing(d, d') BY <1>9 DEF SameRing
  <2>2. TypeOK' BY <1>9 DEF TypeOK
  <2>3. StoppedIsSilent' BY <1>9 DEF StoppedIsSilent
  <2>4. StoreInv' BY <1>9 DEF StoreInv, StoredKey
  <2>5. WantInv' BY <1>9 DEF WantInv, Pending, Installs
  <2> QED BY <2>1, <2>2, <2>3, <2>4, <2>5, SameRingLogged
<1>10. CASE PageReads
  <2>1. page.inbox # <<>> /\ page.inbox \in Seq({"first", "second"}) /\ page \in Pages
    BY <1>10 DEF PageReads, TypeOK, Pages
  <2> DEFINE q == Tail(page.inbox)
  <2>2. q \in Seq({"first", "second"}) BY <2>1
  <2>2a. Zeros \in Keys \cup {Zeros} OBVIOUS
  <2> HIDE DEF q
  <2>3. [page EXCEPT !.inbox = q] \in Pages /\ [page EXCEPT !.inbox = q, !.told = TRUE] \in Pages
    BY <2>1, <2>2, <2>2a, PageIs, Zenon
  <2>4. CASE Head(page.inbox) = "first"
    <3>1. Writes(<<"second", page.want[2]>>) /\ page' = [page EXCEPT !.inbox = q]
          /\ UNCHANGED <<flash, link, past>>
      BY <1>10, <2>4 DEF PageReads, q
    <3>2. page.want \in Keys /\ page'.want = page.want BY <2>1, <3>1 DEF WantInv, Pages
    <3>3. <<"second", page.want[2]>> \in Commands BY <3>2 DEF Commands
    <3> QED BY <1>8, <2>3, <3>1, <3>2, <3>3
  <2>5. CASE Head(page.inbox) = "second"
    <3>1. page' = [page EXCEPT !.inbox = q, !.told = TRUE] /\ UNCHANGED <<d, flash, link, past>>
      BY <1>10, <2>5 DEF PageReads, q
    <3>2. page'.want = page.want BY <2>1, <3>1 DEF Pages
    <3> QED BY <1>9, <2>1, <2>3, <3>1, <3>2 DEF TypeOK
  <2> QED BY <1>10, <2>4, <2>5 DEF PageReads
<1>11. CASE Connect BY <1>9, <1>11 DEF Connect, TypeOK
<1>12. CASE PowerLoss
  <2>1. /\ flash' \in CASE d.saving = "no"   -> {flash}
                       [] d.saving = "key"  -> [key : {flash.key, d.key, Torn, Absent}, addr : {flash.addr}]
                       [] d.saving = "addr" -> [key : {flash.key}, addr : {flash.addr, d.own, "torn", "chip"}]
        /\ d' = Ram(flash') /\ link' = FALSE /\ page' = [page EXCEPT !.inbox = <<>>]
    BY <1>12 DEF PowerLoss
  <2>2. d.saving \in {"no", "key", "addr"} /\ flash \in Flashes BY DEF TypeOK, Devices
  <2>3. flash' \in Flashes
    <3>1. /\ d.key \in HalfValues \X HalfValues /\ d.own \in AddrValues
          /\ Torn \in HalfValues \X HalfValues /\ "torn" \in AddrValues /\ "chip" \in AddrValues
      BY DEF TypeOK, Devices, Torn, HalfValues, AddrValues
    <3> QED BY <2>1, <2>2, <3>1 DEF Flashes
  <2>4. /\ d' \in Devices /\ Logged(d, d')
        /\ d'.evts = {} /\ d'.saving = "no" /\ d'.own = flash'.addr
        /\ d'.key = IF flash'.key = Absent THEN Zeros ELSE flash'.key
        /\ d'.sound = FALSE /\ d'.lock = FALSE /\ d'.timer = FALSE
    BY <2>1, <2>3, RamStep
  <2>5. page' \in Pages /\ page'.inbox = <<>>
    <3>1. <<>> \in Seq({"first", "second"}) OBVIOUS
    <3>2. [page EXCEPT !.inbox = <<>>] \in Pages BY <3>1, PageIs DEF TypeOK
    <3> QED BY <2>1, <3>2 DEF Pages, TypeOK
  <2> DEFINE ap == \/ past.apart
                   \/ d.saving = "key" /\ flash'.key = d.key
                   \/ d.saving = "addr" /\ flash'.addr # d.own
  <2>6. past' = [playing |-> FALSE, apart |-> ap] BY <1>12 DEF PowerLoss
  <2>7. TypeOK'
    <3>1. past' \in Rests BY <2>6 DEF Rests
    <3> QED BY <2>1, <2>3, <2>4, <2>5, <3>1 DEF TypeOK, Rests
  <2>8. StoppedIsSilent' BY <2>4 DEF StoppedIsSilent
  <2>9. WantInv' BY <2>4, <2>5 DEF WantInv, Pending, Installs
  <2>10. flash'.key \in Keys => flash'.addr = AddrOf(flash'.key) \/ past'.apart
    <3>0. past'.apart = ap BY <2>6
    <3>1. CASE d.saving = "no"
      <4>1. flash' = flash BY <2>1, <3>1
      <4> QED BY <3>0, <3>1, <4>1 DEF StoreInv
    <3>2. CASE d.saving = "key"
      <4>1. flash'.key \in {flash.key, d.key, Torn, Absent} /\ flash'.addr = flash.addr
        BY <2>1, <3>2
      <4>2. Torn \notin Keys /\ Absent \notin Keys BY KeysAssumption DEF Torn, Absent
      <4>3. flash.key \in Keys => flash.addr = AddrOf(flash.key) \/ past.apart
        BY <3>2 DEF StoreInv
      <4> QED BY <3>0, <3>2, <4>1, <4>2, <4>3
    <3>3. CASE d.saving = "addr"
      <4>1. flash'.key = flash.key BY <2>1, <3>3
      <4>2. /\ d.key = StoredKey
            /\ d.key \in Keys => d.own = AddrOf(d.key) \/ past.apart
        BY <3>3 DEF StoreInv
      <4>3. flash.key \in Keys => d.key = flash.key BY <4>2, KeysAssumption DEF StoredKey, Absent
      <4> QED BY <3>0, <3>3, <4>1, <4>2, <4>3
    <3> QED BY <2>2, <3>1, <3>2, <3>3
  <2>11. StoreInv' BY <2>4, <2>10 DEF StoreInv, StoredKey
  <2> QED BY <2>4, <2>7, <2>8, <2>9, <2>11
<1>13. ASSUME NEW k \in Keys, UserSetsKey(k) PROVE TypeOK' /\ StoppedIsSilent' /\ StoreInv' /\ WantInv' /\ Logged(d, d')
  <2>1. <<"first", k[1]>> \in Commands BY DEF Commands
  <2>2. [page EXCEPT !.want = k, !.told = FALSE] \in Pages
    <3>1. <<>> \in Seq({"first", "second"}) OBVIOUS
    <3> QED BY <3>1, PageIs DEF TypeOK
  <2>3. page' = [page EXCEPT !.want = k, !.told = FALSE] BY <1>13 DEF UserSetsKey
  <2>4. page'.want = k BY <2>3 DEF TypeOK, Pages
  <2> QED BY <1>8, <1>13, <2>1, <2>2, <2>3, <2>4 DEF UserSetsKey
<1>14. ASSUME NEW c \in {<<"address">>, <<"buzzer", TRUE>>, <<"buzzer", FALSE>>}, UserWrites(c)
       PROVE  TypeOK' /\ StoppedIsSilent' /\ StoreInv' /\ WantInv' /\ Logged(d, d')
  <2>1. c \in Commands BY DEF Commands
  <2> QED BY <1>8, <1>14, <2>1 DEF UserWrites, TypeOK, WantInv
<1>15. ASSUME NEW closed \in BOOLEAN, LinkEnds(closed)
       PROVE  TypeOK' /\ StoppedIsSilent' /\ StoreInv' /\ WantInv' /\ Logged(d, d')
  <2>1. d.saving = "no" /\ link' = FALSE /\ page' = [page EXCEPT !.inbox = <<>>] /\ UNCHANGED flash
    BY <1>15 DEF LinkEnds
  <2>2. page' \in Pages /\ page'.inbox = <<>> /\ page'.want = page.want
    <3>1. <<>> \in Seq({"first", "second"}) OBVIOUS
    <3>2. [page EXCEPT !.inbox = <<>>] \in Pages BY <3>1, PageIs DEF TypeOK
    <3> QED BY <2>1, <3>2 DEF Pages, TypeOK
  <2>3. CASE d' = Ram(flash) /\ past' = [past EXCEPT !.playing = FALSE]
    <3>1. flash' \in Flashes /\ d' = Ram(flash') BY <2>1, <2>3 DEF TypeOK
    <3>2. /\ d' \in Devices /\ Logged(d, d')
          /\ d'.evts = {} /\ d'.saving = "no" /\ d'.own = flash'.addr
          /\ d'.key = IF flash'.key = Absent THEN Zeros ELSE flash'.key
          /\ d'.sound = FALSE /\ d'.lock = FALSE /\ d'.timer = FALSE
      BY <3>1, RamStep
    <3>3. [past EXCEPT !.playing = FALSE] \in Rests BY ZenonT(60) DEF TypeOK, Rests
    <3>4. past'.apart = past.apart BY <2>3 DEF TypeOK
    <3>5. TypeOK' BY <2>1, <2>2, <2>3, <3>1, <3>2, <3>3 DEF TypeOK, Rests
    <3>6. StoppedIsSilent' BY <3>2 DEF StoppedIsSilent
    <3>7. StoreInv' BY <2>1, <3>2, <3>4 DEF StoreInv, StoredKey
    <3>8. WantInv' BY <2>2, <3>2 DEF WantInv, Pending, Installs
    <3> QED BY <3>2, <3>5, <3>6, <3>7, <3>8
  <2>4. CASE UNCHANGED <<d, past>> BY <1>9, <2>1, <2>2, <2>4
  <2> QED BY <1>15, <2>3, <2>4 DEF LinkEnds
<1>16. CASE UNCHANGED vars BY <1>9, <1>16 DEF vars, TypeOK
<1> QED
  BY <1>1, <1>2, <1>3, <1>4, <1>5, <1>6, <1>7, <1>10, <1>11, <1>12, <1>13, <1>14, <1>15, <1>16
  DEF Next, Task, Environment
-----------------------------------------------------------------------------
(* What holds for a user who waits for an answer.                          *)

LEMMA PatientAside ==
  ASSUME PatientInv, Aside, page' = page
  PROVE  PatientInv'
BY DEF PatientInv, KeyIsWhole, ExchangeInv, ToldInv, Pending, Installs, Aside, SameKeys

LEMMA InitPatient == Init => PatientInv
<1> SUFFICES ASSUME Init PROVE PatientInv
  OBVIOUS
<1>1. NoFlash \in Flashes BY DEF NoFlash, Flashes, AddrValues
<1>2. d.evts = {} /\ d.saving = "no" /\ d.key = IF flash.key = Absent THEN Zeros ELSE flash.key
  BY <1>1, RamIs DEF Init
<1>3. flash.key = Absent /\ page.inbox = <<>> /\ ~page.told BY DEF Init, NoFlash
<1>4. KeyIsWhole BY <1>2, <1>3 DEF KeyIsWhole
<1>5. ExchangeInv BY <1>2, <1>3 DEF ExchangeInv, Pending, Installs
<1>6. ToldInv BY <1>3 DEF ToldInv
<1> QED BY <1>4, <1>5, <1>6 DEF PatientInv

LEMMA StepPatient ==
  ASSUME Patient, AnyInv, PatientInv, [Next]_vars
  PROVE  PatientInv'
<1> USE DEF AnyInv
<1>a. <<"first">> # <<"second">> /\ <<>> # <<"first">> /\ <<>> # <<"second">> OBVIOUS
<1>0. AnyInv' BY StepAny
<1>1. CASE ToneEvent BY <1>1, ToneStep, PatientAside
<1>2. CASE PinEvent BY <1>2, PinStep, PatientAside
<1>3. CASE CmdEvent
  <2>1. /\ d.saving = "no" /\ "CMD" \in d.evts /\ d.cmd \in Commands
        /\ "CMD" \notin d'.evts
        /\ d'.saving # "no" => d'.cmd = d.cmd
        /\ \/ d.cmd[1] = "first" /\ FirstStep(d, d')
           \/ d.cmd[1] = "second" /\ SecondStep(d, d')
           \/ d.cmd[1] = "address" /\ AddressStep(d, d')
           \/ d.cmd[1] = "buzzer" /\ BuzzerStep(d, d')
    BY <1>3, CmdStep
  <2>2. flash' = flash BY <1>3 DEF CmdEvent
  <2>3. CASE d.cmd[1] = "first" /\ FirstStep(d, d')
    <3>1. d.cmd[2] = page.want[1] /\ page.inbox = <<>> /\ ~page.told
      BY <2>1, <2>3 DEF PatientInv, ExchangeInv, Pending
    <3>2. page'.want = page.want /\ page'.told = page.told
          /\ (page'.inbox = <<>> \/ page'.inbox = <<"first">>)
      <4>1. Answer("first") \/ UNCHANGED page BY <1>3, <2>3 DEF CmdEvent
      <4>2. Append(<<>>, "first") = <<"first">> OBVIOUS
      <4> QED BY <3>1, <4>1, <4>2, AnswerIs DEF TypeOK
    <3>3. d'.new[1] = page.want[1]
      <4>1. d.new \in HalfValues \X HalfValues BY DEF TypeOK, Devices
      <4> QED BY <2>3, <3>1, <4>1 DEF FirstStep
    <3>4. d'.key = d.key /\ d'.saving = "no" BY <2>1, <2>3 DEF FirstStep
    <3>5. KeyIsWhole' BY <2>2, <3>4 DEF PatientInv, KeyIsWhole
    <3>6. ExchangeInv' BY <2>1, <3>1, <3>2, <3>3, <3>4 DEF ExchangeInv, Pending, Installs
    <3>7. ToldInv' BY <1>a, <3>1, <3>2 DEF ToldInv
    <3> QED BY <3>5, <3>6, <3>7 DEF PatientInv
  <2>4. CASE d.cmd[1] = "second" /\ SecondStep(d, d')
    <3>1. /\ d.cmd[2] = page.want[2] /\ d.new[1] = page.want[1] /\ page.inbox = <<>> /\ ~page.told
          /\ page.want \in Keys
      BY <2>1, <2>4 DEF PatientInv, ExchangeInv, WantInv, Pending
    <3>2. d'.key = page.want
      <4>1. page.want = <<page.want[1], page.want[2]>> BY <3>1, KeysAssumption
      <4> QED BY <2>4, <3>1, <4>1 DEF SecondStep
    <3>3. page'.want = page.want /\ page'.told = page.told
          /\ (page'.inbox = <<>> \/ page'.inbox = <<"second">>)
      <4>1. Answer("second") \/ UNCHANGED page BY <1>3, <2>4 DEF CmdEvent
      <4>2. Append(<<>>, "second") = <<"second">> OBVIOUS
      <4> QED BY <3>1, <4>1, <4>2, AnswerIs DEF TypeOK
    <3>4. d'.saving # "no" => page' = page BY <1>3 DEF CmdEvent
    <3>5. d'.saving = "no" => flash'.key = page.want
      <4>1. d'.saving = "no" => d.key = page.want BY <2>4, <3>2 DEF SecondStep
      <4>2. d.key = StoredKey BY <2>1 DEF StoreInv
      <4>3. page.want # Zeros BY <3>1, KeysAssumption DEF Zeros
      <4> QED BY <2>2, <4>1, <4>2, <4>3 DEF StoredKey
    <3>6. KeyIsWhole' BY <2>2, <3>1, <3>2 DEF PatientInv, KeyIsWhole
    <3>7. ExchangeInv'
      <4>1. CASE d'.saving = "no"
        BY <1>a, <2>1, <3>1, <3>3, <4>1 DEF ExchangeInv, Pending, Installs
      <4>2. CASE d'.saving # "no"
        <5>1. page'.want = page.want /\ page'.inbox = <<>> /\ ~page'.told
          BY <3>1, <3>4, <4>2
        <5> QED BY <2>1, <3>2, <4>2, <5>1 DEF ExchangeInv, Pending, Installs
      <4> QED BY <4>1, <4>2
    <3>8. ToldInv'
      <4>1. CASE d'.saving = "no" BY <3>1, <3>2, <3>3, <3>5, <4>1 DEF ToldInv
      <4>2. CASE d'.saving # "no"
        <5>1. page'.inbox = <<>> /\ ~page'.told BY <3>1, <3>4, <4>2
        <5> QED BY <5>1 DEF ToldInv
      <4> QED BY <4>1, <4>2
    <3> QED BY <3>6, <3>7, <3>8 DEF PatientInv
  <2>5. CASE d.cmd[1] \notin {"first", "second"} /\ d'.new = d.new /\ d'.key = d.key
    <3>1. page' = page BY <1>3, <2>5 DEF CmdEvent
    <3>2. KeyIsWhole' BY <2>2, <2>5 DEF PatientInv, KeyIsWhole
    <3>3. ExchangeInv' BY <2>1, <2>5, <3>1 DEF PatientInv, ExchangeInv, Pending, Installs
    <3>4. ToldInv' BY <2>2, <2>5, <3>1 DEF PatientInv, ToldInv
    <3> QED BY <3>2, <3>3, <3>4 DEF PatientInv
  <2> QED BY <2>1, <2>3, <2>4, <2>5 DEF AddressStep, BuzzerStep
<1>4. CASE LogEvent BY <1>4, LogStep, PatientAside
<1>5. CASE SaveEnds
  <2>1. /\ d'.evts = d.evts /\ d'.key = d.key
        /\ d'.saving # "no" => d'.cmd = d.cmd
        /\ \/ /\ d.saving = "key" /\ flash' = [flash EXCEPT !.key = d.key]
              /\ d'.saving = "no" \/ d'.saving = "addr"
           \/ /\ d.saving = "addr" /\ flash' = [flash EXCEPT !.addr = d.own]
              /\ d'.saving = "no" /\ d'.new = d.new
    BY <1>5, SaveStep
  <2>2. "CMD" \notin d.evts BY <2>1 DEF StoreInv
  <2>3. /\ d.saving = "key" => flash'.key = d.key /\ d.cmd[1] = "second"
        /\ d.saving = "addr" => flash'.key = flash.key /\ d.key = StoredKey
    BY <2>1 DEF TypeOK, Flashes, StoreInv
  <2>4. KeyIsWhole' BY <2>1, <2>3 DEF PatientInv, KeyIsWhole
  <2>5. CASE d.cmd[1] = "second"
    <3>1. page.inbox = <<>> /\ ~page.told /\ page.want \in Keys /\ d.key = page.want
      BY <2>1, <2>5 DEF PatientInv, ExchangeInv, WantInv, Installs
    <3>2. page'.want = page.want /\ page'.told = page.told
          /\ (page'.inbox = <<>> \/ page'.inbox = <<"second">>)
      <4>1. Answer("second") \/ UNCHANGED page BY <1>5 DEF SaveEnds
      <4>2. Append(<<>>, "second") = <<"second">> OBVIOUS
      <4> QED BY <3>1, <4>1, <4>2, AnswerIs DEF TypeOK
    <3>3. d'.saving # "no" => page' = page BY <1>5 DEF SaveEnds
    <3>4. flash'.key = page.want
      <4>1. page.want # Zeros BY <3>1, KeysAssumption DEF Zeros
      <4> QED BY <2>1, <2>3, <3>1, <4>1 DEF StoredKey
    <3>5. ExchangeInv'
      <4>1. ~Pending("first")' /\ ~Pending("second")' BY <2>1, <2>2 DEF Pending
      <4>2. CASE d'.saving = "no" BY <1>a, <3>1, <3>2, <4>1, <4>2 DEF ExchangeInv, Installs
      <4>3. CASE d'.saving # "no"
        <5>1. page'.want = page.want /\ page'.inbox = <<>> /\ ~page'.told
          BY <3>1, <3>3, <4>3
        <5> QED BY <1>a, <2>1, <3>1, <4>1, <4>3, <5>1 DEF ExchangeInv, Installs
      <4> QED BY <4>2, <4>3
    <3>6. ToldInv' BY <2>1, <3>1, <3>2, <3>4 DEF ToldInv
    <3> QED BY <2>4, <3>5, <3>6 DEF PatientInv
  <2>6. CASE d.cmd[1] # "second"
    <3>1. d.saving = "addr" /\ d'.saving = "no" /\ d'.new = d.new BY <2>1, <2>3, <2>6
    <3>2. page' = page BY <1>5, <2>6 DEF SaveEnds
    <3>3. ExchangeInv' BY <2>1, <2>2, <3>1, <3>2 DEF PatientInv, ExchangeInv, Pending, Installs
    <3>4. ToldInv' BY <2>1, <2>3, <3>1, <3>2 DEF PatientInv, ToldInv
    <3> QED BY <2>4, <3>3, <3>4 DEF PatientInv
  <2> QED BY <2>5, <2>6
<1>6. CASE TimerFires BY <1>6, TimerStep, PatientAside
<1>7. CASE KeyMoves BY <1>7, KeyMoveStep, PatientAside
<1>8. CASE PageReads
  <2>1. page.inbox = <<"first">> \/ page.inbox = <<"second">>
    BY <1>8 DEF PageReads, PatientInv, ExchangeInv
  <2>2. page.want \in Keys BY <2>1 DEF WantInv
  <2>3. CASE page.inbox = <<"first">>
    <3>1. Head(page.inbox) = "first" /\ Tail(page.inbox) = <<>> BY <2>3
    <3>2. /\ Writes(<<"second", page.want[2]>>) /\ page' = [page EXCEPT !.inbox = <<>>]
          /\ flash' = flash
      BY <1>8, <3>1 DEF PageReads
    <3>3. <<"second", page.want[2]>> \in Commands BY <2>2 DEF Commands
    <3>4. /\ d'.cmd = <<"second", page.want[2]>> /\ d'.evts = d.evts \cup {"CMD"}
          /\ d'.new = d.new /\ d'.key = d.key /\ d'.saving = "no"
      BY <3>2, <3>3, WriteStep
    <3>5. page'.inbox = <<>> /\ page'.want = page.want /\ page'.told = page.told
      BY <3>2 DEF TypeOK, Pages
    <3>6. d.new[1] = page.want[1] /\ ~page.told BY <2>3 DEF PatientInv, ExchangeInv
    <3>7. KeyIsWhole' BY <3>2, <3>4 DEF PatientInv, KeyIsWhole
    <3>8. ExchangeInv' BY <3>4, <3>5, <3>6 DEF ExchangeInv, Pending, Installs
    <3>9. ToldInv' BY <3>5, <3>6 DEF ToldInv
    <3> QED BY <3>7, <3>8, <3>9 DEF PatientInv
  <2>4. CASE page.inbox = <<"second">>
    <3>1. Head(page.inbox) = "second" /\ Tail(page.inbox) = <<>> BY <2>4
    <3>2. page' = [page EXCEPT !.inbox = <<>>, !.told = TRUE] /\ UNCHANGED <<d, flash>>
      BY <1>8, <3>1 DEF PageReads
    <3>3. page'.inbox = <<>> /\ page'.want = page.want BY <3>2 DEF TypeOK, Pages
    <3>4. d.key = page.want /\ flash.key = page.want BY <2>4 DEF PatientInv, ToldInv
    <3>5. ~Pending("first") /\ ~Pending("second") /\ ~Installs
      BY <2>4 DEF PatientInv, ExchangeInv
    <3>6. KeyIsWhole' BY <3>2 DEF PatientInv, KeyIsWhole
    <3>7. ExchangeInv' BY <3>2, <3>3, <3>5 DEF ExchangeInv, Pending, Installs
    <3>8. ToldInv' BY <2>2, <3>2, <3>3, <3>4 DEF ToldInv
    <3> QED BY <3>6, <3>7, <3>8 DEF PatientInv
  <2> QED BY <2>1, <2>3, <2>4
<1>9. CASE Connect
  BY <1>9 DEF Connect, PatientInv, KeyIsWhole, ExchangeInv, ToldInv, Pending, Installs
\* The RAM is read back from flash.
<1>10. ASSUME d' = Ram(flash'), page' = [page EXCEPT !.inbox = <<>>],
              flash'.key \in Keys \cup {Zeros, Torn, Absent}, page.told => flash'.key = flash.key
       PROVE  PatientInv'
  <2>1. flash' \in Flashes BY <1>0 DEF TypeOK
  <2>2. /\ d'.evts = {} /\ d'.saving = "no"
        /\ d'.key = IF flash'.key = Absent THEN Zeros ELSE flash'.key
    BY <1>10, <2>1, RamStep
  <2>3. page'.inbox = <<>> /\ page'.want = page.want /\ page'.told = page.told
    BY <1>10 DEF TypeOK, Pages
  <2>4. KeyIsWhole' BY <1>10, <2>2 DEF KeyIsWhole
  <2>5. ExchangeInv' BY <2>2, <2>3 DEF ExchangeInv, Pending, Installs
  <2>6. ToldInv'
    <3>1. Absent \notin Keys BY KeysAssumption DEF Absent
    <3> QED BY <1>10, <2>2, <2>3, <3>1 DEF PatientInv, ToldInv
  <2> QED BY <2>4, <2>5, <2>6 DEF PatientInv
<1>11. CASE PowerLoss
  <2>1. d' = Ram(flash') /\ page' = [page EXCEPT !.inbox = <<>>] BY <1>11 DEF PowerLoss
  <2>2. d.saving \in {"no", "key", "addr"} BY DEF TypeOK, Devices
  <2>3. CASE d.saving = "key"
    <3>1. flash'.key \in {flash.key, d.key, Torn, Absent} BY <1>11, <2>3 DEF PowerLoss
    <3>2. ~page.told BY <2>3 DEF StoreInv, PatientInv, ExchangeInv, Installs
    <3> QED BY <1>10, <2>1, <3>1, <3>2 DEF PatientInv, KeyIsWhole
  <2>4. CASE d.saving = "addr"
    <3>1. flash'.key = flash.key BY <1>11, <2>4 DEF PowerLoss
    <3> QED BY <1>10, <2>1, <3>1 DEF PatientInv, KeyIsWhole
  <2>5. CASE d.saving = "no"
    <3>1. flash' = flash BY <1>11, <2>5 DEF PowerLoss
    <3> QED BY <1>10, <2>1, <3>1 DEF PatientInv, KeyIsWhole
  <2> QED BY <2>2, <2>3, <2>4, <2>5
<1>12. ASSUME NEW k \in Keys, UserSetsKey(k) PROVE PatientInv'
  <2>1. /\ Quiet /\ Writes(<<"first", k[1]>>) /\ page' = [page EXCEPT !.want = k, !.told = FALSE]
        /\ flash' = flash
    BY <1>12 DEF UserSetsKey
  <2>2. <<"first", k[1]>> \in Commands BY DEF Commands
  <2>3. /\ d'.cmd = <<"first", k[1]>> /\ d'.key = d.key /\ d'.saving = "no"
    BY <2>1, <2>2, WriteStep
  <2>4. page'.inbox = <<>> /\ page'.want = k /\ page'.told = FALSE
    BY <2>1 DEF TypeOK, Pages, Quiet
  <2>5. KeyIsWhole' BY <2>1, <2>3 DEF PatientInv, KeyIsWhole
  <2>6. ExchangeInv' BY <2>3, <2>4 DEF ExchangeInv, Pending, Installs
  <2>7. ToldInv' BY <2>4 DEF ToldInv
  <2> QED BY <2>5, <2>6, <2>7 DEF PatientInv
<1>13. ASSUME NEW c \in {<<"address">>, <<"buzzer", TRUE>>, <<"buzzer", FALSE>>}, UserWrites(c)
       PROVE  PatientInv'
  <2>1. c \in Commands /\ c[1] \notin {"first", "second"}
    <3>1. CASE c = <<"address">> BY <3>1 DEF Commands
    <3>2. CASE \E on \in BOOLEAN : c = <<"buzzer", on>> BY <3>2 DEF Commands
    <3> QED BY <3>1, <3>2
  <2>2. Writes(c) /\ UNCHANGED <<flash, page>> BY <1>13 DEF UserWrites
  <2>3. /\ d'.cmd = c /\ d'.new = d.new /\ d'.key = d.key /\ d'.saving = "no"
    BY <2>1, <2>2, WriteStep
  <2> QED BY <2>1, <2>2, <2>3 DEF PatientInv, KeyIsWhole, ExchangeInv, ToldInv, Pending, Installs
<1>14. ASSUME NEW closed \in BOOLEAN, LinkEnds(closed) PROVE PatientInv'
  <2>1. flash' = flash /\ page' = [page EXCEPT !.inbox = <<>>] /\ d.saving = "no"
    BY <1>14 DEF LinkEnds
  <2>2. CASE d' = Ram(flash)
    BY <1>10, <2>1, <2>2 DEF PatientInv, KeyIsWhole
  <2>3. CASE d' = d
    <3>1. page'.inbox = <<>> /\ page'.want = page.want /\ page'.told = page.told
      BY <2>1 DEF TypeOK, Pages
    <3> QED BY <2>1, <2>3, <3>1 DEF PatientInv, KeyIsWhole, ExchangeInv, ToldInv, Pending, Installs
  <2> QED BY <1>14, <2>2, <2>3 DEF LinkEnds
<1>15. CASE UNCHANGED vars
  BY <1>15 DEF vars, PatientInv, KeyIsWhole, ExchangeInv, ToldInv, Pending, Installs
<1> QED
  BY <1>1, <1>2, <1>3, <1>4, <1>5, <1>6, <1>7, <1>8, <1>9, <1>11, <1>12, <1>13, <1>14, <1>15
  DEF Next, Task, Environment
-----------------------------------------------------------------------------
LEMMA TagInvariant == Spec => []AnyInv
<1>1. AnyInv /\ [Next]_vars => AnyInv' BY StepAny
<1> QED BY InitAny, <1>1, PTL DEF Spec

LEMMA PatientInvariant == ASSUME Patient PROVE Spec => [](AnyInv /\ PatientInv)
<1>1. Init => AnyInv /\ PatientInv BY InitAny, InitPatient
<1>2. AnyInv /\ PatientInv /\ [Next]_vars => AnyInv' /\ PatientInv' BY StepAny, StepPatient
<1> QED BY <1>1, <1>2, PTL DEF Spec

\* RAM, settings, page and link keep their shape.
THEOREM TagTyped == Spec => []TypeOK
<1>1. AnyInv => TypeOK BY DEF AnyInv
<1> QED BY <1>1, TagInvariant, PTL

\* With a user who waits for answers, the key in use and the key in flash are
\* ones that were given as a whole, whatever messages are lost, whatever other
\* commands come between and wherever power fails.
THEOREM KeysStayWhole == ASSUME Patient PROVE Spec => []KeyIsWhole
<1>1. PatientInv => KeyIsWhole BY DEF PatientInv
<1> QED BY <1>1, PatientInvariant, PTL

\* ... and the page does not show a key as set before it is in use and in flash.
\* Its address is so too, but for one set by command and for a power failure
\* between the saves of the two, which is never made good.
THEOREM ToldIsInstalled == ASSUME Patient PROVE Spec => []InstalledWhenTold
<1>1. ASSUME AnyInv, PatientInv, page.told PROVE InstalledWhenTold
  <2>1. page.want \in Keys /\ d.key = page.want /\ flash.key = page.want
    BY <1>1 DEF PatientInv, ToldInv
  <2>2. CASE d.saving = "addr"
    <3>1. ~Installs BY <1>1 DEF PatientInv, ExchangeInv
    <3>2. past.apart BY <1>1, <2>2, <3>1 DEF AnyInv, StoreInv, Installs
    <3> QED BY <2>1, <3>2 DEF InstalledWhenTold
  <2>3. CASE d.saving # "addr"
    BY <1>1, <2>1, <2>3 DEF AnyInv, StoreInv, InstalledWhenTold
  <2> QED BY <2>2, <2>3
<1>2. AnyInv /\ PatientInv => InstalledWhenTold BY <1>1 DEF InstalledWhenTold
<1> QED BY <1>2, PatientInvariant, PTL

\* No event that was on its way starts a buzzer again that was stopped.
THEOREM StoppedStaysSilent == Spec => []StoppedIsSilent
<1>1. AnyInv => StoppedIsSilent BY DEF AnyInv
<1> QED BY <1>1, TagInvariant, PTL

\* The ring of the log is a queue at every length, over its end and when full.
THEOREM LogStaysQueue == Spec => LogIsQueue
<1>1. ASSUME AnyInv, [Next]_vars
      PROVE  [\/ Queue(d') = Queue(d)
              \/ \E m \in {"cmd", "button"} : Len(Queue(d)) < QueueSize /\ Queue(d') = Append(Queue(d), m)
              \/ Queue(d') = <<>>]_vars
  BY <1>1, StepAny DEF Logged
<1> QED BY <1>1, TagInvariant, PTL DEF Spec, LogIsQueue
=============================================================================
