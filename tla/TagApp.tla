------------------------------- MODULE TagApp -------------------------------
(***************************************************************************)
(* What the application task of a tag does for a phone: the commands that  *)
(* set the Find My key and the address (cmd_parser.c), the one buffer they *)
(* arrive in (sbp_profile.c), the buzzer (buzzer.c) and the log that is    *)
(* sent to the phone (nus_log.c); with the phone's page, which sends a key *)
(* in two halves, and the settings in flash.                               *)
(*                                                                         *)
(* The task handles one event at a time, the first of ADV_..., TONE, PIN,  *)
(* CMD, LOG that is set.  A key is a pair; its first half decides the      *)
(* address of the tag.                                                     *)
(***************************************************************************)
EXTENDS Naturals, Sequences

CONSTANTS
  Keys,      \* the keys the user has, pairs that share no half
  Patient,   \* whether the user waits for an answer before setting a key again
  QueueSize, \* NUS_LOG_QUEUE_SIZE
  Melody     \* buzzer.c:84: for each note whether it sounds or is a rest

\* The words that stand for no half are none a user gives.
ASSUME KeysAssumption ==
  \A k \in Keys : k = <<k[1], k[2]>> /\ {k[1], k[2]} \cap {"zero", "torn", "spoilt", "none"} = {}
ASSUME QueueSizeAssumption == QueueSize \in Nat \ {0}
ASSUME MelodyAssumption == Melody # <<>> /\ Melody \in Seq(BOOLEAN)

VARIABLES
  d,     \* the tag's RAM, which a reset clears
  flash, \* its settings: the objects EEP_ID_FDK and EEP_ID_MAC
  link,  \* there is a connection
  page,  \* the phone's page and its user
  past   \* whether key and address were set apart; whether the melody is on

vars == <<d, flash, link, page, past>>

Events   == {"TONE", "PIN", "CMD", "LOG"}
Halves   == {k[1] : k \in Keys} \cup {k[2] : k \in Keys}
Commands == {<<"first", k[1]>> : k \in Keys} \cup {<<"second", k[2]>> : k \in Keys}
              \cup {<<"buzzer", on>> : on \in BOOLEAN} \cup {<<"address">>}

Handled == <<"none">>          \* the buffer's command, once it is handled
Zeros  == <<"zero", "zero">>  \* findmy_key as the start-up code leaves it
Torn   == <<"torn", "torn">>  \* read back after a save that was cut short
Absent == <<"none", "none">>

HalfValues == Halves \cup {"zero", "torn", "spoilt"}
AddrValues == HalfValues \cup {"chip", "other"}

\* RAM after a reset: set_mac(), load_eep_config().  An address that is not in
\* flash has been put there first.
Ram(f) == [
  evts |-> {}, cmd |-> Handled, saving |-> "no", reboot |-> FALSE,
  new |-> Zeros, key |-> IF f.key = Absent THEN Zeros ELSE f.key,
  own |-> f.addr,
  sound |-> FALSE, lock |-> FALSE, timer |-> FALSE, idx |-> 1,
  slots |-> [i \in 0 .. QueueSize - 1 |-> "none"], read |-> 0, write |-> 0, count |-> 0]

NoFlash == [key |-> Absent, addr |-> "chip"]

Init ==
  /\ flash = NoFlash
  /\ d = Ram(NoFlash)
  /\ link = FALSE
  /\ page = [want |-> Zeros, inbox |-> <<>>, told |-> FALSE]
  /\ past = [apart |-> FALSE, playing |-> FALSE]

Devices == [
  evts : SUBSET Events, cmd : Commands \cup {Handled}, saving : {"no", "key", "addr"},
  reboot : BOOLEAN, new : HalfValues \X HalfValues, key : HalfValues \X HalfValues,
  own : AddrValues,
  sound : BOOLEAN, lock : BOOLEAN, timer : BOOLEAN, idx : 1 .. Len(Melody),
  slots : [0 .. QueueSize - 1 -> {"none", "cmd", "button"}],
  read : 0 .. QueueSize - 1, write : 0 .. QueueSize - 1, count : 0 .. QueueSize]

Flashes == [key : (HalfValues \X HalfValues) \cup {Absent}, addr : AddrValues]
Pages   == [want : Keys \cup {Zeros}, inbox : Seq({"first", "second"}), told : BOOLEAN]

TypeOK ==
  /\ d \in Devices /\ flash \in Flashes /\ page \in Pages
  /\ link \in BOOLEAN /\ past \in [apart : BOOLEAN, playing : BOOLEAN]
-----------------------------------------------------------------------------
(* The log.                                                                *)

\* mutant: a full queue is not noticed
QueueUnchecked(s, m) ==
  [s EXCEPT !.slots[s.write] = m, !.write = (@ + 1) % QueueSize,
            !.count = IF @ < QueueSize THEN @ + 1 ELSE @, !.evts = @ \cup {"LOG"}]

QueueLog(s, m) ==
  IF s.count >= QueueSize THEN s
  ELSE [s EXCEPT !.slots[s.write] = m, !.write = (@ + 1) % QueueSize, !.count = @ + 1,
                 !.evts = @ \cup {"LOG"}]

\* mutant: one message is sent, and no event is set for the others
SendOne(s) ==
  IF s.count = 0 THEN s
  ELSE [s EXCEPT !.slots[s.read] = "none", !.read = (@ + 1) % QueueSize, !.count = @ - 1]

\* nus_log_process() hands every message to the stack.
SendLog(s) ==
  [s EXCEPT !.slots = [i \in DOMAIN @ |-> "none"], !.read = (@ + s.count) % QueueSize, !.count = 0]

\* The messages that wait, the oldest first.
Queue(s) == [i \in 1 .. s.count |-> s.slots[(s.read + i - 1) % QueueSize]]
-----------------------------------------------------------------------------
(* The buzzer.                                                             *)

\* pwm_buzzer_note(): a rest lets the chip sleep.
Note(s, sounds) == [s EXCEPT !.sound = sounds, !.lock = sounds]

\* mutant: the end of the melody is passed
ToneUnwrapped(s) == [Note(s, Melody[s.idx]) EXCEPT !.timer = TRUE, !.idx = @ + 1]

\* mutant: the timer is started for a note that sounds only
RestUntimed(s) ==
  [Note(s, Melody[s.idx]) EXCEPT !.timer = Melody[s.idx], !.idx = (@ % Len(Melody)) + 1]

Tone(s) ==
  [Note(s, Melody[s.idx]) EXCEPT !.timer = TRUE, !.idx = (@ % Len(Melody)) + 1]

BuzzerStart(s) == Tone([s EXCEPT !.timer = FALSE, !.idx = 1])

\* mutant: the timer goes on
TimerLeft(s) == [s EXCEPT !.sound = FALSE, !.lock = FALSE]

BuzzerStop(s) == [s EXCEPT !.sound = FALSE, !.lock = FALSE, !.timer = FALSE]
-----------------------------------------------------------------------------
(* The commands.  A save takes time; what follows it is a step of its own. *)

AddrOf(k) == k[1]

\* The answer is a notification: the stack may have no room for it.
Answer(c) == page' \in {page, [page EXCEPT !.inbox = Append(@, c)]}

\* mutant: a first half is only taken when none has come yet
FirstOnce(s, h) == IF s.new[1] = "zero" THEN [s EXCEPT !.new[1] = h] ELSE s

First(s, h) == [s EXCEPT !.new[1] = h]

Second(s, h) ==
  LET new == <<s.new[1], h>>
  IN  [s EXCEPT !.new = new, !.key = new, !.saving = IF new = s.key THEN "no" ELSE "key"]

SetAddress(s) ==
  IF s.own = "other" THEN s ELSE [s EXCEPT !.own = "other", !.saving = "addr"]

Commanded(s) ==
  LET t == QueueLog(s, "cmd") IN
  CASE s.cmd[1] = "first"   -> First(t, s.cmd[2])
    [] s.cmd[1] = "second"  -> Second(t, s.cmd[2])
    [] s.cmd[1] = "address" -> SetAddress(t)
    [] s.cmd[1] = "buzzer"  -> IF s.cmd[2] THEN BuzzerStart(t) ELSE BuzzerStop(t)

\* mutant: the address is left as it was
AddressForgotten(s) == [s EXCEPT !.new[1] = "spoilt", !.saving = "no"]

\* findmy_key_new is used up to make the address from the key.
KeySaved(s) ==
  LET a == AddrOf(s.new)
      t == [s EXCEPT !.new[1] = "spoilt"]
  IN  IF s.own = a THEN [t EXCEPT !.saving = "no"]
      ELSE [t EXCEPT !.own = a, !.saving = "addr"]

AddrSaved(s) == [s EXCEPT !.saving = "no", !.reboot = TRUE]

Done(s) == IF s.saving = "no" THEN [s EXCEPT !.cmd = Handled] ELSE s
-----------------------------------------------------------------------------
(* The application's events.                                               *)

Takes(e) == d.saving = "no" /\ e \in d.evts

ToneEvent ==
  /\ Takes("TONE")
  /\ d' = Tone([d EXCEPT !.evts = @ \ {"TONE"}])
  /\ UNCHANGED <<flash, link, page, past>>

\* The pin is read when the event is handled.
PinEvent ==
  /\ Takes("PIN") /\ "TONE" \notin d.evts
  /\ \E down \in BOOLEAN :
       LET s == [d EXCEPT !.evts = @ \ {"PIN"}] IN
       /\ d' = IF down THEN QueueLog(s, "button") ELSE BuzzerStop(s)
       /\ past' = IF down THEN past ELSE [past EXCEPT !.playing = FALSE]
  /\ UNCHANGED <<flash, link, page>>

CmdEvent ==
  /\ Takes("CMD") /\ d.evts \cap {"TONE", "PIN"} = {}
  /\ d' = Done(Commanded([d EXCEPT !.evts = @ \ {"CMD"}]))
  /\ past' = [past EXCEPT !.playing = IF d.cmd[1] = "buzzer" THEN d.cmd[2] ELSE @,
                          !.apart = @ \/ d.cmd[1] = "address"]
  /\ IF d'.saving = "no" /\ d.cmd[1] \in {"first", "second"} /\ link THEN Answer(d.cmd[1])
     ELSE UNCHANGED page
  /\ UNCHANGED <<flash, link>>

LogEvent ==
  /\ Takes("LOG") /\ d.evts \cap {"TONE", "PIN", "CMD"} = {}
  /\ d' = SendLog([d EXCEPT !.evts = @ \ {"LOG"}])
  /\ UNCHANGED <<flash, link, page, past>>

SaveEnds ==
  /\ \/ /\ d.saving = "key"
        /\ flash' = [flash EXCEPT !.key = d.key]
        /\ d' = Done(KeySaved(d))
     \/ /\ d.saving = "addr"
        /\ flash' = [flash EXCEPT !.addr = d.own]
        /\ d' = Done(AddrSaved(d))
  /\ IF d'.saving = "no" /\ d.cmd[1] = "second" /\ link THEN Answer("second") ELSE UNCHANGED page
  /\ past' = [past EXCEPT !.apart = @ /\ d.saving = "addr"]
  /\ UNCHANGED link

Task == ToneEvent \/ PinEvent \/ CmdEvent \/ LogEvent \/ SaveEnds
-----------------------------------------------------------------------------
(* Interrupts, the phone, the supply.                                      *)

\* The timers are counted between two events.
TimerFires ==
  /\ d.timer /\ d.saving = "no"
  /\ d' = [d EXCEPT !.timer = FALSE, !.evts = @ \cup {"TONE"}]
  /\ UNCHANGED <<flash, link, page, past>>

KeyMoves ==
  /\ d' = [d EXCEPT !.evts = @ \cup {"PIN"}]
  /\ UNCHANGED <<flash, link, page, past>>

\* simpleProfile_WriteAttrCB(), in the GATT task: the buffer holds one command.
Writes(c) == link /\ d.saving = "no" /\ d' = [d EXCEPT !.cmd = c, !.evts = @ \cup {"CMD"}]

\* Nothing of an exchange is on the way: it is over, or a message was lost.
Quiet == page.inbox = <<>> /\ "CMD" \notin d.evts

UserSetsKey(k) ==
  /\ Quiet \/ (~Patient /\ k = page.want)
  /\ Len(page.inbox) < 2
  /\ Writes(<<"first", k[1]>>)
  /\ page' = [page EXCEPT !.want = k, !.told = FALSE]
  /\ UNCHANGED <<flash, link, past>>

PageReads ==
  /\ link /\ page.inbox # <<>>
  /\ \/ /\ Head(page.inbox) = "first"
        /\ Writes(<<"second", page.want[2]>>)
        /\ page' = [page EXCEPT !.inbox = Tail(@)]
     \/ /\ Head(page.inbox) = "second"
        /\ page' = [page EXCEPT !.inbox = Tail(@), !.told = TRUE]
        /\ UNCHANGED d
  /\ UNCHANGED <<flash, link, past>>

UserWrites(c) == Writes(c) /\ UNCHANGED <<flash, link, page, past>>

Connect == ~link /\ link' = TRUE /\ UNCHANGED <<d, flash, page, past>>

\* A link that is closed restarts a tag that has got a new address; one that
\* is lost does not.
LinkEnds(closed) ==
  /\ link /\ d.saving = "no"
  /\ link' = FALSE
  /\ page' = [page EXCEPT !.inbox = <<>>]
  /\ IF closed /\ d.reboot
     THEN d' = Ram(flash) /\ past' = [past EXCEPT !.playing = FALSE]
     ELSE UNCHANGED <<d, past>>
  /\ UNCHANGED flash

\* What a save leaves that is cut short: see EepStore.
PowerLoss ==
  /\ flash' \in CASE d.saving = "no"   -> {flash}
                  [] d.saving = "key"  -> [key : {flash.key, d.key, Torn, Absent}, addr : {flash.addr}]
                  [] d.saving = "addr" -> [key : {flash.key}, addr : {flash.addr, d.own, "torn", "chip"}]
  /\ d' = Ram(flash')
  /\ link' = FALSE
  /\ page' = [page EXCEPT !.inbox = <<>>]
  /\ past' = [playing |-> FALSE,
              apart |-> \/ past.apart
                        \/ d.saving = "key" /\ flash'.key = d.key
                        \/ d.saving = "addr" /\ flash'.addr # d.own]

Environment ==
  \/ TimerFires \/ KeyMoves \/ PageReads \/ Connect \/ PowerLoss
  \/ \E k \in Keys : UserSetsKey(k)
  \/ \E c \in {<<"address">>, <<"buzzer", TRUE>>, <<"buzzer", FALSE>>} : UserWrites(c)
  \/ \E closed \in BOOLEAN : LinkEnds(closed)

Next == Task \/ Environment

\* The scheduler goes on, and a running timer fires.
Spec == Init /\ [][Next]_vars /\ WF_vars(Task) /\ SF_vars(TimerFires)
-----------------------------------------------------------------------------
\* A key the tag uses or stores is one a user gave, never two halves of
\* different keys nor one that has been made into an address; only a power
\* failure during its save may spoil it.
KeyIsWhole == {d.key, flash.key} \subseteq Keys \cup {Zeros, Torn, Absent}

\* When the page shows a key as set, the tag has it in use and in flash, and
\* its address is the key's, unless that was set by itself or a power failure
\* came between the saves of the key and the address.
InstalledWhenTold ==
  page.told =>
    /\ d.key = page.want /\ flash.key = page.want
    /\ {d.own, flash.addr} = {AddrOf(page.want)} \/ past.apart

\* A buzzer that was stopped, by a command or by letting go of the button,
\* stays silent; it keeps the chip awake only while it sounds.
StoppedIsSilent ==
  /\ ~past.playing => ~d.sound /\ ~d.timer /\ "TONE" \notin d.evts
  /\ d.lock = d.sound

\* A melody that was not stopped goes on, over its rests and its end.
MelodyGoesOn == []<>(d.sound \/ ~past.playing)

\* The log is a queue: a message is put behind those that wait or, when it is
\* full, dropped, and the messages leave together; only a reset loses them.
LogIsQueue ==
  [][\/ Queue(d') = Queue(d)
     \/ \E m \in {"cmd", "button"} : Len(Queue(d)) < QueueSize /\ Queue(d') = Append(Queue(d), m)
     \/ Queue(d') = <<>>]_vars

\* Messages that wait are sent as soon as the task has nothing else to do.
LogIsSent == []<>(d.count = 0 \/ d.evts \ {"LOG"} # {} \/ d.saving # "no")
=============================================================================
