------------------------------ MODULE GapRole ------------------------------
(***************************************************************************)
(* Advertising and the connection of a tag with a button (the HDP16 build):*)
(* the GAP peripheral role (thb2_peripheral.c), the application task that  *)
(* drives it (thb2_main.c), the host's advertising state (ble_host), and   *)
(* the radio as they see it.                                               *)
(*                                                                         *)
(* The scheduler runs one handler at a time to its end, the task that      *)
(* comes first in tasksArr first: link layer, GAP, GAP role, application.  *)
(* Interrupts come at any time, also during a handler of the application,  *)
(* which is two actions for that reason.                                   *)
(***************************************************************************)
EXTENDS Integers, Sequences

CONSTANT EventCnt  \* cfg.adv_event_cnt, the advertising events of a burst

ASSUME EventCntAssumption == EventCnt \in Nat \ {0}

VARIABLES
  d,     \* the device: everything a reset clears
  key,   \* whether the button is down
  fresh, \* all tasks have been idle since the last advertising event
  past   \* how the last link ended; an order came too late; a link failed

vars == <<d, key, fresh, past>>

Roles    == {"INIT", "STARTED", "ADVERTISING", "WAITING", "WAITING_AFTER_TIMEOUT",
             "CONNECTED", "CONNECTED_ADV", "ERROR"}
AdStates == {"null", "set_params", "set_mode", "advertising", "ending"}
Reasons  == {"clean", "timeout"}
Commands == {"reboot", "name"}
AppEvents == {"ADV_BROADCAST", "RESET_ADV", "START_DEVICE", "PIN_INPUT", "CMDDATA"}

\* A message: what it reports, and its status or (term) the reason.
Msg(op, res) == [op |-> op, res |-> res]
GapMsgs  == [op : {"set_params", "set_enable", "adv_data", "scan_rsp", "conn"}, res : {"ok", "bad"}]
              \cup [op : {"disc"}, res : Reasons]
RoleMsgs == [op : {"init_done", "adv_data_done", "scan_rsp_done", "make_done",
                   "end_done", "link"}, res : {"ok", "bad"}]
              \cup [op : {"term"}, res : Reasons]

Boot == [
  role |-> "INIT", advEnabled |-> FALSE, startEvt |-> FALSE,  \* gapRole_...
  adState |-> "null", linked |-> FALSE,                       \* pGapAdvertState, linkDB
  gapq |-> <<>>, roleq |-> <<>>,                              \* messages to both tasks
  adv |-> FALSE, link |-> FALSE, llEvt |-> "none", llInterval |-> "user",
  evts |-> {"START_DEVICE"}, running |-> "none", cmd |-> "none",
  event |-> FALSE, reload |-> 0, batt |-> FALSE,              \* adv_wrk, TIMER_BATT_EVT
  button |-> FALSE, pinInput |-> FALSE,                       \* measured_data
  interval |-> "user", reboot |-> FALSE]                      \* gapParameters, wrk

NoPast == [ended |-> "none", late |-> FALSE, failed |-> FALSE]

Init ==
  /\ d = Boot
  /\ key \in BOOLEAN
  /\ fresh = TRUE
  /\ past = NoPast

Devices == [
  role : Roles, advEnabled : BOOLEAN, startEvt : BOOLEAN,
  adState : AdStates, linked : BOOLEAN,
  gapq : Seq(GapMsgs), roleq : Seq(RoleMsgs),
  adv : BOOLEAN, link : BOOLEAN, llEvt : {"none", "created", "bad"}, llInterval : {"user", "event"},
  evts : SUBSET AppEvents, running : AppEvents \cup {"none"}, cmd : Commands \cup {"none"},
  event : BOOLEAN, reload : 0 .. EventCnt, batt : BOOLEAN,
  button : BOOLEAN, pinInput : BOOLEAN,
  interval : {"user", "event"}, reboot : BOOLEAN]

TypeOK ==
  /\ d \in Devices
  /\ key \in BOOLEAN /\ fresh \in BOOLEAN
  /\ past \in [ended : Reasons \cup {"none"}, late : BOOLEAN, failed : BOOLEAN]
-----------------------------------------------------------------------------
(* The host and the link layer, as functions of the device's state.  A      *)
(* command is carried out at once and its status comes back as a message.   *)

ToGap(s, op, res)  == [s EXCEPT !.gapq = Append(@, Msg(op, res))]
ToRole(s, op, res) == [s EXCEPT !.roleq = Append(@, Msg(op, res))]
Status(ok) == IF ok THEN "ok" ELSE "bad"

SetAdvParam(s) ==
  ToGap([s EXCEPT !.llInterval = IF s.adv THEN @ ELSE s.interval], "set_params", Status(~s.adv))
AdvOn(s)  == ToGap([s EXCEPT !.adv = TRUE], "set_enable", Status(~s.adv))
AdvOff(s) == ToGap([s EXCEPT !.adv = FALSE], "set_enable", "ok")

\* gapRole_state becomes GAPROLE_ERROR when this is refused.
MakeDiscoverable(s) ==
  IF s.adState # "null" THEN [s EXCEPT !.role = "ERROR"]
  ELSE SetAdvParam([s EXCEPT !.adState = "set_params"])

EndDiscoverable(s) ==
  IF s.adState = "null" THEN s ELSE AdvOff([s EXCEPT !.adState = "ending"])

SetParamsStatus(s, res) ==
  CASE s.adState = "null" -> s
    [] s.adState # "null" /\ res = "ok" -> AdvOn([s EXCEPT !.adState = "set_mode"])
    [] OTHER -> ToRole([s EXCEPT !.adState = "null"], "make_done", res)

EnableStatus(s, res) ==
  CASE s.adState = "null" -> s
    [] s.adState = "set_mode" ->
         ToRole([s EXCEPT !.adState = IF res = "ok" THEN "advertising" ELSE "null"],
                "make_done", res)
    [] OTHER -> ToRole([s EXCEPT !.adState = "null"], "end_done", res)

ConnectionLeaves(s, res) ==  \* mutant: the advertising state is not freed
  ToRole([s EXCEPT !.linked = @ \/ res = "ok"], "link", res)

ConnectionComplete(s, res) ==
  ToRole([s EXCEPT !.adState = "null", !.linked = @ \/ res = "ok"], "link", res)

DisconnectComplete(s, reason) ==
  IF s.linked THEN ToRole([s EXCEPT !.linked = FALSE], "term", reason) ELSE s

GapHandles(s, m) ==
  CASE m.op = "set_params" -> SetParamsStatus(s, m.res)
    [] m.op = "set_enable" -> EnableStatus(s, m.res)
    [] m.op = "adv_data"   -> ToRole(s, "adv_data_done", m.res)
    [] m.op = "scan_rsp"   -> ToRole(s, "scan_rsp_done", m.res)
    [] m.op = "conn"       -> ConnectionComplete(s, m.res)
    [] m.op = "disc"       -> DisconnectComplete(s, m.res)
-----------------------------------------------------------------------------
(* The GAP role; it ends with the application's callback, which may reset. *)

Reloaded(s) == [s EXCEPT !.event = FALSE, !.reload = 1]

NotifyRuns(s) ==  \* mutant: the timer is not stopped when advertising
  CASE s.role = "STARTED"     -> [s EXCEPT !.evts = @ \cup {"RESET_ADV"}]
    [] s.role = "CONNECTED"   -> [Reloaded(s) EXCEPT !.batt = TRUE]
    [] s.role = "WAITING"     -> IF s.reboot THEN Boot ELSE [Reloaded(s) EXCEPT !.batt = FALSE]
    [] OTHER -> s

NotifyStays(s) ==  \* mutant: only the radio is restarted, not the device
  CASE s.role = "STARTED"     -> [s EXCEPT !.evts = @ \cup {"RESET_ADV"}]
    [] s.role = "ADVERTISING" -> [s EXCEPT !.batt = FALSE]
    [] s.role = "CONNECTED"   -> [Reloaded(s) EXCEPT !.batt = TRUE]
    [] s.role = "WAITING"     -> [Reloaded(s) EXCEPT !.batt = FALSE]
    [] OTHER -> s

Notify(s) ==
  CASE s.role = "STARTED"     -> [s EXCEPT !.evts = @ \cup {"RESET_ADV"}]
    [] s.role = "ADVERTISING" -> [s EXCEPT !.batt = FALSE]
    [] s.role = "CONNECTED"   -> [Reloaded(s) EXCEPT !.batt = TRUE]
    [] s.role = "WAITING"     -> IF s.reboot THEN Boot ELSE [Reloaded(s) EXCEPT !.batt = FALSE]
    [] OTHER -> s

InError(s) == Notify([s EXCEPT !.role = "ERROR"])

EndDoneDisables(s) ==  \* mutant: the enabler is cleared whatever the role
  Notify([s EXCEPT
    !.advEnabled = FALSE,
    !.startEvt   = @ \/ s.role = "WAITING_AFTER_TIMEOUT",
    !.role = CASE s.role = "CONNECTED_ADV" -> "CONNECTED"
               [] s.role = "WAITING_AFTER_TIMEOUT" -> @
               [] OTHER -> "WAITING"])

EndDone(s) ==
  Notify([s EXCEPT
    !.advEnabled = s.role = "WAITING_AFTER_TIMEOUT",
    !.startEvt   = @ \/ s.role = "WAITING_AFTER_TIMEOUT",
    !.role = CASE s.role = "CONNECTED_ADV" -> "CONNECTED"
               [] s.role = "WAITING_AFTER_TIMEOUT" -> @
               [] OTHER -> "WAITING"])

LinkEstablished(s) == Notify([s EXCEPT !.role = "CONNECTED", !.advEnabled = FALSE])

LinkTerminatedOff(s, reason) ==  \* mutant: advertising is not enabled again
  LET t == [s EXCEPT !.role = IF reason = "timeout" THEN "WAITING_AFTER_TIMEOUT" ELSE "WAITING"]
  IN  Notify(IF s.advEnabled THEN EndDiscoverable(t) ELSE [t EXCEPT !.startEvt = TRUE])

LinkTerminated(s, reason) ==
  LET t == [s EXCEPT !.role = IF reason = "timeout" THEN "WAITING_AFTER_TIMEOUT" ELSE "WAITING"]
  IN  Notify(IF s.advEnabled THEN EndDiscoverable(t)
             ELSE [t EXCEPT !.advEnabled = TRUE, !.startEvt = TRUE])

RoleHandles(s, m) ==
  IF m.res = "bad" THEN InError(s)
  ELSE CASE m.op = "init_done"     -> Notify(ToGap([s EXCEPT !.role = "STARTED"], "adv_data", "ok"))
         [] m.op = "adv_data_done" -> ToGap(s, "scan_rsp", "ok")
         [] m.op = "scan_rsp_done" -> [s EXCEPT !.startEvt = @ \/ s.role # "ADVERTISING"]
         [] m.op = "make_done"     ->
              Notify([s EXCEPT !.role = IF @ = "CONNECTED" THEN "CONNECTED_ADV" ELSE "ADVERTISING"])
         [] m.op = "end_done"      -> EndDone(s)
         [] m.op = "link"          -> LinkEstablished(s)
         [] m.op = "term"          -> LinkTerminated(s, m.res)

StartAdvertising(s) == IF s.advEnabled THEN MakeDiscoverable(s) ELSE s
-----------------------------------------------------------------------------
(* The application.                                                        *)

SetNewAdvInterval(s, i) ==
  [EndDiscoverable([s EXCEPT !.interval = i]) EXCEPT
     !.role = "WAITING_AFTER_TIMEOUT", !.startEvt = TRUE]

BurstForgotten(s) ==  \* mutant: the second burst is not counted
  CASE s.event /\ s.button  -> [s EXCEPT !.reload = EventCnt]
    [] s.event /\ ~s.button -> SetNewAdvInterval([s EXCEPT !.reload = 0, !.event = FALSE], "event")
    [] ~s.event             -> SetNewAdvInterval([s EXCEPT !.reload = 0], "user")

BurstUncut(s) ==  \* mutant: a held button is not told from a released one
  CASE s.event  -> SetNewAdvInterval([s EXCEPT !.reload = EventCnt], "event")
    [] ~s.event -> SetNewAdvInterval([s EXCEPT !.reload = 0], "user")

\* At the last event of a burst: a burst that told of a press is followed by
\* one that tells of the release, once the button is up, and then by the
\* user's interval.
BurstOver(s) ==
  CASE s.event /\ s.button  -> [s EXCEPT !.reload = EventCnt]
    [] s.event /\ ~s.button -> SetNewAdvInterval([s EXCEPT !.reload = EventCnt, !.event = FALSE], "event")
    [] ~s.event             -> SetNewAdvInterval([s EXCEPT !.reload = 0], "user")

AdvMeasureWraps(s) ==  \* mutant: the count is stepped down when it is 0
  CASE ~s.advEnabled -> s
    [] s.advEnabled /\ s.reload = 1  -> BurstOver(s)
    [] OTHER -> [s EXCEPT !.reload = @ - 1]

AdvMeasure(s) ==
  CASE ~s.advEnabled \/ s.reload = 0 -> s
    [] s.advEnabled /\ s.reload = 1  -> BurstOver(s)
    [] OTHER -> [s EXCEPT !.reload = @ - 1]

AdvertEnable(s) ==
  [s EXCEPT !.advEnabled = TRUE,
            !.startEvt = @ \/ (~s.advEnabled /\ s.role \in
              {"STARTED", "WAITING", "CONNECTED", "WAITING_AFTER_TIMEOUT"})]

StartDevice(s) == IF s.role = "INIT" THEN ToRole(s, "init_done", "ok") ELSE s

PressSwallowed(s) ==  \* mutant: the press does not start advertising anew
  IF s.advEnabled THEN [s EXCEPT !.event = TRUE, !.reload = EventCnt] ELSE s

Pressed(s) ==
  IF s.advEnabled
  THEN SetNewAdvInterval([s EXCEPT !.event = TRUE, !.reload = EventCnt], "event")
  ELSE s

PinInput(s) ==
  CASE key /\ ~s.pinInput -> Pressed([s EXCEPT !.button = TRUE, !.pinInput = TRUE])
    [] key /\ s.pinInput  -> s
    [] ~key -> [s EXCEPT !.button = FALSE, !.pinInput = FALSE]

Command(s) ==
  IF s.cmd = "reboot" THEN [s EXCEPT !.reboot = TRUE] ELSE ToGap(s, "scan_rsp", "ok")

Handled(s) ==
  CASE s.running = "ADV_BROADCAST" -> AdvMeasure(s)
    [] s.running = "RESET_ADV"     -> AdvertEnable(s)
    [] s.running = "START_DEVICE"  -> StartDevice(s)
    [] s.running = "PIN_INPUT"     -> PinInput(s)
    [] s.running = "CMDDATA"       -> Command(s)
-----------------------------------------------------------------------------
(* The scheduler.                                                          *)

LLReady   == d.llEvt # "none"
GapReady  == ~LLReady /\ d.gapq # <<>>
RoleReady == ~LLReady /\ d.gapq = <<>> /\ (d.roleq # <<>> \/ d.startEvt)
AppReady  == ~LLReady /\ d.gapq = <<>> /\ d.roleq = <<>> /\ ~d.startEvt /\ d.evts # {}
Settled   == d.running = "none" /\ ~LLReady /\ ~GapReady /\ ~RoleReady

LLTask ==
  /\ LLReady
  /\ d' = [ToGap(d, "conn", Status(d.llEvt = "created")) EXCEPT !.llEvt = "none"]
  /\ UNCHANGED past

GapTask ==
  /\ GapReady
  /\ d' = GapHandles([d EXCEPT !.gapq = Tail(@)], Head(d.gapq))
  /\ UNCHANGED past

RoleTask ==
  /\ RoleReady
  /\ d' = IF d.roleq # <<>> THEN RoleHandles([d EXCEPT !.roleq = Tail(@)], Head(d.roleq))
          ELSE StartAdvertising([d EXCEPT !.startEvt = FALSE])
  /\ past' = IF d' = Boot THEN NoPast
             ELSE IF d.roleq # <<>> /\ Head(d.roleq).op = "term"
             THEN [past EXCEPT !.ended = Head(d.roleq).res]
             ELSE past

\* The application's events in the order in which it looks for them.
Rank == [e \in AppEvents |-> CASE e = "ADV_BROADCAST" -> 1 [] e = "RESET_ADV" -> 2
           [] e = "START_DEVICE" -> 3 [] e = "PIN_INPUT" -> 4 [] e = "CMDDATA" -> 5]

AppStarts ==
  /\ AppReady
  /\ \E e \in d.evts :
       /\ \A f \in d.evts : Rank[e] <= Rank[f]
       /\ d' = [d EXCEPT !.evts = @ \ {e}, !.running = e]
  /\ UNCHANGED past

AppEnds ==
  /\ d' = [Handled(d) EXCEPT !.running = "none"]
  /\ past' = [past EXCEPT !.late = @ \/ (d'.reboot /\ ~d.reboot /\ d.role # "CONNECTED")]

Task ==
  /\ \/ d.running = "none" /\ (LLTask \/ GapTask \/ RoleTask \/ AppStarts)
     \/ d.running # "none" /\ AppEnds
  /\ fresh' = (fresh \/ (Settled' /\ d'.evts = {}))
  /\ UNCHANGED key
-----------------------------------------------------------------------------
(* Interrupts, the other side of the link, the user.                       *)

\* Advertising events are so far apart that the tasks are idle in between.
AdvEventDone ==
  /\ d.adv /\ fresh
  /\ d' = [d EXCEPT !.evts = @ \cup {"ADV_BROADCAST"}]
  /\ fresh' = FALSE
  /\ UNCHANGED <<key, past>>

\* CONNECT_IND, with parameters the link layer takes or refuses.
Connect(res) ==
  /\ d.adv
  /\ d' = [d EXCEPT !.adv = FALSE, !.link = res = "created", !.llEvt = res]
  /\ past' = [past EXCEPT !.failed = @ \/ res = "bad"]
  /\ UNCHANGED <<key, fresh>>

\* A link is taken to outlast the handler during which it was made.
LinkEnds(reason) ==
  /\ d.link /\ ~LLReady
  /\ d' = ToGap([d EXCEPT !.link = FALSE], "disc", reason)
  /\ UNCHANGED <<key, fresh, past>>

\* simpleProfile_WriteAttrCB(), in the GATT task: one command buffer.
HostWrites(c) ==
  /\ d.linked /\ d.running = "none" /\ ~LLReady
  /\ d' = [d EXCEPT !.cmd = c, !.evts = @ \cup {"CMDDATA"}]
  /\ UNCHANGED <<key, fresh, past>>

KeyChanges ==
  /\ key' = ~key
  /\ d' = [d EXCEPT !.evts = @ \cup {"PIN_INPUT"}]
  /\ UNCHANGED <<fresh, past>>

Environment ==
  \/ \E res \in {"created", "bad"} : Connect(res)
  \/ \E reason \in Reasons : LinkEnds(reason)
  \/ \E c \in Commands : HostWrites(c)
  \/ KeyChanges

Next == Task \/ AdvEventDone \/ Environment

\* The scheduler does not stop, and a radio that advertises goes on doing so.
Spec == Init /\ [][Next]_vars /\ WF_vars(Task) /\ WF_vars(AdvEventDone)
-----------------------------------------------------------------------------
\* Whenever the role, the host and the link layer have nothing left to do,
\* they agree on what the device is doing, and it is not on the way to
\* something that nobody will start.
RoleAgrees ==
  Settled =>
    /\ d.role \in {"INIT", "STARTED", "ADVERTISING", "CONNECTED", "ERROR"}
    /\ d.adv = (d.role = "ADVERTISING")
    /\ d.adv = (d.adState = "advertising")
    /\ d.adv => d.llInterval = d.interval
    /\ d.link = (d.role = "CONNECTED") /\ d.link = d.linked
    /\ d.role \in {"ADVERTISING", "ERROR"} => d.advEnabled

\* Only a link that could not be made leaves the tag neither advertising nor
\* connected; no order of presses, links and time-outs does.
OnlyFailedLinkStops == d.role = "ERROR" => past.failed

\* The fast interval is only in force while the events of a burst are
\* counted, so that it ends; also after a link made in the middle of a burst.
FastIsCounted == d.interval = "event" => d.reload > 0

\* The timer of the measurements for a connection runs only in a connection,
\* also when the link was lost.
BattTimerInLink == Settled => d.batt = (d.role = "CONNECTED")

\* An order to reboot on disconnect (config.h:657) that still stands when the
\* link is over was given after the end of the link, or the link was lost.
RebootHasCause ==
  Settled /\ d.reboot /\ d.role # "CONNECTED" => past.ended = "timeout" \/ past.late

\* Unless a link could not be made, the tag always comes back on the air.
AdvertisesAgain == []<>(d.adv \/ d.link \/ d.role = "ERROR")

\* A press that is handled while advertising is enabled, also in
\* GAPROLE_ERROR, is told at the fast interval if the button is held until
\* advertising has begun anew and no link is made first.
PressIsBroadcast ==
  d.running = "PIN_INPUT" /\ key /\ ~d.pinInput /\ d.advEnabled
    ~> (d.adv /\ d.llInterval = "event") \/ d.link \/ ~key

\* A burst ends with the user's interval, unless the button is down or
\* changes again and again.
BurstEnds ==
  []<>(\/ d.interval = "user"
       \/ d.button \/ "PIN_INPUT" \in d.evts
       \/ d.link \/ d.role = "ERROR")
=============================================================================
