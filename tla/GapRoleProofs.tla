--------------------------- MODULE GapRoleProofs ---------------------------
(***************************************************************************)
(* Proofs about GapRole, for every length of a burst (EventCnt): a burst   *)
(* is counted, and the radio, the host, the role and the application go    *)
(* through phases in which they know what each is waiting for.             *)
(***************************************************************************)
EXTENDS GapRole, SequenceTheorems, TLAPS

\* The host's and the link layer's operators leave the count and the
\* interval of the application alone.
Keeps(s, t) == t \in Devices /\ t.reload = s.reload /\ t.interval = s.interval

LEMMA ToGapKeeps ==
  ASSUME NEW s \in Devices, NEW op, NEW res, Msg(op, res) \in GapMsgs
  PROVE  Keeps(s, ToGap(s, op, res))
<1>1. Append(s.gapq, Msg(op, res)) \in Seq(GapMsgs) BY DEF Devices
<1> QED BY <1>1 DEF ToGap, Keeps, Devices

LEMMA ToRoleKeeps ==
  ASSUME NEW s \in Devices, NEW op, NEW res, Msg(op, res) \in RoleMsgs
  PROVE  Keeps(s, ToRole(s, op, res))
<1>1. Append(s.roleq, Msg(op, res)) \in Seq(RoleMsgs) BY DEF Devices
<1> QED BY <1>1 DEF ToRole, Keeps, Devices

LEMMA MsgTypes ==
  /\ \A res \in {"ok", "bad"} :
       /\ Msg("set_params", res) \in GapMsgs /\ Msg("set_enable", res) \in GapMsgs
       /\ Msg("adv_data", res) \in GapMsgs /\ Msg("scan_rsp", res) \in GapMsgs
       /\ Msg("conn", res) \in GapMsgs
       /\ Msg("init_done", res) \in RoleMsgs /\ Msg("adv_data_done", res) \in RoleMsgs
       /\ Msg("scan_rsp_done", res) \in RoleMsgs /\ Msg("make_done", res) \in RoleMsgs
       /\ Msg("end_done", res) \in RoleMsgs /\ Msg("link", res) \in RoleMsgs
  /\ \A res \in Reasons : Msg("disc", res) \in GapMsgs /\ Msg("term", res) \in RoleMsgs
BY DEF Msg, GapMsgs, RoleMsgs

LEMMA AdvKeeps ==
  ASSUME NEW s \in Devices
  PROVE  Keeps(s, SetAdvParam(s)) /\ Keeps(s, AdvOn(s)) /\ Keeps(s, AdvOff(s))
<1>1. Keeps(s, SetAdvParam(s))
  <2> DEFINE t == [s EXCEPT !.llInterval = IF s.adv THEN @ ELSE s.interval]
  <2>1. Keeps(s, t) BY DEF Keeps, Devices
  <2> HIDE DEF t
  <2> DEFINE res == Status(~s.adv)
  <2>0. res \in {"ok", "bad"} BY DEF Status
  <2> HIDE DEF res
  <2>2. Keeps(t, ToGap(t, "set_params", res)) BY <2>0, <2>1, ToGapKeeps, MsgTypes DEF Keeps
  <2> QED BY <2>1, <2>2 DEF SetAdvParam, Keeps, t, res
<1>2. Keeps(s, AdvOn(s))
  <2> DEFINE t == [s EXCEPT !.adv = TRUE]
  <2>1. Keeps(s, t) BY DEF Keeps, Devices
  <2> HIDE DEF t
  <2> DEFINE res == Status(~s.adv)
  <2>0. res \in {"ok", "bad"} BY DEF Status
  <2> HIDE DEF res
  <2>2. Keeps(t, ToGap(t, "set_enable", res)) BY <2>0, <2>1, ToGapKeeps, MsgTypes DEF Keeps
  <2> QED BY <2>1, <2>2 DEF AdvOn, Keeps, t, res
<1>3. Keeps(s, AdvOff(s))
  <2> DEFINE t == [s EXCEPT !.adv = FALSE]
  <2>1. Keeps(s, t) BY DEF Keeps, Devices
  <2> HIDE DEF t
  <2>2. Keeps(t, ToGap(t, "set_enable", "ok")) BY <2>1, ToGapKeeps, MsgTypes DEF Keeps
  <2> QED BY <2>1, <2>2 DEF AdvOff, Keeps, t
<1> QED BY <1>1, <1>2, <1>3

\* The host's half.
LEMMA GapKeeps ==
  ASSUME NEW s \in Devices, NEW m \in GapMsgs
  PROVE  Keeps(s, GapHandles(s, m))
<1>1. CASE m.op = "set_params"
  <2>0. m.res \in {"ok", "bad"} BY <1>1 DEF GapMsgs, Reasons
  <2>1. CASE s.adState = "null" BY <1>1, <2>1 DEF GapHandles, SetParamsStatus, Keeps
  <2>2. CASE s.adState # "null" /\ m.res = "ok"
    <3> DEFINE t == [s EXCEPT !.adState = "set_mode"]
    <3>1. Keeps(s, t) BY DEF Keeps, Devices, AdStates
    <3> HIDE DEF t
    <3>2. Keeps(t, AdvOn(t)) BY <3>1, AdvKeeps DEF Keeps
    <3>3. GapHandles(s, m) = AdvOn(t) BY <1>1, <2>2 DEF GapHandles, SetParamsStatus, t
    <3> QED BY <3>1, <3>2, <3>3 DEF Keeps
  <2>3. CASE s.adState # "null" /\ m.res # "ok"
    <3> DEFINE t == [s EXCEPT !.adState = "null"]
    <3>1. Keeps(s, t) BY DEF Keeps, Devices, AdStates
    <3> HIDE DEF t
    <3>2. Keeps(t, ToRole(t, "make_done", m.res)) BY <2>0, <3>1, ToRoleKeeps, MsgTypes DEF Keeps
    <3>3. GapHandles(s, m) = ToRole(t, "make_done", m.res)
      BY <1>1, <2>3 DEF GapHandles, SetParamsStatus, t
    <3> QED BY <3>1, <3>2, <3>3 DEF Keeps
  <2> QED BY <2>1, <2>2, <2>3
<1>2. CASE m.op = "set_enable"
  <2>0. m.res \in {"ok", "bad"} BY <1>2 DEF GapMsgs, Reasons
  <2>1. CASE s.adState = "null" BY <1>2, <2>1 DEF GapHandles, EnableStatus, Keeps
  <2>2. CASE s.adState # "null" /\ s.adState = "set_mode"
    <3> DEFINE t == [s EXCEPT !.adState = IF m.res = "ok" THEN "advertising" ELSE "null"]
    <3>1. Keeps(s, t) BY DEF Keeps, Devices, AdStates
    <3> HIDE DEF t
    <3>2. Keeps(t, ToRole(t, "make_done", m.res)) BY <2>0, <3>1, ToRoleKeeps, MsgTypes DEF Keeps
    <3>3. GapHandles(s, m) = ToRole(t, "make_done", m.res)
      BY <1>2, <2>2 DEF GapHandles, EnableStatus, t
    <3> QED BY <3>1, <3>2, <3>3 DEF Keeps
  <2>3. CASE s.adState # "null" /\ s.adState # "set_mode"
    <3> DEFINE t == [s EXCEPT !.adState = "null"]
    <3>1. Keeps(s, t) BY DEF Keeps, Devices, AdStates
    <3> HIDE DEF t
    <3>2. Keeps(t, ToRole(t, "end_done", m.res)) BY <2>0, <3>1, ToRoleKeeps, MsgTypes DEF Keeps
    <3>3. GapHandles(s, m) = ToRole(t, "end_done", m.res)
      BY <1>2, <2>3 DEF GapHandles, EnableStatus, t
    <3> QED BY <3>1, <3>2, <3>3 DEF Keeps
  <2> QED BY <2>1, <2>2, <2>3
<1>3. CASE m.op \in {"adv_data", "scan_rsp"}
  <2>1. m.res \in {"ok", "bad"} BY <1>3 DEF GapMsgs, Reasons
  <2>2. GapHandles(s, m) = ToRole(s, IF m.op = "adv_data" THEN "adv_data_done" ELSE "scan_rsp_done", m.res)
    BY <1>3 DEF GapHandles
  <2> QED BY <1>3, <2>1, <2>2, ToRoleKeeps, MsgTypes
<1>4. CASE m.op = "conn"
  <2> DEFINE t == [s EXCEPT !.adState = "null", !.linked = @ \/ m.res = "ok"]
  <2>0. m.res \in {"ok", "bad"} BY <1>4 DEF GapMsgs, Reasons
  <2>1. Keeps(s, t) BY ZenonT(60) DEF Keeps, Devices, AdStates
  <2> HIDE DEF t
  <2>2. Keeps(t, ToRole(t, "link", m.res)) BY <2>0, <2>1, ToRoleKeeps, MsgTypes DEF Keeps
  <2>3. GapHandles(s, m) = ToRole(t, "link", m.res) BY <1>4 DEF GapHandles, ConnectionComplete, t
  <2> QED BY <2>1, <2>2, <2>3 DEF Keeps
<1>5. CASE m.op = "disc"
  <2> DEFINE t == [s EXCEPT !.linked = FALSE]
  <2>0. m.res \in Reasons BY <1>5 DEF GapMsgs
  <2>1. Keeps(s, t) BY DEF Keeps, Devices
  <2> HIDE DEF t
  <2>2. Keeps(t, ToRole(t, "term", m.res)) BY ZenonT(60), <2>0, <2>1, ToRoleKeeps, MsgTypes DEF Keeps
  <2>3. GapHandles(s, m) = IF s.linked THEN ToRole(t, "term", m.res) ELSE s
    BY <1>5 DEF GapHandles, DisconnectComplete, t
  <2> QED BY <2>1, <2>2, <2>3 DEF Keeps
<1> QED BY <1>1, <1>2, <1>3, <1>4, <1>5 DEF GapMsgs

LEMMA DiscoverableKeeps ==
  ASSUME NEW s \in Devices
  PROVE  Keeps(s, MakeDiscoverable(s)) /\ Keeps(s, EndDiscoverable(s)) /\ Keeps(s, StartAdvertising(s))
<1>1. Keeps(s, MakeDiscoverable(s))
  <2> DEFINE t == [s EXCEPT !.adState = "set_params"]
             e == [s EXCEPT !.role = "ERROR"]
  <2>1. Keeps(s, t) /\ Keeps(s, e) BY DEF Keeps, Devices, AdStates, Roles
  <2> HIDE DEF t, e
  <2>2. Keeps(t, SetAdvParam(t)) BY <2>1, AdvKeeps DEF Keeps
  <2>3. MakeDiscoverable(s) = IF s.adState # "null" THEN e ELSE SetAdvParam(t)
    BY DEF MakeDiscoverable, t, e
  <2> QED BY <2>1, <2>2, <2>3 DEF Keeps
<1>2. Keeps(s, EndDiscoverable(s))
  <2> DEFINE t == [s EXCEPT !.adState = "ending"]
  <2>1. Keeps(s, t) BY DEF Keeps, Devices, AdStates
  <2> HIDE DEF t
  <2>2. Keeps(t, AdvOff(t)) BY <2>1, AdvKeeps DEF Keeps
  <2>3. EndDiscoverable(s) = IF s.adState = "null" THEN s ELSE AdvOff(t)
    BY DEF EndDiscoverable, t
  <2> QED BY <2>1, <2>2, <2>3 DEF Keeps
<1> QED BY <1>1, <1>2 DEF StartAdvertising, Keeps
-----------------------------------------------------------------------------
\* The invariant of one device: its type, and a fast interval is counted.
Counted(s) == s \in Devices /\ (s.interval = "event" => s.reload > 0)

LEMMA KeepsCounts ==
  ASSUME NEW s, NEW t, Counted(s), Keeps(s, t)
  PROVE  Counted(t)
BY DEF Counted, Keeps

LEMMA BootCounts == Counted(Boot)
<1>1. <<>> \in Seq(GapMsgs) /\ <<>> \in Seq(RoleMsgs) OBVIOUS
<1>2. 0 \in 0 .. EventCnt BY EventCntAssumption
<1> QED BY <1>1, <1>2 DEF Counted, Boot, Devices, Roles, AdStates, AppEvents, Commands

LEMMA NotifyCounts ==
  ASSUME NEW s, Counted(s)
  PROVE  Counted(Notify(s))
<1>0. 1 \in 0 .. EventCnt BY EventCntAssumption
<1> USE DEF Counted
<1>1. CASE s.role = "STARTED"
  <2>1. s.evts \cup {"RESET_ADV"} \in SUBSET AppEvents BY DEF Devices, AppEvents
  <2> QED BY <1>1, <2>1 DEF Notify, Devices
<1>2. CASE s.role = "ADVERTISING" BY <1>2 DEF Notify, Devices
<1> DEFINE t == Reloaded(s)
           u == [t EXCEPT !.batt = TRUE]
           v == [t EXCEPT !.batt = FALSE]
<1>6. t \in Devices /\ t.reload = 1 BY <1>0 DEF Reloaded, Devices
<1> HIDE DEF t
<1>7. Keeps(t, u) /\ Keeps(t, v) BY ZenonT(60), <1>6 DEF Keeps, Devices
<1> HIDE DEF u, v
<1>8. Counted(t) BY <1>6
<1>9. Counted(u) /\ Counted(v)
  <2> HIDE DEF Counted
  <2> QED BY <1>7, <1>8, KeepsCounts
<1>3. CASE s.role = "CONNECTED"
  <2>1. Notify(s) = u BY <1>3 DEF Notify, t, u
  <2> QED BY <1>9, <2>1
<1>4. CASE s.role = "WAITING"
  <2>1. Notify(s) = IF s.reboot THEN Boot ELSE v BY <1>4 DEF Notify, t, v
  <2> QED BY <2>1, <1>9, BootCounts
<1>5. CASE s.role \notin {"STARTED", "ADVERTISING", "CONNECTED", "WAITING"} BY <1>5 DEF Notify
<1> QED BY <1>1, <1>2, <1>3, <1>4, <1>5

LEMMA RoleCounts ==
  ASSUME NEW s, NEW m \in RoleMsgs, Counted(s)
  PROVE  Counted(RoleHandles(s, m))
<1>0. s \in Devices BY DEF Counted
<1>1. CASE m.res = "bad"
  <2> DEFINE t == [s EXCEPT !.role = "ERROR"]
  <2>1. Keeps(s, t) BY <1>0 DEF Keeps, Devices, Roles
  <2> HIDE DEF t
  <2>2. Counted(Notify(t)) BY <2>1, KeepsCounts, NotifyCounts
  <2>3. RoleHandles(s, m) = Notify(t) BY <1>1 DEF RoleHandles, InError, t
  <2> QED BY <2>2, <2>3
<1>2. CASE m.res # "bad" /\ m.op = "init_done"
  <2> DEFINE t == [s EXCEPT !.role = "STARTED"]
  <2>1. Keeps(s, t) BY <1>0 DEF Keeps, Devices, Roles
  <2> HIDE DEF t
  <2>2. Keeps(t, ToGap(t, "adv_data", "ok")) BY <2>1, ToGapKeeps, MsgTypes DEF Keeps
  <2>3. Counted(Notify(ToGap(t, "adv_data", "ok"))) BY <2>1, <2>2, KeepsCounts, NotifyCounts
  <2>4. RoleHandles(s, m) = Notify(ToGap(t, "adv_data", "ok")) BY <1>2 DEF RoleHandles, t
  <2> QED BY <2>3, <2>4
<1>3. CASE m.res # "bad" /\ m.op = "adv_data_done"
  <2>1. Keeps(s, ToGap(s, "scan_rsp", "ok")) BY <1>0, ToGapKeeps, MsgTypes
  <2>2. RoleHandles(s, m) = ToGap(s, "scan_rsp", "ok") BY <1>3 DEF RoleHandles
  <2> QED BY <2>1, <2>2, KeepsCounts
<1>4. CASE m.res # "bad" /\ m.op = "scan_rsp_done"
  BY ZenonT(60), <1>0, <1>4 DEF RoleHandles, Counted, Devices
<1>5. CASE m.res # "bad" /\ m.op = "make_done"
  <2> DEFINE t == [s EXCEPT !.role = IF s.role = "CONNECTED" THEN "CONNECTED_ADV" ELSE "ADVERTISING"]
  <2>1. Keeps(s, t) BY <1>0 DEF Keeps, Devices, Roles
  <2>2. RoleHandles(s, m) = Notify(t) BY <1>5 DEF RoleHandles
  <2> HIDE DEF t
  <2> QED BY <2>1, <2>2, KeepsCounts, NotifyCounts
<1>6. CASE m.res # "bad" /\ m.op = "end_done"
  <2> DEFINE r == CASE s.role = "CONNECTED_ADV" -> "CONNECTED"
                    [] s.role = "WAITING_AFTER_TIMEOUT" -> s.role
                    [] OTHER -> "WAITING"
             a == s.role = "WAITING_AFTER_TIMEOUT"
             b == s.startEvt \/ s.role = "WAITING_AFTER_TIMEOUT"
             t == [s EXCEPT !.advEnabled = a, !.startEvt = b, !.role = r]
  <2>1. Keeps(s, t)
    <3>1. r \in Roles BY DEF Roles
    <3>2. a \in BOOLEAN /\ b \in BOOLEAN OBVIOUS
    <3> HIDE DEF r, a, b
    <3> QED BY ZenonT(60), <1>0, <3>1, <3>2 DEF Keeps, Devices
  <2>2. RoleHandles(s, m) = Notify(t) BY <1>6 DEF RoleHandles, EndDone
  <2> HIDE DEF t
  <2> QED BY <2>1, <2>2, KeepsCounts, NotifyCounts
<1>7. CASE m.res # "bad" /\ m.op = "link"
  <2> DEFINE t == [s EXCEPT !.role = "CONNECTED", !.advEnabled = FALSE]
  <2>1. Keeps(s, t) BY ZenonT(60), <1>0 DEF Keeps, Devices, Roles
  <2>2. RoleHandles(s, m) = Notify(t) BY <1>7 DEF RoleHandles, LinkEstablished
  <2> HIDE DEF t
  <2> QED BY <2>1, <2>2, KeepsCounts, NotifyCounts
<1>8. CASE m.res # "bad" /\ m.op = "term"
  <2> DEFINE r == IF m.res = "timeout" THEN "WAITING_AFTER_TIMEOUT" ELSE "WAITING"
             t == [s EXCEPT !.role = r]
             u == [t EXCEPT !.advEnabled = TRUE, !.startEvt = TRUE]
             v == IF s.advEnabled THEN EndDiscoverable(t) ELSE u
  <2>1. Keeps(s, t)
    <3>1. r \in Roles BY DEF Roles
    <3> HIDE DEF r
    <3> QED BY <1>0, <3>1 DEF Keeps, Devices
  <2>2. RoleHandles(s, m) = Notify(v) BY <1>8 DEF RoleHandles, LinkTerminated
  <2>3. Keeps(t, u)
    <3> HIDE DEF t
    <3> QED BY <2>1 DEF Keeps, Devices
  <2> HIDE DEF t, u
  <2>4. Keeps(t, v) BY <2>1, <2>3, DiscoverableKeeps DEF Keeps
  <2> HIDE DEF v
  <2> QED BY <2>1, <2>2, <2>4, KeepsCounts, NotifyCounts
<1> QED BY <1>1, <1>2, <1>3, <1>4, <1>5, <1>6, <1>7, <1>8 DEF RoleMsgs
-----------------------------------------------------------------------------
\* The application's half: an interval is set with the count it needs.
LEMMA SetCounts ==
  ASSUME NEW s \in Devices, NEW i \in {"user", "event"}, i = "event" => s.reload > 0
  PROVE  Counted(SetNewAdvInterval(s, i))
<1> DEFINE t == [s EXCEPT !.interval = i]
           e == EndDiscoverable(t)
<1>1. t \in Devices /\ t.reload = s.reload /\ t.interval = i BY DEF Devices
<1> HIDE DEF t
<1>2. Keeps(t, e) BY <1>1, DiscoverableKeeps
<1> HIDE DEF e
<1> DEFINE f == [e EXCEPT !.role = "WAITING_AFTER_TIMEOUT"]
           g == [f EXCEPT !.startEvt = TRUE]
<1>3. SetNewAdvInterval(s, i) = g BY DEF SetNewAdvInterval, t, e
<1>4. e \in Devices /\ (e.interval = "event" => e.reload > 0) BY <1>1, <1>2 DEF Keeps
<1>5. Keeps(e, f) BY ZenonT(60), <1>4 DEF Keeps, Devices, Roles
<1> HIDE DEF f
<1>6. f \in Devices BY <1>5 DEF Keeps
<1>7. Keeps(f, g) BY <1>6 DEF Keeps, Devices
<1> HIDE DEF g
<1>8. Counted(e) BY <1>4 DEF Counted
<1>9. Counted(f) BY <1>5, <1>8, KeepsCounts
<1> QED BY <1>3, <1>7, <1>9, KeepsCounts

LEMMA BurstCounts ==
  ASSUME NEW s, Counted(s)
  PROVE  Counted(BurstOver(s))
<1>0. s \in Devices /\ EventCnt \in 0 .. EventCnt /\ EventCnt > 0 /\ 0 \in 0 .. EventCnt
  BY EventCntAssumption DEF Counted
<1> DEFINE t == [s EXCEPT !.reload = EventCnt, !.event = FALSE]
           u == [s EXCEPT !.reload = 0]
           v == [s EXCEPT !.reload = EventCnt]
<1>1. /\ t \in Devices /\ t.reload = EventCnt
      /\ u \in Devices /\ v \in Devices /\ v.reload = EventCnt
  <2>1. t \in Devices /\ t.reload = EventCnt BY <1>0 DEF Devices
  <2>2. u \in Devices BY <1>0 DEF Devices
  <2>3. v \in Devices /\ v.reload = EventCnt BY <1>0 DEF Devices
  <2> QED BY <2>1, <2>2, <2>3
<1>2. BurstOver(s) \in {v, SetNewAdvInterval(t, "event"), SetNewAdvInterval(u, "user")}
  <2>1. s.event \in BOOLEAN BY <1>0 DEF Devices
  <2>2. s.button \in BOOLEAN BY <1>0 DEF Devices
  <2>3. CASE ~s.event BY <2>3 DEF BurstOver
  <2>4. CASE s.event /\ s.button BY <2>4 DEF BurstOver
  <2>5. CASE s.event /\ ~s.button BY <2>5 DEF BurstOver
  <2> QED BY <2>3, <2>4, <2>5
<1> HIDE DEF t, u, v
<1>3. Counted(v) BY <1>0, <1>1 DEF Counted
<1>4. Counted(SetNewAdvInterval(t, "event")) BY <1>0, <1>1, SetCounts
<1>5. Counted(SetNewAdvInterval(u, "user")) BY <1>1, SetCounts
<1> QED BY <1>2, <1>3, <1>4, <1>5

LEMMA MeasureCounts ==
  ASSUME NEW s, Counted(s)
  PROVE  Counted(AdvMeasure(s))
<1>1. CASE ~s.advEnabled \/ s.reload = 0 BY <1>1 DEF AdvMeasure
<1>2. CASE s.advEnabled /\ s.reload = 1 BY <1>2, BurstCounts DEF AdvMeasure
<1>3. CASE s.advEnabled /\ s.reload # 0 /\ s.reload # 1
  <2>1. s.reload \in 0 .. EventCnt BY DEF Counted, Devices
  <2>2. s.reload - 1 \in 0 .. EventCnt /\ s.reload - 1 > 0 BY <2>1, <1>3, EventCntAssumption
  <2>3. AdvMeasure(s) = [s EXCEPT !.reload = s.reload - 1] BY <1>3 DEF AdvMeasure
  <2> QED BY <2>2, <2>3 DEF Counted, Devices
<1> QED BY <1>1, <1>2, <1>3

LEMMA PressedCounts ==
  ASSUME NEW s, Counted(s)
  PROVE  Counted(Pressed(s))
<1> DEFINE t == [s EXCEPT !.event = TRUE, !.reload = EventCnt]
<1>0. EventCnt \in 0 .. EventCnt /\ EventCnt > 0 BY EventCntAssumption
<1>1. t \in Devices /\ t.reload = EventCnt BY <1>0 DEF Counted, Devices
<1>2. Pressed(s) = IF s.advEnabled THEN SetNewAdvInterval(t, "event") ELSE s BY DEF Pressed
<1> HIDE DEF t
<1> QED BY <1>0, <1>1, <1>2, SetCounts

LEMMA PinCounts ==
  ASSUME NEW s, Counted(s), key \in BOOLEAN
  PROVE  Counted(PinInput(s))
<1>1. CASE key /\ ~s.pinInput
  <2> DEFINE t == [s EXCEPT !.button = TRUE, !.pinInput = TRUE]
  <2>1. Counted(t) BY DEF Counted, Devices
  <2>2. PinInput(s) = Pressed(t) BY <1>1 DEF PinInput
  <2> HIDE DEF t
  <2> QED BY <2>1, <2>2, PressedCounts
<1>2. CASE key /\ s.pinInput BY <1>2 DEF PinInput
<1>3. CASE ~key
  <2>1. PinInput(s) = [s EXCEPT !.button = FALSE, !.pinInput = FALSE] BY <1>3 DEF PinInput
  <2> QED BY ZenonT(60), <2>1 DEF Counted, Devices
<1> QED BY <1>1, <1>2, <1>3

LEMMA HandledCounts ==
  ASSUME NEW s, Counted(s), s.running \in AppEvents, key \in BOOLEAN
  PROVE  Counted(Handled(s))
<1>0. s \in Devices BY DEF Counted
<1>1. CASE s.running = "ADV_BROADCAST" BY <1>1, MeasureCounts DEF Handled
<1>2. CASE s.running = "RESET_ADV"
  BY <1>0, <1>2 DEF Handled, AdvertEnable, Counted, Devices
<1>3. CASE s.running = "START_DEVICE"
  <2>1. Keeps(s, ToRole(s, "init_done", "ok")) BY <1>0, ToRoleKeeps, MsgTypes
  <2>2. Handled(s) \in {s, ToRole(s, "init_done", "ok")} BY <1>3 DEF Handled, StartDevice
  <2> QED BY <2>1, <2>2, KeepsCounts
<1>4. CASE s.running = "PIN_INPUT" BY <1>4, PinCounts DEF Handled
<1>5. CASE s.running = "CMDDATA"
  <2> DEFINE r == [s EXCEPT !.reboot = TRUE]
  <2>1. Keeps(s, ToGap(s, "scan_rsp", "ok")) BY <1>0, ToGapKeeps, MsgTypes
  <2>2. Counted(r) BY DEF Counted, Devices
  <2>3. Handled(s) \in {r, ToGap(s, "scan_rsp", "ok")} BY <1>5 DEF Handled, Command
  <2> QED BY <2>1, <2>2, <2>3, KeepsCounts
<1> QED BY <1>1, <1>2, <1>3, <1>4, <1>5 DEF AppEvents
-----------------------------------------------------------------------------
GInv == TypeOK /\ FastIsCounted

LEMMA InitCounts == Init => GInv
<1> SUFFICES ASSUME Init PROVE GInv OBVIOUS
<1>1. Counted(d) BY BootCounts DEF Init
<1>2. past \in [ended : Reasons \cup {"none"}, late : BOOLEAN, failed : BOOLEAN]
  BY DEF Init, NoPast
<1> QED BY <1>1, <1>2 DEF Init, GInv, TypeOK, FastIsCounted, Counted

\* A task of the link layer, the host or the profile role, and a handler of
\* the application.
LEMMA TaskCounts ==
  ASSUME GInv, Task
  PROVE  GInv'
<1>0. d \in Devices /\ Counted(d) /\ key \in BOOLEAN
  BY DEF GInv, TypeOK, FastIsCounted, Counted
<1>1. Counted(d')
  <2>1. CASE LLTask
    <3> DEFINE res == Status(d.llEvt = "created")
               t == ToGap(d, "conn", res)
    <3>1. res \in {"ok", "bad"} BY DEF Status
    <3>2. d' = [t EXCEPT !.llEvt = "none"] BY <2>1 DEF LLTask
    <3> HIDE DEF res
    <3>3. Counted(t) BY <1>0, <3>1, ToGapKeeps, MsgTypes, KeepsCounts
    <3> HIDE DEF t
    <3> QED BY <3>2, <3>3 DEF Counted, Devices
  <2>2. CASE GapTask
    <3> DEFINE t == [d EXCEPT !.gapq = Tail(@)]
               m == Head(d.gapq)
    <3>1. m \in GapMsgs /\ Tail(d.gapq) \in Seq(GapMsgs) BY <1>0, <2>2 DEF GapTask, GapReady, Devices
    <3>2. t \in Devices /\ Counted(t) BY <1>0, <3>1 DEF Counted, Devices
    <3>3. d' = GapHandles(t, m) BY <2>2 DEF GapTask
    <3> HIDE DEF t, m
    <3> QED BY <3>1, <3>2, <3>3, GapKeeps, KeepsCounts
  <2>3. CASE RoleTask /\ d.roleq # <<>>
    <3> DEFINE t == [d EXCEPT !.roleq = Tail(@)]
               m == Head(d.roleq)
    <3>1. m \in RoleMsgs /\ Tail(d.roleq) \in Seq(RoleMsgs) BY <1>0, <2>3 DEF Devices
    <3>2. Counted(t) BY <1>0, <3>1 DEF Counted, Devices
    <3>3. d' = RoleHandles(t, m) BY <2>3 DEF RoleTask
    <3> HIDE DEF t, m
    <3> QED BY <3>1, <3>2, <3>3, RoleCounts
  <2>4. CASE RoleTask /\ d.roleq = <<>>
    <3> DEFINE t == [d EXCEPT !.startEvt = FALSE]
    <3>1. t \in Devices /\ Counted(t) BY ZenonT(60), <1>0 DEF Counted, Devices
    <3>2. d' = StartAdvertising(t) BY <2>4 DEF RoleTask
    <3> HIDE DEF t
    <3> QED BY <3>1, <3>2, DiscoverableKeeps, KeepsCounts
  <2>5. CASE AppStarts
    <3>1. PICK e \in d.evts : d' = [d EXCEPT !.evts = @ \ {e}, !.running = e]
      BY <2>5 DEF AppStarts
    <3>2. e \in AppEvents /\ d.evts \ {e} \in SUBSET AppEvents BY <1>0 DEF Devices
    <3> QED BY <1>0, <3>1, <3>2 DEF Counted, Devices
  <2>6. CASE AppEnds /\ d.running # "none"
    <3> DEFINE t == Handled(d)
    <3>1. d.running \in AppEvents BY <1>0, <2>6 DEF Devices
    <3>2. Counted(t) BY <1>0, <3>1, HandledCounts
    <3>3. d' = [t EXCEPT !.running = "none"] BY <2>6 DEF AppEnds
    <3> HIDE DEF t
    <3> QED BY <3>2, <3>3 DEF Counted, Devices
  <2> QED BY <2>1, <2>2, <2>3, <2>4, <2>5, <2>6 DEF Task
<1>2. past' \in [ended : Reasons \cup {"none"}, late : BOOLEAN, failed : BOOLEAN]
  <2>0. past \in [ended : Reasons \cup {"none"}, late : BOOLEAN, failed : BOOLEAN]
    BY DEF GInv, TypeOK
  <2>1. CASE RoleTask
    <3>1. CASE d.roleq # <<>> /\ Head(d.roleq).op = "term" /\ d' # Boot
      <4>1. Head(d.roleq) \in RoleMsgs BY <1>0, <3>1 DEF Devices
      <4>2. Head(d.roleq).res \in Reasons BY <3>1, <4>1 DEF RoleMsgs
      <4>3. past' = [past EXCEPT !.ended = Head(d.roleq).res] BY <2>1, <3>1 DEF RoleTask
      <4> QED BY <2>0, <4>2, <4>3
    <3>2. past' = NoPast => past' \in [ended : Reasons \cup {"none"}, late : BOOLEAN, failed : BOOLEAN]
      BY DEF NoPast
    <3> QED BY <2>0, <2>1, <3>1, <3>2 DEF RoleTask
  <2>2. CASE AppEnds
    <3> DEFINE b == past.late \/ (d'.reboot /\ ~d.reboot /\ d.role # "CONNECTED")
    <3>1. b \in BOOLEAN OBVIOUS
    <3>2. past' = [past EXCEPT !.late = b] BY <2>2 DEF AppEnds
    <3> HIDE DEF b
    <3> QED BY <2>0, <3>1, <3>2
  <2> QED BY <2>0, <2>1, <2>2 DEF Task, LLTask, GapTask, AppStarts
<1>3. fresh' \in BOOLEAN BY DEF Task, GInv, TypeOK
<1> QED BY <1>0, <1>1, <1>2, <1>3 DEF Task, GInv, TypeOK, FastIsCounted, Counted

LEMMA EnvironmentCounts ==
  ASSUME GInv, AdvEventDone \/ Environment
  PROVE  GInv'
<1>0. /\ d \in Devices /\ Counted(d) /\ key \in BOOLEAN /\ fresh \in BOOLEAN
      /\ past \in [ended : Reasons \cup {"none"}, late : BOOLEAN, failed : BOOLEAN]
  BY DEF GInv, TypeOK, FastIsCounted, Counted
<1>1. CASE AdvEventDone
  <2>1. d.evts \cup {"ADV_BROADCAST"} \in SUBSET AppEvents BY <1>0 DEF Devices, AppEvents
  <2>2. Counted(d') BY <1>0, <1>1, <2>1 DEF AdvEventDone, Counted, Devices
  <2> QED BY <1>0, <1>1, <2>2 DEF AdvEventDone, GInv, TypeOK, FastIsCounted, Counted
<1>2. ASSUME NEW res \in {"created", "bad"}, Connect(res) PROVE GInv'
  <2> DEFINE b == res = "created"
             f == past.failed \/ res = "bad"
  <2>1. b \in BOOLEAN /\ f \in BOOLEAN OBVIOUS
  <2> DEFINE t == [d EXCEPT !.adv = FALSE]
             u == [t EXCEPT !.link = b]
             v == [u EXCEPT !.llEvt = res]
  <2>2. d' = v /\ past' = [past EXCEPT !.failed = f]
    BY <1>2 DEF Connect
  <2> HIDE DEF b, f
  <2>5. Keeps(d, t) BY <1>0 DEF Keeps, Devices
  <2> HIDE DEF t
  <2>6. t \in Devices BY <2>5 DEF Keeps
  <2>7. Keeps(t, u) BY <2>1, <2>6 DEF Keeps, Devices
  <2> HIDE DEF u
  <2>8. u \in Devices BY <2>7 DEF Keeps
  <2>9. Keeps(u, v) BY <2>8 DEF Keeps, Devices
  <2> HIDE DEF v
  <2>3. Counted(d') BY <1>0, <2>2, <2>5, <2>7, <2>9, KeepsCounts
  <2>4. past' \in [ended : Reasons \cup {"none"}, late : BOOLEAN, failed : BOOLEAN]
    BY <1>0, <2>1, <2>2
  <2> QED BY <1>0, <1>2, <2>3, <2>4 DEF Connect, GInv, TypeOK, FastIsCounted, Counted
<1>3. ASSUME NEW reason \in Reasons, LinkEnds(reason) PROVE GInv'
  <2> DEFINE t == [d EXCEPT !.link = FALSE]
  <2>1. Counted(t) /\ t \in Devices BY ZenonT(60), <1>0 DEF Counted, Devices
  <2>2. d' = ToGap(t, "disc", reason) BY <1>3 DEF LinkEnds
  <2> HIDE DEF t
  <2>3. Keeps(t, ToGap(t, "disc", reason)) BY <2>1, ToGapKeeps, MsgTypes
  <2>4. Counted(d') BY <2>1, <2>2, <2>3, KeepsCounts
  <2> QED BY <1>0, <1>3, <2>4 DEF LinkEnds, GInv, TypeOK, FastIsCounted, Counted
<1>4. ASSUME NEW c \in Commands, HostWrites(c) PROVE GInv'
  <2>1. d.evts \cup {"CMDDATA"} \in SUBSET AppEvents BY <1>0 DEF Devices, AppEvents
  <2>2. Counted(d') BY <1>0, <1>4, <2>1 DEF HostWrites, Counted, Devices
  <2> QED BY <1>0, <1>4, <2>2 DEF HostWrites, GInv, TypeOK, FastIsCounted, Counted
<1>5. CASE KeyChanges
  <2>1. d.evts \cup {"PIN_INPUT"} \in SUBSET AppEvents BY <1>0 DEF Devices, AppEvents
  <2>2. Counted(d') BY <1>0, <1>5, <2>1 DEF KeyChanges, Counted, Devices
  <2> QED BY <1>0, <1>5, <2>2 DEF KeyChanges, GInv, TypeOK, FastIsCounted, Counted
<1> QED BY <1>1, <1>2, <1>3, <1>4, <1>5 DEF Environment

LEMMA GInvInvariant == Spec => []GInv
<1>1. GInv /\ [Next]_vars => GInv'
  <2> SUFFICES ASSUME GInv, [Next]_vars PROVE GInv' OBVIOUS
  <2>1. CASE Task BY <2>1, TaskCounts
  <2>2. CASE AdvEventDone \/ Environment BY <2>2, EnvironmentCounts
  <2>3. CASE UNCHANGED vars BY <2>3 DEF vars, GInv, TypeOK, FastIsCounted
  <2> QED BY <2>1, <2>2, <2>3 DEF Next
<1> QED BY InitCounts, <1>1, PTL DEF Spec

\* Every variable stays in its type, so the count of a burst never runs below
\* 0 (the code keeps it in an unsigned byte, thb2_main.c).
THEOREM DeviceTyped == Spec => []TypeOK
<1>1. GInv => TypeOK BY DEF GInv
<1> QED BY <1>1, GInvInvariant, PTL

\* For every length of a burst: while the fast interval is in force the events
\* that end it are being counted, whatever order presses, links, losses of
\* links, commands and restarts come in.
THEOREM BurstIsCounted == Spec => []FastIsCounted
<1>1. GInv => FastIsCounted BY DEF GInv
<1> QED BY <1>1, GInvInvariant, PTL
-----------------------------------------------------------------------------
(* What is under way between the radio, the host, the role and the         *)
(* application: the phases a device s goes through, f telling whether a    *)
(* link has failed.                                                        *)

ParamsSet == Msg("set_params", "ok")
Enabled   == Msg("set_enable", "ok")
Made      == Msg("make_done", "ok")
Ended     == Msg("end_done", "ok")
NameSet   == Msg("scan_rsp", "ok")
NameDone  == Msg("scan_rsp_done", "ok")
Conn      == Msg("conn", "ok")
NoConn    == Msg("conn", "bad")
Up        == Msg("link", "ok")
NotUp     == Msg("link", "bad")

Queues(s, g, r) == s.gapq = g /\ s.roleq = r
Free(s) == ~s.link /\ ~s.linked /\ s.llEvt = "none"

\* A link that was made, or failed, and perhaps ended again, behind the
\* messages g and r: the host, whose advertising state is a, has not seen it ...
LinkAhead(s, f, g, r, a) ==
  /\ ~s.linked /\ s.roleq = r /\ s.adState = a
  /\ \/ s.llEvt = "created" /\ s.link /\ s.gapq = g
     \/ s.llEvt = "bad" /\ ~s.link /\ s.gapq = g /\ f
     \/ s.llEvt = "none" /\ s.link /\ s.gapq = Append(g, Conn)
     \/ s.llEvt = "none" /\ ~s.link /\ s.gapq = Append(g, NoConn) /\ f
     \/ s.llEvt = "none" /\ ~s.link
        /\ \E x \in Reasons : s.gapq = Append(Append(g, Conn), Msg("disc", x))

\* ... or the host has, and the role has not.
LinkSeen(s, f, r) ==
  /\ s.llEvt = "none" /\ s.adState = "null"
  /\ \/ s.link /\ s.linked /\ Queues(s, <<>>, Append(r, Up))
     \/ ~s.link /\ ~s.linked /\ Queues(s, <<>>, Append(r, NotUp)) /\ f
     \/ ~s.link /\ s.linked /\ \E x \in Reasons : Queues(s, <<Msg("disc", x)>>, Append(r, Up))
     \/ ~s.link /\ ~s.linked
        /\ \E x \in Reasons : Queues(s, <<>>, Append(Append(r, Up), Msg("term", x)))

LinkComes(s, f, g, r, a) == LinkAhead(s, f, g, r, a) \/ (g = <<>> /\ LinkSeen(s, f, r))

\* The radio advertises, or did so until a link came.
Air(s, f, g, r, a) ==
  \/ s.adv /\ Free(s) /\ Queues(s, g, r) /\ s.adState = a
  \/ ~s.adv /\ LinkComes(s, f, g, r, a)

Waits == {"STARTED", "WAITING", "WAITING_AFTER_TIMEOUT", "ERROR"}

Starting(s, f) ==
  /\ s.role \in Waits /\ s.advEnabled /\ ~s.startEvt /\ s.running = "none"
  /\ s.interval = s.llInterval
  /\ s.batt => s.role = "WAITING_AFTER_TIMEOUT"
  /\ s.role = "ERROR" => f
  /\ \/ ~s.adv /\ Free(s) /\ Queues(s, <<ParamsSet>>, <<>>) /\ s.adState = "set_params"
     \/ Air(s, f, <<Enabled>>, <<>>, "set_mode")
     \/ Air(s, f, <<>>, <<Made>>, "advertising")

OnAir(s, f) ==
  /\ s.role = "ADVERTISING" /\ s.advEnabled /\ ~s.startEvt /\ ~s.batt
  /\ s.interval = s.llInterval
  /\ s.running # "none" => Queues(s, <<>>, <<>>)
  /\ \/ Air(s, f, <<>>, <<>>, "advertising")
     \/ Air(s, f, <<NameSet>>, <<>>, "advertising")
     \/ Air(s, f, <<>>, <<NameDone>>, "advertising")

Ending(s, f) ==
  /\ s.role = "WAITING_AFTER_TIMEOUT" /\ s.advEnabled /\ s.startEvt /\ s.running = "none"
  /\ ~s.adv /\ ~s.batt
  /\ \/ Free(s) /\ Queues(s, <<Enabled>>, <<>>) /\ s.adState = "ending"
     \/ Free(s) /\ Queues(s, <<>>, <<Ended>>) /\ s.adState = "null"
     \/ LinkComes(s, f, <<Enabled>>, <<>>, "ending")
     \/ LinkComes(s, f, <<>>, <<Ended>>, "null")
     \/ LinkComes(s, f, <<>>, <<>>, "null")

Restarts(s, f) ==
  /\ s.role \in Waits /\ s.advEnabled /\ s.startEvt /\ s.running = "none"
  /\ ~s.adv /\ Free(s) /\ s.adState = "null"
  /\ s.batt => s.role = "WAITING_AFTER_TIMEOUT"
  /\ s.role = "ERROR" => f
  /\ Queues(s, <<>>, <<>>) \/ Queues(s, <<>>, <<NameDone>>)

Stopped(s, f) ==
  /\ s.role = "ERROR" /\ f /\ s.advEnabled /\ ~s.startEvt /\ ~s.batt
  /\ ~s.adv /\ Free(s) /\ s.adState = "null"
  /\ \/ Queues(s, <<>>, <<>>)
     \/ s.running = "none" /\ (Queues(s, <<NameSet>>, <<>>) \/ Queues(s, <<>>, <<NameDone>>))

Booting(s) ==
  /\ s.role = "INIT" /\ ~s.advEnabled /\ ~s.startEvt /\ ~s.batt
  /\ ~s.adv /\ Free(s) /\ s.adState = "null"
  /\ s.evts \subseteq {"START_DEVICE", "PIN_INPUT"}
  /\ s.running \in {"none", "START_DEVICE", "PIN_INPUT"}
  /\ \/ Queues(s, <<>>, <<>>)
     \/ s.running = "none" /\ Queues(s, <<>>, <<Msg("init_done", "ok")>>)

Started(s) ==
  /\ s.role = "STARTED" /\ ~s.advEnabled /\ ~s.batt
  /\ ~s.adv /\ Free(s) /\ s.adState = "null"
  /\ \/ Queues(s, <<>>, <<>>) /\ (s.running # "none" => ~s.startEvt)
     \/ /\ s.running = "none" /\ ~s.startEvt
        /\ \/ Queues(s, <<Msg("adv_data", "ok")>>, <<>>)
           \/ Queues(s, <<>>, <<Msg("adv_data_done", "ok")>>)
           \/ Queues(s, <<NameSet>>, <<>>)
           \/ Queues(s, <<>>, <<NameDone>>)

\* A link, its end and a new name in any order.
Linked(s) ==
  /\ s.role = "CONNECTED" /\ ~s.advEnabled /\ s.batt
  /\ ~s.adv /\ s.llEvt = "none" /\ s.adState = "null"
  /\ s.running # "none" => ~s.startEvt
  /\ \/ s.link /\ s.linked
        /\ \/ Queues(s, <<>>, <<>>)
           \/ s.running = "none" /\ (Queues(s, <<NameSet>>, <<>>) \/ Queues(s, <<>>, <<NameDone>>))
     \/ ~s.link /\ s.linked
        /\ \E x \in Reasons :
             \/ Queues(s, <<Msg("disc", x)>>, <<>>)
             \/ /\ s.running = "none"
                /\ \/ Queues(s, <<Msg("disc", x)>>, <<NameDone>>)
                   \/ Queues(s, <<Msg("disc", x), NameSet>>, <<>>)
                   \/ Queues(s, <<NameSet, Msg("disc", x)>>, <<>>)
     \/ ~s.link /\ ~s.linked /\ s.running = "none"
        /\ \E x \in Reasons :
             \/ Queues(s, <<>>, <<Msg("term", x)>>)
             \/ Queues(s, <<>>, <<NameDone, Msg("term", x)>>)
             \/ Queues(s, <<>>, <<Msg("term", x), NameDone>>)
             \/ Queues(s, <<NameSet>>, <<Msg("term", x)>>)

Phases(s, f) ==
  \/ Booting(s) \/ Started(s) \/ Restarts(s, f) \/ Starting(s, f) \/ OnAir(s, f)
  \/ Ending(s, f) \/ Linked(s) \/ Stopped(s, f)

\* Advertising is enabled once.
ResetOnce(s) ==
  /\ "RESET_ADV" \in s.evts \/ s.running = "RESET_ADV" => s.role = "STARTED" /\ ~s.advEnabled
  /\ s.running = "RESET_ADV" => "RESET_ADV" \notin s.evts

RebootInv == d.reboot /\ d.role # "CONNECTED" => past.ended = "timeout" \/ past.late

RoleInv == Phases(d, past.failed) /\ ResetOnce(d) /\ RebootInv
-----------------------------------------------------------------------------
(* Queues.                                                                 *)

LEMMA OneMore ==
  ASSUME NEW x, NEW y
  PROVE  Append(<<>>, x) = <<x>> /\ Append(<<x>>, y) = <<x, y>>
<1> DEFINE S == {x, y}
<1>1. <<x>> \in Seq(S) /\ y \in S OBVIOUS
<1>2. Append(<<x>>, y) \in Seq(S) /\ Len(Append(<<x>>, y)) = 2 BY <1>1
<1>3. <<x, y>> \in Seq(S) /\ Len(<<x, y>>) = 2 BY <1>1
<1>4. \A i \in 1 .. 2 : Append(<<x>>, y)[i] = <<x, y>>[i] BY <1>1
<1>5. Append(<<x>>, y) = <<x, y>> BY <1>2, <1>3, <1>4, SeqEqual, Zenon
<1> QED BY <1>5

LEMMA TwoMore ==
  ASSUME NEW x, NEW y, NEW z
  PROVE  Append(<<x, y>>, z) = <<x, y, z>>
<1> DEFINE S == {x, y, z}
<1>1. <<x, y>> \in Seq(S) /\ z \in S OBVIOUS
<1>2. Append(<<x, y>>, z) \in Seq(S) /\ Len(Append(<<x, y>>, z)) = 3 BY <1>1
<1>3. <<x, y, z>> \in Seq(S) /\ Len(<<x, y, z>>) = 3 BY <1>1
<1>4. \A i \in 1 .. 3 : Append(<<x, y>>, z)[i] = <<x, y, z>>[i] BY <1>1
<1> QED BY <1>2, <1>3, <1>4, SeqEqual, Zenon

LEMMA OneLess ==
  ASSUME NEW x, NEW y, NEW z
  PROVE  /\ Head(<<x>>) = x /\ Tail(<<x>>) = <<>> /\ <<x>> # <<>>
         /\ Head(<<x, y>>) = x /\ Tail(<<x, y>>) = <<y>> /\ <<x, y>> # <<>>
         /\ Head(<<x, y, z>>) = x /\ Tail(<<x, y, z>>) = <<y, z>> /\ <<x, y, z>> # <<>>
OBVIOUS
-----------------------------------------------------------------------------
(* What a step of the host does.                                           *)

SameRole(s, t) ==
  /\ t \in Devices /\ t.role = s.role /\ t.advEnabled = s.advEnabled /\ t.startEvt = s.startEvt
  /\ t.batt = s.batt /\ t.running = s.running /\ t.evts = s.evts /\ t.reboot = s.reboot
  /\ t.interval = s.interval /\ t.llInterval = s.llInterval

HostStep(s, t, adv, ad, linked, g, r) ==
  /\ SameRole(s, t) /\ t.link = s.link /\ t.llEvt = s.llEvt
  /\ t.adv = adv /\ t.adState = ad /\ t.linked = linked /\ t.gapq = g /\ t.roleq = r

LEMMA ToRoleIs ==
  ASSUME NEW s \in Devices, NEW op, NEW res, Msg(op, res) \in RoleMsgs
  PROVE  HostStep(s, ToRole(s, op, res), s.adv, s.adState, s.linked, s.gapq,
                  Append(s.roleq, Msg(op, res)))
<1>1. Append(s.roleq, Msg(op, res)) \in Seq(RoleMsgs) BY DEF Devices
<1> QED BY <1>1 DEF ToRole, HostStep, SameRole, Devices

LEMMA ToGapIs ==
  ASSUME NEW s \in Devices, NEW op, NEW res, Msg(op, res) \in GapMsgs
  PROVE  HostStep(s, ToGap(s, op, res), s.adv, s.adState, s.linked,
                  Append(s.gapq, Msg(op, res)), s.roleq)
<1>1. Append(s.gapq, Msg(op, res)) \in Seq(GapMsgs) BY DEF Devices
<1> QED BY <1>1 DEF ToGap, HostStep, SameRole, Devices

LEMMA SetStateIs ==
  ASSUME NEW s \in Devices, NEW a \in AdStates
  PROVE  HostStep(s, [s EXCEPT !.adState = a], s.adv, a, s.linked, s.gapq, s.roleq)
BY DEF HostStep, SameRole, Devices

LEMMA PopIs ==
  ASSUME NEW s \in Devices, s.gapq # <<>>
  PROVE  HostStep(s, [s EXCEPT !.gapq = Tail(@)], s.adv, s.adState, s.linked, Tail(s.gapq), s.roleq)
<1>1. Tail(s.gapq) \in Seq(GapMsgs) BY DEF Devices
<1> QED BY <1>1 DEF HostStep, SameRole, Devices

LEMMA ThenIs ==
  ASSUME NEW s, NEW t, NEW u, NEW adv, NEW ad, NEW lk, NEW g, NEW r,
         NEW adv2, NEW ad2, NEW lk2, NEW g2, NEW r2,
         HostStep(s, t, adv, ad, lk, g, r), HostStep(t, u, adv2, ad2, lk2, g2, r2)
  PROVE  HostStep(s, u, adv2, ad2, lk2, g2, r2)
BY DEF HostStep, SameRole

LEMMA ParamsSetIs ==
  ASSUME NEW s \in Devices, s.adState # "null", ~s.adv
  PROVE  HostStep(s, GapHandles(s, ParamsSet), TRUE, "set_mode", s.linked,
                  Append(s.gapq, Enabled), s.roleq)
<1> DEFINE t == [s EXCEPT !.adState = "set_mode"]
           u == [t EXCEPT !.adv = TRUE]
           w == ToGap(u, "set_enable", "ok")
<1>1. HostStep(s, t, s.adv, "set_mode", s.linked, s.gapq, s.roleq) BY SetStateIs DEF AdStates
<1>2. t.adv = FALSE /\ Status(~t.adv) = "ok" BY <1>1 DEF HostStep, Status, Devices
<1>3. GapHandles(s, ParamsSet) = w
  BY <1>2 DEF GapHandles, ParamsSet, Msg, SetParamsStatus, AdvOn
<1> HIDE DEF t
<1>4. t \in Devices BY <1>1 DEF HostStep, SameRole
<1>5. HostStep(t, u, TRUE, t.adState, t.linked, t.gapq, t.roleq)
  BY <1>4 DEF HostStep, SameRole, Devices
<1> HIDE DEF u
<1>6. u \in Devices BY <1>5 DEF HostStep, SameRole
<1>7. HostStep(u, w, u.adv, u.adState, u.linked, Append(u.gapq, Enabled), u.roleq)
  BY <1>6, ToGapIs, MsgTypes DEF Enabled
<1> HIDE DEF w
<1> QED BY <1>1, <1>3, <1>5, <1>7 DEF HostStep, SameRole

LEMMA EnabledIs ==
  ASSUME NEW s \in Devices
  PROVE  /\ s.adState = "set_mode" =>
              HostStep(s, GapHandles(s, Enabled), s.adv, "advertising", s.linked, s.gapq,
                       Append(s.roleq, Made))
         /\ s.adState = "ending" =>
              HostStep(s, GapHandles(s, Enabled), s.adv, "null", s.linked, s.gapq,
                       Append(s.roleq, Ended))
<1>1. ASSUME s.adState = "set_mode"
      PROVE  HostStep(s, GapHandles(s, Enabled), s.adv, "advertising", s.linked, s.gapq,
                       Append(s.roleq, Made))
  <2> DEFINE t == [s EXCEPT !.adState = "advertising"]
             u == ToRole(t, "make_done", "ok")
  <2>1. HostStep(s, t, s.adv, "advertising", s.linked, s.gapq, s.roleq)
    BY SetStateIs DEF AdStates
  <2>2. GapHandles(s, Enabled) = u BY <1>1 DEF GapHandles, Enabled, Msg, EnableStatus
  <2> HIDE DEF t
  <2>3. t \in Devices BY <2>1 DEF HostStep, SameRole
  <2>4. HostStep(t, u, t.adv, t.adState, t.linked, t.gapq, Append(t.roleq, Made))
    BY <2>3, ToRoleIs, MsgTypes DEF Made
  <2> HIDE DEF u
  <2> QED BY <2>1, <2>2, <2>4 DEF HostStep, SameRole
<1>2. ASSUME s.adState = "ending"
      PROVE  HostStep(s, GapHandles(s, Enabled), s.adv, "null", s.linked, s.gapq,
                       Append(s.roleq, Ended))
  <2> DEFINE t == [s EXCEPT !.adState = "null"]
             u == ToRole(t, "end_done", "ok")
  <2>1. HostStep(s, t, s.adv, "null", s.linked, s.gapq, s.roleq)
    BY SetStateIs DEF AdStates
  <2>2. GapHandles(s, Enabled) = u BY <1>2 DEF GapHandles, Enabled, Msg, EnableStatus
  <2> HIDE DEF t
  <2>3. t \in Devices BY <2>1 DEF HostStep, SameRole
  <2>4. HostStep(t, u, t.adv, t.adState, t.linked, t.gapq, Append(t.roleq, Ended))
    BY <2>3, ToRoleIs, MsgTypes DEF Ended
  <2> HIDE DEF u
  <2> QED BY <2>1, <2>2, <2>4 DEF HostStep, SameRole
<1> QED BY <1>1, <1>2

LEMMA DataSetIs ==
  ASSUME NEW s \in Devices
  PROVE  /\ HostStep(s, GapHandles(s, NameSet), s.adv, s.adState, s.linked, s.gapq,
                     Append(s.roleq, NameDone))
         /\ HostStep(s, GapHandles(s, Msg("adv_data", "ok")), s.adv, s.adState, s.linked, s.gapq,
                     Append(s.roleq, Msg("adv_data_done", "ok")))
<1>1. /\ GapHandles(s, NameSet) = ToRole(s, "scan_rsp_done", "ok")
      /\ GapHandles(s, Msg("adv_data", "ok")) = ToRole(s, "adv_data_done", "ok")
  BY DEF GapHandles, NameSet, Msg
<1> QED BY <1>1, ToRoleIs, MsgTypes DEF NameDone

LEMMA ConnIs ==
  ASSUME NEW s \in Devices, ~s.linked
  PROVE  /\ HostStep(s, GapHandles(s, Conn), s.adv, "null", TRUE, s.gapq, Append(s.roleq, Up))
         /\ HostStep(s, GapHandles(s, NoConn), s.adv, "null", FALSE, s.gapq, Append(s.roleq, NotUp))
<1>1. ASSUME NEW res \in {"ok", "bad"}
      PROVE  HostStep(s, ConnectionComplete(s, res), s.adv, "null", res = "ok", s.gapq,
                      Append(s.roleq, Msg("link", res)))
  <2> DEFINE t == [s EXCEPT !.adState = "null"]
             b == res = "ok"
             u == [t EXCEPT !.linked = b]
             w == ToRole(u, "link", res)
  <2>1. HostStep(s, t, s.adv, "null", s.linked, s.gapq, s.roleq)
    BY SetStateIs DEF AdStates
  <2>2. ConnectionComplete(s, res) = w BY DEF ConnectionComplete
  <2>b. b \in BOOLEAN OBVIOUS
  <2> HIDE DEF t, b
  <2>3. t \in Devices BY <2>1 DEF HostStep, SameRole
  <2>4. HostStep(t, u, t.adv, t.adState, b, t.gapq, t.roleq)
    BY <2>3, <2>b DEF HostStep, SameRole, Devices
  <2> HIDE DEF u
  <2>5. u \in Devices BY <2>4 DEF HostStep, SameRole
  <2>6. HostStep(u, w, u.adv, u.adState, u.linked, u.gapq, Append(u.roleq, Msg("link", res)))
    BY <2>5, ToRoleIs, MsgTypes
  <2> HIDE DEF w
  <2> QED BY <2>1, <2>2, <2>4, <2>6 DEF HostStep, SameRole, b
<1>2. GapHandles(s, Conn) = ConnectionComplete(s, "ok") BY DEF GapHandles, Conn, Msg
<1>3. GapHandles(s, NoConn) = ConnectionComplete(s, "bad") BY DEF GapHandles, NoConn, Msg
<1>4. /\ HostStep(s, ConnectionComplete(s, "ok"), s.adv, "null", "ok" = "ok", s.gapq,
                  Append(s.roleq, Msg("link", "ok")))
      /\ HostStep(s, ConnectionComplete(s, "bad"), s.adv, "null", "bad" = "ok", s.gapq,
                  Append(s.roleq, Msg("link", "bad")))
  BY <1>1
<1>5. ("ok" = "ok") = TRUE /\ ("bad" = "ok") = FALSE OBVIOUS
<1> QED BY <1>2, <1>3, <1>4, <1>5 DEF Up, NotUp

LEMMA DiscIs ==
  ASSUME NEW s \in Devices, s.linked, NEW x \in Reasons
  PROVE  HostStep(s, GapHandles(s, Msg("disc", x)), s.adv, s.adState, FALSE, s.gapq,
                  Append(s.roleq, Msg("term", x)))
<1> DEFINE t == [s EXCEPT !.linked = FALSE]
           u == ToRole(t, "term", x)
<1>1. HostStep(s, t, s.adv, s.adState, FALSE, s.gapq, s.roleq) BY DEF HostStep, SameRole, Devices
<1>2. GapHandles(s, Msg("disc", x)) = u BY DEF GapHandles, Msg, DisconnectComplete
<1> HIDE DEF t
<1>3. t \in Devices BY <1>1 DEF HostStep, SameRole
<1>4. HostStep(t, u, t.adv, t.adState, t.linked, t.gapq, Append(t.roleq, Msg("term", x)))
  BY <1>3, ToRoleIs, MsgTypes
<1> HIDE DEF u
<1> QED BY <1>1, <1>2, <1>4 DEF HostStep, SameRole
-----------------------------------------------------------------------------
(* A link on its way through the host.                                     *)

HostNext(s) == GapHandles([s EXCEPT !.gapq = Tail(@)], Head(s.gapq))

\* What is in front of a link is handled, and the link comes nearer ...
LEMMA AheadHost ==
  ASSUME NEW s \in Devices, NEW f, NEW x, NEW r, NEW a, NEW y, NEW b,
         LinkAhead(s, f, <<x>>, r, a), s.llEvt = "none",
         \A u \in Devices : u.adState = a =>
           HostStep(u, GapHandles(u, x), u.adv, b, u.linked, u.gapq, Append(u.roleq, y))
  PROVE  /\ SameRole(s, HostNext(s)) /\ HostNext(s).adv = s.adv
         /\ LinkAhead(HostNext(s), f, <<>>, Append(r, y), b)
<1> DEFINE u == [s EXCEPT !.gapq = Tail(@)]
           t == HostNext(s)
<1>1. PICK g : s.gapq = Append(<<x>>, g) \/ \E h : s.gapq = Append(Append(<<x>>, g), h)
  BY DEF LinkAhead
<1>2. s.gapq # <<>> /\ Head(s.gapq) = x BY <1>1, OneMore, TwoMore, OneLess
<1>3. HostStep(s, u, s.adv, s.adState, s.linked, Tail(s.gapq), s.roleq) BY <1>2, PopIs
<1>4. t = GapHandles(u, x) BY <1>2 DEF HostNext
<1> HIDE DEF u, t
<1>5. u \in Devices /\ u.adState = a BY <1>3 DEF HostStep, SameRole, LinkAhead
<1>6. HostStep(u, t, u.adv, b, u.linked, u.gapq, Append(u.roleq, y)) BY <1>4, <1>5
<1>7. HostStep(s, t, s.adv, b, s.linked, Tail(s.gapq), Append(s.roleq, y))
  BY <1>3, <1>6 DEF HostStep, SameRole
<1>8. LinkAhead(t, f, <<>>, Append(r, y), b)
  <2>1. t.llEvt = "none" /\ ~t.linked /\ t.roleq = Append(r, y) /\ t.adState = b
        /\ t.link = s.link /\ t.gapq = Tail(s.gapq)
    BY <1>7 DEF HostStep, LinkAhead
  <2>2. CASE s.link /\ s.gapq = Append(<<x>>, Conn)
    <3>a. s.gapq = <<x, Conn>> BY <2>2, OneMore
    <3>b. Tail(s.gapq) = <<Conn>> BY <3>a, OneLess
    <3>1. Tail(s.gapq) = Append(<<>>, Conn) BY <3>b, OneMore
    <3> QED BY <2>1, <2>2, <3>1 DEF LinkAhead
  <2>3. CASE ~s.link /\ s.gapq = Append(<<x>>, NoConn) /\ f
    <3>a. s.gapq = <<x, NoConn>> BY <2>3, OneMore
    <3>b. Tail(s.gapq) = <<NoConn>> BY <3>a, OneLess
    <3>1. Tail(s.gapq) = Append(<<>>, NoConn) BY <3>b, OneMore
    <3> QED BY <2>1, <2>3, <3>1 DEF LinkAhead
  <2>4. CASE ~s.link /\ \E z \in Reasons : s.gapq = Append(Append(<<x>>, Conn), Msg("disc", z))
    <3>1. PICK z \in Reasons : s.gapq = Append(Append(<<x>>, Conn), Msg("disc", z)) BY <2>4
    <3>a. Append(<<x>>, Conn) = <<x, Conn>> BY OneMore
    <3>2. s.gapq = <<x, Conn, Msg("disc", z)>> BY <3>1, <3>a, TwoMore
    <3>3. Tail(s.gapq) = <<Conn, Msg("disc", z)>> BY <3>2, OneLess
    <3>c. Append(<<>>, Conn) = <<Conn>> BY OneMore
    <3>4. Tail(s.gapq) = Append(Append(<<>>, Conn), Msg("disc", z)) BY <3>3, <3>c, OneMore
    <3> QED BY <2>1, <2>4, <3>4 DEF LinkAhead
  <2> QED BY <2>2, <2>3, <2>4 DEF LinkAhead
<1> QED BY <1>7, <1>8 DEF HostStep, t

\* ... up to the role.
LEMMA ComesHost ==
  ASSUME NEW s \in Devices, NEW f, NEW r, NEW a,
         LinkComes(s, f, <<>>, r, a), s.llEvt = "none", s.gapq # <<>>
  PROVE  /\ SameRole(s, HostNext(s)) /\ HostNext(s).adv = s.adv
         /\ LinkSeen(HostNext(s), f, r)
<1> DEFINE u == [s EXCEPT !.gapq = Tail(@)]
           t == HostNext(s)
<1>1. HostStep(s, u, s.adv, s.adState, s.linked, Tail(s.gapq), s.roleq) BY PopIs
<1>2. t = GapHandles(u, Head(s.gapq)) BY DEF HostNext
<1> HIDE DEF u, t
<1>3. /\ u \in Devices /\ u.adv = s.adv /\ u.linked = s.linked /\ u.roleq = s.roleq
      /\ u.gapq = Tail(s.gapq) /\ u.adState = s.adState
  BY <1>1 DEF HostStep, SameRole
<1>4. CASE LinkAhead(s, f, <<>>, r, a) /\ s.link /\ s.gapq = Append(<<>>, Conn)
  <2>1. Head(s.gapq) = Conn /\ Tail(s.gapq) = <<>> BY <1>4, OneMore, OneLess
  <2>2. ~s.linked /\ s.roleq = r BY <1>4 DEF LinkAhead
  <2>3. HostStep(u, t, u.adv, "null", TRUE, u.gapq, Append(u.roleq, Up))
    BY <1>2, <1>3, <2>1, <2>2, ConnIs
  <2> QED BY <1>1, <1>3, <1>4, <2>1, <2>2, <2>3 DEF HostStep, SameRole, LinkSeen, Queues, t
<1>5. CASE LinkAhead(s, f, <<>>, r, a) /\ ~s.link /\ s.gapq = Append(<<>>, NoConn) /\ f
  <2>1. Head(s.gapq) = NoConn /\ Tail(s.gapq) = <<>> BY <1>5, OneMore, OneLess
  <2>2. ~s.linked /\ s.roleq = r BY <1>5 DEF LinkAhead
  <2>3. HostStep(u, t, u.adv, "null", FALSE, u.gapq, Append(u.roleq, NotUp))
    BY <1>2, <1>3, <2>1, <2>2, ConnIs
  <2> QED BY <1>1, <1>3, <1>5, <2>1, <2>2, <2>3 DEF HostStep, SameRole, LinkSeen, Queues, t
<1>6. CASE LinkAhead(s, f, <<>>, r, a) /\ ~s.link
           /\ \E x \in Reasons : s.gapq = Append(Append(<<>>, Conn), Msg("disc", x))
  <2>0. PICK x \in Reasons : s.gapq = Append(Append(<<>>, Conn), Msg("disc", x)) BY <1>6
  <2>a. Append(<<>>, Conn) = <<Conn>> BY OneMore
  <2>b. s.gapq = <<Conn, Msg("disc", x)>> BY <2>0, <2>a, OneMore
  <2>1. Head(s.gapq) = Conn /\ Tail(s.gapq) = <<Msg("disc", x)>> BY <2>b, OneLess
  <2>2. ~s.linked /\ s.roleq = r BY <1>6 DEF LinkAhead
  <2>3. HostStep(u, t, u.adv, "null", TRUE, u.gapq, Append(u.roleq, Up))
    BY <1>2, <1>3, <2>1, <2>2, ConnIs
  <2> QED BY <1>1, <1>3, <1>6, <2>1, <2>2, <2>3 DEF HostStep, SameRole, LinkSeen, Queues, t
<1>7. CASE LinkSeen(s, f, r)
  <2>0. PICK x \in Reasons : Queues(s, <<Msg("disc", x)>>, Append(r, Up)) /\ ~s.link /\ s.linked
    BY <1>7 DEF LinkSeen, Queues
  <2>1. Head(s.gapq) = Msg("disc", x) /\ Tail(s.gapq) = <<>> BY <2>0, OneLess DEF Queues
  <2>2. s.linked /\ s.roleq = Append(r, Up) /\ s.adState = "null" BY <1>7, <2>0 DEF LinkSeen, Queues
  <2>3. HostStep(u, t, u.adv, u.adState, FALSE, u.gapq, Append(u.roleq, Msg("term", x)))
    BY <1>2, <1>3, <2>1, <2>2, DiscIs
  <2> QED BY <1>1, <1>3, <2>0, <2>1, <2>2, <2>3 DEF HostStep, SameRole, LinkSeen, Queues, t
<1> QED BY <1>4, <1>5, <1>6, <1>7 DEF LinkComes, LinkAhead

\* The same for a radio that still advertises.
LEMMA AirHost ==
  ASSUME NEW s \in Devices, NEW f, NEW x, NEW r, NEW a, NEW y, NEW b,
         Air(s, f, <<x>>, r, a), s.llEvt = "none",
         \A u \in Devices : u.adState = a =>
           HostStep(u, GapHandles(u, x), u.adv, b, u.linked, u.gapq, Append(u.roleq, y))
  PROVE  SameRole(s, HostNext(s)) /\ Air(HostNext(s), f, <<>>, Append(r, y), b)
<1>1. CASE s.adv /\ Free(s) /\ Queues(s, <<x>>, r) /\ s.adState = a
  <2> DEFINE u == [s EXCEPT !.gapq = Tail(@)]
             t == HostNext(s)
  <2>1. Head(s.gapq) = x /\ Tail(s.gapq) = <<>> /\ s.gapq # <<>> BY <1>1, OneLess DEF Queues
  <2>2. HostStep(s, u, s.adv, s.adState, s.linked, <<>>, s.roleq) BY <2>1, PopIs
  <2>3. t = GapHandles(u, x) BY <2>1 DEF HostNext
  <2> HIDE DEF u, t
  <2>4. u \in Devices /\ u.adState = a BY <1>1, <2>2 DEF HostStep, SameRole
  <2>5. HostStep(u, t, u.adv, b, u.linked, u.gapq, Append(u.roleq, y)) BY <2>3, <2>4
  <2> QED BY <1>1, <2>2, <2>5 DEF HostStep, SameRole, Air, Free, Queues, t
<1>2. CASE ~s.adv /\ LinkComes(s, f, <<x>>, r, a)
  <2>1. LinkAhead(s, f, <<x>>, r, a) BY <1>2, OneLess DEF LinkComes
  <2>2. /\ SameRole(s, HostNext(s)) /\ HostNext(s).adv = s.adv
        /\ LinkAhead(HostNext(s), f, <<>>, Append(r, y), b)
    BY <2>1, AheadHost
  <2> QED BY <1>2, <2>2 DEF Air, LinkComes
<1> QED BY <1>1, <1>2 DEF Air

LEMMA AirComesHost ==
  ASSUME NEW s \in Devices, NEW f, NEW r, NEW a,
         Air(s, f, <<>>, r, a), s.llEvt = "none", s.gapq # <<>>
  PROVE  SameRole(s, HostNext(s)) /\ Air(HostNext(s), f, <<>>, r, a)
<1>1. ~s.adv /\ LinkComes(s, f, <<>>, r, a) BY DEF Air, Queues
<1> QED BY <1>1, ComesHost DEF Air, LinkComes
-----------------------------------------------------------------------------
(* The host's task goes from phase to phase.                               *)

LEMMA MessageHost ==
  ASSUME NEW s \in Devices, NEW x, NEW y, NEW g, NEW b, NEW lk,
         s.gapq # <<>>, Head(s.gapq) = x, Tail(s.gapq) = g,
         \A u \in Devices : u.linked = s.linked /\ u.adState = s.adState =>
           HostStep(u, GapHandles(u, x), u.adv, b, lk, u.gapq, Append(u.roleq, y))
  PROVE  HostStep(s, HostNext(s), s.adv, b, lk, g, Append(s.roleq, y))
<1> DEFINE u == [s EXCEPT !.gapq = Tail(@)]
           t == HostNext(s)
<1>1. HostStep(s, u, s.adv, s.adState, s.linked, g, s.roleq) BY PopIs
<1>2. t = GapHandles(u, x) BY DEF HostNext
<1> HIDE DEF u, t
<1>3. u \in Devices /\ u.linked = s.linked /\ u.adState = s.adState BY <1>1 DEF HostStep, SameRole
<1>4. HostStep(u, t, u.adv, b, lk, u.gapq, Append(u.roleq, y)) BY <1>2, <1>3
<1> QED BY <1>1, <1>4 DEF HostStep, SameRole, t

LEMMA HostStarted ==
  ASSUME NEW s \in Devices, Started(s), s.gapq # <<>>
  PROVE  SameRole(s, HostNext(s)) /\ Started(HostNext(s))
<1> DEFINE t == HostNext(s)
<1>1. CASE Queues(s, <<Msg("adv_data", "ok")>>, <<>>)
  <2>1. Head(s.gapq) = Msg("adv_data", "ok") /\ Tail(s.gapq) = <<>> BY <1>1, OneLess DEF Queues
  <2>2. HostStep(s, t, s.adv, s.adState, s.linked, <<>>, Append(s.roleq, Msg("adv_data_done", "ok")))
    BY <2>1, DataSetIs, MessageHost
  <2> HIDE DEF t
  <2>3. t.roleq = <<Msg("adv_data_done", "ok")>> BY <1>1, <2>2, OneMore DEF HostStep, Queues
  <2>4. s.running = "none" /\ ~s.startEvt
    <3>1. s.gapq # <<NameSet>> BY <1>1 DEF Queues, NameSet, Msg
    <3> QED BY <1>1, <3>1 DEF Started, Queues
  <2>5. SameRole(s, t) /\ Started(t)
    BY <2>2, <2>3, <2>4 DEF Started, HostStep, SameRole, Free, Queues
  <2> QED BY <2>5 DEF t
<1>2. CASE Queues(s, <<NameSet>>, <<>>)
  <2>1. Head(s.gapq) = NameSet /\ Tail(s.gapq) = <<>> BY <1>2, OneLess DEF Queues
  <2>2. HostStep(s, t, s.adv, s.adState, s.linked, <<>>, Append(s.roleq, NameDone))
    BY <2>1, DataSetIs, MessageHost
  <2> HIDE DEF t
  <2>3. t.roleq = <<NameDone>> BY <1>2, <2>2, OneMore DEF HostStep, Queues
  <2>4. s.running = "none" /\ ~s.startEvt BY <1>2, OneLess DEF Started, Queues
  <2>5. SameRole(s, t) /\ Started(t)
    BY <2>2, <2>3, <2>4 DEF Started, HostStep, SameRole, Free, Queues
  <2> QED BY <2>5 DEF t
<1> QED BY <1>1, <1>2 DEF Started, Queues

LEMMA HostStopped ==
  ASSUME NEW s \in Devices, NEW f, Stopped(s, f), s.gapq # <<>>
  PROVE  SameRole(s, HostNext(s)) /\ Stopped(HostNext(s), f)
<1> DEFINE t == HostNext(s)
<1>1. Queues(s, <<NameSet>>, <<>>) /\ s.running = "none" BY DEF Stopped, Queues
<1>2. Head(s.gapq) = NameSet /\ Tail(s.gapq) = <<>> BY <1>1, OneLess DEF Queues
<1>3. HostStep(s, t, s.adv, s.adState, s.linked, <<>>, Append(s.roleq, NameDone))
  BY <1>2, DataSetIs, MessageHost
<1> HIDE DEF t
<1>4. t.roleq = <<NameDone>> BY <1>1, <1>3, OneMore DEF HostStep, Queues
<1>5. SameRole(s, t) /\ Stopped(t, f) BY <1>1, <1>3, <1>4 DEF Stopped, HostStep, SameRole, Free, Queues
<1> QED BY <1>5 DEF t

LEMMA HostStarting ==
  ASSUME NEW s \in Devices, NEW f, Starting(s, f), s.llEvt = "none", s.gapq # <<>>
  PROVE  SameRole(s, HostNext(s)) /\ Starting(HostNext(s), f)
<1>1. CASE ~s.adv /\ Free(s) /\ Queues(s, <<ParamsSet>>, <<>>) /\ s.adState = "set_params"
  <2> DEFINE u == [s EXCEPT !.gapq = Tail(@)]
             t == HostNext(s)
  <2>1. Head(s.gapq) = ParamsSet /\ Tail(s.gapq) = <<>> BY <1>1, OneLess DEF Queues
  <2>2. HostStep(s, u, s.adv, s.adState, s.linked, <<>>, s.roleq) BY <2>1, PopIs
  <2>3. t = GapHandles(u, ParamsSet) BY <2>1 DEF HostNext
  <2> HIDE DEF u, t
  <2>4. u \in Devices /\ u.adState # "null" /\ ~u.adv BY <1>1, <2>2 DEF HostStep, SameRole
  <2>5. HostStep(u, t, TRUE, "set_mode", u.linked, Append(u.gapq, Enabled), u.roleq)
    BY <2>3, <2>4, ParamsSetIs
  <2>6. t.gapq = <<Enabled>> BY <2>2, <2>5, OneMore DEF HostStep
  <2>7. SameRole(s, t) /\ t.adv /\ Free(t) /\ Queues(t, <<Enabled>>, <<>>) /\ t.adState = "set_mode"
    BY <1>1, <2>2, <2>5, <2>6 DEF HostStep, SameRole, Free, Queues
  <2>8. Starting(t, f) BY <2>7 DEF Starting, SameRole, Air
  <2> QED BY <2>7, <2>8 DEF t
<1>2. CASE Air(s, f, <<Enabled>>, <<>>, "set_mode")
  <2>1. SameRole(s, HostNext(s)) /\ Air(HostNext(s), f, <<>>, Append(<<>>, Made), "advertising")
    BY <1>2, AirHost, EnabledIs
  <2>2. Append(<<>>, Made) = <<Made>> BY OneMore
  <2> QED BY <2>1, <2>2 DEF Starting, SameRole
<1>3. CASE Air(s, f, <<>>, <<Made>>, "advertising")
  <2>1. SameRole(s, HostNext(s)) /\ Air(HostNext(s), f, <<>>, <<Made>>, "advertising")
    BY <1>3, AirComesHost
  <2> QED BY <2>1 DEF Starting, SameRole
<1> QED BY <1>1, <1>2, <1>3 DEF Starting

LEMMA HostOnAir ==
  ASSUME NEW s \in Devices, NEW f, OnAir(s, f), s.running = "none", s.llEvt = "none", s.gapq # <<>>
  PROVE  SameRole(s, HostNext(s)) /\ OnAir(HostNext(s), f)
<1>1. CASE Air(s, f, <<>>, <<>>, "advertising")
  <2>1. SameRole(s, HostNext(s)) /\ Air(HostNext(s), f, <<>>, <<>>, "advertising")
    BY <1>1, AirComesHost
  <2> QED BY <2>1 DEF OnAir, SameRole
<1>2. CASE Air(s, f, <<NameSet>>, <<>>, "advertising")
  <2>0. \A u \in Devices : u.adState = "advertising" =>
          HostStep(u, GapHandles(u, NameSet), u.adv, "advertising", u.linked, u.gapq, Append(u.roleq, NameDone))
    BY DataSetIs
  <2>1. SameRole(s, HostNext(s)) /\ Air(HostNext(s), f, <<>>, Append(<<>>, NameDone), "advertising")
    BY <1>2, <2>0, AirHost
  <2>2. Append(<<>>, NameDone) = <<NameDone>> BY OneMore
  <2> QED BY <2>1, <2>2 DEF OnAir, SameRole
<1>3. CASE Air(s, f, <<>>, <<NameDone>>, "advertising")
  <2>1. SameRole(s, HostNext(s)) /\ Air(HostNext(s), f, <<>>, <<NameDone>>, "advertising")
    BY <1>3, AirComesHost
  <2> QED BY <2>1 DEF OnAir, SameRole
<1> QED BY <1>1, <1>2, <1>3 DEF OnAir

LEMMA HostEnding ==
  ASSUME NEW s \in Devices, NEW f, Ending(s, f), s.llEvt = "none", s.gapq # <<>>
  PROVE  SameRole(s, HostNext(s)) /\ Ending(HostNext(s), f)
<1> DEFINE t == HostNext(s)
<1>0. \A u \in Devices : u.adState = "ending" =>
        HostStep(u, GapHandles(u, Enabled), u.adv, "null", u.linked, u.gapq, Append(u.roleq, Ended))
  BY EnabledIs
<1>a. Append(<<>>, Ended) = <<Ended>> BY OneMore
<1>1. CASE Free(s) /\ Queues(s, <<Enabled>>, <<>>) /\ s.adState = "ending"
  <2>1. Head(s.gapq) = Enabled /\ Tail(s.gapq) = <<>> BY <1>1, OneLess DEF Queues
  <2>2. HostStep(s, t, s.adv, "null", s.linked, <<>>, Append(s.roleq, Ended))
    BY <1>0, <1>1, <2>1, MessageHost
  <2> HIDE DEF t
  <2>3. SameRole(s, t) /\ ~t.adv /\ Free(t) /\ Queues(t, <<>>, <<Ended>>) /\ t.adState = "null"
    BY <1>1, <1>a, <2>2 DEF HostStep, Free, Queues, Ending, SameRole
  <2>4. Ending(t, f) BY <2>3 DEF Ending, SameRole
  <2> QED BY <2>3, <2>4 DEF t
<1>2. CASE LinkComes(s, f, <<Enabled>>, <<>>, "ending")
  <2>1. LinkAhead(s, f, <<Enabled>>, <<>>, "ending") BY <1>2, OneLess DEF LinkComes
  <2>2. SameRole(s, t) /\ t.adv = s.adv /\ LinkAhead(t, f, <<>>, Append(<<>>, Ended), "null")
    BY <1>0, <2>1, AheadHost
  <2> HIDE DEF t
  <2>3. Ending(t, f) BY <1>a, <2>2 DEF Ending, SameRole, LinkComes
  <2> QED BY <2>2, <2>3 DEF t
<1>3. ASSUME NEW r \in {<<>>, <<Ended>>}, LinkComes(s, f, <<>>, r, "null")
      PROVE  SameRole(s, t) /\ Ending(t, f)
  <2>1. SameRole(s, t) /\ t.adv = s.adv /\ LinkSeen(t, f, r) BY <1>3, ComesHost
  <2> HIDE DEF t
  <2>2. LinkComes(t, f, <<>>, r, "null") BY <2>1 DEF LinkComes
  <2>3. Ending(t, f) BY <2>1, <2>2 DEF Ending, SameRole
  <2> QED BY <2>1, <2>3
<1>4. CASE Free(s) /\ Queues(s, <<>>, <<Ended>>) /\ s.adState = "null" BY <1>4 DEF Queues
<1> QED BY <1>1, <1>2, <1>3, <1>4 DEF Ending

LEMMA HostLinked ==
  ASSUME NEW s \in Devices, Linked(s), s.running = "none", s.gapq # <<>>
  PROVE  SameRole(s, HostNext(s)) /\ Linked(HostNext(s))
<1> DEFINE t == HostNext(s)
<1>0. ASSUME NEW g, NEW r, NEW lk, HostStep(s, t, s.adv, s.adState, lk, g, r)
      PROVE  /\ SameRole(s, t) /\ Queues(t, g, r) /\ t.linked = lk /\ t.link = s.link
             /\ t.role = "CONNECTED" /\ ~t.advEnabled /\ t.batt /\ ~t.adv /\ t.llEvt = "none"
             /\ t.adState = "null" /\ t.running = "none"
  BY <1>0 DEF HostStep, SameRole, Queues, Linked
<1>n. ASSUME NEW g, s.gapq # <<>>, Head(s.gapq) = NameSet, Tail(s.gapq) = g
      PROVE  HostStep(s, t, s.adv, s.adState, s.linked, g, Append(s.roleq, NameDone))
  BY <1>n, DataSetIs, MessageHost
<1>d. ASSUME NEW g, NEW x \in Reasons, s.gapq # <<>>, Head(s.gapq) = Msg("disc", x), Tail(s.gapq) = g,
             s.linked
      PROVE  HostStep(s, t, s.adv, s.adState, FALSE, g, Append(s.roleq, Msg("term", x)))
  <2>1. \A u \in Devices : u.linked = s.linked /\ u.adState = s.adState =>
          HostStep(u, GapHandles(u, Msg("disc", x)), u.adv, s.adState, FALSE, u.gapq,
                   Append(u.roleq, Msg("term", x)))
    BY <1>d, DiscIs
  <2> QED BY <1>d, <2>1, MessageHost
<1> HIDE DEF t
<1>1. CASE s.link /\ s.linked /\ Queues(s, <<NameSet>>, <<>>)
  <2>1. Head(s.gapq) = NameSet /\ Tail(s.gapq) = <<>> BY <1>1, OneLess DEF Queues
  <2>2. Append(s.roleq, NameDone) = <<NameDone>> BY <1>1, OneMore DEF Queues
  <2>3. HostStep(s, t, s.adv, s.adState, s.linked, <<>>, <<NameDone>>) BY <1>n, <2>1, <2>2
  <2>4. /\ SameRole(s, t) /\ Queues(t, <<>>, <<NameDone>>) /\ t.linked = s.linked /\ t.link = s.link
        /\ t.role = "CONNECTED" /\ ~t.advEnabled /\ t.batt /\ ~t.adv /\ t.llEvt = "none"
        /\ t.adState = "null" /\ t.running = "none"
    BY <1>0, <2>3
  <2>5. Linked(t) BY <1>1, <2>4 DEF Linked
  <2> QED BY <2>4, <2>5 DEF t
<1>2. ASSUME NEW x \in Reasons, ~s.link, s.linked, Queues(s, <<Msg("disc", x)>>, <<>>)
      PROVE  SameRole(s, t) /\ Linked(t)
  <2>1. Head(s.gapq) = Msg("disc", x) /\ Tail(s.gapq) = <<>> BY <1>2, OneLess DEF Queues
  <2>2. Append(s.roleq, Msg("term", x)) = <<Msg("term", x)>> BY <1>2, OneMore DEF Queues
  <2>3. HostStep(s, t, s.adv, s.adState, FALSE, <<>>, <<Msg("term", x)>>) BY <1>2, <1>d, <2>1, <2>2
  <2>4. /\ SameRole(s, t) /\ Queues(t, <<>>, <<Msg("term", x)>>) /\ t.linked = FALSE /\ t.link = s.link
        /\ t.role = "CONNECTED" /\ ~t.advEnabled /\ t.batt /\ ~t.adv /\ t.llEvt = "none"
        /\ t.adState = "null" /\ t.running = "none"
    BY <1>0, <2>3
  <2>5. Linked(t) BY <1>2, <2>4 DEF Linked
  <2> QED BY <2>4, <2>5
<1>3. ASSUME NEW x \in Reasons, ~s.link, s.linked, Queues(s, <<Msg("disc", x)>>, <<NameDone>>)
      PROVE  SameRole(s, t) /\ Linked(t)
  <2>1. Head(s.gapq) = Msg("disc", x) /\ Tail(s.gapq) = <<>> BY <1>3, OneLess DEF Queues
  <2>2. Append(s.roleq, Msg("term", x)) = <<NameDone, Msg("term", x)>> BY <1>3, OneMore DEF Queues
  <2>3. HostStep(s, t, s.adv, s.adState, FALSE, <<>>, <<NameDone, Msg("term", x)>>) BY <1>3, <1>d, <2>1, <2>2
  <2>4. /\ SameRole(s, t) /\ Queues(t, <<>>, <<NameDone, Msg("term", x)>>) /\ t.linked = FALSE /\ t.link = s.link
        /\ t.role = "CONNECTED" /\ ~t.advEnabled /\ t.batt /\ ~t.adv /\ t.llEvt = "none"
        /\ t.adState = "null" /\ t.running = "none"
    BY <1>0, <2>3
  <2>5. Linked(t) BY <1>3, <2>4 DEF Linked
  <2> QED BY <2>4, <2>5
<1>4. ASSUME NEW x \in Reasons, ~s.link, s.linked, Queues(s, <<Msg("disc", x), NameSet>>, <<>>)
      PROVE  SameRole(s, t) /\ Linked(t)
  <2>1. Head(s.gapq) = Msg("disc", x) /\ Tail(s.gapq) = <<NameSet>> BY <1>4, OneLess DEF Queues
  <2>2. Append(s.roleq, Msg("term", x)) = <<Msg("term", x)>> BY <1>4, OneMore DEF Queues
  <2>3. HostStep(s, t, s.adv, s.adState, FALSE, <<NameSet>>, <<Msg("term", x)>>) BY <1>4, <1>d, <2>1, <2>2
  <2>4. /\ SameRole(s, t) /\ Queues(t, <<NameSet>>, <<Msg("term", x)>>) /\ t.linked = FALSE /\ t.link = s.link
        /\ t.role = "CONNECTED" /\ ~t.advEnabled /\ t.batt /\ ~t.adv /\ t.llEvt = "none"
        /\ t.adState = "null" /\ t.running = "none"
    BY <1>0, <2>3
  <2>5. Linked(t) BY <1>4, <2>4 DEF Linked
  <2> QED BY <2>4, <2>5
<1>5. ASSUME NEW x \in Reasons, ~s.link, s.linked, Queues(s, <<NameSet, Msg("disc", x)>>, <<>>)
      PROVE  SameRole(s, t) /\ Linked(t)
  <2>1. Head(s.gapq) = NameSet /\ Tail(s.gapq) = <<Msg("disc", x)>> BY <1>5, OneLess DEF Queues
  <2>2. Append(s.roleq, NameDone) = <<NameDone>> BY <1>5, OneMore DEF Queues
  <2>3. HostStep(s, t, s.adv, s.adState, s.linked, <<Msg("disc", x)>>, <<NameDone>>) BY <1>n, <2>1, <2>2
  <2>4. /\ SameRole(s, t) /\ Queues(t, <<Msg("disc", x)>>, <<NameDone>>) /\ t.linked = s.linked /\ t.link = s.link
        /\ t.role = "CONNECTED" /\ ~t.advEnabled /\ t.batt /\ ~t.adv /\ t.llEvt = "none"
        /\ t.adState = "null" /\ t.running = "none"
    BY <1>0, <2>3
  <2>5. Linked(t) BY <1>5, <2>4 DEF Linked
  <2> QED BY <2>4, <2>5
<1>6. ASSUME NEW x \in Reasons, ~s.link, ~s.linked, Queues(s, <<NameSet>>, <<Msg("term", x)>>)
      PROVE  SameRole(s, t) /\ Linked(t)
  <2>1. Head(s.gapq) = NameSet /\ Tail(s.gapq) = <<>> BY <1>6, OneLess DEF Queues
  <2>2. Append(s.roleq, NameDone) = <<Msg("term", x), NameDone>> BY <1>6, OneMore DEF Queues
  <2>3. HostStep(s, t, s.adv, s.adState, s.linked, <<>>, <<Msg("term", x), NameDone>>) BY <1>n, <2>1, <2>2
  <2>4. /\ SameRole(s, t) /\ Queues(t, <<>>, <<Msg("term", x), NameDone>>) /\ t.linked = s.linked /\ t.link = s.link
        /\ t.role = "CONNECTED" /\ ~t.advEnabled /\ t.batt /\ ~t.adv /\ t.llEvt = "none"
        /\ t.adState = "null" /\ t.running = "none"
    BY <1>0, <2>3
  <2>5. Linked(t) BY <1>6, <2>4 DEF Linked
  <2> QED BY <2>4, <2>5
<1>7. SameRole(s, t) /\ Linked(t)
  <2>1. CASE s.link BY <1>1, <2>1 DEF Linked, Queues, t
  <2>2. CASE ~s.link /\ s.linked BY <1>2, <1>3, <1>4, <1>5, <2>2 DEF Linked
  <2>3. CASE ~s.link /\ ~s.linked BY <1>6, <2>3 DEF Linked, Queues
  <2> QED BY <2>1, <2>2, <2>3
<1> QED BY <1>7 DEF t

LEMMA HostPhases ==
  ASSUME NEW s \in Devices, NEW f, Phases(s, f), s.running = "none", s.llEvt = "none", s.gapq # <<>>
  PROVE  SameRole(s, HostNext(s)) /\ Phases(HostNext(s), f)
<1>1. ~Booting(s) /\ ~Restarts(s, f) BY DEF Booting, Restarts, Queues
<1> QED
  BY <1>1, HostStarted, HostStopped, HostStarting, HostOnAir, HostEnding, HostLinked DEF Phases
-----------------------------------------------------------------------------
(* What a step of the role does.                                           *)

RoleNext(s) == RoleHandles([s EXCEPT !.roleq = Tail(@)], Head(s.roleq))

SameAir(s, t) ==
  /\ t \in Devices /\ t.adv = s.adv /\ t.link = s.link /\ t.linked = s.linked
  /\ t.llEvt = s.llEvt /\ t.adState = s.adState /\ t.running = s.running
  /\ t.reboot = s.reboot /\ t.interval = s.interval /\ t.llInterval = s.llInterval

RoleStep(s, t, role, en, ev, batt, g, r, e) ==
  /\ SameAir(s, t) /\ t.role = role /\ t.advEnabled = en /\ t.startEvt = ev
  /\ t.batt = batt /\ t.gapq = g /\ t.roleq = r /\ t.evts = e

LEMMA PopRoleIs ==
  ASSUME NEW s \in Devices, s.roleq # <<>>
  PROVE  RoleStep(s, [s EXCEPT !.roleq = Tail(@)], s.role, s.advEnabled, s.startEvt, s.batt,
                  s.gapq, Tail(s.roleq), s.evts)
<1>1. Tail(s.roleq) \in Seq(RoleMsgs) BY DEF Devices
<1> QED BY <1>1 DEF RoleStep, SameAir, Devices

LEMMA RoleIs ==
  ASSUME NEW s \in Devices, NEW x \in Roles
  PROVE  RoleStep(s, [s EXCEPT !.role = x], x, s.advEnabled, s.startEvt, s.batt,
                  s.gapq, s.roleq, s.evts)
BY DEF RoleStep, SameAir, Devices

LEMMA EnabledRoleIs ==
  ASSUME NEW s \in Devices, NEW x \in BOOLEAN
  PROVE  RoleStep(s, [s EXCEPT !.advEnabled = x], s.role, x, s.startEvt, s.batt,
                  s.gapq, s.roleq, s.evts)
BY DEF RoleStep, SameAir, Devices

LEMMA StartEvtIs ==
  ASSUME NEW s \in Devices, NEW x \in BOOLEAN
  PROVE  RoleStep(s, [s EXCEPT !.startEvt = x], s.role, s.advEnabled, x, s.batt,
                  s.gapq, s.roleq, s.evts)
BY DEF RoleStep, SameAir, Devices

LEMMA BattIs ==
  ASSUME NEW s \in Devices, NEW x \in BOOLEAN
  PROVE  RoleStep(s, [s EXCEPT !.batt = x], s.role, s.advEnabled, s.startEvt, x,
                  s.gapq, s.roleq, s.evts)
BY DEF RoleStep, SameAir, Devices

LEMMA OrderIs ==
  ASSUME NEW s \in Devices, NEW op, Msg(op, "ok") \in GapMsgs
  PROVE  RoleStep(s, ToGap(s, op, "ok"), s.role, s.advEnabled, s.startEvt, s.batt,
                  Append(s.gapq, Msg(op, "ok")), s.roleq, s.evts)
<1>1. Append(s.gapq, Msg(op, "ok")) \in Seq(GapMsgs) BY DEF Devices
<1> QED BY <1>1 DEF ToGap, RoleStep, SameAir, Devices

LEMMA ReloadedIs ==
  ASSUME NEW s \in Devices
  PROVE  RoleStep(s, Reloaded(s), s.role, s.advEnabled, s.startEvt, s.batt,
                  s.gapq, s.roleq, s.evts)
<1>0. 1 \in 0 .. EventCnt BY EventCntAssumption
<1> QED BY <1>0 DEF Reloaded, RoleStep, SameAir, Devices

LEMMA NotifyIs ==
  ASSUME NEW s \in Devices
  PROVE  /\ s.role = "STARTED" =>
              RoleStep(s, Notify(s), s.role, s.advEnabled, s.startEvt, s.batt,
                       s.gapq, s.roleq, s.evts \cup {"RESET_ADV"})
         /\ s.role = "ADVERTISING" =>
              RoleStep(s, Notify(s), s.role, s.advEnabled, s.startEvt, FALSE,
                       s.gapq, s.roleq, s.evts)
         /\ s.role = "CONNECTED" =>
              RoleStep(s, Notify(s), s.role, s.advEnabled, s.startEvt, TRUE,
                       s.gapq, s.roleq, s.evts)
         /\ s.role = "WAITING" /\ ~s.reboot =>
              RoleStep(s, Notify(s), s.role, s.advEnabled, s.startEvt, FALSE,
                       s.gapq, s.roleq, s.evts)
         /\ s.role = "WAITING" /\ s.reboot => Notify(s) = Boot
         /\ s.role \in {"WAITING_AFTER_TIMEOUT", "ERROR"} => Notify(s) = s
<1>1. s.role = "STARTED" =>
        RoleStep(s, Notify(s), s.role, s.advEnabled, s.startEvt, s.batt,
                 s.gapq, s.roleq, s.evts \cup {"RESET_ADV"})
  <2>1. s.evts \cup {"RESET_ADV"} \in SUBSET AppEvents BY DEF Devices, AppEvents
  <2>2. s.role = "STARTED" => Notify(s) = [s EXCEPT !.evts = @ \cup {"RESET_ADV"}] BY DEF Notify
  <2> QED BY <2>1, <2>2 DEF RoleStep, SameAir, Devices
<1>2. s.role = "ADVERTISING" =>
        RoleStep(s, Notify(s), s.role, s.advEnabled, s.startEvt, FALSE,
                 s.gapq, s.roleq, s.evts)
  <2>1. s.role = "ADVERTISING" => Notify(s) = [s EXCEPT !.batt = FALSE] BY DEF Notify
  <2> QED BY <2>1, BattIs
<1> DEFINE t == Reloaded(s)
           u == [t EXCEPT !.batt = TRUE]
           v == [t EXCEPT !.batt = FALSE]
<1>3. RoleStep(s, t, s.role, s.advEnabled, s.startEvt, s.batt, s.gapq, s.roleq, s.evts)
  BY ReloadedIs
<1>4. s.role = "CONNECTED" => Notify(s) = u BY DEF Notify
<1>5. s.role = "WAITING" => Notify(s) = IF s.reboot THEN Boot ELSE v BY DEF Notify
<1> HIDE DEF t
<1>6. t \in Devices BY <1>3 DEF RoleStep, SameAir
<1>7. /\ RoleStep(t, u, t.role, t.advEnabled, t.startEvt, TRUE, t.gapq, t.roleq, t.evts)
      /\ RoleStep(t, v, t.role, t.advEnabled, t.startEvt, FALSE, t.gapq, t.roleq, t.evts)
  BY <1>6, BattIs
<1> HIDE DEF u, v
<1>8. /\ RoleStep(s, u, s.role, s.advEnabled, s.startEvt, TRUE, s.gapq, s.roleq, s.evts)
      /\ RoleStep(s, v, s.role, s.advEnabled, s.startEvt, FALSE, s.gapq, s.roleq, s.evts)
  BY <1>3, <1>7 DEF RoleStep, SameAir
<1>9. s.role \in {"WAITING_AFTER_TIMEOUT", "ERROR"} => Notify(s) = s BY DEF Notify
<1> QED BY <1>1, <1>2, <1>4, <1>5, <1>8, <1>9
-----------------------------------------------------------------------------
(* The messages of the role, one by one.                                   *)

LEMMA DataDoneIs ==
  ASSUME NEW s \in Devices
  PROVE  /\ RoleStep(s, RoleHandles(s, NameDone), s.role, s.advEnabled,
                     s.startEvt \/ s.role # "ADVERTISING", s.batt, s.gapq, s.roleq, s.evts)
         /\ RoleStep(s, RoleHandles(s, Msg("adv_data_done", "ok")), s.role, s.advEnabled,
                     s.startEvt, s.batt, Append(s.gapq, NameSet), s.roleq, s.evts)
<1> DEFINE b == s.startEvt \/ s.role # "ADVERTISING"
<1>1. RoleHandles(s, NameDone) = [s EXCEPT !.startEvt = b]
  BY DEF RoleHandles, NameDone, Msg
<1>2. RoleHandles(s, Msg("adv_data_done", "ok")) = ToGap(s, "scan_rsp", "ok")
  BY DEF RoleHandles, Msg
<1>3. b \in BOOLEAN OBVIOUS
<1> HIDE DEF b
<1>4. RoleStep(s, RoleHandles(s, NameDone), s.role, s.advEnabled, b, s.batt, s.gapq, s.roleq, s.evts)
  BY <1>1, <1>3, StartEvtIs
<1> QED BY <1>2, <1>4, OrderIs, MsgTypes DEF NameSet, b

LEMMA InitDoneIs ==
  ASSUME NEW s \in Devices
  PROVE  RoleStep(s, RoleHandles(s, Msg("init_done", "ok")), "STARTED", s.advEnabled, s.startEvt,
                  s.batt, Append(s.gapq, Msg("adv_data", "ok")), s.roleq, s.evts \cup {"RESET_ADV"})
<1> DEFINE t == [s EXCEPT !.role = "STARTED"]
           u == ToGap(t, "adv_data", "ok")
<1>1. RoleStep(s, t, "STARTED", s.advEnabled, s.startEvt, s.batt, s.gapq, s.roleq, s.evts)
  BY RoleIs DEF Roles
<1>2. RoleHandles(s, Msg("init_done", "ok")) = Notify(u) BY DEF RoleHandles, Msg
<1> HIDE DEF t
<1>3. t \in Devices BY <1>1 DEF RoleStep, SameAir
<1>4. RoleStep(t, u, t.role, t.advEnabled, t.startEvt, t.batt,
               Append(t.gapq, Msg("adv_data", "ok")), t.roleq, t.evts)
  BY <1>3, OrderIs, MsgTypes
<1> HIDE DEF u
<1>5. u \in Devices /\ u.role = "STARTED" BY <1>1, <1>4 DEF RoleStep, SameAir
<1>6. RoleStep(u, Notify(u), u.role, u.advEnabled, u.startEvt, u.batt,
               u.gapq, u.roleq, u.evts \cup {"RESET_ADV"})
  BY <1>5, NotifyIs
<1> QED BY <1>1, <1>2, <1>4, <1>6 DEF RoleStep, SameAir

LEMMA MadeIs ==
  ASSUME NEW s \in Devices, s.role # "CONNECTED"
  PROVE  RoleStep(s, RoleHandles(s, Made), "ADVERTISING", s.advEnabled, s.startEvt, FALSE,
                  s.gapq, s.roleq, s.evts)
<1> DEFINE t == [s EXCEPT !.role = "ADVERTISING"]
<1>1. RoleStep(s, t, "ADVERTISING", s.advEnabled, s.startEvt, s.batt, s.gapq, s.roleq, s.evts)
  BY RoleIs DEF Roles
<1>2. RoleHandles(s, Made) = Notify(t) BY DEF RoleHandles, Made, Msg
<1> HIDE DEF t
<1>3. t \in Devices /\ t.role = "ADVERTISING" BY <1>1 DEF RoleStep, SameAir
<1>4. RoleStep(t, Notify(t), t.role, t.advEnabled, t.startEvt, FALSE, t.gapq, t.roleq, t.evts)
  BY <1>3, NotifyIs
<1> QED BY <1>1, <1>2, <1>4 DEF RoleStep, SameAir

LEMMA EndedIs ==
  ASSUME NEW s \in Devices, s.role = "WAITING_AFTER_TIMEOUT"
  PROVE  RoleStep(s, RoleHandles(s, Ended), s.role, TRUE, TRUE, s.batt, s.gapq, s.roleq, s.evts)
<1> DEFINE t == [s EXCEPT !.advEnabled = TRUE]
           u == [t EXCEPT !.startEvt = TRUE]
<1>1. RoleStep(s, t, s.role, TRUE, s.startEvt, s.batt, s.gapq, s.roleq, s.evts)
  BY EnabledRoleIs
<1>2. RoleHandles(s, Ended) = Notify(u)
  <2> DEFINE v == [s EXCEPT !.advEnabled = s.role = "WAITING_AFTER_TIMEOUT",
                            !.startEvt = @ \/ s.role = "WAITING_AFTER_TIMEOUT",
                            !.role = CASE s.role = "CONNECTED_ADV" -> "CONNECTED"
                                       [] s.role = "WAITING_AFTER_TIMEOUT" -> @
                                       [] OTHER -> "WAITING"]
  <2>1. RoleHandles(s, Ended) = Notify(v) BY DEF RoleHandles, Ended, Msg, EndDone
  <2>2. v = u BY DEF Devices
  <2> HIDE DEF u, v
  <2> QED BY <2>1, <2>2
<1> HIDE DEF t
<1>3. t \in Devices BY <1>1 DEF RoleStep, SameAir
<1>4. RoleStep(t, u, t.role, t.advEnabled, TRUE, t.batt, t.gapq, t.roleq, t.evts)
  BY <1>3, StartEvtIs
<1> HIDE DEF u
<1>5. u \in Devices /\ u.role = "WAITING_AFTER_TIMEOUT" BY <1>1, <1>4 DEF RoleStep, SameAir
<1>6. Notify(u) = u BY <1>5, NotifyIs
<1> QED BY <1>1, <1>2, <1>4, <1>6 DEF RoleStep, SameAir

LEMMA UpIs ==
  ASSUME NEW s \in Devices
  PROVE  RoleStep(s, RoleHandles(s, Up), "CONNECTED", FALSE, s.startEvt, TRUE,
                  s.gapq, s.roleq, s.evts)
<1> DEFINE t == [s EXCEPT !.role = "CONNECTED"]
           u == [t EXCEPT !.advEnabled = FALSE]
<1>1. RoleStep(s, t, "CONNECTED", s.advEnabled, s.startEvt, s.batt, s.gapq, s.roleq, s.evts)
  BY RoleIs DEF Roles
<1>2. RoleHandles(s, Up) = Notify(u) BY DEF RoleHandles, Up, Msg, LinkEstablished
<1> HIDE DEF t
<1>3. t \in Devices BY <1>1 DEF RoleStep, SameAir
<1>4. RoleStep(t, u, t.role, FALSE, t.startEvt, t.batt, t.gapq, t.roleq, t.evts)
  BY <1>3, EnabledRoleIs
<1> HIDE DEF u
<1>5. u \in Devices /\ u.role = "CONNECTED" BY <1>1, <1>4 DEF RoleStep, SameAir
<1>6. RoleStep(u, Notify(u), u.role, u.advEnabled, u.startEvt, TRUE, u.gapq, u.roleq, u.evts)
  BY <1>5, NotifyIs
<1> QED BY <1>1, <1>2, <1>4, <1>6 DEF RoleStep, SameAir

LEMMA NotUpIs ==
  ASSUME NEW s \in Devices
  PROVE  RoleStep(s, RoleHandles(s, NotUp), "ERROR", s.advEnabled, s.startEvt, s.batt,
                  s.gapq, s.roleq, s.evts)
<1> DEFINE t == [s EXCEPT !.role = "ERROR"]
<1>1. RoleStep(s, t, "ERROR", s.advEnabled, s.startEvt, s.batt, s.gapq, s.roleq, s.evts)
  BY RoleIs DEF Roles
<1>2. RoleHandles(s, NotUp) = Notify(t) BY DEF RoleHandles, NotUp, Msg, InError
<1> HIDE DEF t
<1>3. t \in Devices /\ t.role = "ERROR" BY <1>1 DEF RoleStep, SameAir
<1>4. Notify(t) = t BY <1>3, NotifyIs
<1> QED BY <1>1, <1>2, <1>4

\* The end of a link: on time, with the order to reboot, or without.
LEMMA TermIs ==
  ASSUME NEW s \in Devices, ~s.advEnabled
  PROVE  /\ RoleStep(s, RoleHandles(s, Msg("term", "timeout")), "WAITING_AFTER_TIMEOUT", TRUE, TRUE,
                     s.batt, s.gapq, s.roleq, s.evts)
         /\ s.reboot => RoleHandles(s, Msg("term", "clean")) = Boot
         /\ ~s.reboot => RoleStep(s, RoleHandles(s, Msg("term", "clean")), "WAITING", TRUE, TRUE,
                                  FALSE, s.gapq, s.roleq, s.evts)
<1>1. ASSUME NEW role \in Roles, NEW x \in Reasons,
             role = IF x = "timeout" THEN "WAITING_AFTER_TIMEOUT" ELSE "WAITING"
      PROVE  \E u : /\ RoleStep(s, u, role, TRUE, TRUE, s.batt, s.gapq, s.roleq, s.evts)
                    /\ RoleHandles(s, Msg("term", x)) = Notify(u)
  <2> DEFINE t == [s EXCEPT !.role = role]
             v == [t EXCEPT !.advEnabled = TRUE]
             u == [v EXCEPT !.startEvt = TRUE]
  <2>1. RoleStep(s, t, role, s.advEnabled, s.startEvt, s.batt, s.gapq, s.roleq, s.evts)
    BY RoleIs
  <2>2. RoleHandles(s, Msg("term", x)) = Notify(u)
    BY <1>1 DEF RoleHandles, Msg, LinkTerminated, Reasons
  <2> HIDE DEF t
  <2>3. t \in Devices BY <2>1 DEF RoleStep, SameAir
  <2>4. RoleStep(t, v, t.role, TRUE, t.startEvt, t.batt, t.gapq, t.roleq, t.evts)
    BY <2>3, EnabledRoleIs
  <2> HIDE DEF v
  <2>5. v \in Devices BY <2>4 DEF RoleStep, SameAir
  <2>6. RoleStep(v, u, v.role, v.advEnabled, TRUE, v.batt, v.gapq, v.roleq, v.evts)
    BY <2>5, StartEvtIs
  <2> HIDE DEF u
  <2>7. RoleStep(s, u, role, TRUE, TRUE, s.batt, s.gapq, s.roleq, s.evts)
    BY <2>1, <2>4, <2>6 DEF RoleStep, SameAir
  <2> QED BY <2>2, <2>7
<1>2. PICK u : /\ RoleStep(s, u, "WAITING_AFTER_TIMEOUT", TRUE, TRUE, s.batt, s.gapq, s.roleq, s.evts)
               /\ RoleHandles(s, Msg("term", "timeout")) = Notify(u)
  BY <1>1 DEF Roles, Reasons
<1>3. PICK w : /\ RoleStep(s, w, "WAITING", TRUE, TRUE, s.batt, s.gapq, s.roleq, s.evts)
               /\ RoleHandles(s, Msg("term", "clean")) = Notify(w)
  BY <1>1 DEF Roles, Reasons
<1>4. u \in Devices /\ u.role = "WAITING_AFTER_TIMEOUT" BY <1>2 DEF RoleStep, SameAir
<1>5. w \in Devices /\ w.role = "WAITING" /\ w.reboot = s.reboot BY <1>3 DEF RoleStep, SameAir
<1>6. Notify(u) = u BY <1>4, NotifyIs
<1>7. w.reboot => Notify(w) = Boot BY <1>5, NotifyIs
<1>8. ~w.reboot => RoleStep(w, Notify(w), w.role, w.advEnabled, w.startEvt, FALSE,
                            w.gapq, w.roleq, w.evts)
  BY <1>5, NotifyIs
<1>9. ~s.reboot => RoleStep(s, Notify(w), "WAITING", TRUE, TRUE, FALSE, s.gapq, s.roleq, s.evts)
  BY <1>3, <1>5, <1>8 DEF RoleStep, SameAir
<1> QED BY <1>2, <1>3, <1>5, <1>6, <1>7, <1>9

\* Advertising starts anew.
LEMMA StartIs ==
  ASSUME NEW s \in Devices, s.adState = "null", ~s.adv
  PROVE  LET t == MakeDiscoverable(s) IN
         /\ t \in Devices /\ t.adv = s.adv /\ t.link = s.link /\ t.linked = s.linked
         /\ t.llEvt = s.llEvt /\ t.adState = "set_params" /\ t.running = s.running
         /\ t.reboot = s.reboot /\ t.interval = s.interval /\ t.llInterval = s.interval
         /\ t.role = s.role /\ t.advEnabled = s.advEnabled /\ t.startEvt = s.startEvt
         /\ t.batt = s.batt /\ t.gapq = Append(s.gapq, ParamsSet) /\ t.roleq = s.roleq
         /\ t.evts = s.evts
<1> DEFINE t == [s EXCEPT !.adState = "set_params"]
           u == [t EXCEPT !.llInterval = t.interval]
           w == ToGap(u, "set_params", "ok")
<1>1. HostStep(s, t, s.adv, "set_params", s.linked, s.gapq, s.roleq)
  BY SetStateIs DEF AdStates
<1>2. t.adv = FALSE /\ Status(~t.adv) = "ok" BY <1>1 DEF HostStep, Status, Devices
<1>3. MakeDiscoverable(s) = w BY <1>2 DEF MakeDiscoverable, SetAdvParam
<1> HIDE DEF t
<1>4. t \in Devices BY <1>1 DEF HostStep, SameRole
<1>5. /\ u \in Devices /\ u.llInterval = t.interval
      /\ u.adv = t.adv /\ u.link = t.link /\ u.linked = t.linked /\ u.llEvt = t.llEvt
      /\ u.adState = t.adState /\ u.running = t.running /\ u.reboot = t.reboot
      /\ u.interval = t.interval /\ u.role = t.role /\ u.advEnabled = t.advEnabled
      /\ u.startEvt = t.startEvt /\ u.batt = t.batt /\ u.gapq = t.gapq /\ u.roleq = t.roleq
      /\ u.evts = t.evts
  BY <1>4 DEF Devices
<1> HIDE DEF u
<1>6. HostStep(u, w, u.adv, u.adState, u.linked, Append(u.gapq, ParamsSet), u.roleq)
  BY <1>5, ToGapIs, MsgTypes DEF ParamsSet
<1> HIDE DEF w
<1> QED BY <1>1, <1>3, <1>5, <1>6 DEF HostStep, SameRole
-----------------------------------------------------------------------------
(* The role's task goes from phase to phase.  Only the end of a link makes *)
(* the device restart, or leaves a role that was connected.                *)

Goes(s, t, f) ==
  /\ Phases(t, f) /\ ResetOnce(t) /\ t.role # "INIT" /\ t.reboot = s.reboot
  /\ s.role = "CONNECTED" => t.role = "CONNECTED"

LEMMA MessageRole ==
  ASSUME NEW s \in Devices, NEW x, NEW r, s.roleq # <<>>, Head(s.roleq) = x, Tail(s.roleq) = r
  PROVE  \E u \in Devices :
           /\ RoleStep(s, u, s.role, s.advEnabled, s.startEvt, s.batt, s.gapq, r, s.evts)
           /\ RoleNext(s) = RoleHandles(u, x)
<1> DEFINE u == [s EXCEPT !.roleq = Tail(@)]
<1>1. RoleStep(s, u, s.role, s.advEnabled, s.startEvt, s.batt, s.gapq, r, s.evts)
  BY PopRoleIs
<1>2. RoleNext(s) = RoleHandles(u, x) BY DEF RoleNext
<1> HIDE DEF u
<1> QED BY <1>1, <1>2 DEF RoleStep, SameAir

\* The message in front is handled; one about the link may be behind it.
LEMMA SeenRole ==
  ASSUME NEW s \in Devices, NEW f, NEW x, LinkSeen(s, f, <<x>>), s.gapq = <<>>
  PROVE  /\ s.roleq # <<>> /\ Head(s.roleq) = x
         /\ \A t : SameAir(s, t) /\ t.gapq = <<>> /\ t.roleq = Tail(s.roleq) => LinkSeen(t, f, <<>>)
<1>a. Append(<<>>, Up) = <<Up>> /\ Append(<<>>, NotUp) = <<NotUp>> BY OneMore
<1>1. CASE s.link /\ s.linked /\ Queues(s, <<>>, Append(<<x>>, Up))
  <2>1. s.roleq = <<x, Up>> BY <1>1, OneMore DEF Queues
  <2>2. s.roleq # <<>> /\ Head(s.roleq) = x /\ Tail(s.roleq) = <<Up>> BY <2>1, OneLess
  <2> QED BY <1>1, <1>a, <2>2 DEF LinkSeen, SameAir, Queues
<1>2. CASE ~s.link /\ ~s.linked /\ Queues(s, <<>>, Append(<<x>>, NotUp)) /\ f
  <2>1. s.roleq = <<x, NotUp>> BY <1>2, OneMore DEF Queues
  <2>2. s.roleq # <<>> /\ Head(s.roleq) = x /\ Tail(s.roleq) = <<NotUp>> BY <2>1, OneLess
  <2> QED BY <1>2, <1>a, <2>2 DEF LinkSeen, SameAir, Queues
<1>3. ASSUME NEW z \in Reasons, ~s.link, ~s.linked,
             Queues(s, <<>>, Append(Append(<<x>>, Up), Msg("term", z)))
      PROVE  /\ s.roleq # <<>> /\ Head(s.roleq) = x
             /\ \A t : SameAir(s, t) /\ t.gapq = <<>> /\ t.roleq = Tail(s.roleq) => LinkSeen(t, f, <<>>)
  <2>0. Append(<<x>>, Up) = <<x, Up>> BY OneMore
  <2>1. s.roleq = <<x, Up, Msg("term", z)>> BY <1>3, <2>0, TwoMore DEF Queues
  <2>2. s.roleq # <<>> /\ Head(s.roleq) = x /\ Tail(s.roleq) = <<Up, Msg("term", z)>>
    BY <2>1, OneLess
  <2>3. Append(Append(<<>>, Up), Msg("term", z)) = <<Up, Msg("term", z)>> BY <1>a, OneMore
  <2> QED BY <1>3, <2>2, <2>3 DEF LinkSeen, SameAir, Queues
<1>4. ~(\E z \in Reasons : Queues(s, <<Msg("disc", z)>>, Append(<<x>>, Up))) BY DEF Queues
<1> QED BY <1>1, <1>2, <1>3, <1>4 DEF LinkSeen

\* With nothing left for the host, the news of a link is with the role.
LEMMA ComesSeen ==
  ASSUME NEW s, NEW f, NEW g, NEW r, NEW a, LinkComes(s, f, g, r, a),
         s.gapq = <<>>, s.llEvt = "none", g = <<>> \/ \E x : g = <<x>>
  PROVE  g = <<>> /\ LinkSeen(s, f, r)
<1>1. ~LinkAhead(s, f, g, r, a)
  <2>1. CASE g = <<>>
    <3>1. \A y : Append(<<>>, y) # <<>> BY OneMore, OneLess
    <3>2. \A z : Append(Append(<<>>, Conn), z) # <<>>
      <4>1. Append(<<>>, Conn) = <<Conn>> BY OneMore
      <4> QED BY <4>1, OneMore, OneLess
    <3> QED BY <2>1, <3>1, <3>2 DEF LinkAhead
  <2>2. CASE \E x : g = <<x>>
    <3>0. PICK x : g = <<x>> BY <2>2
    <3>1. \A y : Append(<<x>>, y) # <<>> BY OneMore, OneLess
    <3>2. \A z : Append(Append(<<x>>, Conn), z) # <<>>
      <4>1. Append(<<x>>, Conn) = <<x, Conn>> BY OneMore
      <4> QED BY <4>1, TwoMore, OneLess
    <3> QED BY <3>0, <3>1, <3>2 DEF LinkAhead
  <2> QED BY <2>1, <2>2
<1> QED BY <1>1 DEF LinkComes

LEMMA SeenLeft ==
  ASSUME NEW s, NEW f, NEW r, LinkSeen(s, f, r), r = <<>> \/ \E x : r = <<x>>
  PROVE  s.roleq # <<>>
<1>1. \A y : Append(r, y) # <<>> BY OneMore, OneLess
<1>2. \A y, z : Append(Append(r, y), z) # <<>>
  <2>1. SUFFICES ASSUME NEW y, NEW z PROVE Append(Append(r, y), z) # <<>> OBVIOUS
  <2>2. CASE r = <<>>
    <3>1. Append(r, y) = <<y>> BY <2>2, OneMore
    <3> QED BY <3>1, OneMore, OneLess
  <2>3. CASE \E x : r = <<x>>
    <3>1. PICK x : r = <<x>> BY <2>3
    <3>2. Append(r, y) = <<x, y>> BY <3>1, OneMore
    <3> QED BY <3>2, TwoMore, OneLess
  <2> QED BY <2>2, <2>3
<1> QED BY <1>1, <1>2 DEF LinkSeen, Queues

\* With empty queues the radio advertises and no link has come.
LEMMA AirEmpty ==
  ASSUME NEW s, NEW f, NEW g, NEW r, NEW a, Air(s, f, g, r, a), s.llEvt = "none",
         s.gapq = <<>>, s.roleq = <<>>, g = <<>> \/ \E x : g = <<x>>, r = <<>> \/ \E x : r = <<x>>
  PROVE  s.adv /\ Free(s) /\ g = <<>> /\ r = <<>>
<1>1. ~LinkComes(s, f, g, r, a) BY ComesSeen, SeenLeft
<1> QED BY <1>1 DEF Air, Queues

LEMMA AirRole ==
  ASSUME NEW s \in Devices, NEW f, NEW x, NEW a, Air(s, f, <<>>, <<x>>, a),
         s.gapq = <<>>, s.llEvt = "none"
  PROVE  /\ s.roleq # <<>> /\ Head(s.roleq) = x
         /\ \A t : SameAir(s, t) /\ t.gapq = <<>> /\ t.roleq = Tail(s.roleq) => Air(t, f, <<>>, <<>>, a)
<1>1. CASE s.adv /\ Free(s) /\ Queues(s, <<>>, <<x>>) /\ s.adState = a
  <2>1. s.roleq # <<>> /\ Head(s.roleq) = x /\ Tail(s.roleq) = <<>> BY <1>1, OneLess DEF Queues
  <2> QED BY <1>1, <2>1 DEF SameAir, Air, Free, Queues
<1>2. CASE ~s.adv /\ LinkComes(s, f, <<>>, <<x>>, a)
  <2>1. LinkSeen(s, f, <<x>>) BY <1>2, ComesSeen
  <2> QED BY <1>2, <2>1, SeenRole DEF Air, LinkComes, SameAir
<1> QED BY <1>1, <1>2 DEF Air

\* The news of the link itself.
LEMMA RoleSeen ==
  ASSUME NEW s \in Devices, NEW f, LinkSeen(s, f, <<>>), s.gapq = <<>>, s.running = "none",
         ~s.adv, s.advEnabled, ~s.batt, s.role # "CONNECTED", ResetOnce(s)
  PROVE  Goes(s, RoleNext(s), f) /\ Head(s.roleq).op # "term"
<1> DEFINE t == RoleNext(s)
<1>a. Append(<<>>, Up) = <<Up>> /\ Append(<<>>, NotUp) = <<NotUp>> BY OneMore
<1>b. Up.op = "link" /\ NotUp.op = "link" BY DEF Up, NotUp, Msg
<1>n. "RESET_ADV" \notin s.evts BY DEF ResetOnce
<1>u. ASSUME NEW r, s.roleq # <<>>, Head(s.roleq) = Up, Tail(s.roleq) = r
      PROVE  RoleStep(s, t, "CONNECTED", FALSE, s.startEvt, TRUE, <<>>, r, s.evts)
  <2>1. PICK u \in Devices :
           /\ RoleStep(s, u, s.role, s.advEnabled, s.startEvt, s.batt, s.gapq, r, s.evts)
           /\ t = RoleHandles(u, Up)
    BY <1>u, MessageRole
  <2> HIDE DEF t
  <2>2. RoleStep(u, t, "CONNECTED", FALSE, u.startEvt, TRUE, u.gapq, u.roleq, u.evts) BY <2>1, UpIs
  <2> QED BY <2>1, <2>2 DEF RoleStep, SameAir
<1>1. CASE s.link /\ s.linked /\ Queues(s, <<>>, Append(<<>>, Up))
  <2>1. s.roleq # <<>> /\ Head(s.roleq) = Up /\ Tail(s.roleq) = <<>>
    BY <1>1, <1>a, OneLess DEF Queues
  <2>2. RoleStep(s, t, "CONNECTED", FALSE, s.startEvt, TRUE, <<>>, <<>>, s.evts) BY <2>1, <1>u
  <2> HIDE DEF t
  <2>3. Linked(t) BY <1>1, <2>2 DEF Linked, LinkSeen, RoleStep, SameAir, Queues
  <2>4. ResetOnce(t) BY <1>n, <2>2 DEF ResetOnce, RoleStep, SameAir
  <2>5. Goes(s, t, f) BY <2>2, <2>3, <2>4 DEF Goes, Phases, RoleStep, SameAir
  <2> QED BY <1>b, <2>1, <2>5 DEF t
<1>2. CASE ~s.link /\ ~s.linked /\ Queues(s, <<>>, Append(<<>>, NotUp)) /\ f
  <2>1. s.roleq # <<>> /\ Head(s.roleq) = NotUp /\ Tail(s.roleq) = <<>>
    BY <1>2, <1>a, OneLess DEF Queues
  <2>2. PICK u \in Devices :
           /\ RoleStep(s, u, s.role, s.advEnabled, s.startEvt, s.batt, s.gapq, <<>>, s.evts)
           /\ t = RoleHandles(u, NotUp)
    BY <2>1, MessageRole
  <2> HIDE DEF t
  <2>3. RoleStep(u, t, "ERROR", u.advEnabled, u.startEvt, u.batt, u.gapq, u.roleq, u.evts)
    BY <2>2, NotUpIs
  <2>4. RoleStep(s, t, "ERROR", TRUE, s.startEvt, FALSE, <<>>, <<>>, s.evts)
    <3>1. s.advEnabled = TRUE /\ s.batt = FALSE BY DEF Devices
    <3> QED BY <2>2, <2>3, <3>1 DEF RoleStep, SameAir
  <2>5. Stopped(t, f) \/ Restarts(t, f)
    BY <1>2, <2>4 DEF Stopped, Restarts, LinkSeen, RoleStep, SameAir, Queues, Free, Waits
  <2>6. ResetOnce(t) BY <1>n, <2>4 DEF ResetOnce, RoleStep, SameAir
  <2>7. Goes(s, t, f) BY <2>4, <2>5, <2>6 DEF Goes, Phases, RoleStep, SameAir
  <2> QED BY <1>b, <2>1, <2>7 DEF t
<1>3. ASSUME NEW z \in Reasons, ~s.link, ~s.linked,
             Queues(s, <<>>, Append(Append(<<>>, Up), Msg("term", z)))
      PROVE  Goes(s, RoleNext(s), f) /\ Head(s.roleq).op # "term"
  <2>0. s.roleq = <<Up, Msg("term", z)>> BY <1>3, <1>a, OneMore DEF Queues
  <2>1. s.roleq # <<>> /\ Head(s.roleq) = Up /\ Tail(s.roleq) = <<Msg("term", z)>>
    BY <2>0, OneLess
  <2>2. RoleStep(s, t, "CONNECTED", FALSE, s.startEvt, TRUE, <<>>, <<Msg("term", z)>>, s.evts)
    BY <2>1, <1>u
  <2> HIDE DEF t
  <2>3. Linked(t) BY <1>3, <2>2 DEF Linked, LinkSeen, RoleStep, SameAir, Queues
  <2>4. ResetOnce(t) BY <1>n, <2>2 DEF ResetOnce, RoleStep, SameAir
  <2>5. Goes(s, t, f) BY <2>2, <2>3, <2>4 DEF Goes, Phases, RoleStep, SameAir
  <2> QED BY <1>b, <2>1, <2>5 DEF t
<1>4. ~(\E z \in Reasons : Queues(s, <<Msg("disc", z)>>, Append(<<>>, Up))) BY DEF Queues
<1> QED BY <1>1, <1>2, <1>3, <1>4 DEF LinkSeen

\* A name that was set: what the role does with the report.
LEMMA NameRole ==
  ASSUME NEW s \in Devices, NEW r, s.roleq # <<>>, Head(s.roleq) = NameDone, Tail(s.roleq) = r
  PROVE  /\ RoleStep(s, RoleNext(s), s.role, s.advEnabled, s.startEvt \/ s.role # "ADVERTISING",
                     s.batt, s.gapq, r, s.evts)
         /\ Head(s.roleq).op # "term"
<1> DEFINE t == RoleNext(s)
<1>1. PICK u \in Devices :
         /\ RoleStep(s, u, s.role, s.advEnabled, s.startEvt, s.batt, s.gapq, r, s.evts)
         /\ t = RoleHandles(u, NameDone)
  BY MessageRole
<1> HIDE DEF t
<1>2. RoleStep(u, t, u.role, u.advEnabled, u.startEvt \/ u.role # "ADVERTISING", u.batt,
               u.gapq, u.roleq, u.evts)
  BY <1>1, DataDoneIs
<1>3. RoleStep(s, t, s.role, s.advEnabled, s.startEvt \/ s.role # "ADVERTISING",
               s.batt, s.gapq, r, s.evts)
  BY <1>1, <1>2 DEF RoleStep, SameAir
<1> QED BY <1>3 DEF NameDone, Msg, t

LEMMA RoleStarts ==
  ASSUME NEW s \in Devices, NEW f, Booting(s) \/ Started(s), ResetOnce(s), s.running = "none",
         s.gapq = <<>>, s.roleq # <<>>
  PROVE  Goes(s, RoleNext(s), f) /\ Head(s.roleq).op # "term"
<1> DEFINE t == RoleNext(s)
<1>1. CASE Booting(s)
  <2>1. Queues(s, <<>>, <<Msg("init_done", "ok")>>) BY <1>1 DEF Booting, Queues
  <2>2. Head(s.roleq) = Msg("init_done", "ok") /\ Tail(s.roleq) = <<>> BY <2>1, OneLess DEF Queues
  <2>3. PICK u \in Devices :
           /\ RoleStep(s, u, s.role, s.advEnabled, s.startEvt, s.batt, s.gapq, <<>>, s.evts)
           /\ t = RoleHandles(u, Msg("init_done", "ok"))
    BY <2>2, MessageRole
  <2> HIDE DEF t
  <2>4. RoleStep(u, t, "STARTED", u.advEnabled, u.startEvt, u.batt,
                 Append(u.gapq, Msg("adv_data", "ok")), u.roleq, u.evts \cup {"RESET_ADV"})
    BY <2>3, InitDoneIs
  <2>5. t.gapq = <<Msg("adv_data", "ok")>> BY <2>3, <2>4, OneMore DEF RoleStep
  <2>6. Started(t) BY <1>1, <2>3, <2>4, <2>5 DEF Booting, Started, RoleStep, SameAir, Free, Queues
  <2>7. ResetOnce(t) BY <2>3, <2>4, <2>6 DEF Started, ResetOnce, RoleStep, SameAir
  <2>8. Goes(s, t, f) BY <1>1, <2>3, <2>4, <2>6, <2>7 DEF Goes, Phases, RoleStep, SameAir, Booting
  <2>9. Head(s.roleq).op = "init_done" BY <2>2 DEF Msg
  <2> QED BY <2>8, <2>9 DEF t
<1>2. CASE Started(s) /\ Queues(s, <<>>, <<Msg("adv_data_done", "ok")>>)
  <2>2. Head(s.roleq) = Msg("adv_data_done", "ok") /\ Tail(s.roleq) = <<>>
    BY <1>2, OneLess DEF Queues
  <2>3. PICK u \in Devices :
           /\ RoleStep(s, u, s.role, s.advEnabled, s.startEvt, s.batt, s.gapq, <<>>, s.evts)
           /\ t = RoleHandles(u, Msg("adv_data_done", "ok"))
    BY <2>2, MessageRole
  <2> HIDE DEF t
  <2>4. RoleStep(u, t, u.role, u.advEnabled, u.startEvt, u.batt,
                 Append(u.gapq, NameSet), u.roleq, u.evts)
    BY <2>3, DataDoneIs
  <2>5. t.gapq = <<NameSet>> BY <2>3, <2>4, OneMore DEF RoleStep
  <2>a. ~s.startEvt BY <1>2 DEF Started, Queues
  <2>6. Started(t) BY <1>2, <2>a, <2>3, <2>4, <2>5 DEF Started, RoleStep, SameAir, Free, Queues
  <2>7. ResetOnce(t) BY <2>3, <2>4, <2>6 DEF Started, ResetOnce, RoleStep, SameAir
  <2>8. Goes(s, t, f) BY <1>2, <2>3, <2>4, <2>6, <2>7 DEF Goes, Phases, RoleStep, SameAir, Started
  <2>9. Head(s.roleq).op = "adv_data_done" BY <2>2 DEF Msg
  <2> QED BY <2>8, <2>9 DEF t
<1>3. CASE Started(s) /\ Queues(s, <<>>, <<NameDone>>)
  <2>2. Head(s.roleq) = NameDone /\ Tail(s.roleq) = <<>> BY <1>3, OneLess DEF Queues
  <2>3. /\ RoleStep(s, t, s.role, s.advEnabled, s.startEvt \/ s.role # "ADVERTISING",
                    s.batt, s.gapq, <<>>, s.evts)
        /\ Head(s.roleq).op # "term"
    BY <2>2, NameRole
  <2> HIDE DEF t
  <2>6. Started(t) BY <1>3, <2>3 DEF Started, RoleStep, SameAir, Free, Queues
  <2>7. ResetOnce(t) BY <2>3, <2>6 DEF Started, ResetOnce, RoleStep, SameAir
  <2>8. Goes(s, t, f) BY <2>3, <2>6, <2>7 DEF Goes, Phases, RoleStep, SameAir, Started
  <2> QED BY <2>3, <2>8 DEF t
<1>4. Started(s) => Queues(s, <<>>, <<Msg("adv_data_done", "ok")>>) \/ Queues(s, <<>>, <<NameDone>>)
  BY DEF Started, Queues
<1> QED BY <1>1, <1>2, <1>3, <1>4

LEMMA RoleWaits ==
  ASSUME NEW s \in Devices, NEW f, Restarts(s, f) \/ Stopped(s, f), ResetOnce(s),
         s.running = "none", s.gapq = <<>>, s.roleq # <<>>
  PROVE  Goes(s, RoleNext(s), f) /\ Head(s.roleq).op # "term"
<1> DEFINE t == RoleNext(s)
<1>1. Queues(s, <<>>, <<NameDone>>) BY DEF Restarts, Stopped, Queues
<1>2. Head(s.roleq) = NameDone /\ Tail(s.roleq) = <<>> BY <1>1, OneLess DEF Queues
<1>3. /\ RoleStep(s, t, s.role, s.advEnabled, s.startEvt \/ s.role # "ADVERTISING",
                  s.batt, s.gapq, <<>>, s.evts)
      /\ Head(s.roleq).op # "term"
  BY <1>2, NameRole
<1> HIDE DEF t
<1>4. Restarts(t, f)
  <2>1. CASE Restarts(s, f)
    BY <1>3, <2>1 DEF Restarts, RoleStep, SameAir, Free, Queues
  <2>2. CASE Stopped(s, f)
    BY <1>3, <2>2 DEF Restarts, Stopped, RoleStep, SameAir, Free, Queues, Waits
  <2> QED BY <2>1, <2>2
<1>5. ResetOnce(t) BY <1>3 DEF ResetOnce, RoleStep, SameAir
<1>6. s.role # "INIT" /\ s.role # "CONNECTED" BY DEF Restarts, Stopped, Waits
<1>7. Goes(s, t, f) BY <1>3, <1>4, <1>5, <1>6 DEF Goes, Phases, RoleStep, SameAir
<1> QED BY <1>3, <1>7 DEF t

LEMMA RoleStarting ==
  ASSUME NEW s \in Devices, NEW f, Starting(s, f), ResetOnce(s), s.llEvt = "none",
         s.gapq = <<>>, s.roleq # <<>>
  PROVE  Goes(s, RoleNext(s), f) /\ Head(s.roleq).op # "term"
<1> DEFINE t == RoleNext(s)
<1>1. Air(s, f, <<>>, <<Made>>, "advertising")
  <2>1. ~Air(s, f, <<Enabled>>, <<>>, "set_mode") BY ComesSeen, OneLess DEF Air, Queues
  <2> QED BY <2>1 DEF Starting, Queues
<1>2. /\ Head(s.roleq) = Made
      /\ \A v : SameAir(s, v) /\ v.gapq = <<>> /\ v.roleq = Tail(s.roleq)
                 => Air(v, f, <<>>, <<>>, "advertising")
  BY <1>1, AirRole
<1> DEFINE r == Tail(s.roleq)
<1>3. PICK u \in Devices :
         /\ RoleStep(s, u, s.role, s.advEnabled, s.startEvt, s.batt, s.gapq, r, s.evts)
         /\ t = RoleHandles(u, Made)
  BY <1>2, MessageRole
<1> HIDE DEF t
<1>4. s.role # "CONNECTED" /\ u.role = s.role BY <1>3 DEF Starting, Waits, RoleStep
<1>5. RoleStep(u, t, "ADVERTISING", u.advEnabled, u.startEvt, FALSE, u.gapq, u.roleq, u.evts)
  BY <1>3, <1>4, MadeIs
<1>6. RoleStep(s, t, "ADVERTISING", s.advEnabled, s.startEvt, FALSE, s.gapq, r, s.evts)
  BY <1>3, <1>5 DEF RoleStep, SameAir
<1>7. Air(t, f, <<>>, <<>>, "advertising") BY <1>2, <1>6 DEF RoleStep
<1>8. OnAir(t, f) BY <1>6, <1>7 DEF OnAir, Starting, RoleStep, SameAir
<1>9. ResetOnce(t) BY <1>6 DEF ResetOnce, RoleStep, SameAir, Starting
<1>10. Goes(s, t, f) BY <1>4, <1>6, <1>8, <1>9 DEF Goes, Phases, RoleStep, SameAir
<1>11. Head(s.roleq).op = "make_done" BY <1>2 DEF Made, Msg
<1> QED BY <1>10, <1>11 DEF t

LEMMA RoleOnAir ==
  ASSUME NEW s \in Devices, NEW f, OnAir(s, f), ResetOnce(s), s.llEvt = "none",
         s.running = "none", s.gapq = <<>>, s.roleq # <<>>
  PROVE  Goes(s, RoleNext(s), f) /\ Head(s.roleq).op # "term"
<1> DEFINE t == RoleNext(s)
<1>0. s.role = "ADVERTISING" /\ s.advEnabled /\ ~s.startEvt /\ ~s.batt BY DEF OnAir
<1>1. CASE Air(s, f, <<>>, <<>>, "advertising")
  <2>1. ~s.adv /\ LinkComes(s, f, <<>>, <<>>, "advertising") BY <1>1 DEF Air, Queues
  <2>2. LinkSeen(s, f, <<>>) BY <2>1, ComesSeen
  <2> QED BY <1>0, <2>1, <2>2, RoleSeen
<1>2. ~Air(s, f, <<NameSet>>, <<>>, "advertising")
  <2>1. <<NameSet>> # <<>> BY OneLess
  <2>2. ~LinkComes(s, f, <<NameSet>>, <<>>, "advertising") BY <2>1, ComesSeen
  <2> QED BY <2>1, <2>2 DEF Air, Queues
<1>3. CASE Air(s, f, <<>>, <<NameDone>>, "advertising")
  <2>1. /\ Head(s.roleq) = NameDone
        /\ \A v : SameAir(s, v) /\ v.gapq = <<>> /\ v.roleq = Tail(s.roleq)
                   => Air(v, f, <<>>, <<>>, "advertising")
    BY <1>3, AirRole
  <2>2. /\ RoleStep(s, t, s.role, s.advEnabled, s.startEvt \/ s.role # "ADVERTISING",
                    s.batt, s.gapq, Tail(s.roleq), s.evts)
        /\ Head(s.roleq).op # "term"
    BY <2>1, NameRole
  <2> HIDE DEF t
  <2>3. Air(t, f, <<>>, <<>>, "advertising") BY <2>1, <2>2 DEF RoleStep
  <2>4. OnAir(t, f) BY <1>0, <2>2, <2>3 DEF OnAir, RoleStep, SameAir
  <2>5. ResetOnce(t) BY <2>2 DEF ResetOnce, RoleStep, SameAir
  <2>6. Goes(s, t, f) BY <1>0, <2>2, <2>4, <2>5 DEF Goes, Phases, RoleStep, SameAir
  <2> QED BY <2>2, <2>6 DEF t
<1> QED BY <1>1, <1>2, <1>3 DEF OnAir

LEMMA RoleEnding ==
  ASSUME NEW s \in Devices, NEW f, Ending(s, f), ResetOnce(s), s.llEvt = "none",
         s.gapq = <<>>, s.roleq # <<>>
  PROVE  Goes(s, RoleNext(s), f) /\ Head(s.roleq).op # "term"
<1> DEFINE t == RoleNext(s)
<1>0. s.role = "WAITING_AFTER_TIMEOUT" /\ s.advEnabled /\ s.startEvt /\ s.running = "none"
      /\ ~s.adv /\ ~s.batt
  BY DEF Ending
<1>e. ASSUME NEW r, Head(s.roleq) = Ended, Tail(s.roleq) = r
      PROVE  RoleStep(s, t, s.role, TRUE, TRUE, s.batt, s.gapq, r, s.evts) /\ Head(s.roleq).op # "term"
  <2>1. PICK u \in Devices :
           /\ RoleStep(s, u, s.role, s.advEnabled, s.startEvt, s.batt, s.gapq, r, s.evts)
           /\ t = RoleHandles(u, Ended)
    BY <1>e, MessageRole
  <2> HIDE DEF t
  <2>2. u.role = "WAITING_AFTER_TIMEOUT" BY <1>0, <2>1 DEF RoleStep
  <2>3. RoleStep(u, t, u.role, TRUE, TRUE, u.batt, u.gapq, u.roleq, u.evts) BY <2>1, <2>2, EndedIs
  <2>4. Head(s.roleq).op = "end_done" BY <1>e DEF Ended, Msg
  <2> QED BY <2>1, <2>3, <2>4 DEF RoleStep, SameAir
<1>1. CASE Free(s) /\ Queues(s, <<>>, <<Ended>>) /\ s.adState = "null"
  <2>1. Head(s.roleq) = Ended /\ Tail(s.roleq) = <<>> BY <1>1, OneLess DEF Queues
  <2>2. RoleStep(s, t, s.role, TRUE, TRUE, s.batt, s.gapq, <<>>, s.evts) /\ Head(s.roleq).op # "term"
    BY <1>e, <2>1
  <2> HIDE DEF t
  <2>3. Restarts(t, f) BY <1>0, <1>1, <2>2 DEF Restarts, RoleStep, SameAir, Free, Queues, Waits
  <2>4. ResetOnce(t) BY <1>0, <2>2 DEF ResetOnce, RoleStep, SameAir
  <2>5. Goes(s, t, f) BY <1>0, <2>2, <2>3, <2>4 DEF Goes, Phases, RoleStep, SameAir
  <2> QED BY <2>2, <2>5 DEF t
<1>2. CASE LinkComes(s, f, <<>>, <<Ended>>, "null")
  <2>1. LinkSeen(s, f, <<Ended>>) BY <1>2, ComesSeen
  <2>2. /\ Head(s.roleq) = Ended
        /\ \A v : SameAir(s, v) /\ v.gapq = <<>> /\ v.roleq = Tail(s.roleq) => LinkSeen(v, f, <<>>)
    BY <2>1, SeenRole
  <2>3. /\ RoleStep(s, t, s.role, TRUE, TRUE, s.batt, s.gapq, Tail(s.roleq), s.evts)
        /\ Head(s.roleq).op # "term"
    BY <1>e, <2>2
  <2> HIDE DEF t
  <2>4. LinkSeen(t, f, <<>>) BY <2>2, <2>3 DEF RoleStep
  <2>5. Ending(t, f) BY <1>0, <2>3, <2>4 DEF Ending, RoleStep, SameAir, LinkComes
  <2>6. ResetOnce(t) BY <1>0, <2>3 DEF ResetOnce, RoleStep, SameAir
  <2>7. Goes(s, t, f) BY <1>0, <2>3, <2>5, <2>6 DEF Goes, Phases, RoleStep, SameAir
  <2> QED BY <2>3, <2>7 DEF t
<1>3. CASE LinkComes(s, f, <<>>, <<>>, "null")
  <2>1. LinkSeen(s, f, <<>>) BY <1>3, ComesSeen
  <2> QED BY <1>0, <2>1, RoleSeen
<1>4. ~LinkComes(s, f, <<Enabled>>, <<>>, "ending") BY ComesSeen, OneLess
<1> QED BY <1>1, <1>2, <1>3, <1>4 DEF Ending, Queues

\* The end of a link, behind which at most the report of a new name waits.
LEMMA TermRole ==
  ASSUME NEW s \in Devices, NEW f, NEW x \in Reasons, NEW r \in {<<>>, <<NameDone>>},
         Linked(s), ResetOnce(s), s.running = "none", s.gapq = <<>>, ~s.link, ~s.linked,
         s.roleq # <<>>, Head(s.roleq) = Msg("term", x), Tail(s.roleq) = r
  PROVE  /\ Phases(RoleNext(s), f) /\ ResetOnce(RoleNext(s))
         /\ RoleNext(s) = Boot \/ x = "timeout" \/ ~RoleNext(s).reboot
<1> DEFINE t == RoleNext(s)
<1>0. /\ ~s.adv /\ s.llEvt = "none" /\ s.adState = "null" /\ ~s.advEnabled
      /\ "RESET_ADV" \notin s.evts
  BY DEF Linked, ResetOnce
<1>1. PICK u \in Devices :
         /\ RoleStep(s, u, s.role, s.advEnabled, s.startEvt, s.batt, s.gapq, r, s.evts)
         /\ t = RoleHandles(u, Msg("term", x))
  BY MessageRole
<1> HIDE DEF t
<1>2. ~u.advEnabled /\ u.reboot = s.reboot BY <1>0, <1>1 DEF RoleStep, SameAir
<1>3. CASE x = "timeout"
  <2>1. RoleStep(u, t, "WAITING_AFTER_TIMEOUT", TRUE, TRUE, u.batt, u.gapq, u.roleq, u.evts)
    BY <1>1, <1>2, <1>3, TermIs
  <2>2. RoleStep(s, t, "WAITING_AFTER_TIMEOUT", TRUE, TRUE, s.batt, <<>>, r, s.evts)
    BY <1>1, <2>1 DEF RoleStep, SameAir
  <2>3. Restarts(t, f) BY <1>0, <2>2 DEF Restarts, RoleStep, SameAir, Free, Queues, Waits
  <2>4. ResetOnce(t) BY <1>0, <2>2 DEF ResetOnce, RoleStep, SameAir
  <2> QED BY <1>3, <2>3, <2>4 DEF Phases, t
<1>4. CASE x = "clean" /\ ~s.reboot
  <2>1. RoleStep(u, t, "WAITING", TRUE, TRUE, FALSE, u.gapq, u.roleq, u.evts)
    BY <1>1, <1>2, <1>4, TermIs
  <2>2. RoleStep(s, t, "WAITING", TRUE, TRUE, FALSE, <<>>, r, s.evts)
    BY <1>1, <2>1 DEF RoleStep, SameAir
  <2>3. Restarts(t, f) BY <1>0, <2>2 DEF Restarts, RoleStep, SameAir, Free, Queues, Waits
  <2>4. ResetOnce(t) BY <1>0, <2>2 DEF ResetOnce, RoleStep, SameAir
  <2>5. ~t.reboot BY <1>4, <2>2 DEF RoleStep, SameAir
  <2> QED BY <2>3, <2>4, <2>5 DEF Phases, t
<1>5. CASE x = "clean" /\ s.reboot
  <2>1. t = Boot BY <1>1, <1>2, <1>5, TermIs
  <2>2. Booting(Boot) /\ ResetOnce(Boot) BY DEF Booting, ResetOnce, Boot, Free, Queues
  <2> QED BY <2>1, <2>2 DEF Phases, t
<1> QED BY <1>3, <1>4, <1>5 DEF Reasons

LEMMA RoleLinked ==
  ASSUME NEW s \in Devices, NEW f, Linked(s), ResetOnce(s), s.running = "none",
         s.gapq = <<>>, s.roleq # <<>>
  PROVE  \/ Goes(s, RoleNext(s), f) /\ Head(s.roleq).op # "term"
         \/ /\ Phases(RoleNext(s), f) /\ ResetOnce(RoleNext(s))
            /\ Head(s.roleq).op = "term" /\ Head(s.roleq).res \in Reasons
            /\ RoleNext(s) = Boot \/ Head(s.roleq).res = "timeout" \/ ~RoleNext(s).reboot
<1> DEFINE t == RoleNext(s)
<1>0. /\ s.role = "CONNECTED" /\ ~s.advEnabled /\ s.batt
      /\ ~s.adv /\ s.llEvt = "none" /\ s.adState = "null"
  BY DEF Linked
<1>n. ASSUME NEW r, Head(s.roleq) = NameDone, Tail(s.roleq) = r
      PROVE  /\ RoleStep(s, t, "CONNECTED", FALSE, TRUE, TRUE, <<>>, r, s.evts)
             /\ Head(s.roleq).op # "term"
  <2>1. /\ RoleStep(s, t, s.role, s.advEnabled, s.startEvt \/ s.role # "ADVERTISING",
                    s.batt, s.gapq, r, s.evts)
        /\ Head(s.roleq).op # "term"
    BY <1>n, NameRole
  <2> HIDE DEF t
  <2>2. s.advEnabled = FALSE /\ s.batt = TRUE BY <1>0 DEF Devices
  <2>3. (s.startEvt \/ s.role # "ADVERTISING") = TRUE BY <1>0
  <2> QED BY <1>0, <2>1, <2>2, <2>3
<1>1. CASE s.link /\ s.linked /\ Queues(s, <<>>, <<NameDone>>)
  <2>1. Head(s.roleq) = NameDone /\ Tail(s.roleq) = <<>> BY <1>1, OneLess DEF Queues
  <2>2. /\ RoleStep(s, t, "CONNECTED", FALSE, TRUE, TRUE, <<>>, <<>>, s.evts)
        /\ Head(s.roleq).op # "term"
    BY <1>n, <2>1
  <2> HIDE DEF t
  <2>3. Linked(t) BY <1>0, <1>1, <2>2 DEF Linked, RoleStep, SameAir, Queues
  <2>4. ResetOnce(t) BY <1>0, <2>2 DEF ResetOnce, RoleStep, SameAir
  <2>5. Goes(s, t, f) BY <2>2, <2>3, <2>4 DEF Goes, Phases, RoleStep, SameAir
  <2> QED BY <2>2, <2>5 DEF t
<1>2. ASSUME NEW x \in Reasons, ~s.link, ~s.linked, Queues(s, <<>>, <<NameDone, Msg("term", x)>>)
      PROVE  Goes(s, t, f) /\ Head(s.roleq).op # "term"
  <2>1. Head(s.roleq) = NameDone /\ Tail(s.roleq) = <<Msg("term", x)>>
    BY <1>2, OneLess DEF Queues
  <2>2. /\ RoleStep(s, t, "CONNECTED", FALSE, TRUE, TRUE, <<>>, <<Msg("term", x)>>, s.evts)
        /\ Head(s.roleq).op # "term"
    BY <1>n, <2>1
  <2> HIDE DEF t
  <2>3. Linked(t) BY <1>0, <1>2, <2>2 DEF Linked, RoleStep, SameAir, Queues
  <2>4. ResetOnce(t) BY <1>0, <2>2 DEF ResetOnce, RoleStep, SameAir
  <2>5. Goes(s, t, f) BY <2>2, <2>3, <2>4 DEF Goes, Phases, RoleStep, SameAir
  <2> QED BY <2>2, <2>5
<1>3. ASSUME NEW x \in Reasons, NEW r \in {<<>>, <<NameDone>>}, ~s.link, ~s.linked,
             Head(s.roleq) = Msg("term", x), Tail(s.roleq) = r
      PROVE  /\ Phases(t, f) /\ ResetOnce(t)
             /\ Head(s.roleq).op = "term" /\ Head(s.roleq).res \in Reasons
             /\ t = Boot \/ Head(s.roleq).res = "timeout" \/ ~t.reboot
  <2>1. Phases(t, f) /\ ResetOnce(t) /\ (t = Boot \/ x = "timeout" \/ ~t.reboot)
    BY <1>3, TermRole
  <2> HIDE DEF t
  <2>2. Head(s.roleq).op = "term" /\ Head(s.roleq).res = x BY <1>3 DEF Msg
  <2> QED BY <2>1, <2>2
<1>4. ASSUME NEW x \in Reasons, ~s.link, ~s.linked, Queues(s, <<>>, <<Msg("term", x)>>)
      PROVE  Head(s.roleq) = Msg("term", x) /\ Tail(s.roleq) = <<>>
  BY <1>4, OneLess DEF Queues
<1>5. ASSUME NEW x \in Reasons, ~s.link, ~s.linked, Queues(s, <<>>, <<Msg("term", x), NameDone>>)
      PROVE  Head(s.roleq) = Msg("term", x) /\ Tail(s.roleq) = <<NameDone>>
  BY <1>5, OneLess DEF Queues
<1> HIDE DEF t
<1>6. CASE s.link BY <1>1, <1>6 DEF Linked, Queues, t
<1>7. CASE ~s.link /\ s.linked
  <2>1. \A x : <<Msg("disc", x)>> # <<>> /\ <<NameSet, Msg("disc", x)>> # <<>>
               /\ <<Msg("disc", x), NameSet>> # <<>>
    BY OneLess
  <2> QED BY <1>7, <2>1 DEF Linked, Queues
<1>8. CASE ~s.link /\ ~s.linked
  <2>0. <<NameSet>> # <<>> BY OneLess
  <2>1. PICK x \in Reasons : \/ Queues(s, <<>>, <<Msg("term", x)>>)
                             \/ Queues(s, <<>>, <<NameDone, Msg("term", x)>>)
                             \/ Queues(s, <<>>, <<Msg("term", x), NameDone>>)
    BY <1>8, <2>0 DEF Linked, Queues
  <2>2. CASE Queues(s, <<>>, <<NameDone, Msg("term", x)>>) BY <1>2, <1>8, <2>2 DEF t
  <2>3. CASE Queues(s, <<>>, <<Msg("term", x)>>) BY <1>3, <1>4, <1>8, <2>3 DEF t
  <2>4. CASE Queues(s, <<>>, <<Msg("term", x), NameDone>>) BY <1>3, <1>5, <1>8, <2>4 DEF t
  <2> QED BY <2>1, <2>2, <2>3, <2>4
<1> QED BY <1>6, <1>7, <1>8

\* Advertising is started when no message is left.
LEMMA RoleRestarts ==
  ASSUME NEW s \in Devices, NEW f, Phases(s, f), ResetOnce(s), s.running = "none",
         s.llEvt = "none", s.gapq = <<>>, s.roleq = <<>>, s.startEvt
  PROVE  Goes(s, StartAdvertising([s EXCEPT !.startEvt = FALSE]), f)
<1> DEFINE u == [s EXCEPT !.startEvt = FALSE]
           t == StartAdvertising(u)
<1>1. RoleStep(s, u, s.role, s.advEnabled, FALSE, s.batt, s.gapq, s.roleq, s.evts)
  BY StartEvtIs
<1> HIDE DEF u
<1>2. u \in Devices BY <1>1 DEF RoleStep, SameAir
<1>3. ~Booting(s) /\ ~Starting(s, f) /\ ~OnAir(s, f) /\ ~Stopped(s, f)
  BY DEF Booting, Starting, OnAir, Stopped
<1>4. ~Ending(s, f)
  <2>1. <<Enabled>> # <<>> /\ <<Ended>> # <<>> BY OneLess
  <2> QED BY <2>1, ComesSeen, SeenLeft DEF Ending, Queues
<1>5. CASE Started(s) \/ Linked(s)
  <2>1. ~u.advEnabled BY <1>1, <1>5 DEF RoleStep, Started, Linked
  <2>2. t = u BY <2>1 DEF StartAdvertising
  <2> HIDE DEF t
  <2>3. Started(s) => Started(u) BY <1>1 DEF Started, RoleStep, SameAir, Free, Queues
  <2>4. Linked(s) => Linked(u)
    <3>1. SUFFICES ASSUME Linked(s) PROVE Linked(u) OBVIOUS
    <3>2. s.link /\ s.linked
      <4>1. \A x : <<Msg("disc", x)>> # <<>> /\ <<NameSet, Msg("disc", x)>> # <<>>
                   /\ <<Msg("disc", x), NameSet>> # <<>> /\ <<Msg("term", x)>> # <<>>
                   /\ <<NameDone, Msg("term", x)>> # <<>> /\ <<Msg("term", x), NameDone>> # <<>>
        BY OneLess
      <4> QED BY <3>1, <4>1 DEF Linked, Queues
    <3> QED BY <1>1, <3>1, <3>2 DEF Linked, RoleStep, SameAir, Queues
  <2>5. ResetOnce(u) BY <1>1 DEF ResetOnce, RoleStep, SameAir
  <2>6. s.role # "INIT" BY <1>5 DEF Started, Linked
  <2>7. Goes(s, u, f) BY <1>1, <1>5, <2>3, <2>4, <2>5, <2>6 DEF Goes, Phases, RoleStep, SameAir
  <2> QED BY <2>2, <2>7 DEF t, u
<1>6. CASE Restarts(s, f)
  <2>1. u.advEnabled /\ u.adState = "null" /\ ~u.adv
    BY <1>1, <1>6 DEF RoleStep, SameAir, Restarts
  <2>2. t = MakeDiscoverable(u) BY <2>1 DEF StartAdvertising
  <2> HIDE DEF t
  <2>3. /\ t.adv = u.adv /\ t.link = u.link /\ t.linked = u.linked
        /\ t.llEvt = u.llEvt /\ t.adState = "set_params" /\ t.running = u.running
        /\ t.reboot = u.reboot /\ t.interval = u.interval /\ t.llInterval = u.interval
        /\ t.role = u.role /\ t.advEnabled = u.advEnabled /\ t.startEvt = u.startEvt
        /\ t.batt = u.batt /\ t.gapq = Append(u.gapq, ParamsSet) /\ t.roleq = u.roleq
        /\ t.evts = u.evts
    BY <1>2, <2>1, <2>2, StartIs
  <2>4. t.gapq = <<ParamsSet>> BY <1>1, <2>3, OneMore DEF RoleStep
  <2>5. Starting(t, f)
    BY <1>1, <1>6, <2>1, <2>3, <2>4 DEF Starting, Restarts, RoleStep, SameAir, Free, Queues
  <2>6. ResetOnce(t) BY <1>1, <2>3 DEF ResetOnce, RoleStep, SameAir
  <2>7. s.role # "INIT" /\ s.role # "CONNECTED" BY <1>6 DEF Restarts, Waits
  <2>8. Goes(s, t, f) BY <1>1, <2>3, <2>5, <2>6, <2>7 DEF Goes, Phases, RoleStep, SameAir
  <2> QED BY <2>8 DEF t, u
<1> QED BY <1>3, <1>4, <1>5, <1>6 DEF Phases

LEMMA RolePhases ==
  ASSUME NEW s \in Devices, NEW f, Phases(s, f), ResetOnce(s), s.running = "none",
         s.llEvt = "none", s.gapq = <<>>, s.roleq # <<>>
  PROVE  \/ Goes(s, RoleNext(s), f) /\ Head(s.roleq).op # "term"
         \/ /\ Phases(RoleNext(s), f) /\ ResetOnce(RoleNext(s))
            /\ Head(s.roleq).op = "term" /\ Head(s.roleq).res \in Reasons
            /\ RoleNext(s) = Boot \/ Head(s.roleq).res = "timeout" \/ ~RoleNext(s).reboot
<1>1. CASE Booting(s) \/ Started(s) BY <1>1, RoleStarts
<1>2. CASE Restarts(s, f) \/ Stopped(s, f) BY <1>2, RoleWaits
<1>3. CASE Starting(s, f) BY <1>3, RoleStarting
<1>4. CASE OnAir(s, f) BY <1>4, RoleOnAir
<1>5. CASE Ending(s, f) BY <1>5, RoleEnding
<1>6. CASE Linked(s) BY <1>6, RoleLinked
<1> QED BY <1>1, <1>2, <1>3, <1>4, <1>5, <1>6 DEF Phases
-----------------------------------------------------------------------------
(* The link layer and the world around the device.                         *)

LEMMA LLIs ==
  ASSUME NEW s \in Devices, NEW t,
         t = [ToGap(s, "conn", Status(s.llEvt = "created")) EXCEPT !.llEvt = "none"]
  PROVE  /\ SameRole(s, t) /\ t.adv = s.adv /\ t.adState = s.adState /\ t.linked = s.linked
         /\ t.link = s.link /\ t.roleq = s.roleq /\ t.llEvt = "none"
         /\ s.llEvt = "created" => t.gapq = Append(s.gapq, Conn)
         /\ s.llEvt = "bad" => t.gapq = Append(s.gapq, NoConn)
<1> DEFINE x == Status(s.llEvt = "created")
           u == ToGap(s, "conn", x)
           w == [u EXCEPT !.llEvt = "none"]
<1>0. t = w OBVIOUS
<1>1. x \in {"ok", "bad"} BY DEF Status
<1>2. Msg("conn", x) = IF s.llEvt = "created" THEN Conn ELSE NoConn BY DEF Status, Conn, NoConn, Msg
<1> HIDE DEF x
<1>3. HostStep(s, u, s.adv, s.adState, s.linked, Append(s.gapq, Msg("conn", x)), s.roleq)
  BY <1>1, ToGapIs, MsgTypes
<1> HIDE DEF u
<1>4. u \in Devices BY <1>3 DEF HostStep, SameRole
<1>5. /\ SameRole(u, w) /\ w.adv = u.adv /\ w.adState = u.adState /\ w.linked = u.linked
      /\ w.link = u.link /\ w.roleq = u.roleq /\ w.llEvt = "none" /\ w.gapq = u.gapq
  BY <1>4 DEF SameRole, Devices
<1> HIDE DEF w
<1>6. /\ SameRole(s, t) /\ t.adv = s.adv /\ t.adState = s.adState /\ t.linked = s.linked
      /\ t.link = s.link /\ t.roleq = s.roleq /\ t.llEvt = "none"
      /\ t.gapq = Append(s.gapq, Msg("conn", x))
  BY <1>0, <1>3, <1>5 DEF HostStep, SameRole
<1> QED BY <1>2, <1>6

LEMMA LLPhases ==
  ASSUME NEW s \in Devices, NEW t, NEW f, Phases(s, f), ResetOnce(s), s.running = "none",
         s.llEvt # "none",
         SameRole(s, t), t.adv = s.adv, t.adState = s.adState, t.linked = s.linked,
         t.link = s.link, t.roleq = s.roleq, t.llEvt = "none",
         s.llEvt = "created" => t.gapq = Append(s.gapq, Conn),
         s.llEvt = "bad" => t.gapq = Append(s.gapq, NoConn)
  PROVE  Phases(t, f) /\ ResetOnce(t)
<1>1. ASSUME NEW g, NEW r, NEW a, LinkComes(s, f, g, r, a)
      PROVE  LinkComes(t, f, g, r, a)
  <2>1. LinkAhead(s, f, g, r, a) BY <1>1 DEF LinkComes, LinkSeen
  <2>2. LinkAhead(t, f, g, r, a) BY <2>1 DEF LinkAhead
  <2> QED BY <2>2 DEF LinkComes
<1>2. ASSUME NEW g, NEW r, NEW a, Air(s, f, g, r, a)
      PROVE  Air(t, f, g, r, a)
  BY <1>1, <1>2 DEF Air, Free
<1>3. CASE Starting(s, f)
  <2>1. ~Free(s) BY DEF Free
  <2> QED BY <1>2, <1>3, <2>1 DEF Starting, Phases, ResetOnce, SameRole
<1>4. CASE OnAir(s, f) BY <1>2, <1>4 DEF OnAir, Phases, ResetOnce, SameRole
<1>5. CASE Ending(s, f)
  <2>1. ~Free(s) BY DEF Free
  <2>2. Ending(t, f) BY <1>1, <1>5, <2>1 DEF Ending, SameRole
  <2>3. ResetOnce(t) BY DEF ResetOnce, SameRole
  <2> QED BY <2>2, <2>3 DEF Phases
<1>6. ~Booting(s) /\ ~Started(s) /\ ~Restarts(s, f) /\ ~Stopped(s, f) /\ ~Linked(s)
  BY DEF Booting, Started, Restarts, Stopped, Linked, Free
<1> QED BY <1>3, <1>4, <1>5, <1>6 DEF Phases

\* The radio gets a connection request while it advertises.
LEMMA ConnectPhases ==
  ASSUME NEW s \in Devices, NEW t, NEW f, NEW e, NEW x \in {"created", "bad"},
         Phases(s, f), ResetOnce(s), s.adv,
         SameRole(s, t), ~t.adv, t.adState = s.adState, t.linked = s.linked,
         t.link = (x = "created"), t.roleq = s.roleq, t.llEvt = x, t.gapq = s.gapq,
         e \in BOOLEAN, f \in BOOLEAN, e <=> f \/ x = "bad"
  PROVE  Phases(t, e) /\ ResetOnce(t)
<1>1. ASSUME NEW g, NEW r, NEW a, Air(s, f, g, r, a)
      PROVE  Air(t, e, g, r, a)
  <2>1. LinkAhead(t, e, g, r, a) BY <1>1 DEF Air, Free, Queues, LinkAhead
  <2> QED BY <2>1 DEF Air, LinkComes
<1>2. CASE Starting(s, f)
  <2>1. Starting(t, e) BY <1>1, <1>2 DEF Starting, SameRole
  <2>2. ResetOnce(t) BY DEF ResetOnce, SameRole
  <2> QED BY <2>1, <2>2 DEF Phases
<1>3. CASE OnAir(s, f)
  <2>1. OnAir(t, e) BY <1>1, <1>3 DEF OnAir, SameRole, Queues
  <2>2. ResetOnce(t) BY DEF ResetOnce, SameRole
  <2> QED BY <2>1, <2>2 DEF Phases
<1>4. ~Booting(s) /\ ~Started(s) /\ ~Restarts(s, f) /\ ~Stopped(s, f) /\ ~Linked(s) /\ ~Ending(s, f)
  BY DEF Booting, Started, Restarts, Stopped, Linked, Ending
<1> QED BY <1>2, <1>3, <1>4 DEF Phases

\* A link ends, whether or not the role has heard of it.
LEMMA LinkEndsPhases ==
  ASSUME NEW s \in Devices, NEW t, NEW f, NEW x \in Reasons,
         Phases(s, f), ResetOnce(s), s.link, s.llEvt = "none",
         SameRole(s, t), t.adv = s.adv, t.adState = s.adState, t.linked = s.linked,
         ~t.link, t.roleq = s.roleq, t.llEvt = s.llEvt, t.gapq = Append(s.gapq, Msg("disc", x))
  PROVE  Phases(t, f) /\ ResetOnce(t)
<1>0. ResetOnce(t) BY DEF ResetOnce, SameRole
<1>a. Append(<<>>, Msg("disc", x)) = <<Msg("disc", x)>>
      /\ Append(<<NameSet>>, Msg("disc", x)) = <<NameSet, Msg("disc", x)>>
  BY OneMore
<1>1. ASSUME NEW g, NEW r, NEW a, LinkComes(s, f, g, r, a)
      PROVE  LinkComes(t, f, g, r, a)
  <2>1. CASE LinkAhead(s, f, g, r, a)
    <3>1. s.gapq = Append(g, Conn) BY <2>1 DEF LinkAhead
    <3>2. LinkAhead(t, f, g, r, a) BY <2>1, <3>1 DEF LinkAhead
    <3> QED BY <3>2 DEF LinkComes
  <2>2. CASE g = <<>> /\ LinkSeen(s, f, r)
    <3>1. s.linked /\ Queues(s, <<>>, Append(r, Up)) BY <2>2 DEF LinkSeen
    <3>2. LinkSeen(t, f, r) BY <1>a, <2>2, <3>1 DEF LinkSeen, Queues
    <3> QED BY <2>2, <3>2 DEF LinkComes
  <2> QED BY <1>1, <2>1, <2>2 DEF LinkComes
<1>2. ASSUME NEW g, NEW r, NEW a, Air(s, f, g, r, a)
      PROVE  Air(t, f, g, r, a)
  BY <1>1, <1>2 DEF Air, Free
<1>n. ~Free(s) BY DEF Free
<1>3. CASE Starting(s, f)
  <2>1. Starting(t, f) BY <1>2, <1>3, <1>n DEF Starting, SameRole
  <2> QED BY <1>0, <2>1 DEF Phases
<1>4. CASE OnAir(s, f)
  <2>1. s.running = "none"
    <3>1. <<NameSet>> # <<>> /\ <<NameDone>> # <<>> BY OneLess
    <3>2. SUFFICES ASSUME s.running # "none" PROVE FALSE OBVIOUS
    <3>3. s.gapq = <<>> /\ s.roleq = <<>> BY <1>4, <3>2 DEF OnAir, Queues
    <3>4. PICK g \in {<<>>, <<NameSet>>}, r \in {<<>>, <<NameDone>>} : Air(s, f, g, r, "advertising")
      BY <1>4 DEF OnAir
    <3>5. (g = <<>> \/ \E y : g = <<y>>) /\ (r = <<>> \/ \E y : r = <<y>>) OBVIOUS
    <3> QED BY <1>n, <3>3, <3>4, <3>5, AirEmpty
  <2>2. OnAir(t, f) BY <1>2, <1>4, <2>1 DEF OnAir, SameRole
  <2> QED BY <1>0, <2>2 DEF Phases
<1>5. CASE Ending(s, f)
  <2>1. Ending(t, f) BY <1>1, <1>5, <1>n DEF Ending, SameRole
  <2> QED BY <1>0, <2>1 DEF Phases
<1>6. CASE Linked(s)
  <2>1. s.linked BY <1>6 DEF Linked
  <2>2. CASE Queues(s, <<>>, <<>>)
    <3>1. Queues(t, <<Msg("disc", x)>>, <<>>) BY <1>a, <2>2 DEF Queues
    <3>2. Linked(t) BY <1>6, <2>1, <3>1 DEF Linked, SameRole
    <3> QED BY <1>0, <3>2 DEF Phases
  <2>3. CASE s.running = "none" /\ Queues(s, <<NameSet>>, <<>>)
    <3>1. Queues(t, <<NameSet, Msg("disc", x)>>, <<>>) BY <1>a, <2>3 DEF Queues
    <3>2. Linked(t) BY <1>6, <2>1, <2>3, <3>1 DEF Linked, SameRole
    <3> QED BY <1>0, <3>2 DEF Phases
  <2>4. CASE s.running = "none" /\ Queues(s, <<>>, <<NameDone>>)
    <3>1. Queues(t, <<Msg("disc", x)>>, <<NameDone>>) BY <1>a, <2>4 DEF Queues
    <3>2. Linked(t) BY <1>6, <2>1, <2>4, <3>1 DEF Linked, SameRole
    <3> QED BY <1>0, <3>2 DEF Phases
  <2> QED BY <1>6, <2>2, <2>3, <2>4 DEF Linked
<1>7. ~Booting(s) /\ ~Started(s) /\ ~Restarts(s, f) /\ ~Stopped(s, f)
  BY <1>n DEF Booting, Started, Restarts, Stopped
<1> QED BY <1>3, <1>4, <1>5, <1>6, <1>7 DEF Phases

\* What the phases do not speak of may change: events, the button, the
\* command, the order to reboot; and a handler may start or end.
SameWorld(s, t) ==
  /\ t \in Devices /\ t.role = s.role /\ t.advEnabled = s.advEnabled /\ t.startEvt = s.startEvt
  /\ t.batt = s.batt /\ t.adv = s.adv /\ t.link = s.link /\ t.linked = s.linked
  /\ t.llEvt = s.llEvt /\ t.adState = s.adState /\ t.gapq = s.gapq /\ t.roleq = s.roleq
  /\ t.interval = s.interval /\ t.llInterval = s.llInterval

LEMMA WorldPhases ==
  ASSUME NEW s \in Devices, NEW t, NEW f, Phases(s, f), SameWorld(s, t),
         Booting(s) => t.evts \subseteq {"START_DEVICE", "PIN_INPUT"}
                       /\ t.running \in {"none", "START_DEVICE", "PIN_INPUT"},
         \/ t.running = s.running \/ t.running = "none"
         \/ s.gapq = <<>> /\ s.roleq = <<>> /\ ~s.startEvt /\ s.llEvt = "none"
  PROVE  Phases(t, f)
<1>1. ASSUME NEW g, NEW r, NEW a, LinkComes(s, f, g, r, a)
      PROVE  LinkComes(t, f, g, r, a)
  BY <1>1 DEF LinkComes, LinkAhead, LinkSeen, Queues, SameWorld
<1>2. ASSUME NEW g, NEW r, NEW a, Air(s, f, g, r, a)
      PROVE  Air(t, f, g, r, a)
  BY <1>1, <1>2 DEF Air, Free, Queues, SameWorld
<1>3. CASE Booting(s)
  <2>1. Booting(t)
    <3>1. t.running = "none" \/ Queues(s, <<>>, <<>>) BY <1>3 DEF Booting, Queues
    <3> QED BY <1>3, <3>1 DEF Booting, Free, Queues, SameWorld
  <2> QED BY <2>1 DEF Phases
<1>4. CASE Started(s)
  <2>1. Started(t) BY <1>4 DEF Started, Free, Queues, SameWorld
  <2> QED BY <2>1 DEF Phases
<1>5. CASE Restarts(s, f)
  <2>1. Restarts(t, f) BY <1>5 DEF Restarts, Free, Queues, SameWorld
  <2> QED BY <2>1 DEF Phases
<1>6. CASE Starting(s, f)
  <2>1. s.running = "none" /\ ~s.startEvt BY <1>6 DEF Starting
  <2>2. t.running = "none"
    <3>1. SUFFICES ASSUME t.running # "none" PROVE FALSE OBVIOUS
    <3>2. s.gapq = <<>> /\ s.roleq = <<>> /\ s.llEvt = "none" BY <2>1, <3>1
    <3>3. <<ParamsSet>> # <<>> /\ <<Enabled>> # <<>> /\ <<Made>> # <<>> BY OneLess
    <3>4. PICK g \in {<<>>, <<Enabled>>}, r \in {<<>>, <<Made>>},
             a \in {"set_mode", "advertising"} : Air(s, f, g, r, a) /\ g # r
      BY <1>6, <3>2, <3>3 DEF Starting, Queues
    <3>5. (g = <<>> \/ \E y : g = <<y>>) /\ (r = <<>> \/ \E y : r = <<y>>) OBVIOUS
    <3> QED BY <3>2, <3>4, <3>5, AirEmpty
  <2>3. Starting(t, f) BY <1>2, <1>6, <2>2 DEF Starting, Free, Queues, SameWorld
  <2> QED BY <2>3 DEF Phases
<1>7. CASE OnAir(s, f)
  <2>1. OnAir(t, f) BY <1>2, <1>7 DEF OnAir, Queues, SameWorld
  <2> QED BY <2>1 DEF Phases
<1>8. CASE Ending(s, f)
  <2>1. t.running = "none" BY <1>8 DEF Ending
  <2>2. Ending(t, f) BY <1>1, <1>8, <2>1 DEF Ending, Free, Queues, SameWorld
  <2> QED BY <2>2 DEF Phases
<1>9. CASE Linked(s)
  <2>0. \A x : <<x>> # <<>> /\ \A y : <<x, y>> # <<>> BY OneLess
  <2>1. \/ t.running = s.running \/ t.running = "none"
        \/ s.link /\ s.linked /\ Queues(s, <<>>, <<>>) /\ ~s.startEvt
    BY <1>9, <2>0 DEF Linked, Queues
  <2>2. CASE s.link /\ s.linked /\ Queues(s, <<>>, <<>>) /\ ~s.startEvt
    <3>1. Linked(t) BY <1>9, <2>2 DEF Linked, Queues, SameWorld
    <3> QED BY <3>1 DEF Phases
  <2>3. CASE t.running = s.running \/ t.running = "none"
    <3>1. Linked(t) BY <1>9, <2>3 DEF Linked, Queues, SameWorld
    <3> QED BY <3>1 DEF Phases
  <2> QED BY <2>1, <2>2, <2>3
<1>10. CASE Stopped(s, f)
  <2>1. Stopped(t, f) BY <1>10 DEF Stopped, Free, Queues, SameWorld
  <2> QED BY <2>1 DEF Phases
<1> QED BY <1>3, <1>4, <1>5, <1>6, <1>7, <1>8, <1>9, <1>10 DEF Phases
-----------------------------------------------------------------------------
(* The handlers of the application.                                        *)

AppStep(s, t, role, en, ev, ad, adv, g, r, i) ==
  /\ t \in Devices /\ t.role = role /\ t.advEnabled = en /\ t.startEvt = ev
  /\ t.adState = ad /\ t.adv = adv /\ t.gapq = g /\ t.roleq = r /\ t.interval = i
  /\ t.batt = s.batt /\ t.link = s.link /\ t.linked = s.linked /\ t.llEvt = s.llEvt
  /\ t.llInterval = s.llInterval /\ t.evts = s.evts /\ t.reboot = s.reboot

Idles(s, t) ==
  AppStep(s, t, s.role, s.advEnabled, s.startEvt, s.adState, s.adv, s.gapq, s.roleq, s.interval)

\* Advertising is to begin anew, with the interval i.
Anew(s, t) ==
  \E i \in {"user", "event"} :
    \/ s.adState = "null" /\ AppStep(s, t, "WAITING_AFTER_TIMEOUT", s.advEnabled, TRUE, "null",
                                     s.adv, s.gapq, s.roleq, i)
    \/ s.adState # "null" /\ AppStep(s, t, "WAITING_AFTER_TIMEOUT", s.advEnabled, TRUE, "ending",
                                     FALSE, Append(s.gapq, Enabled), s.roleq, i)

LEMMA IdlesAnew ==
  ASSUME NEW s, NEW t, NEW u, Idles(s, t), Anew(t, u)
  PROVE  Anew(s, u)
BY DEF Idles, Anew, AppStep

LEMMA SetIs ==
  ASSUME NEW s \in Devices, NEW i \in {"user", "event"}
  PROVE  Anew(s, SetNewAdvInterval(s, i))
<1> DEFINE t == [s EXCEPT !.interval = i]
           e == EndDiscoverable(t)
           h == [e EXCEPT !.role = "WAITING_AFTER_TIMEOUT"]
           w == [h EXCEPT !.startEvt = TRUE]
<1>0. SetNewAdvInterval(s, i) = w BY DEF SetNewAdvInterval
<1>1. AppStep(s, t, s.role, s.advEnabled, s.startEvt, s.adState, s.adv, s.gapq, s.roleq, i)
  BY DEF AppStep, Devices
<1> HIDE DEF t
<1>2. t \in Devices BY <1>1 DEF AppStep
<1>3. ASSUME NEW ad, NEW adv, NEW g,
             AppStep(s, e, s.role, s.advEnabled, s.startEvt, ad, adv, g, s.roleq, i)
      PROVE  AppStep(s, w, "WAITING_AFTER_TIMEOUT", s.advEnabled, TRUE, ad, adv, g, s.roleq, i)
  <2> HIDE DEF e
  <2>1. e \in Devices BY <1>3 DEF AppStep
  <2>2. RoleStep(e, h, "WAITING_AFTER_TIMEOUT", e.advEnabled, e.startEvt, e.batt,
                 e.gapq, e.roleq, e.evts)
    BY <2>1, RoleIs DEF Roles
  <2> HIDE DEF h
  <2>3. h \in Devices BY <2>2 DEF RoleStep, SameAir
  <2>4. RoleStep(h, w, h.role, h.advEnabled, TRUE, h.batt, h.gapq, h.roleq, h.evts)
    BY <2>3, StartEvtIs
  <2> HIDE DEF w
  <2> QED BY <1>3, <2>2, <2>4 DEF AppStep, RoleStep, SameAir
<1>4. CASE s.adState = "null"
  <2>1. e = t BY <1>1, <1>4 DEF EndDiscoverable, AppStep
  <2>2. AppStep(s, e, s.role, s.advEnabled, s.startEvt, "null", s.adv, s.gapq, s.roleq, i)
    BY <1>1, <1>4, <2>1
  <2>3. AppStep(s, w, "WAITING_AFTER_TIMEOUT", s.advEnabled, TRUE, "null", s.adv, s.gapq, s.roleq, i)
    BY <1>3, <2>2
  <2> HIDE DEF w
  <2> QED BY <1>0, <1>4, <2>3 DEF Anew
<1>5. CASE s.adState # "null"
  <2> DEFINE p == [t EXCEPT !.adState = "ending"]
             q == [p EXCEPT !.adv = FALSE]
             z == ToGap(q, "set_enable", "ok")
  <2>1. e = z BY <1>1, <1>5 DEF EndDiscoverable, AppStep, AdvOff
  <2>2. HostStep(t, p, t.adv, "ending", t.linked, t.gapq, t.roleq) BY <1>2, SetStateIs DEF AdStates
  <2> HIDE DEF p
  <2>3. p \in Devices BY <2>2 DEF HostStep, SameRole
  <2>4. HostStep(p, q, FALSE, p.adState, p.linked, p.gapq, p.roleq)
    BY <2>3 DEF HostStep, SameRole, Devices
  <2> HIDE DEF q
  <2>5. q \in Devices BY <2>4 DEF HostStep, SameRole
  <2>6. HostStep(q, z, q.adv, q.adState, q.linked, Append(q.gapq, Enabled), q.roleq)
    BY <2>5, ToGapIs, MsgTypes DEF Enabled
  <2> HIDE DEF z, e
  <2>7. AppStep(s, e, s.role, s.advEnabled, s.startEvt, "ending", FALSE, Append(s.gapq, Enabled),
                s.roleq, i)
    BY <1>1, <2>1, <2>2, <2>4, <2>6 DEF AppStep, HostStep, SameRole
  <2>8. AppStep(s, w, "WAITING_AFTER_TIMEOUT", s.advEnabled, TRUE, "ending", FALSE,
                Append(s.gapq, Enabled), s.roleq, i)
    BY <1>3, <2>7 DEF e
  <2> HIDE DEF w
  <2> QED BY <1>0, <1>5, <2>8 DEF Anew
<1> QED BY <1>4, <1>5

LEMMA CountIs ==
  ASSUME NEW s \in Devices, NEW n \in 0 .. EventCnt, NEW b \in BOOLEAN
  PROVE  /\ Idles(s, [s EXCEPT !.reload = n])
         /\ Idles(s, [s EXCEPT !.reload = n, !.event = b])
         /\ Idles(s, [s EXCEPT !.event = b, !.reload = n])
<1> DEFINE t == [s EXCEPT !.reload = n]
           u == [t EXCEPT !.event = b]
<1>1. Idles(s, t) BY DEF Idles, AppStep, Devices
<1>2. [s EXCEPT !.reload = n, !.event = b] = u /\ [s EXCEPT !.event = b, !.reload = n] = u
  BY DEF Devices
<1> HIDE DEF t
<1>3. t \in Devices BY <1>1 DEF Idles, AppStep
<1>4. Idles(t, u) BY <1>3 DEF Idles, AppStep, Devices
<1> HIDE DEF u
<1>5. Idles(s, u) BY <1>1, <1>4 DEF Idles, AppStep
<1> QED BY <1>1, <1>2, <1>5 DEF t

LEMMA BurstIs ==
  ASSUME NEW s \in Devices
  PROVE  Idles(s, BurstOver(s)) \/ Anew(s, BurstOver(s))
<1>0. EventCnt \in 0 .. EventCnt /\ 0 \in 0 .. EventCnt BY EventCntAssumption
<1> DEFINE t == [s EXCEPT !.reload = EventCnt, !.event = FALSE]
           u == [s EXCEPT !.reload = 0]
           v == [s EXCEPT !.reload = EventCnt]
<1>1. Idles(s, t) /\ Idles(s, u) /\ Idles(s, v) BY <1>0, CountIs
<1>2. BurstOver(s) \in {v, SetNewAdvInterval(t, "event"), SetNewAdvInterval(u, "user")}
  <2>1. s.event \in BOOLEAN /\ s.button \in BOOLEAN BY DEF Devices
  <2>2. CASE ~s.event BY <2>2 DEF BurstOver
  <2>3. CASE s.event /\ s.button BY <2>3 DEF BurstOver
  <2>4. CASE s.event /\ ~s.button BY <2>4 DEF BurstOver
  <2> QED BY <2>2, <2>3, <2>4
<1> HIDE DEF t, u, v
<1>3. t \in Devices /\ u \in Devices BY <1>1 DEF Idles, AppStep
<1>4. Anew(t, SetNewAdvInterval(t, "event")) /\ Anew(u, SetNewAdvInterval(u, "user"))
  BY <1>3, SetIs
<1>5. Anew(s, SetNewAdvInterval(t, "event")) /\ Anew(s, SetNewAdvInterval(u, "user"))
  BY <1>1, <1>4, IdlesAnew
<1> QED BY <1>1, <1>2, <1>5

LEMMA MeasureIs ==
  ASSUME NEW s \in Devices
  PROVE  Idles(s, AdvMeasure(s)) \/ (s.advEnabled /\ Anew(s, AdvMeasure(s)))
<1>1. CASE ~s.advEnabled \/ s.reload = 0
  <2>1. AdvMeasure(s) = s BY <1>1 DEF AdvMeasure
  <2> QED BY <2>1 DEF Idles, AppStep
<1>2. CASE s.advEnabled /\ s.reload = 1
  <2>1. AdvMeasure(s) = BurstOver(s) BY <1>2 DEF AdvMeasure
  <2> QED BY <1>2, <2>1, BurstIs
<1>3. CASE s.advEnabled /\ s.reload # 0 /\ s.reload # 1
  <2>1. s.reload \in 0 .. EventCnt BY DEF Devices
  <2>2. s.reload - 1 \in 0 .. EventCnt BY <1>3, <2>1, EventCntAssumption
  <2>3. AdvMeasure(s) = [s EXCEPT !.reload = s.reload - 1] BY <1>3 DEF AdvMeasure
  <2> QED BY <2>2, <2>3, CountIs
<1> QED BY <1>1, <1>2, <1>3

LEMMA PinIs ==
  ASSUME NEW s \in Devices, key \in BOOLEAN
  PROVE  Idles(s, PinInput(s)) \/ (s.advEnabled /\ Anew(s, PinInput(s)))
<1>p. ASSUME NEW b \in BOOLEAN
      PROVE  Idles(s, [s EXCEPT !.button = b, !.pinInput = b])
  <2> DEFINE t == [s EXCEPT !.button = b]
             u == [t EXCEPT !.pinInput = b]
  <2>1. Idles(s, t) BY DEF Idles, AppStep, Devices
  <2>2. [s EXCEPT !.button = b, !.pinInput = b] = u OBVIOUS
  <2> HIDE DEF t
  <2>3. t \in Devices BY <2>1 DEF Idles, AppStep
  <2>4. Idles(t, u) BY <2>3 DEF Idles, AppStep, Devices
  <2> HIDE DEF u
  <2>5. Idles(s, u) BY <2>1, <2>4 DEF Idles, AppStep
  <2> QED BY <2>2, <2>5
<1>1. CASE key /\ ~s.pinInput
  <2> DEFINE t == [s EXCEPT !.button = TRUE, !.pinInput = TRUE]
             u == [t EXCEPT !.event = TRUE, !.reload = EventCnt]
  <2>1. PinInput(s) = Pressed(t) BY <1>1 DEF PinInput
  <2>2. Idles(s, t) BY <1>p
  <2>3. Pressed(t) = IF t.advEnabled THEN SetNewAdvInterval(u, "event") ELSE t BY DEF Pressed
  <2> HIDE DEF t
  <2>4. t \in Devices /\ t.advEnabled = s.advEnabled BY <2>2 DEF Idles, AppStep
  <2>5. EventCnt \in 0 .. EventCnt BY EventCntAssumption
  <2>6. Idles(t, u) BY <2>4, <2>5, CountIs
  <2> HIDE DEF u
  <2>7. u \in Devices BY <2>6 DEF Idles, AppStep
  <2>8. Anew(t, SetNewAdvInterval(u, "event")) BY <2>6, <2>7, SetIs, IdlesAnew
  <2>9. Anew(s, SetNewAdvInterval(u, "event")) BY <2>2, <2>8, IdlesAnew
  <2> QED BY <2>1, <2>2, <2>3, <2>4, <2>9
<1>2. CASE key /\ s.pinInput
  <2>1. PinInput(s) = s BY <1>2 DEF PinInput
  <2> QED BY <2>1 DEF Idles, AppStep
<1>3. CASE ~key
  <2>1. PinInput(s) = [s EXCEPT !.button = FALSE, !.pinInput = FALSE] BY <1>3 DEF PinInput
  <2> QED BY <2>1, <1>p
<1> QED BY <1>1, <1>2, <1>3

LEMMA EnableIs ==
  ASSUME NEW s \in Devices, s.role = "STARTED", ~s.advEnabled
  PROVE  AppStep(s, AdvertEnable(s), s.role, TRUE, TRUE, s.adState, s.adv, s.gapq, s.roleq, s.interval)
<1> DEFINE t == [s EXCEPT !.advEnabled = TRUE]
           u == [t EXCEPT !.startEvt = TRUE]
<1>1. AdvertEnable(s) = u BY DEF AdvertEnable
<1>2. RoleStep(s, t, s.role, TRUE, s.startEvt, s.batt, s.gapq, s.roleq, s.evts) BY EnabledRoleIs
<1> HIDE DEF t
<1>3. t \in Devices BY <1>2 DEF RoleStep, SameAir
<1>4. RoleStep(t, u, t.role, t.advEnabled, TRUE, t.batt, t.gapq, t.roleq, t.evts)
  BY <1>3, StartEvtIs
<1> HIDE DEF u
<1> QED BY <1>1, <1>2, <1>4 DEF RoleStep, SameAir, AppStep

\* A device in which the application's handler is at its end.
Done(s) == [Handled(s) EXCEPT !.running = "none"]

LEMMA StopIs ==
  ASSUME NEW s, NEW h \in Devices
  PROVE  LET t == [h EXCEPT !.running = "none"] IN
         /\ AppStep(h, t, h.role, h.advEnabled, h.startEvt, h.adState, h.adv, h.gapq, h.roleq, h.interval)
         /\ t.running = "none"
BY DEF AppStep, Devices

LEMMA AnewPhases ==
  ASSUME NEW s \in Devices, NEW t, NEW f, Phases(s, f), ResetOnce(s), s.running # "none",
         s.advEnabled, Anew(s, t), t.running = "none"
  PROVE  Phases(t, f) /\ ResetOnce(t) /\ s.role # "CONNECTED"
<1>1. ~Booting(s) /\ ~Started(s) /\ ~Restarts(s, f) /\ ~Starting(s, f) /\ ~Ending(s, f) /\ ~Linked(s)
  BY DEF Booting, Started, Restarts, Starting, Ending, Linked
<1>2. s.role # "STARTED" /\ s.role # "CONNECTED"
  BY <1>1 DEF Phases, OnAir, Stopped
<1>3. ResetOnce(t) BY <1>2 DEF ResetOnce, Anew, AppStep
<1>4. CASE Stopped(s, f)
  <2>1. Queues(s, <<>>, <<>>) /\ s.adState = "null" /\ Free(s) BY <1>4 DEF Stopped
  <2>2. Restarts(t, f)
    BY <1>4, <2>1 DEF Restarts, Stopped, Anew, AppStep, Free, Queues, Waits
  <2> QED BY <1>2, <1>3, <2>2 DEF Phases
<1>5. CASE OnAir(s, f)
  <2>1. Queues(s, <<>>, <<>>) BY <1>5 DEF OnAir
  <2>2. <<NameSet>> # <<>> /\ <<NameDone>> # <<>> BY OneLess
  <2>3. \/ Air(s, f, <<>>, <<>>, "advertising")
        \/ Air(s, f, <<NameSet>>, <<>>, "advertising")
        \/ Air(s, f, <<>>, <<NameDone>>, "advertising")
    BY <1>5 DEF OnAir
  <2>4. \/ s.adv /\ Free(s) /\ s.adState = "advertising"
        \/ s.llEvt # "none" /\ LinkAhead(s, f, <<>>, <<>>, "advertising")
    <3>1. CASE s.llEvt = "none"
      <4>0. PICK g \in {<<>>, <<NameSet>>}, r \in {<<>>, <<NameDone>>} : Air(s, f, g, r, "advertising")
        BY <2>3
      <4>1. (g = <<>> \/ \E y : g = <<y>>) /\ (r = <<>> \/ \E y : r = <<y>>) OBVIOUS
      <4>2. s.adv /\ Free(s) BY <2>1, <3>1, <4>0, <4>1, AirEmpty DEF Queues
      <4> QED BY <4>0, <4>2 DEF Air
    <3>2. CASE s.llEvt # "none"
      <4>1. \E g \in {<<>>, <<NameSet>>}, r \in {<<>>, <<NameDone>>} :
              LinkAhead(s, f, g, r, "advertising")
        BY <2>3, <3>2 DEF Air, LinkComes, LinkSeen, Free
      <4> QED BY <2>1, <2>2, <3>2, <4>1 DEF LinkAhead, Queues
    <3> QED BY <3>1, <3>2
  <2>5. Append(<<>>, Enabled) = <<Enabled>> BY OneMore
  <2>6. s.adState # "null" BY <2>4 DEF LinkAhead
  <2>7. /\ t.role = "WAITING_AFTER_TIMEOUT" /\ t.advEnabled /\ t.startEvt /\ t.adState = "ending"
        /\ ~t.adv /\ Queues(t, <<Enabled>>, <<>>) /\ ~t.batt /\ t.link = s.link
        /\ t.linked = s.linked /\ t.llEvt = s.llEvt
    BY <1>5, <2>1, <2>5, <2>6 DEF Anew, AppStep, OnAir, Queues
  <2>8. CASE Free(s)
    <3>1. Free(t) BY <2>7, <2>8 DEF Free
    <3>2. Ending(t, f) BY <2>7, <3>1 DEF Ending
    <3> QED BY <1>2, <1>3, <3>2 DEF Phases
  <2>9. CASE s.llEvt # "none" /\ LinkAhead(s, f, <<>>, <<>>, "advertising")
    <3>1. LinkAhead(t, f, <<Enabled>>, <<>>, "ending") BY <2>7, <2>9 DEF LinkAhead, Queues
    <3>2. Ending(t, f) BY <2>7, <3>1 DEF Ending, LinkComes
    <3> QED BY <1>2, <1>3, <3>2 DEF Phases
  <2> QED BY <2>4, <2>8, <2>9
<1> QED BY <1>1, <1>4, <1>5 DEF Phases

\* A new name is sent to the host.
LEMMA NamePhases ==
  ASSUME NEW s \in Devices, NEW t, NEW f, Phases(s, f), s.running = "CMDDATA",
         AppStep(s, t, s.role, s.advEnabled, s.startEvt, s.adState, s.adv, Append(s.gapq, NameSet),
                 s.roleq, s.interval),
         t.running = "none"
  PROVE  Phases(t, f)
<1>a. Append(<<>>, NameSet) = <<NameSet>> BY OneMore
<1>1. CASE Started(s)
  <2>1. Queues(s, <<>>, <<>>) /\ ~s.startEvt BY <1>1 DEF Started
  <2>2. Started(t) BY <1>a, <1>1, <2>1 DEF Started, AppStep, Queues, Free
  <2> QED BY <2>2 DEF Phases
<1>2. CASE Stopped(s, f)
  <2>1. Queues(s, <<>>, <<>>) BY <1>2 DEF Stopped
  <2>2. Stopped(t, f) BY <1>a, <1>2, <2>1 DEF Stopped, AppStep, Queues, Free
  <2> QED BY <2>2 DEF Phases
<1>3. CASE Linked(s)
  <2>1. CASE s.link /\ s.linked
    <3>1. Queues(s, <<>>, <<>>) BY <1>3, <2>1 DEF Linked
    <3>2. Linked(t) BY <1>a, <1>3, <2>1, <3>1 DEF Linked, AppStep, Queues
    <3> QED BY <3>2 DEF Phases
  <2>2. CASE ~s.link
    <3>1. PICK x \in Reasons : s.linked /\ Queues(s, <<Msg("disc", x)>>, <<>>)
      BY <1>3, <2>2 DEF Linked
    <3>2. t.gapq = <<Msg("disc", x), NameSet>> BY <3>1, OneMore DEF AppStep, Queues
    <3>3. Linked(t) BY <1>3, <2>2, <3>1, <3>2 DEF Linked, AppStep, Queues
    <3> QED BY <3>3 DEF Phases
  <2> QED BY <1>3, <2>1, <2>2 DEF Linked
<1>4. CASE OnAir(s, f)
  <2>1. Queues(s, <<>>, <<>>) BY <1>4 DEF OnAir
  <2>2. <<NameSet>> # <<>> /\ <<NameDone>> # <<>> BY OneLess
  <2>4. \/ s.adv /\ Free(s) /\ s.adState = "advertising"
        \/ ~s.adv /\ s.llEvt # "none" /\ LinkAhead(s, f, <<>>, <<>>, "advertising")
    <3>1. CASE s.llEvt = "none"
      <4>0. PICK g \in {<<>>, <<NameSet>>}, r \in {<<>>, <<NameDone>>} : Air(s, f, g, r, "advertising")
        BY <1>4 DEF OnAir
      <4>1. (g = <<>> \/ \E y : g = <<y>>) /\ (r = <<>> \/ \E y : r = <<y>>) OBVIOUS
      <4>2. s.adv /\ Free(s) BY <2>1, <3>1, <4>0, <4>1, AirEmpty DEF Queues
      <4> QED BY <4>0, <4>2 DEF Air
    <3>2. CASE s.llEvt # "none"
      <4>1. \E g \in {<<>>, <<NameSet>>}, r \in {<<>>, <<NameDone>>} :
              ~s.adv /\ LinkAhead(s, f, g, r, "advertising")
        BY <1>4, <3>2 DEF OnAir, Air, LinkComes, LinkSeen, Free
      <4> QED BY <2>1, <2>2, <3>2, <4>1 DEF LinkAhead, Queues
    <3> QED BY <3>1, <3>2
  <2>5. /\ t.gapq = <<NameSet>> /\ t.roleq = <<>> /\ t.adv = s.adv /\ t.link = s.link
        /\ t.linked = s.linked /\ t.llEvt = s.llEvt /\ t.adState = s.adState
    BY <1>a, <2>1 DEF AppStep, Queues
  <2>6. Air(t, f, <<NameSet>>, <<>>, "advertising")
    <3>1. CASE s.adv /\ Free(s) /\ s.adState = "advertising"
      BY <2>5, <3>1 DEF Air, Free, Queues
    <3>2. CASE ~s.adv /\ s.llEvt # "none" /\ LinkAhead(s, f, <<>>, <<>>, "advertising")
      <4>1. LinkAhead(t, f, <<NameSet>>, <<>>, "advertising") BY <2>5, <3>2 DEF LinkAhead
      <4> QED BY <2>5, <3>2, <4>1 DEF Air, LinkComes
    <3> QED BY <2>4, <3>1, <3>2
  <2>7. OnAir(t, f) BY <1>4, <2>6 DEF OnAir, AppStep
  <2> QED BY <2>7 DEF Phases
<1>5. ~Booting(s) /\ ~Restarts(s, f) /\ ~Starting(s, f) /\ ~Ending(s, f)
  BY DEF Booting, Restarts, Starting, Ending
<1> QED BY <1>1, <1>2, <1>3, <1>4, <1>5 DEF Phases

LEMMA AppPhases ==
  ASSUME NEW s \in Devices, NEW f, Phases(s, f), ResetOnce(s), s.running # "none", key \in BOOLEAN
  PROVE  /\ Phases(Done(s), f) /\ ResetOnce(Done(s))
         /\ s.role = "CONNECTED" => Done(s).role = "CONNECTED"
<1> DEFINE h == Handled(s)
           t == Done(s)
<1>i. ASSUME Idles(s, h)
      PROVE  Phases(t, f) /\ ResetOnce(t) /\ t.role = s.role
  <2>1. h \in Devices BY <1>i DEF Idles, AppStep
  <2>2. /\ AppStep(h, t, h.role, h.advEnabled, h.startEvt, h.adState, h.adv, h.gapq, h.roleq, h.interval)
        /\ t.running = "none"
    BY <2>1, StopIs DEF Done
  <2> HIDE DEF h, t
  <2>3. SameWorld(s, t) /\ t.evts = s.evts BY <1>i, <2>2 DEF Idles, AppStep, SameWorld
  <2>4. Phases(t, f)
    <3>1. Booting(s) => t.evts \subseteq {"START_DEVICE", "PIN_INPUT"} BY <2>3 DEF Booting
    <3> QED BY <2>2, <2>3, <3>1, WorldPhases
  <2>5. ResetOnce(t) BY <2>2, <2>3 DEF ResetOnce, SameWorld
  <2> QED BY <2>3, <2>4, <2>5 DEF SameWorld
<1>a. ASSUME s.advEnabled, Anew(s, h)
      PROVE  Phases(t, f) /\ ResetOnce(t) /\ s.role # "CONNECTED"
  <2>1. h \in Devices BY <1>a DEF Anew, AppStep
  <2>2. /\ AppStep(h, t, h.role, h.advEnabled, h.startEvt, h.adState, h.adv, h.gapq, h.roleq, h.interval)
        /\ t.running = "none"
    BY <2>1, StopIs DEF Done
  <2> HIDE DEF h, t
  <2>3. Anew(s, t) BY <1>a, <2>2 DEF Anew, AppStep
  <2> QED BY <1>a, <2>2, <2>3, AnewPhases
<1>g. ASSUME NEW role, NEW en, NEW ev, NEW ad, NEW adv, NEW g, NEW r, NEW i,
             AppStep(s, h, role, en, ev, ad, adv, g, r, i)
      PROVE  AppStep(s, t, role, en, ev, ad, adv, g, r, i) /\ t.running = "none"
  <2>1. h \in Devices BY <1>g DEF AppStep
  <2>2. /\ AppStep(h, t, h.role, h.advEnabled, h.startEvt, h.adState, h.adv, h.gapq, h.roleq, h.interval)
        /\ t.running = "none"
    BY <2>1, StopIs DEF Done
  <2> HIDE DEF h, t
  <2> QED BY <1>g, <2>2 DEF AppStep
<1>1. CASE s.running = "ADV_BROADCAST"
  <2>1. h = AdvMeasure(s) BY <1>1 DEF Handled
  <2> HIDE DEF h, t
  <2>2. Idles(s, h) \/ (s.advEnabled /\ Anew(s, h)) BY <2>1, MeasureIs
  <2> QED BY <1>a, <1>i, <2>2 DEF h, t
<1>2. CASE s.running = "PIN_INPUT"
  <2>1. h = PinInput(s) BY <1>2 DEF Handled
  <2> HIDE DEF h, t
  <2>2. Idles(s, h) \/ (s.advEnabled /\ Anew(s, h)) BY <2>1, PinIs
  <2> QED BY <1>a, <1>i, <2>2 DEF h, t
<1>3. CASE s.running = "RESET_ADV"
  <2>1. h = AdvertEnable(s) BY <1>3 DEF Handled
  <2>2. s.role = "STARTED" /\ ~s.advEnabled /\ "RESET_ADV" \notin s.evts BY <1>3 DEF ResetOnce
  <2>3. AppStep(s, h, s.role, TRUE, TRUE, s.adState, s.adv, s.gapq, s.roleq, s.interval)
    BY <2>1, <2>2, EnableIs
  <2>4. /\ AppStep(s, t, s.role, TRUE, TRUE, s.adState, s.adv, s.gapq, s.roleq, s.interval)
        /\ t.running = "none"
    BY <1>g, <2>3
  <2>5. Started(s)
    BY <2>2 DEF Phases, Booting, Restarts, Starting, OnAir, Ending, Linked, Stopped
  <2>6. Queues(s, <<>>, <<>>) BY <2>5 DEF Started
  <2> HIDE DEF t
  <2>7. Restarts(t, f) BY <2>4, <2>5, <2>6 DEF Restarts, Started, AppStep, Queues, Free, Waits
  <2>8. ResetOnce(t) BY <2>2, <2>4 DEF ResetOnce, AppStep
  <2> QED BY <2>2, <2>7, <2>8 DEF Phases, t
<1>4. CASE s.running = "START_DEVICE" /\ s.role = "INIT"
  <2>1. h = ToRole(s, "init_done", "ok") BY <1>4 DEF Handled, StartDevice
  <2>2. HostStep(s, h, s.adv, s.adState, s.linked, s.gapq, Append(s.roleq, Msg("init_done", "ok")))
    BY <2>1, ToRoleIs, MsgTypes
  <2> HIDE DEF h
  <2>3. AppStep(s, h, s.role, s.advEnabled, s.startEvt, s.adState, s.adv, s.gapq,
                Append(s.roleq, Msg("init_done", "ok")), s.interval)
    BY <2>2 DEF HostStep, SameRole, AppStep
  <2>4. /\ AppStep(s, t, s.role, s.advEnabled, s.startEvt, s.adState, s.adv, s.gapq,
                   Append(s.roleq, Msg("init_done", "ok")), s.interval)
        /\ t.running = "none"
    BY <1>g, <2>3 DEF h
  <2>5. Booting(s)
    BY <1>4 DEF Phases, Started, Restarts, Starting, OnAir, Ending, Linked, Stopped, Waits
  <2>6. Queues(s, <<>>, <<>>) BY <1>4, <2>5 DEF Booting
  <2> HIDE DEF t
  <2>7. t.roleq = <<Msg("init_done", "ok")>> BY <2>4, <2>6, OneMore DEF AppStep, Queues
  <2>8. Booting(t) BY <2>4, <2>5, <2>6, <2>7 DEF Booting, AppStep, Queues, Free
  <2>9. ResetOnce(t) BY <1>4, <2>4 DEF ResetOnce, AppStep
  <2> QED BY <1>4, <2>8, <2>9 DEF Phases, t
<1>5. CASE s.running = "START_DEVICE" /\ s.role # "INIT"
  <2>1. h = s BY <1>5 DEF Handled, StartDevice
  <2>2. Idles(s, h) BY <2>1 DEF Idles, AppStep
  <2> HIDE DEF h, t
  <2> QED BY <1>i, <2>2 DEF h, t
<1>7. CASE s.running = "CMDDATA" /\ s.cmd # "reboot"
  <2>1. h = ToGap(s, "scan_rsp", "ok") BY <1>7 DEF Handled, Command
  <2>2. HostStep(s, h, s.adv, s.adState, s.linked, Append(s.gapq, NameSet), s.roleq)
    BY <2>1, ToGapIs, MsgTypes DEF NameSet
  <2> HIDE DEF h
  <2>3. AppStep(s, h, s.role, s.advEnabled, s.startEvt, s.adState, s.adv,
                Append(s.gapq, NameSet), s.roleq, s.interval)
    BY <2>2 DEF HostStep, SameRole, AppStep
  <2>4. /\ AppStep(s, t, s.role, s.advEnabled, s.startEvt, s.adState, s.adv,
                   Append(s.gapq, NameSet), s.roleq, s.interval)
        /\ t.running = "none"
    BY <1>g, <2>3 DEF h
  <2> HIDE DEF t
  <2>5. Phases(t, f) BY <1>7, <2>4, NamePhases
  <2>6. ResetOnce(t) BY <2>4 DEF ResetOnce, AppStep
  <2>7. t.role = s.role BY <2>4 DEF AppStep
  <2> QED BY <2>5, <2>6, <2>7 DEF t
<1>6. CASE s.running = "CMDDATA" /\ s.cmd = "reboot"
  <2>1. h = [s EXCEPT !.reboot = TRUE] BY <1>6 DEF Handled, Command
  <2>2. h.evts = s.evts /\ SameWorld(s, h) BY <2>1 DEF SameWorld, Devices
  <2> HIDE DEF h
  <2>3. h \in Devices BY <2>2 DEF SameWorld
  <2>4. /\ AppStep(h, t, h.role, h.advEnabled, h.startEvt, h.adState, h.adv, h.gapq, h.roleq, h.interval)
        /\ t.running = "none"
    BY <2>3, StopIs DEF Done, h
  <2> HIDE DEF t
  <2>5. SameWorld(s, t) /\ t.evts = s.evts BY <2>2, <2>4 DEF AppStep, SameWorld
  <2>6. Phases(t, f)
    <3>1. Booting(s) => t.evts \subseteq {"START_DEVICE", "PIN_INPUT"} BY <2>5 DEF Booting
    <3> QED BY <2>4, <2>5, <3>1, WorldPhases
  <2>7. ResetOnce(t) BY <2>4, <2>5 DEF ResetOnce, SameWorld
  <2> QED BY <2>5, <2>6, <2>7 DEF SameWorld, t
<1>8. s.running \in AppEvents BY DEF Devices
<1> QED BY <1>1, <1>2, <1>3, <1>4, <1>5, <1>6, <1>7, <1>8 DEF AppEvents

\* The scheduler gives the application an event.
LEMMA StartsPhases ==
  ASSUME NEW s \in Devices, NEW t, NEW f, NEW e \in s.evts, Phases(s, f), ResetOnce(s),
         SameWorld(s, t), t.evts = s.evts \ {e}, t.running = e,
         s.gapq = <<>>, s.roleq = <<>>, ~s.startEvt, s.llEvt = "none"
  PROVE  Phases(t, f) /\ ResetOnce(t)
<1>1. Booting(s) => t.evts \subseteq {"START_DEVICE", "PIN_INPUT"}
                    /\ t.running \in {"none", "START_DEVICE", "PIN_INPUT"}
  BY DEF Booting
<1>2. Phases(t, f) BY <1>1, WorldPhases
<1>3. ResetOnce(t) BY DEF ResetOnce, SameWorld
<1> QED BY <1>2, <1>3
-----------------------------------------------------------------------------
(* The whole device.                                                       *)

LEMMA BootPhases == \A f : Phases(Boot, f) /\ ResetOnce(Boot) /\ ~Boot.reboot
<1>1. Booting(Boot) /\ ResetOnce(Boot) /\ ~Boot.reboot
  BY DEF Booting, ResetOnce, Boot, Free, Queues
<1> QED BY <1>1 DEF Phases

LEMMA InitRole == Init => RoleInv
BY BootPhases DEF Init, RoleInv, RebootInv

LEMMA TaskRole ==
  ASSUME GInv, RoleInv, Task
  PROVE  RoleInv'
<1> DEFINE f == past.failed
<1>0. /\ d \in Devices /\ key \in BOOLEAN /\ Phases(d, f) /\ ResetOnce(d) /\ RebootInv
      /\ past \in [ended : Reasons \cup {"none"}, late : BOOLEAN, failed : BOOLEAN]
  BY DEF GInv, TypeOK, RoleInv
<1>1. CASE d.running = "none" /\ LLTask
  <2>1. /\ d' = [ToGap(d, "conn", Status(d.llEvt = "created")) EXCEPT !.llEvt = "none"]
        /\ past' = past /\ d.llEvt # "none"
    BY <1>1 DEF LLTask, LLReady
  <2>2. /\ SameRole(d, d') /\ d'.adv = d.adv /\ d'.adState = d.adState /\ d'.linked = d.linked
        /\ d'.link = d.link /\ d'.roleq = d.roleq /\ d'.llEvt = "none"
        /\ d.llEvt = "created" => d'.gapq = Append(d.gapq, Conn)
        /\ d.llEvt = "bad" => d'.gapq = Append(d.gapq, NoConn)
    BY <1>0, <2>1, LLIs
  <2>a. d.running = "none" /\ d.llEvt # "none" BY <1>1, <2>1
  <2>3. Phases(d', f) /\ ResetOnce(d') BY <1>0, <2>a, <2>2, LLPhases
  <2>4. d'.role = d.role /\ d'.reboot = d.reboot BY <2>2 DEF SameRole
  <2> QED BY <1>0, <2>1, <2>3, <2>4 DEF RoleInv, RebootInv
<1>2. CASE d.running = "none" /\ GapTask
  <2>1. d' = HostNext(d) /\ past' = past /\ d.llEvt = "none" /\ d.gapq # <<>>
    BY <1>2 DEF GapTask, GapReady, LLReady, HostNext
  <2>2. SameRole(d, d') /\ Phases(d', f) BY <1>0, <1>2, <2>1, HostPhases
  <2>3. ResetOnce(d') BY <1>0, <2>2 DEF ResetOnce, SameRole
  <2>4. d'.role = d.role /\ d'.reboot = d.reboot BY <2>2 DEF SameRole
  <2> QED BY <1>0, <2>1, <2>2, <2>3, <2>4 DEF RoleInv, RebootInv
<1>3. CASE d.running = "none" /\ RoleTask /\ d.roleq # <<>>
  <2>1. d' = RoleNext(d) /\ d.llEvt = "none" /\ d.gapq = <<>>
    BY <1>3 DEF RoleTask, RoleReady, LLReady, RoleNext
  <2>2. past' = IF d' = Boot THEN NoPast
                ELSE IF Head(d.roleq).op = "term" THEN [past EXCEPT !.ended = Head(d.roleq).res]
                ELSE past
    BY <1>3 DEF RoleTask
  <2>3. \/ Goes(d, d', f) /\ Head(d.roleq).op # "term"
        \/ /\ Phases(d', f) /\ ResetOnce(d')
           /\ Head(d.roleq).op = "term" /\ Head(d.roleq).res \in Reasons
           /\ d' = Boot \/ Head(d.roleq).res = "timeout" \/ ~d'.reboot
    BY <1>0, <1>3, <2>1, RolePhases
  <2>4. CASE Goes(d, d', f) /\ Head(d.roleq).op # "term"
    <3>1. d' # Boot BY <2>4 DEF Goes, Boot
    <3>2. past' = past BY <2>2, <2>4, <3>1
    <3> QED BY <1>0, <2>4, <3>2 DEF Goes, RoleInv, RebootInv
  <2>5. CASE d' = Boot
    <3>1. past' = NoPast BY <2>2, <2>5
    <3> QED BY <2>5, <3>1, BootPhases DEF RoleInv, RebootInv
  <2>6. CASE /\ Phases(d', f) /\ ResetOnce(d') /\ d' # Boot
             /\ Head(d.roleq).op = "term" /\ Head(d.roleq).res \in Reasons
             /\ Head(d.roleq).res = "timeout" \/ ~d'.reboot
    <3>1. past' = [past EXCEPT !.ended = Head(d.roleq).res] BY <2>2, <2>6
    <3>2. past'.failed = f /\ past'.ended = Head(d.roleq).res BY <1>0, <3>1
    <3> QED BY <2>6, <3>2 DEF RoleInv, RebootInv
  <2> QED BY <2>3, <2>4, <2>5, <2>6
<1>4. CASE d.running = "none" /\ RoleTask /\ d.roleq = <<>>
  <2>1. /\ d' = StartAdvertising([d EXCEPT !.startEvt = FALSE])
        /\ d.llEvt = "none" /\ d.gapq = <<>> /\ d.startEvt
    BY <1>4 DEF RoleTask, RoleReady, LLReady
  <2>2. Goes(d, d', f) BY <1>0, <1>4, <2>1, RoleRestarts
  <2>3. d' # Boot BY <2>2 DEF Goes, Boot
  <2>4. past' = past BY <1>4, <2>3 DEF RoleTask
  <2> QED BY <1>0, <2>2, <2>4 DEF Goes, RoleInv, RebootInv
<1>5. CASE d.running = "none" /\ AppStarts
  <2>1. PICK e \in d.evts : d' = [d EXCEPT !.evts = @ \ {e}, !.running = e]
    BY <1>5 DEF AppStarts
  <2>2. /\ d.gapq = <<>> /\ d.roleq = <<>> /\ ~d.startEvt /\ d.llEvt = "none" /\ past' = past
    BY <1>5 DEF AppStarts, AppReady, LLReady
  <2>3. e \in AppEvents /\ d.evts \ {e} \in SUBSET AppEvents BY <1>0 DEF Devices
  <2>4. SameWorld(d, d') /\ d'.evts = d.evts \ {e} /\ d'.running = e /\ d'.reboot = d.reboot
    BY <1>0, <2>1, <2>3 DEF SameWorld, Devices
  <2>5. Phases(d', f) /\ ResetOnce(d') BY <1>0, <2>2, <2>4, StartsPhases
  <2>6. d'.role = d.role BY <2>4 DEF SameWorld
  <2> QED BY <1>0, <2>2, <2>4, <2>5, <2>6 DEF RoleInv, RebootInv
<1>6. CASE d.running # "none" /\ AppEnds
  <2> DEFINE b == past.late \/ (d'.reboot /\ ~d.reboot /\ d.role # "CONNECTED")
  <2>1. d' = Done(d) /\ past' = [past EXCEPT !.late = b] BY <1>6 DEF AppEnds, Done
  <2>2. Phases(d', f) /\ ResetOnce(d') /\ (d.role = "CONNECTED" => d'.role = "CONNECTED")
    BY <1>0, <1>6, <2>1, AppPhases
  <2> HIDE DEF b
  <2>3. past'.failed = f /\ past'.ended = past.ended /\ past'.late = b BY <1>0, <2>1
  <2> QED BY <1>0, <2>2, <2>3 DEF RoleInv, RebootInv, b
<1> QED BY <1>1, <1>2, <1>3, <1>4, <1>5, <1>6 DEF Task

LEMMA EnvironmentRole ==
  ASSUME GInv, RoleInv, AdvEventDone \/ Environment
  PROVE  RoleInv'
<1> DEFINE f == past.failed
<1>0. /\ d \in Devices /\ key \in BOOLEAN /\ Phases(d, f) /\ ResetOnce(d) /\ RebootInv
      /\ past \in [ended : Reasons \cup {"none"}, late : BOOLEAN, failed : BOOLEAN]
  BY DEF GInv, TypeOK, RoleInv
<1>e. ASSUME NEW e \in AppEvents, e # "RESET_ADV", past' = past,
             Booting(d) => e = "PIN_INPUT",
             SameWorld(d, d'), d'.evts = d.evts \cup {e}, d'.running = d.running, d'.reboot = d.reboot
      PROVE  RoleInv'
  <2>1. Booting(d) => /\ d'.evts \subseteq {"START_DEVICE", "PIN_INPUT"}
                      /\ d'.running \in {"none", "START_DEVICE", "PIN_INPUT"}
    BY <1>e DEF Booting
  <2>2. Phases(d', f) BY <1>0, <1>e, <2>1, WorldPhases
  <2>3. ResetOnce(d') BY <1>0, <1>e DEF ResetOnce, SameWorld
  <2>4. d'.role = d.role BY <1>e DEF SameWorld
  <2> QED BY <1>0, <1>e, <2>2, <2>3, <2>4 DEF RoleInv, RebootInv
<1>1. CASE AdvEventDone
  <2>1. d.evts \cup {"ADV_BROADCAST"} \in SUBSET AppEvents BY <1>0 DEF Devices, AppEvents
  <2>2. /\ d' = [d EXCEPT !.evts = d.evts \cup {"ADV_BROADCAST"}] /\ past' = past /\ d.adv
    BY <1>1 DEF AdvEventDone
  <2>3. /\ SameWorld(d, d') /\ d'.evts = d.evts \cup {"ADV_BROADCAST"}
        /\ d'.running = d.running /\ d'.reboot = d.reboot
    BY <1>0, <2>1, <2>2 DEF SameWorld, Devices
  <2>4. ~Booting(d) BY <2>2 DEF Booting
  <2> QED BY <1>e, <2>2, <2>3, <2>4 DEF AppEvents
<1>2. CASE KeyChanges
  <2>1. d.evts \cup {"PIN_INPUT"} \in SUBSET AppEvents BY <1>0 DEF Devices, AppEvents
  <2>2. d' = [d EXCEPT !.evts = d.evts \cup {"PIN_INPUT"}] /\ past' = past
    BY <1>2 DEF KeyChanges
  <2>3. /\ SameWorld(d, d') /\ d'.evts = d.evts \cup {"PIN_INPUT"}
        /\ d'.running = d.running /\ d'.reboot = d.reboot
    BY <1>0, <2>1, <2>2 DEF SameWorld, Devices
  <2> QED BY <1>e, <2>2, <2>3 DEF AppEvents
<1>3. ASSUME NEW c \in Commands, HostWrites(c) PROVE RoleInv'
  <2>1. d.evts \cup {"CMDDATA"} \in SUBSET AppEvents BY <1>0 DEF Devices, AppEvents
  <2>2. /\ d' = [d EXCEPT !.cmd = c, !.evts = d.evts \cup {"CMDDATA"}]
        /\ past' = past /\ d.linked
    BY <1>3 DEF HostWrites
  <2>3. /\ SameWorld(d, d') /\ d'.evts = d.evts \cup {"CMDDATA"}
        /\ d'.running = d.running /\ d'.reboot = d.reboot
    BY <1>0, <2>1, <2>2 DEF SameWorld, Devices
  <2>4. ~Booting(d) BY <2>2 DEF Booting, Free
  <2> QED BY <1>e, <2>2, <2>3, <2>4 DEF AppEvents
<1>4. ASSUME NEW res \in {"created", "bad"}, Connect(res) PROVE RoleInv'
  <2> DEFINE b == res = "created"
             g == f \/ res = "bad"
             t == [d EXCEPT !.adv = FALSE]
             u == [t EXCEPT !.link = b]
             v == [u EXCEPT !.llEvt = res]
  <2>1. d' = v /\ past' = [past EXCEPT !.failed = g] /\ d.adv BY <1>4 DEF Connect
  <2>b. b \in BOOLEAN /\ g \in BOOLEAN /\ f \in BOOLEAN /\ (g <=> f \/ res = "bad") BY <1>0
  <2>2. past'.failed = g /\ past'.ended = past.ended /\ past'.late = past.late
    <3> HIDE DEF g
    <3> QED BY <1>0, <2>1, <2>b
  <2>3. HostStep(d, t, FALSE, d.adState, d.linked, d.gapq, d.roleq)
    BY <1>0 DEF HostStep, SameRole, Devices
  <2> HIDE DEF t, b, g
  <2>4. t \in Devices BY <2>3 DEF HostStep, SameRole
  <2>5. /\ SameRole(t, u) /\ u.link = b /\ u.llEvt = t.llEvt /\ u.adv = t.adv
        /\ u.adState = t.adState /\ u.linked = t.linked /\ u.gapq = t.gapq /\ u.roleq = t.roleq
    BY <2>4, <2>b DEF SameRole, Devices
  <2> HIDE DEF u
  <2>6. u \in Devices BY <2>5 DEF SameRole
  <2>7. /\ SameRole(u, v) /\ v.link = u.link /\ v.llEvt = res /\ v.adv = u.adv
        /\ v.adState = u.adState /\ v.linked = u.linked /\ v.gapq = u.gapq /\ v.roleq = u.roleq
    BY <2>6 DEF SameRole, Devices
  <2> HIDE DEF v
  <2>8. /\ SameRole(d, d') /\ ~d'.adv /\ d'.adState = d.adState /\ d'.linked = d.linked
        /\ d'.link = (res = "created") /\ d'.roleq = d.roleq /\ d'.llEvt = res /\ d'.gapq = d.gapq
    BY <2>1, <2>3, <2>5, <2>7 DEF HostStep, SameRole, b
  <2>9. Phases(d', g) /\ ResetOnce(d') BY <1>0, <2>1, <2>8, <2>b, ConnectPhases
  <2>10. d'.role = d.role /\ d'.reboot = d.reboot BY <2>8 DEF SameRole
  <2> QED BY <1>0, <2>2, <2>9, <2>10 DEF RoleInv, RebootInv
<1>5. ASSUME NEW x \in Reasons, LinkEnds(x) PROVE RoleInv'
  <2> DEFINE t == [d EXCEPT !.link = FALSE]
  <2>1. d' = ToGap(t, "disc", x) /\ past' = past /\ d.link /\ d.llEvt = "none"
    BY <1>5 DEF LinkEnds, LLReady
  <2>2. /\ SameRole(d, t) /\ ~t.link /\ t.llEvt = d.llEvt /\ t.adv = d.adv
        /\ t.adState = d.adState /\ t.linked = d.linked /\ t.gapq = d.gapq /\ t.roleq = d.roleq
    BY <1>0 DEF SameRole, Devices
  <2> HIDE DEF t
  <2>3. t \in Devices BY <2>2 DEF SameRole
  <2>4. HostStep(t, d', t.adv, t.adState, t.linked, Append(t.gapq, Msg("disc", x)), t.roleq)
    BY <2>1, <2>3, ToGapIs, MsgTypes
  <2>5. /\ SameRole(d, d') /\ ~d'.link /\ d'.llEvt = d.llEvt /\ d'.adv = d.adv
        /\ d'.adState = d.adState /\ d'.linked = d.linked
        /\ d'.gapq = Append(d.gapq, Msg("disc", x)) /\ d'.roleq = d.roleq
    BY <2>2, <2>4 DEF HostStep, SameRole
  <2>6. Phases(d', f) /\ ResetOnce(d') BY <1>0, <2>1, <2>5, LinkEndsPhases
  <2>7. d'.role = d.role /\ d'.reboot = d.reboot BY <2>5 DEF SameRole
  <2> QED BY <1>0, <2>1, <2>6, <2>7 DEF RoleInv, RebootInv
<1> QED BY <1>1, <1>2, <1>3, <1>4, <1>5 DEF Environment

LEMMA RoleInvInvariant == Spec => [](GInv /\ RoleInv)
<1>1. GInv /\ RoleInv /\ [Next]_vars => RoleInv'
  <2> SUFFICES ASSUME GInv, RoleInv, [Next]_vars PROVE RoleInv' OBVIOUS
  <2>1. CASE Task BY <2>1, TaskRole
  <2>2. CASE AdvEventDone \/ Environment BY <2>2, EnvironmentRole
  <2>3. CASE UNCHANGED vars BY <2>3 DEF vars, RoleInv, RebootInv
  <2> QED BY <2>1, <2>2, <2>3 DEF Next
<1> QED BY InitRole, GInvInvariant, <1>1, PTL DEF Spec
-----------------------------------------------------------------------------
(* What the phases say once nothing is under way.                          *)

LEMMA SettledPhases ==
  ASSUME NEW s, NEW f, Phases(s, f), s.running = "none", s.llEvt = "none",
         s.gapq = <<>>, s.roleq = <<>>, ~s.startEvt
  PROVE  \/ Booting(s) \/ Started(s) \/ Stopped(s, f)
         \/ Linked(s) /\ s.link /\ s.linked
         \/ OnAir(s, f) /\ s.adv /\ Free(s) /\ s.adState = "advertising"
<1>0. \A x : <<x>> # <<>> /\ \A y : <<x, y>> # <<>> BY OneLess
<1>1. ~Restarts(s, f) /\ ~Ending(s, f) BY DEF Restarts, Ending
<1>2. ~Starting(s, f)
  <2>1. SUFFICES ASSUME Starting(s, f) PROVE FALSE OBVIOUS
  <2>2. PICK g \in {<<>>, <<Enabled>>}, r \in {<<>>, <<Made>>},
             a \in {"set_mode", "advertising"} : Air(s, f, g, r, a) /\ g # r
    BY <1>0, <2>1 DEF Starting, Queues
  <2>3. (g = <<>> \/ \E y : g = <<y>>) /\ (r = <<>> \/ \E y : r = <<y>>) OBVIOUS
  <2> QED BY <2>2, <2>3, AirEmpty
<1>3. Linked(s) => s.link /\ s.linked BY <1>0 DEF Linked, Queues
<1>4. CASE OnAir(s, f)
  <2>1. PICK g \in {<<>>, <<NameSet>>}, r \in {<<>>, <<NameDone>>} : Air(s, f, g, r, "advertising")
    BY <1>4 DEF OnAir
  <2>2. (g = <<>> \/ \E y : g = <<y>>) /\ (r = <<>> \/ \E y : r = <<y>>) OBVIOUS
  <2>3. s.adv /\ Free(s) BY <2>1, <2>2, AirEmpty
  <2> QED BY <1>4, <2>1, <2>3 DEF Air
<1> QED BY <1>1, <1>2, <1>3, <1>4 DEF Phases

\* The role, the host and the link layer agree whenever they are idle, in
\* whatever order presses, bursts, connection requests, losses of links, new
\* names and orders to reboot came between the handlers (thb2_peripheral.c).
THEOREM RolesAgree == Spec => []RoleAgrees
<1>1. GInv /\ RoleInv => RoleAgrees
  <2> SUFFICES ASSUME GInv, RoleInv, Settled PROVE RoleAgrees BY DEF RoleAgrees
  <2>1. /\ Phases(d, past.failed) /\ d.running = "none" /\ d.llEvt = "none"
        /\ d.gapq = <<>> /\ d.roleq = <<>> /\ ~d.startEvt
    BY DEF RoleInv, Settled, LLReady, GapReady, RoleReady
  <2>2. \/ Booting(d) \/ Started(d) \/ Stopped(d, past.failed)
        \/ Linked(d) /\ d.link /\ d.linked
        \/ OnAir(d, past.failed) /\ d.adv /\ Free(d) /\ d.adState = "advertising"
    BY <2>1, SettledPhases
  <2>3. d \in Devices BY DEF GInv, TypeOK
  <2>4. CASE Booting(d) BY <2>3, <2>4 DEF Booting, RoleAgrees, Free, Devices
  <2>5. CASE Started(d) BY <2>3, <2>5 DEF Started, RoleAgrees, Free, Devices
  <2>6. CASE Stopped(d, past.failed) BY <2>3, <2>6 DEF Stopped, RoleAgrees, Free, Devices
  <2>7. CASE Linked(d) /\ d.link /\ d.linked BY <2>3, <2>7 DEF Linked, RoleAgrees, Devices
  <2>8. CASE OnAir(d, past.failed) /\ d.adv /\ Free(d) /\ d.adState = "advertising"
    BY <2>3, <2>8 DEF OnAir, RoleAgrees, Free, Devices
  <2> QED BY <2>2, <2>4, <2>5, <2>6, <2>7, <2>8
<1> QED BY <1>1, RoleInvInvariant, PTL

\* The role is in GAPROLE_ERROR only after a link that could not be made.
THEOREM OnlyFailedLinks == Spec => []OnlyFailedLinkStops
<1>1. RoleInv => OnlyFailedLinkStops
  <2> SUFFICES ASSUME RoleInv PROVE OnlyFailedLinkStops OBVIOUS
  <2>1. Phases(d, past.failed) BY DEF RoleInv
  <2> QED
    BY <2>1 DEF Phases, OnlyFailedLinkStops, Booting, Started, Restarts, Starting, OnAir, Ending,
                Linked, Stopped
<1> QED BY <1>1, RoleInvInvariant, PTL

\* The battery's timer runs exactly in a connection, also after a link that
\* was lost and not ended (gapProfileStateNotificationCB, thb2_main.c).
THEOREM BattTimerStops == Spec => []BattTimerInLink
<1>1. GInv /\ RoleInv => BattTimerInLink
  <2> SUFFICES ASSUME GInv, RoleInv, Settled PROVE BattTimerInLink BY DEF BattTimerInLink
  <2>1. /\ Phases(d, past.failed) /\ d.running = "none" /\ d.llEvt = "none"
        /\ d.gapq = <<>> /\ d.roleq = <<>> /\ ~d.startEvt
    BY DEF RoleInv, Settled, LLReady, GapReady, RoleReady
  <2>2. \/ Booting(d) \/ Started(d) \/ Stopped(d, past.failed)
        \/ Linked(d) /\ d.link /\ d.linked
        \/ OnAir(d, past.failed) /\ d.adv /\ Free(d) /\ d.adState = "advertising"
    BY <2>1, SettledPhases
  <2>3. d \in Devices BY DEF GInv, TypeOK
  <2> QED BY <2>2, <2>3 DEF BattTimerInLink, Booting, Started, Stopped, Linked, OnAir, Devices
<1> QED BY <1>1, RoleInvInvariant, PTL

\* An order to reboot that still stands without a connection came too late, or
\* the link was lost: the end of a link carries out every other one.
THEOREM RebootCaused == Spec => []RebootHasCause
<1>1. RoleInv => RebootHasCause BY DEF RoleInv, RebootInv, RebootHasCause
<1> QED BY <1>1, RoleInvInvariant, PTL
=============================================================================
