------------------------------- MODULE Logger -------------------------------
(***************************************************************************)
(* The measurement history of src/hdp16/source/logger.c: a ring of flash   *)
(* sectors, each with an id, a flag that is programmed to zero when the    *)
(* sector is full, and SecRecs records; and its readout, newest record     *)
(* first, by the notifications of wrk_notify() (sbp_profile.c).            *)
(*                                                                         *)
(* A record is the serial number of its measurement (0: erased flash).     *)
(* Everything runs in the application task, one event at a time; a power   *)
(* failure may fall between two flash primitives.  `job' is what the       *)
(* running event does next.                                                *)
(***************************************************************************)
EXTENDS Naturals, Sequences

CONSTANTS
  NumSecs,     \* MEMO_SEC_COUNT
  SecRecs,     \* MEMO_SEC_RECS
  Averaging,   \* cfg.averaging_measurements, not 0
  Requests,    \* the record counts clients ask for (CMD_ID_LOGGER)
  MaxSerial,   \* bound on records written
  MaxRequests, \* bound on requests
  MaxClears,   \* bound on CMD_ID_CLRLOG
  MaxCrashes   \* bound on power failures

ASSUME LoggerAssumption ==
  /\ NumSecs \in Nat \ {0, 1} /\ SecRecs \in Nat \ {0} /\ Averaging \in Nat \ {0}
  /\ Requests \subseteq Nat \ {0}
  /\ MaxSerial \in Nat /\ MaxRequests \in Nat /\ MaxClears \in Nat /\ MaxCrashes \in Nat

Secs    == 0 .. NumSecs - 1
Slots   == 1 .. SecRecs
Serials == 0 .. MaxSerial
Torn    == MaxSerial + 1  \* a record whose time was written and the rest was not

VARIABLES
  sec,     \* [Secs -> sectors]
  memo,    \* the open sector and the records in it
  rd,      \* rd_memo: `saved', cnt and cur
  summ,    \* measurements summed up for the next record
  job,
  timer,   \* WRK_NOTIFY_EVT is going to come
  client,  \* whether a reader is connected, the records it wants (0: none or
           \* no longer), and what it has received since its last request
  view,    \* the newest record at its request, 0 if the log was cleared since
  serial,  \* the last record written
  left     \* requests, clears and power failures left

flashVars == <<sec, memo>>
readVars  == <<rd, timer, client, view>>
vars == <<sec, memo, rd, summ, job, timer, client, view, serial, left>>

NoRecs      == [i \in Slots |-> 0]
BlankSec    == [id |-> FALSE, flg |-> "open", recs |-> NoRecs]
SectorTypes == [id : BOOLEAN, flg : {"open", "closed", "torn"}, recs : [Slots -> Serials \cup {Torn}]]
Places      == [sec : Secs, cnt : 0 .. SecRecs]
NoRead      == [saved |-> [sec |-> 0, cnt |-> 0], cnt |-> 0, cur |-> 0]
NoClient    == [on |-> FALSE, want |-> 0, recs |-> <<>>, end |-> FALSE]

Steps == {"boot", "idle", "write", "close", "erase", "ident", "clear", "notify"}
Job(step, s) == [step |-> step, sec |-> s]
Idle == Job("idle", 0)

TypeOK ==
  /\ sec \in [Secs -> SectorTypes]
  /\ memo \in Places
  /\ rd \in [saved : Places, cnt : Nat, cur : Nat]
  /\ summ \in 0 .. Averaging - 1
  /\ job \in [step : Steps, sec : Secs]
  /\ timer \in BOOLEAN
  /\ client \in [on : BOOLEAN, want : Nat, recs : Seq(Serials \cup {Torn}), end : BOOLEAN]
  /\ view \in Serials /\ serial \in Serials
  /\ left \in [reqs : 0 .. MaxRequests, clears : 0 .. MaxClears, crashes : 0 .. MaxCrashes]

Init ==
  /\ sec = [s \in Secs |-> BlankSec]
  /\ memo = [sec |-> 0, cnt |-> 0]
  /\ rd = NoRead /\ summ = 0
  /\ job = Job("boot", 0)
  /\ timer = FALSE /\ client = NoClient /\ view = 0 /\ serial = 0
  /\ left = [reqs |-> MaxRequests, clears |-> MaxClears, crashes |-> MaxCrashes]
-----------------------------------------------------------------------------
(* memo_init().                                                            *)

\* The first sector that has no id or is open, if there is one.
Wanted  == {s \in Secs : ~sec[s].id \/ sec[s].flg = "open"}
First   == CHOOSE s \in Wanted : \A t \in Wanted : s <= t
\* The records before the first erased one.
Used(s) == CHOOSE n \in 0 .. SecRecs :
             /\ \A i \in 1 .. n : sec[s].recs[i] # 0
             /\ n < SecRecs => sec[s].recs[n + 1] = 0

Boot ==
  /\ job.step = "boot"
  /\ IF Wanted = {} THEN job' = Job("erase", 0) /\ UNCHANGED memo
     ELSE IF ~sec[First].id THEN job' = Job("erase", First) /\ UNCHANGED memo
     ELSE IF Used(First) < SecRecs
     THEN job' = Idle /\ memo' = [sec |-> First, cnt |-> Used(First)]
     ELSE job' = Job("close", First) /\ UNCHANGED memo
  /\ UNCHANGED <<sec, readVars, summ, serial, left>>

NoWrap(s) == s + 1  \* mutant

\* test_next_memo_sec_addr().
NextSec(s) == (s + 1) % NumSecs

FlagForgotten ==  \* mutant
  /\ job.step = "close"
  /\ job' = Job("erase", NextSec(job.sec))
  /\ UNCHANGED <<flashVars, readVars, summ, serial, left>>

\* memo_sec_close(): the flag, then memo_sec_init() of the sector after it.
CloseSector ==
  /\ job.step = "close"
  /\ sec' = [sec EXCEPT ![job.sec].flg = "closed"]
  /\ job' = Job("erase", NextSec(job.sec))
  /\ UNCHANGED <<memo, readVars, summ, serial, left>>

EraseSkipped ==  \* mutant
  /\ job.step = "erase"
  /\ sec' = [sec EXCEPT ![job.sec].id = FALSE, ![job.sec].flg = "open"]
  /\ job' = Job("ident", job.sec)
  /\ UNCHANGED <<memo, readVars, summ, serial, left>>

EraseSector ==
  /\ job.step = "erase"
  /\ sec' = [sec EXCEPT ![job.sec] = BlankSec]
  /\ job' = Job("ident", job.sec)
  /\ UNCHANGED <<memo, readVars, summ, serial, left>>

WriteId ==
  /\ job.step = "ident"
  /\ sec' = [sec EXCEPT ![job.sec].id = TRUE]
  /\ memo' = [sec |-> job.sec, cnt |-> 0]
  /\ job' = Idle
  /\ UNCHANGED <<readVars, summ, serial, left>>
-----------------------------------------------------------------------------
(* write_memo() and clear_memo().                                          *)

\* Measurements are summed up, and every Averaging-th makes a record.  The bound:
\* at most a sector of records (409) is written in the course of a readout.
Measure ==
  /\ job = Idle /\ serial < MaxSerial
  /\ view # 0 /\ ~client.end => serial < view + SecRecs
  /\ IF summ + 1 < Averaging
     THEN summ' = summ + 1 /\ UNCHANGED job
     ELSE summ' = 0 /\ job' = Job("write", memo.sec)
  /\ UNCHANGED <<flashVars, readVars, serial, left>>

Slot == memo.cnt + 1
\* NOR flash: what is programmed over a record spoils it.
Put(r) == [sec EXCEPT ![memo.sec].recs[Slot] = IF @ = 0 THEN r ELSE Torn]

WriteRecord ==
  /\ job.step = "write"
  /\ sec' = Put(serial + 1)
  /\ serial' = serial + 1
  /\ IF memo.cnt >= SecRecs - 1
     THEN job' = Job("close", memo.sec) /\ UNCHANGED memo
     ELSE job' = Idle /\ memo' = [memo EXCEPT !.cnt = @ + 1]
  /\ UNCHANGED <<readVars, summ, left>>

\* The sectors after the first that have an id are erased, then the first is
\* initialised.
ClearMemo ==
  /\ job = Idle /\ left.clears > 0
  /\ left' = [left EXCEPT !.clears = @ - 1]
  /\ memo' = [memo EXCEPT !.cnt = 0]
  /\ job' = Job("clear", 1)
  /\ view' = 0
  /\ UNCHANGED <<sec, rd, timer, client, summ, serial>>

ClearSector ==
  /\ job.step = "clear"
  /\ sec' = IF sec[job.sec].id THEN [sec EXCEPT ![job.sec] = BlankSec] ELSE sec
  /\ job' = IF job.sec + 1 \in Secs THEN Job("clear", job.sec + 1) ELSE Job("erase", 0)
  /\ UNCHANGED <<memo, readVars, summ, serial, left>>
-----------------------------------------------------------------------------
(* The readout.                                                            *)

\* get_memo(): record n counted back from the saved place, 1 being the newest;
\* 0 where a sector on the way back is not a closed one.
GetMemo(n) ==
  LET back  == n - rd.saved.cnt                   \* records into older sectors
      hops  == (1 + (back - 1) \div SecRecs) % NumSecs
      s     == (rd.saved.sec + NumSecs - hops) % NumSecs
      slot  == SecRecs - ((back - 1) % SecRecs)
  IN  IF n <= rd.saved.cnt THEN <<sec[rd.saved.sec].recs[rd.saved.cnt - n + 1]>>
      ELSE IF sec[s].id /\ sec[s].flg = "closed" THEN <<sec[s].recs[slot]>>
      ELSE <<>>

Connect ==
  /\ job = Idle /\ ~client.on
  /\ client' = [NoClient EXCEPT !.on = TRUE]
  /\ UNCHANGED <<flashVars, rd, timer, view, summ, job, serial, left>>

\* CMD_ID_LOGGER; a new request replaces the one that is running.
Request(n) ==
  /\ job = Idle /\ client.on /\ left.reqs > 0
  /\ left' = [left EXCEPT !.reqs = @ - 1]
  /\ rd' = [saved |-> memo, cnt |-> n, cur |-> 0]
  /\ job' = Job("notify", 0)
  /\ client' = [NoClient EXCEPT !.on = TRUE, !.want = n]
  /\ view' = serial
  /\ UNCHANGED <<flashVars, summ, timer, serial>>

\* A request for no records stops the readout; nothing more is sent.
Cancel ==
  /\ job = Idle /\ client.on /\ left.reqs > 0
  /\ left' = [left EXCEPT !.reqs = @ - 1]
  /\ rd' = [rd EXCEPT !.cnt = 0]
  /\ client' = [client EXCEPT !.want = 0] /\ view' = 0
  /\ UNCHANGED <<flashVars, summ, timer, job, serial>>

\* The event of the retry timer; with nothing to send it does nothing.
NotifyEvent ==
  /\ job = Idle /\ timer
  /\ timer' = FALSE
  /\ job' = IF rd.cnt # 0 THEN Job("notify", 0) ELSE Idle
  /\ UNCHANGED <<flashVars, rd, client, view, summ, serial, left>>

EndsEarly == rd.cur + 1 >= rd.cnt \/ GetMemo(rd.cur + 1) = <<>>  \* mutant

\* send_memo_blk(): the next record, or the message that ends the readout.
Ends == rd.cur + 1 > rd.cnt \/ GetMemo(rd.cur + 1) = <<>>

\* One turn of the loop in wrk_notify() in which the stack takes the message.
SendBlock ==
  /\ job.step = "notify" /\ client.on
  /\ rd' = [rd EXCEPT !.cur = @ + 1, !.cnt = IF Ends THEN 0 ELSE @]
  /\ client' = IF Ends THEN [client EXCEPT !.end = TRUE]
               ELSE [client EXCEPT !.recs = @ \o GetMemo(rd.cur + 1)]
  /\ job' = IF Ends THEN Idle ELSE job
  /\ UNCHANGED <<flashVars, timer, view, summ, serial, left>>

\* Mutants: the counter does not go back; the timer is not started.
BlockSkipped ==
  /\ job.step = "notify" /\ client.on
  /\ rd' = [rd EXCEPT !.cur = @ + 1, !.cnt = IF Ends THEN 0 ELSE @]
  /\ timer' = TRUE /\ job' = Idle
  /\ UNCHANGED <<flashVars, client, view, summ, serial, left>>
NoRetry ==
  /\ job.step = "notify" /\ client.on
  /\ rd' = [rd EXCEPT !.cnt = IF Ends THEN 0 ELSE @]
  /\ job' = Idle
  /\ UNCHANGED <<flashVars, timer, client, view, summ, serial, left>>

\* No buffer for the message: the counter goes back, and the timer is started.
NoBuffer ==
  /\ job.step = "notify" /\ client.on
  /\ rd' = [rd EXCEPT !.cnt = IF Ends THEN 0 ELSE @]
  /\ timer' = TRUE
  /\ job' = Idle
  /\ UNCHANGED <<flashVars, client, view, summ, serial, left>>

\* Nobody is connected any more: the loop stops, and the readout with it.
NotConnected ==
  /\ job.step = "notify" /\ ~client.on
  /\ rd' = [rd EXCEPT !.cur = @ + 1, !.cnt = IF Ends THEN 0 ELSE @]
  /\ job' = Idle
  /\ UNCHANGED <<flashVars, timer, client, view, summ, serial, left>>

\* The reader goes away; the readout is not told.
Disconnect ==
  /\ client.on /\ job = Idle
  /\ client' = NoClient /\ view' = 0
  /\ UNCHANGED <<flashVars, rd, timer, summ, job, serial, left>>
-----------------------------------------------------------------------------
\* An erase cut short leaves the sector as it was, or without its id.
PowerLoss ==
  /\ left.crashes > 0
  /\ left' = [left EXCEPT !.crashes = @ - 1]
  /\ job' = Job("boot", 0)
  /\ memo' = [sec |-> 0, cnt |-> 0] /\ summ' = 0
  /\ rd' = NoRead /\ timer' = FALSE /\ client' = NoClient /\ view' = 0
  /\ UNCHANGED serial
  /\ \/ UNCHANGED sec
     \/ job.step = "write" /\ sec' = Put(Torn)
     \/ job.step = "close" /\ sec' = [sec EXCEPT ![job.sec].flg = "torn"]
     \/ job.step \in {"erase", "clear"} /\ sec' = [sec EXCEPT ![job.sec].id = FALSE]

Run == Boot \/ CloseSector \/ EraseSector \/ WriteId \/ WriteRecord \/ ClearSector

Next ==
  \/ Run \/ Measure \/ ClearMemo
  \/ Connect \/ Cancel \/ \E n \in Requests : Request(n)
  \/ NotifyEvent \/ SendBlock \/ NoBuffer \/ NotConnected \/ Disconnect \/ PowerLoss

\* An event runs to its end, the timer fires, and the stack, asked again and
\* again, has a buffer in the end.
Fairness ==
  /\ WF_vars(Run) /\ WF_vars(NotifyEvent)
  /\ WF_vars(SendBlock \/ NoBuffer \/ NotConnected) /\ SF_vars(SendBlock)

Spec == Init /\ [][Next]_vars /\ Fairness
-----------------------------------------------------------------------------
\* Between two events, what memo_init() would find after a power failure is
\* the place the log is at: no record is written twice, none left out.
RestartFindsPlace ==
  job = Idle => Wanted # {} /\ sec[First].id /\ memo = [sec |-> First, cnt |-> Used(First)]

\* A record goes to erased flash behind the others of an open sector, whatever
\* a power failure has left of earlier records, flags, erases and clears.
RecordOnErased ==
  job.step = "write" =>
    LET s == sec[memo.sec] IN
    /\ s.id /\ s.flg = "open"
    /\ \A i \in Slots : i >= Slot <=> s.recs[i] = 0

\* No power failure so far: one may hide the records before it from readers.
Unbroken == left.crashes = MaxCrashes

\* However the writer moves on meanwhile, also over sectors the reader has not
\* come to, a reader gets the records in order, newest first, without a gap.
NewestFirst ==
  view # 0 /\ Unbroken => \A i \in 1 .. Len(client.recs) : client.recs[i] = view + 1 - i

\* ... and when the reader is told that this is all, nothing it asked for and
\* that is still in flash is missing.
NothingLeftOut ==
  client.end /\ view # 0 /\ Unbroken => \A s \in Secs, i \in Slots :
    LET r == sec[s].recs[i] IN
    sec[s].id /\ r # 0 /\ r <= view /\ r + client.want > view =>
      \E j \in 1 .. Len(client.recs) : client.recs[j] = r

\* A readout does not stay half done while the reader that asked for it is there.
ReadoutStops == client.want # 0 ~> (rd.cnt = 0 \/ ~client.on)

\* The reader learns that it is over: "Memo End" (src/web/PHY62x2BTHome.html:1565)
\* is what ends its waiting.
ReaderIsTold == client.want # 0 ~> (client.end \/ ~client.on)
=============================================================================
