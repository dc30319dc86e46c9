----------------------------- MODULE OtaSystem -----------------------------
(***************************************************************************)
(* An update from end to end: the web client (the OTA part of              *)
(* src/web/PHY62x2BTHome.html) drives the boot firmware of OtaParser.  The *)
(* OTA characteristic takes write commands only, which nobody answers: the *)
(* page goes on to the next block while earlier ones are on their way.     *)
(* Writes arrive in order, but any of them may be lost, and the connection *)
(* with all that is on the way.  A read has an answer, and is served after *)
(* the writes before it.  Losses, power failures, resets and failed erases *)
(* and writes happen at most MaxFaults times; the user tries again after   *)
(* each failed attempt.                                                    *)
(***************************************************************************)
EXTENDS OtaParser

CONSTANTS
  CheckEvery,  \* the client reads the status after this many blocks (16)
  MaxFaults    \* bound on losses, power failures, resets, failed erases and writes

ASSUME ClientAssumption ==
  /\ CheckEvery \in Nat \ {0}
  /\ MaxFaults \in Nat
  /\ \A img \in Images : Total[img] <= CmdBase  \* testFwOTA's size limit

VARIABLES
  client,  \* what the page does next, for which file, from which block
  link,    \* what has come of the writes of the attempt
  faults   \* faults left

device  == <<ota, flash, job, running, past>>
sysVars == <<device, client, link, faults>>

Phases == {"idle", "start", "set", "send", "check", "last", "end", "done", "failed"}

SysTypeOK ==
  /\ TypeOK
  /\ client \in [phase : Phases, img : Images, blk : Nat]
  /\ link \in [begun : BOOLEAN, arrived : Nat, whole : Nat]
  /\ faults \in 0 .. MaxFaults

\* begun: CMD_OTA_START has reached the device; arrived: the blocks written have
\* done so, or are lost, up to this one; whole: none of those below is lost.
NewLink == [begun |-> FALSE, arrived |-> 0, whole |-> 0]

SysInit ==
  /\ Init
  /\ \E img \in Images : client = [phase |-> "idle", img |-> img, blk |-> 0]
  /\ link = NewLink
  /\ faults = MaxFaults

Go(phase) == client' = [client EXCEPT !.phase = phase]
InSession == client.phase \in {"start", "set", "send", "check", "last", "end"}

UseFault == faults > 0 /\ faults' = faults - 1

\* A write reaches the parser, which does A with it, or is lost.
Delivered(A) == A /\ UNCHANGED faults
Lost         == UseFault /\ UNCHANGED device
-----------------------------------------------------------------------------
\* updateBegin(), from the button; the page is connected to the boot firmware.
UserBegins ==
  /\ ~InSession /\ Ready
  /\ \E img \in Images : client' = [phase |-> "start", img |-> img, blk |-> 0]
  /\ link' = NewLink
  /\ UNCHANGED <<device, faults>>

\* The "Mode OTA" button sends 72 55 to the application, which disconnects: or
\* the connection is lost first, and the order with it.
UserRequestsBoot ==
  /\ ~InSession /\ running = "app"
  /\ Delivered(AppReboot("OTA")) \/ Lost
  /\ UNCHANGED <<client, link>>

\* What is read back after CMD_OTA_START is not looked at.
SendStart ==
  /\ client.phase = "start"
  /\ \/ Delivered(OtaStart) /\ link' = [link EXCEPT !.begun = TRUE]
     \/ Lost /\ UNCHANGED link
  /\ Go("set")

\* The status is read back and the transfer begins unless it shows an error.
SendSet ==
  /\ client.phase = "set" /\ Ready
  /\ Delivered(OtaSet) \/ Lost
  /\ Go(IF ota'.err = "SUCCESS" THEN "send" ELSE "failed")
  /\ UNCHANGED link

\* sendBlkOTA(): the next block, and what the page does once it is written.
SendBlk ==
  LET n == client.blk IN
  /\ client.phase = "send"
  /\ client' = [client EXCEPT !.blk = n + 1,
                  !.phase = IF n >= Total[client.img] - 1 THEN "last"
                            ELSE IF (n + 1) % CheckEvery = 0 THEN "check" ELSE "send"]
  /\ UNCHANGED <<device, link, faults>>

Read(next) ==
  /\ Ready /\ link.arrived = client.blk
  /\ client' = [client EXCEPT !.phase = next]
  /\ UNCHANGED <<device, link, faults>>

ReadCheck ==
  client.phase = "check" /\ Read(IF ota.err = "SUCCESS" THEN "send" ELSE "failed")

WaitsForEnd == client.phase = "last" /\ ota.err = "END" /\ Read("end")  \* mutant

\* sendLastOTA(): only the status OTA_END is followed by CMD_OTA_END.
ReadLast ==
  client.phase = "last" /\ Read(IF ota.err = "END" THEN "end" ELSE "failed")

\* The page does not learn whether CMD_OTA_END has arrived.
SendEnd ==
  /\ client.phase = "end"
  /\ Delivered(OtaEnd("none")) \/ Lost
  /\ Go("done")
  /\ UNCHANGED link

Client == SendStart \/ SendSet \/ SendBlk \/ ReadCheck \/ ReadLast \/ SendEnd
-----------------------------------------------------------------------------
\* simpleProfile_WriteAttrCB(): the next of the blocks on their way comes to
\* the parser, as it was sent (the link layer sees to that), or is lost.
Arrive ==
  LET n == link.arrived IN
  /\ n < client.blk /\ Ready
  /\ \/ /\ Delivered(DataPacket(client.img, n))
        /\ ota'.err \notin {"PKT_SIZE_ERR", "PKT_CRC_ERR"}
        /\ link' = [link EXCEPT !.arrived = n + 1, !.whole = IF @ = n THEN n + 1 ELSE @]
     \/ Lost /\ link' = [link EXCEPT !.arrived = n + 1]
  /\ UNCHANGED client

\* An erase or write that has not its effect uses up a fault.
Charged(A, effect) ==
  /\ A
  /\ IF flash' = effect THEN UNCHANGED faults ELSE UseFault
  /\ UNCHANGED <<client, link>>

FlashStep ==
  LET c == At(ota.off, job.n) IN
  \/ Charged(EraseSector, Cleared(c))
  \/ Charged(ProgramBlock, Program(flash, c, job.blk))
  \/ Charged(WriteFlag, Program(flash, ota.off, FlagBlock))

\* Whatever ends the connection, the page reports a failed update.
Disconnected ==
  /\ UseFault
  /\ client' = [client EXCEPT !.phase = IF InSession THEN "failed" ELSE @]
  /\ link' = [link EXCEPT !.arrived = client.blk]

Fault == Disconnected /\ (PowerLoss \/ SoftReset)

\* The device keeps its record, and finishes what it is doing.
LinkLost == InSession /\ Disconnected /\ UNCHANGED device

SysNext ==
  UserBegins \/ UserRequestsBoot \/ Client \/ Arrive \/ FlashStep \/ Fault \/ LinkLost

\* Packets on the way arrive, the parser runs to completion and the page goes
\* on after each answer; the user is assumed to press the button again, in the
\* mode that offers it.
Fairness ==
  /\ WF_sysVars(FlashStep)
  /\ WF_sysVars(Arrive)
  /\ WF_sysVars(Client)
  /\ WF_sysVars(UserBegins)
  /\ WF_sysVars(UserRequestsBoot)

SysSpec == SysInit /\ [][SysNext]_sysVars /\ Fairness
-----------------------------------------------------------------------------
\* When the page says the update is finished, the device has that very image,
\* flagged; it stays so until the user begins again, whatever resets occur.
DoneMeansInstalled ==
  client.phase = "done" => Bootable /\ Intact(client.img, FADDR_APP_SEC)

\* While no error is reported, the device has taken the blocks up to the first
\* one lost and none behind it, and a retried update does not resume at an old
\* index: if CMD_OTA_START has come through.  (If it is lost with CMD_OTA_SET, the
\* page reads SUCCESS of the update that was cut off, and adds to that one.)
IndicesAgree ==
  link.begun /\ Ready /\ ota.err = "SUCCESS" /\ ota.start => NextIdx = link.whole

\* Every attempt ends, with a report or with the image in place.
AttemptEnds == client.phase = "start" ~> client.phase \in {"done", "failed"}

\* With finitely many faults an update is installed in the end.
UpdateCompletes == <>(client.phase = "done")
=============================================================================
