----------------------------- MODULE OtaParser -----------------------------
(***************************************************************************)
(* The over-the-air update service of the boot firmware: ota_parser()      *)
(* (src/hdp16/source/ble_ota.c), the NOR flash it writes, and the choice   *)
(* main() makes after a reset between staying in the boot firmware and     *)
(* jumping to the application.                                             *)
(*                                                                         *)
(* Flash is counted in the 16-byte blocks a data packet carries, block 0   *)
(* being the one at FADDR_APP_SEC.  A block is a record: `id' is its first *)
(* word, `body' the rest.  Only the first block of an image has an id that *)
(* matters (the start-up flag); every other block has the id Other.  An    *)
(* erased word reads FF, and programming a word that is not erased leaves  *)
(* the AND of both values: Garbage, unless they are equal.  Addresses wrap  *)
(* as uint32_t does; what lies outside these blocks is not kept.           *)
(*                                                                         *)
(* One call of the parser is one action, except that a power failure may   *)
(* fall between the flash primitives it calls: `job' is the primitive that *)
(* the running call is about to execute, and no packet is handled until    *)
(* the call has returned (the parser runs to completion in the GATT write  *)
(* callback).                                                              *)
(***************************************************************************)
EXTENDS Integers

CONSTANTS
  Images,           \* the firmware files hosts send
  Total,            \* Total[img]: blocks of the file, the CRC32 block included
  HeaderId,         \* HeaderId[img]: first word of the file
  START_UP_FLAG,    \* the word "PHY6" the boot code looks for
  FF,               \* an erased word
  Garbage,          \* a word spoilt by a torn or doubled write
  Other,            \* the first word of a block that is not a header
  IdxMod,           \* packet indices are uint16_t: 2^16 in the code
  CmdBase,          \* indices from here on are commands: 0xff00 in the code
  FlashBlocks,      \* blocks modelled, from FADDR_APP_SEC up
  FlashMax,         \* FLASH_MAX_SIZE less FADDR_APP_SEC, in blocks
  BlocksPerSector,  \* FLASH_SECTOR_SIZE / 16
  AddrMod,          \* addresses are uint32_t: 2^28 blocks in the code
  AppAddr,          \* FADDR_APP_SEC as such an address: 0x1101000 blocks
  Offsets,          \* program offsets hosts give with CMD_OTA_SET
  HostTotals,       \* block counts hosts give with it (0: taken from the header)
  EraseAddrs        \* erase addresses hosts give with CMD_OTA_START

\* FADDR_START_ADDR, an address below every block of the application.
FADDR_START_ADDR == -1
FADDR_APP_SEC    == 0

Ids        == {HeaderId[img] : img \in Images} \cup {START_UP_FLAG}
Words      == Ids \cup {FF, Garbage, Other}
Blocks     == 0 .. FlashBlocks - 1
Indices    == 0 .. IdxMod - 1
Contents   == (Images \X Nat) \cup {FF, Garbage}
Addresses  == -AppAddr .. AddrMod - AppAddr - 1
SectorBase(b) == b - (b % BlocksPerSector)

\* Sums of addresses are taken modulo 2^32.
Wrap(a) == ((a + AppAddr) % AddrMod) - AppAddr

\* Where block n of an image that starts at off is written and read.
At(off, n) == Wrap(off + n)

ASSUME SizesAssumption ==
  /\ IdxMod \in Nat /\ CmdBase \in 2 .. IdxMod - 1
  /\ FlashBlocks \in Nat \ {0} /\ FlashMax \in Nat
  /\ BlocksPerSector \in Nat \ {0}
  /\ AddrMod \in Nat /\ AppAddr \in Nat
  /\ IdxMod <= AppAddr /\ AppAddr + FlashBlocks <= AddrMod

\* The values a word or a block can hold are distinct.
ASSUME WordsAssumption ==
  /\ FF # Garbage /\ FF \notin Ids /\ Garbage \notin Ids /\ Other \notin Ids
  /\ Other \notin {FF, Garbage}
  /\ FF \notin Images \X Nat /\ Garbage \notin Images \X Nat

\* phy62x2_ota.py makes no file shorter than a header block and its CRC.
ASSUME ImagesAssumption ==
  /\ Total \in [Images -> Nat \ {0, 1}]
  /\ DOMAIN HeaderId = Images

\* Any 32-bit offset and any 16-bit count may be given.
ASSUME HostAssumption == Offsets \subseteq Addresses /\ HostTotals \subseteq Indices

ASSUME EraseAssumption == EraseAddrs \subseteq Int

VARIABLES
  ota,      \* the ota_par_t record the host can read back
  flash,    \* [Blocks -> blocks]
  job,      \* the flash primitive the running call executes next
  running,  \* "boot": this firmware; "app": the application was entered
  past      \* what has gone wrong with the flash, for the properties only

vars == <<ota, flash, job, running, past>>
-----------------------------------------------------------------------------
Block == [id : Words, body : Contents]
Erased   == [id |-> FF, body |-> FF]
Spoilt   == [id |-> Garbage, body |-> Garbage]

\* What programming `new' over `old' leaves in a NOR cell.
Burn(old, new) ==
  IF old = FF \/ old = new THEN new ELSE IF new = FF THEN old ELSE Garbage

Program(fl, b, blk) ==
  [fl EXCEPT ![b] = [id |-> Burn(@.id, blk.id), body |-> Burn(@.body, blk.body)]]

FlagWrittenAtOnce(img, n) ==  \* mutant
  [id |-> IF n = 0 THEN HeaderId[img] ELSE Other, body |-> <<img, n>>]

\* Block n of a file, as it is written: the flag word of the header is held
\* back (it is replaced by 0xffffffff) until the whole file has been checked.
ImageBlock(img, n) ==
  [id |-> IF n = 0 THEN FF ELSE Other, body |-> <<img, n>>]

\* ota_test_crc() compared with the CRC32 of the file: the contents of all the
\* blocks before the last one are those of the file (no CRC collisions).  The
\* id word is taken from the parameters, not from flash.
Intact(img, off) ==
  \A n \in 0 .. Total[img] - 2 :
    At(off, n) \in Blocks /\ flash[At(off, n)].body = <<img, n>>

\* start_app(): the image at FADDR_APP_SEC is entered if it has the flag.
Bootable == flash[FADDR_APP_SEC].id = START_UP_FLAG

\* The values of OTA_MODE_SELECT_REG, which survives a soft reset only: the two
\* that ask for the boot firmware, and any other.
Modes == {"none", "OTA", "FW0"}

Errors == {"SUCCESS", "UNKNOWN_CMD", "NO_START", "NO_PARAM", "ERR_PARAM",
  "PKT_SIZE_ERR", "PKT_CRC_ERR", "PACKET_LOSS", "WRITE_FLASH_ERR", "OVERFLOW",
  "FW_CHECK_ERR", "FW_CRC32_ERR", "END"}

\* The record after CMD_OTA_START.  After a reset it is the same, but for an
\* erase address of 0, which also lies below every block of the flash.
InitOta == [err |-> "SUCCESS", start |-> FALSE, off |-> FADDR_APP_SEC,
            idx |-> IdxMod - 1, total |-> 0, fw |-> START_UP_FLAG,
            erase |-> FADDR_START_ADDR]

NoJob == [step |-> "idle", n |-> 0, blk |-> Erased]

TypeOK ==
  /\ ota \in [err : Errors, start : BOOLEAN, off : Addresses, idx : Indices,
              total : Indices, fw : Ids, erase : Int]
  /\ flash \in [Blocks -> Block]
  /\ job \in [step : {"idle", "erase", "program", "flag"}, n : Indices, blk : Block]
  /\ running \in {"boot", "app"}
  /\ past \in [missed : BOOLEAN, hurt : BOOLEAN]

\* A blank chip, or one that carries a complete application.
Init ==
  /\ ota = InitOta
  /\ \/ flash = [b \in Blocks |-> Erased]
     \/ \E img \in Images :
          /\ HeaderId[img] = START_UP_FLAG /\ Total[img] - 1 <= FlashBlocks
          /\ flash = [b \in Blocks |->
               IF b >= Total[img] - 1 THEN Erased
               ELSE [ImageBlock(img, b) EXCEPT !.id = IF b = 0 THEN HeaderId[img] ELSE @]]
  /\ job = NoJob
  /\ running = "boot"
  /\ past = [missed |-> FALSE, hurt |-> FALSE]

-----------------------------------------------------------------------------
(* Commands.                                                               *)

Ready == running = "boot" /\ job = NoJob

Refuse(e) == ota' = [ota EXCEPT !.err = e] /\ UNCHANGED <<flash, job, running, past>>

\* Mutants: a start that forgets to reset one field.
KeepsErase == Ready /\ ota' = [InitOta EXCEPT !.erase = ota.erase] /\ UNCHANGED <<flash, job, running, past>>
KeepsIndex == Ready /\ ota' = [InitOta EXCEPT !.idx = ota.idx] /\ UNCHANGED <<flash, job, running, past>>
KeepsStart == Ready /\ ota' = [InitOta EXCEPT !.start = ota.start] /\ UNCHANGED <<flash, job, running, past>>

OtaStart ==
  /\ Ready
  /\ \E addr \in EraseAddrs \cup {FADDR_START_ADDR} : ota' = [InitOta EXCEPT !.erase = addr]
  /\ UNCHANGED <<flash, job, running, past>>

\* The two-byte form of CMD_OTA_SET keeps the defaults CMD_OTA_START has set.
OtaSet ==
  /\ Ready
  /\ IF ota.start THEN Refuse("NO_START")
     ELSE /\ ota' = [ota EXCEPT !.start = TRUE]
          /\ UNCHANGED <<flash, job, running, past>>

\* The test of CMD_OTA_SET.  It takes any offset behind FADDR_APP_SEC, also one
\* inside the application; a sum that passes 2^32 comes out small and is taken.
InRange(off, total) == off >= FADDR_APP_SEC /\ Wrap(off + total) <= FlashMax

RefusedQuietly(off, fw, total) ==  \* mutant
  /\ Ready
  /\ IF ota.start THEN Refuse("NO_START")
     ELSE /\ ota' = [ota EXCEPT !.off = off, !.fw = fw, !.total = total,
                       !.start = InRange(off, total)]
          /\ UNCHANGED <<flash, job, running, past>>

\* The twelve-byte form; a refused range is stored all the same.
OtaSetParam(off, fw, total) ==
  /\ Ready
  /\ IF ota.start THEN Refuse("NO_START")
     ELSE /\ ota' = [ota EXCEPT !.off = off, !.fw = fw, !.total = total,
                       !.start = InRange(off, total),
                       !.err = IF InRange(off, total) THEN @ ELSE "ERR_PARAM"]
          /\ UNCHANGED <<flash, job, running, past>>

\* CMD_OTA_SET of another length, and commands above CMD_OTA_END.
BadCommand ==
  /\ Ready
  /\ \/ Refuse(IF ota.start THEN "NO_START" ELSE "PKT_SIZE_ERR")
     \/ Refuse("UNKNOWN_CMD")
-----------------------------------------------------------------------------
(* Data packets.                                                           *)

NextIdx == (ota.idx + 1) % IdxMod

NeverBroken == FALSE  \* mutant

\* Once an error is reported data packets are ignored.
Broken == ota.err # "SUCCESS"

\* A packet whose length and CRC16 are right and whose index is the next one.
\* Block 0 must carry the expected id; it fixes the number of blocks if the
\* host has not (the header's size field, cut to 16 bits).  The block before
\* the end carries the CRC32.  Any other block is erased for and programmed.
AcceptBlock(img, n) ==
  LET idOk   == HeaderId[img] = ota.fw
      total  == IF n = 0 /\ ota.total = 0 /\ idOk THEN Total[img] % IdxMod ELSE ota.total
      last   == n # 0 /\ n = (ota.total - 1) % IdxMod
      sector == SectorBase(At(ota.off, n))
      todo   == [step |-> IF sector > ota.erase THEN "erase" ELSE "program",
                 n |-> n, blk |-> ImageBlock(img, n)]
      Stop(e) == ota' = [ota EXCEPT !.err = e, !.total = total] /\ UNCHANGED job
  IN  \/ n = 0 /\ total = 0 /\ Stop("ERR_PARAM")
      \/ n = 0 /\ total # 0 /\ ~idOk /\ Stop("FW_CHECK_ERR")
      \/ /\ last
         /\ IF n = Total[img] - 1 /\ idOk /\ Intact(img, ota.off)
            THEN job' = [NoJob EXCEPT !.step = "flag"] /\ UNCHANGED ota
            ELSE Stop("FW_CRC32_ERR")
      \/ /\ ~last
         /\ n = 0 => total # 0 /\ idOk
         /\ IF n < total
            THEN /\ job' = todo
                 /\ ota' = [ota EXCEPT !.total = total,
                              !.erase = IF todo.step = "erase" THEN sector ELSE @]
            ELSE Stop("OVERFLOW")

DataPacket(img, n) ==
  /\ Ready
  /\ n < CmdBase
  /\ UNCHANGED <<flash, running, past>>
  /\ \/ Broken /\ UNCHANGED <<ota, job>>
     \/ /\ ~Broken
        /\ \/ ~ota.start /\ ota' = [ota EXCEPT !.err = "NO_PARAM"] /\ UNCHANGED job
           \/ /\ ota.start
              /\ \/ /\ n = NextIdx
                    /\ \/ AcceptBlock(img, n)
                       \/ \E e \in {"PKT_SIZE_ERR", "PKT_CRC_ERR"} :  \* damaged
                            ota' = [ota EXCEPT !.err = e] /\ UNCHANGED job
                 \/ n < NextIdx /\ UNCHANGED <<ota, job>>             \* repeated
                 \/ /\ n > NextIdx
                    /\ ota' = [ota EXCEPT !.err = "PACKET_LOSS"] /\ UNCHANGED job
-----------------------------------------------------------------------------
(* The flash primitives of an accepted block.  The results of the erase    *)
(* and write calls are not tested; either may fail (the chip is busy too   *)
(* long), leaving flash alone.                                             *)

\* The flash with the sector of address c erased.
Cleared(c) == [b \in Blocks |-> IF SectorBase(b) = SectorBase(c) THEN Erased ELSE flash[b]]

\* The blocks of the applications that fit into the flash.
AppArea == {b \in Blocks : \E img \in Images :
  HeaderId[img] = START_UP_FLAG /\ Total[img] - 1 <= FlashBlocks /\ b <= Total[img] - 2}

\* Address c is in a sector of the application, or outside the flash.
Foreign(c) == c \notin Blocks \/ \E b \in AppArea : SectorBase(b) = SectorBase(c)

\* The flag still stands behind an erase of its update that did nothing, or
\* behind an operation of an update aimed elsewhere that went where it should not.
Hurt(c, missed) ==
  /\ Bootable'
  /\ past.hurt \/ (IF ota.off = FADDR_APP_SEC THEN missed ELSE Foreign(c))

EraseSector ==
  LET c == At(ota.off, job.n) IN
  /\ job.step = "erase"
  /\ flash' \in {flash, Cleared(c)}
  /\ job' = [job EXCEPT !.step = "program"]
  /\ past' = [missed |-> flash' # Cleared(c), hurt |-> Hurt(c, flash' # Cleared(c))]
  /\ UNCHANGED <<ota, running>>

ProgramBlock ==
  LET c == At(ota.off, job.n) IN
  /\ job.step = "program"
  /\ flash' \in {flash, Program(flash, c, job.blk)}
  /\ ota' = [ota EXCEPT !.idx = job.n]
  /\ job' = NoJob
  /\ past' = [past EXCEPT !.hurt = Hurt(c, FALSE)]
  /\ UNCHANGED running

FlagBlock == [id |-> ota.fw, body |-> FF]

FlagNotReadBack ==  \* mutant
  /\ job.step = "flag"
  /\ flash' \in {flash, Program(flash, ota.off, FlagBlock)}
  /\ ota' = [ota EXCEPT !.err = "END"]
  /\ job' = NoJob
  /\ past' = [past EXCEPT !.hurt = Hurt(ota.off, FALSE)]
  /\ UNCHANGED running

\* The flag is written, read back and compared.
WriteFlag ==
  /\ job.step = "flag"
  /\ flash' \in {flash, Program(flash, ota.off, FlagBlock)}
  /\ ota' = [ota EXCEPT !.err =
               IF flash'[ota.off].id = ota.fw THEN "END" ELSE "WRITE_FLASH_ERR"]
  /\ job' = NoJob
  /\ past' = [past EXCEPT !.hurt = Hurt(ota.off, FALSE)]
  /\ UNCHANGED running
-----------------------------------------------------------------------------
(* Resets.                                                                 *)

\* main(): the mode register (which it then clears) or the key, if it is held,
\* keeps the boot firmware running; otherwise a flagged application is entered.
Restart(m, fl) ==
  /\ ota' = InitOta
  /\ job' = NoJob
  /\ \E key \in BOOLEAN :
       running' = IF key \/ m \in {"OTA", "FW0"} \/ fl[FADDR_APP_SEC].id # START_UP_FLAG
                  THEN "boot" ELSE "app"

\* CMD_OTA_END: the connection is closed, the register is written if the
\* message carries a value, and the device resets, whatever was received.  The
\* reboot command of the boot firmware comes to the same.
OtaEnd(m) ==
  /\ Ready
  /\ Restart(m, flash)
  /\ UNCHANGED <<flash, past>>

\* The application asks for the boot firmware (or a plain restart) with the
\* reboot byte it writes to the register when the connection closes.
AppReboot(m) ==
  /\ running = "app"
  /\ Restart(m, flash)
  /\ UNCHANGED <<flash, past>>

\* The watchdog, or the end of the OTA advertising period.
SoftReset ==
  /\ Ready
  /\ Restart("none", flash)
  /\ UNCHANGED <<flash, past>>

\* Power may fail at any time.  An erase it interrupts leaves each block of the
\* sector erased or unreadable, a write leaves the block as it was or spoilt.
PowerLoss ==
  LET c == At(ota.off, job.n) IN
  /\ CASE job.step = "erase" ->
            \E torn \in SUBSET {b \in Blocks : SectorBase(b) = SectorBase(c)} :
              flash' = [b \in Blocks |-> IF b \in torn THEN Spoilt ELSE Cleared(c)[b]]
       [] job.step = "program" -> flash' \in {flash, Program(flash, c, Spoilt)}
       [] job.step = "flag" ->
            flash' \in {flash, Program(flash, ota.off, [id |-> Garbage, body |-> FF])}
       [] OTHER -> UNCHANGED flash
  /\ past' = IF job.step = "idle" THEN past ELSE [past EXCEPT !.hurt = Hurt(c, FALSE)]
  /\ Restart("none", flash')
-----------------------------------------------------------------------------
Next ==
  \/ OtaStart \/ OtaSet \/ BadCommand
  \/ \E off \in Offsets, fw \in Ids, total \in HostTotals : OtaSetParam(off, fw, total)
  \/ \E img \in Images, n \in Indices : n < Total[img] /\ DataPacket(img, n)
  \/ EraseSector \/ ProgramBlock \/ WriteFlag
  \/ \E m \in Modes : OtaEnd(m) \/ AppReboot(m)
  \/ SoftReset \/ PowerLoss

Spec == Init /\ [][Next]_vars
-----------------------------------------------------------------------------
(* Safety: properties of the update as a whole.                            *)

\* The boot code finds the flag only in front of a complete image.  The code
\* does not keep to this: past.hurt says when.
FlagMeansWhole ==
  Bootable => \E img \in Images : HeaderId[img] = START_UP_FLAG /\ Intact(img, FADDR_APP_SEC)

\* However packets are lost, repeated or damaged, writes fail and power fails,
\* the flag stands in front of a complete image only: unless the erase that
\* should have removed it did nothing (the result is not tested, and blocks are
\* programmed over the old ones), or a host has aimed an update into the
\* application's sectors or out of the flash (the range test allows both).
BootableImpliesIntact == ~past.hurt => FlagMeansWhole

\* Without any exception: the flag is only ever set in front of a complete image.
FlagIsEarned == [][~Bootable /\ Bootable' => FlagMeansWhole']_vars

\* A host that reads OTA_END has its image in flash, with its id in place,
\* until it starts another update, whichever erases and writes have failed.
EndMeansStored ==
  ota.err = "END" => \E img \in Images :
    /\ HeaderId[img] = ota.fw /\ Intact(img, ota.off)
    /\ flash[ota.off].id = ota.fw

\* A block is programmed only over erased flash, also when an update is begun
\* again after another one, or its first block is sent again: unless the last
\* erase did nothing.  No block is taken to lie in a sector erased before.
ProgramOnlyErased ==
  job.step = "program" /\ At(ota.off, job.n) \in Blocks /\ ~past.missed =>
    flash[At(ota.off, job.n)] = Erased

\* Nothing is erased or written with parameters CMD_OTA_SET has refused: they
\* stay in the record, and a second CMD_OTA_SET sets start_flag over them.  (The
\* count is the one that was tested, or was 0 then and is the header's now.)
RefusedOffsetUnused ==
  job.step # "idle" => InRange(ota.off, 0) \/ InRange(ota.off, ota.total)

\* An address past the end of flash is reported (OTA_OVERFLOW, "the ota addr
\* overflow"), not written: no primitive is started beyond FLASH_MAX_SIZE.
NoWritePastEnd ==
  job.step # "idle" => At(ota.off, job.n) \in FADDR_APP_SEC .. FlashMax - 1

\* Once an error is reported flash stays as it is until the host starts again
\* or the device resets.
ErrorStopsWriting ==
  [][ota.err # "SUCCESS" => flash' = flash]_vars

\* The only way out of an error is CMD_OTA_START or a reset: a late packet or a
\* second CMD_OTA_SET cannot make the parser take up a broken update.
ErrorIsSticky ==
  [][ota.err # "SUCCESS" /\ ota'.err = "SUCCESS" => ota'.idx = IdxMod - 1 /\ ~ota'.start]_vars
-----------------------------------------------------------------------------
(* The inductive invariant behind the safety properties.                   *)

Rewound == IdxMod - 1

\* Only an unbroken update under way has a flash primitive pending.
JobInv ==
  /\ job.step = "idle" => job = NoJob
  /\ job.step # "idle" => ota.err = "SUCCESS" /\ ota.start /\ running = "boot"
  /\ job.step \in {"erase", "program"} =>
       job.n < CmdBase /\ job.blk.id \in {FF, Other} /\ (job.n = 0 => job.blk.id = FF)

\* Nothing has been erased while no block has been written, and the parameters
\* are ones the range test lets through unless an error has been reported.
IndexInv ==
  /\ job.step = "idle" /\ ota.idx = Rewound => ota.erase < FADDR_APP_SEC
  /\ ~ota.start => ota.idx = Rewound /\ ota.err # "END"
  /\ ota.err = "SUCCESS" => InRange(ota.off, 0) \/ InRange(ota.off, ota.total)

\* From the first block of an update of the application until its flag is
\* written there is no flag, as the old one went with the sector: or the
\* sector has not been erased.
FlagDown ==
  /\ past.hurt => Bootable
  /\ ota.err = "SUCCESS" /\ ota.off = FADDR_APP_SEC /\ ota.idx # Rewound => ~Bootable \/ past.hurt
  /\ job.step = "program" /\ ota.off = FADDR_APP_SEC => ~Bootable \/ past.hurt
  /\ job.step \in {"erase", "program"} => (ota.idx = Rewound <=> job.n = 0)

\* The flag is only about to be written behind the image it vouches for.
FlagEarned ==
  job.step = "flag" =>
    /\ ota.idx # Rewound
    /\ \E img \in Images : HeaderId[img] = ota.fw /\ Intact(img, ota.off)

IInv ==
  /\ TypeOK /\ JobInv /\ IndexInv /\ FlagDown /\ FlagEarned
  /\ BootableImpliesIntact /\ EndMeansStored
=============================================================================
