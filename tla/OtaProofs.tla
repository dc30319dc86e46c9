------------------------------ MODULE OtaProofs ------------------------------
(***************************************************************************)
(* Proofs of the safety of OtaParser for every flash, file and packet, and *)
(* of OtaSystem, an update driven by the page, for every number of faults. *)
(***************************************************************************)
EXTENDS OtaSystem, TLAPS

USE DEF FADDR_APP_SEC, FADDR_START_ADDR

(***************************************************************************)
(* The theorems are about hosts that leave erasing to the parser: a host   *)
(* that gives an erase address inside the application asks for its blocks  *)
(* to be written without being erased.                                     *)
(***************************************************************************)
ParserErases == \A addr \in EraseAddrs : addr < FADDR_APP_SEC

\* A sector begins at or before each of its blocks, and not before the
\* application area; the first block begins a sector.
LEMMA SectorFacts ==
  /\ \A b \in Int : SectorBase(b) \in Int
  /\ \A b \in Nat : SectorBase(b) \in Int /\ SectorBase(b) >= 0 /\ SectorBase(b) <= b
  /\ SectorBase(0) = 0
BY SizesAssumption DEF SectorBase

\* Division: quotient and remainder, and that multiples grow.
LEMMA Division ==
  ASSUME NEW k \in Nat \ {0}, NEW a \in Nat
  PROVE  a = k * (a \div k) + (a % k) /\ a % k \in 0 .. k - 1 /\ a \div k \in Nat
OBVIOUS

LEMMA MultiplesGrow ==
  ASSUME NEW k \in Nat, NEW p \in Nat, NEW q \in Nat, p <= q
  PROVE  k * p <= k * q
OBVIOUS

\* The remainder of a number below twice the divisor.
LEMMA Remainder ==
  ASSUME NEW k \in Nat \ {0}, NEW a \in Nat, a < 2 * k
  PROVE  a % k = IF a < k THEN a ELSE a - k
<1> DEFINE q == a \div k
           r == a % k
<1>1. a = k * q + r /\ r \in 0 .. k - 1 /\ q \in Nat BY Division
<1> HIDE DEF q, r
<1>2. k * 0 = 0 /\ k * 1 = k /\ k * 2 = 2 * k /\ k * q \in Int BY <1>1
<1>3. CASE q = 0 BY <1>1, <1>2, <1>3 DEF r
<1>4. CASE q = 1 BY <1>1, <1>2, <1>4 DEF r
<1>5. CASE q >= 2
  <2>1. k * 2 <= k * q BY <1>1, <1>5, MultiplesGrow
  <2> QED BY <1>1, <1>2, <2>1
<1> QED BY <1>1, <1>3, <1>4, <1>5

\* Block n of an image is n blocks behind its first one, or the sum has passed
\* the last address, and lies below the application.
LEMMA AtFacts ==
  ASSUME NEW off \in Addresses, off >= 0, NEW n \in Indices
  PROVE  /\ At(off, n) \in Int
         /\ At(off, n) = off + n \/ (At(off, n) < 0 /\ off + n >= FlashBlocks)
         /\ At(off, n) \in Blocks => At(off, n) = off + n
<1> DEFINE a == off + n + AppAddr
<1>1. /\ off \in Int /\ off <= AddrMod - AppAddr - 1 /\ n \in Nat /\ n < IdxMod
      /\ AddrMod \in Nat \ {0} /\ AppAddr \in Nat /\ IdxMod <= AppAddr /\ IdxMod \in Nat
      /\ AppAddr + FlashBlocks <= AddrMod /\ FlashBlocks \in Nat \ {0}
  BY SizesAssumption DEF Addresses, Indices
<1>2. a \in Nat /\ a < 2 * AddrMod BY <1>1
<1>3. a % AddrMod = IF a < AddrMod THEN a ELSE a - AddrMod BY <1>1, <1>2, Remainder
<1>4. At(off, n) = (a % AddrMod) - AppAddr BY DEF At, Wrap
<1>5. At(off, n) = IF a < AddrMod THEN off + n ELSE off + n - AddrMod BY <1>1, <1>2, <1>3, <1>4
<1> QED BY <1>1, <1>5 DEF Blocks

LEMMA AtType == \A off \in Addresses, n \in Indices : At(off, n) \in Int
BY SizesAssumption DEF At, Wrap, Addresses, Indices

LEMMA AtZero ==
  ASSUME NEW off \in Addresses
  PROVE  At(off, 0) = off /\ (off >= 0 /\ off <= FlashMax => InRange(off, 0))
<1>1. /\ off \in Int /\ 0 <= off + AppAddr /\ off + AppAddr < AddrMod
      /\ AddrMod \in Nat \ {0} /\ AppAddr \in Nat
  BY SizesAssumption DEF Addresses
<1>2. off + AppAddr \in Nat /\ off + AppAddr < 2 * AddrMod /\ off + 0 = off BY <1>1
<1>3. (off + AppAddr) % AddrMod = off + AppAddr BY <1>1, <1>2, Remainder
<1>4. Wrap(off + 0) = off BY <1>1, <1>2, <1>3 DEF Wrap
<1> QED BY <1>4 DEF At, InRange

LEMMA StartOfApp == 0 \in Addresses /\ 0 \in Blocks /\ InRange(0, 0)
<1>1. 0 \in Addresses /\ 0 \in Blocks BY SizesAssumption DEF Addresses, Blocks
<1> QED BY <1>1, AtZero, SizesAssumption

\* A packet index is followed by the next one, and the last one by zero.
LEMMA NextIdxFacts ==
  ASSUME TypeOK
  PROVE  /\ NextIdx \in Indices
         /\ NextIdx = 0 <=> ota.idx = Rewound
BY SizesAssumption DEF TypeOK, NextIdx, Indices, Rewound

\* What programming leaves in a block is a block.
LEMMA ProgramType ==
  ASSUME NEW fl \in [Blocks -> Block], NEW b, NEW blk \in Block
  PROVE  Program(fl, b, blk) \in [Blocks -> Block]
BY DEF Program, Burn, Block, Words, Contents

LEMMA BlockTypes ==
  /\ Erased \in Block /\ Spoilt \in Block /\ NoJob.blk \in Block
  /\ \A img \in Images, n \in Nat : ImageBlock(img, n) \in Block
  /\ \A id \in Ids \cup {Garbage} : [id |-> id, body |-> FF] \in Block
  /\ START_UP_FLAG \in Ids /\ \A img \in Images : HeaderId[img] \in Ids
BY DEF Erased, Spoilt, NoJob, ImageBlock, Block, Words, Contents, Ids

LEMMA RecordTypes ==
  /\ InitOta \in [err : Errors, start : BOOLEAN, off : Addresses, idx : Indices,
                  total : Indices, fw : Ids, erase : Int]
  /\ NoJob \in [step : {"idle", "erase", "program", "flag"}, n : Indices, blk : Block]
<1>1. 0 \in Indices /\ IdxMod - 1 \in Indices
  BY SizesAssumption DEF Indices
<1>2. Erased \in Block /\ START_UP_FLAG \in Ids
  BY BlockTypes
<1> QED
  BY <1>1, <1>2, StartOfApp DEF InitOta, NoJob, Errors

LEMMA InitType == Init => TypeOK
<1> SUFFICES ASSUME Init PROVE TypeOK
  OBVIOUS
<1>1. flash \in [Blocks -> Block]
  <2>1. CASE flash = [b \in Blocks |-> Erased]
    BY <2>1, BlockTypes
  <2>2. CASE \E img \in Images :
          flash = [b \in Blocks |->
               IF b >= Total[img] - 1 THEN Erased
               ELSE [ImageBlock(img, b) EXCEPT !.id = IF b = 0 THEN HeaderId[img] ELSE @]]
    <3>1. PICK img \in Images :
          flash = [b \in Blocks |->
               IF b >= Total[img] - 1 THEN Erased
               ELSE [ImageBlock(img, b) EXCEPT !.id = IF b = 0 THEN HeaderId[img] ELSE @]]
      BY <2>2
    <3>2. \A b \in Blocks : ImageBlock(img, b) \in Block
      BY BlockTypes DEF Blocks
    <3>3. HeaderId[img] \in Words /\ Other \in Words
      BY BlockTypes DEF Words
    <3>4. \A b \in Blocks :
            [ImageBlock(img, b) EXCEPT !.id = IF b = 0 THEN HeaderId[img] ELSE @] \in Block
      BY <3>2, <3>3 DEF Block
    <3> QED
      BY <3>1, <3>4, BlockTypes
  <2> QED
    BY <2>1, <2>2 DEF Init
<1> QED
  BY <1>1, RecordTypes DEF Init, TypeOK

\* Every reset puts the record and the job back to their initial values.
LEMMA RestartType ==
  ASSUME NEW m, NEW fl, Restart(m, fl)
  PROVE  /\ ota' = InitOta /\ job' = NoJob /\ running' \in {"boot", "app"}
BY DEF Restart

\* An accepted packet ends in one of three ways: the call stops with an error,
\* the flag of a checked image is about to be written, or the block is.
LEMMA AcceptCases ==
  ASSUME TypeOK, NEW img \in Images, NEW n \in Indices, AcceptBlock(img, n)
  PROVE  \/ \E e \in Errors \ {"SUCCESS", "END"}, t \in Indices :
              ota' = [ota EXCEPT !.err = e, !.total = t] /\ UNCHANGED job
         \/ /\ job' = [NoJob EXCEPT !.step = "flag"] /\ UNCHANGED ota
            /\ n # 0 /\ HeaderId[img] = ota.fw /\ Intact(img, ota.off)
         \/ \E t \in Indices :
              /\ t = ota.total \/ ota.total = 0
              /\ IF SectorBase(At(ota.off, n)) > ota.erase
                 THEN /\ job' = [step |-> "erase", n |-> n, blk |-> ImageBlock(img, n)]
                      /\ ota' = [ota EXCEPT !.total = t, !.erase = SectorBase(At(ota.off, n))]
                 ELSE /\ job' = [step |-> "program", n |-> n, blk |-> ImageBlock(img, n)]
                      /\ ota' = [ota EXCEPT !.total = t]
<1> DEFINE total == IF n = 0 /\ ota.total = 0 /\ HeaderId[img] = ota.fw
                    THEN Total[img] % IdxMod ELSE ota.total
           Stop(e) == ota' = [ota EXCEPT !.err = e, !.total = total] /\ UNCHANGED job
           Store == IF SectorBase(At(ota.off, n)) > ota.erase
              THEN /\ job' = [step |-> "erase", n |-> n, blk |-> ImageBlock(img, n)]
                   /\ ota' = [ota EXCEPT !.total = total, !.erase = SectorBase(At(ota.off, n))]
              ELSE /\ job' = [step |-> "program", n |-> n, blk |-> ImageBlock(img, n)]
                   /\ ota' = [ota EXCEPT !.total = total, !.erase = ota.erase]
<1>1. total \in Indices
  BY SizesAssumption, ImagesAssumption DEF Indices, TypeOK
<1>2. \/ Stop("ERR_PARAM") \/ Stop("FW_CHECK_ERR") \/ Stop("FW_CRC32_ERR") \/ Stop("OVERFLOW")
      \/ /\ job' = [NoJob EXCEPT !.step = "flag"] /\ UNCHANGED ota
         /\ n # 0 /\ HeaderId[img] = ota.fw /\ Intact(img, ota.off)
      \/ Store
  <2> DEFINE last == n # 0 /\ n = (ota.total - 1) % IdxMod
  <2>1. CASE last
    BY <2>1 DEF AcceptBlock
  <2>2. CASE ~last /\ n = 0
    BY <2>2 DEF AcceptBlock
  <2>3. CASE ~last /\ n # 0
    BY <2>3 DEF AcceptBlock
  <2> QED
    BY <2>1, <2>2, <2>3
<1>3. ASSUME NEW e \in {"ERR_PARAM", "FW_CHECK_ERR", "FW_CRC32_ERR", "OVERFLOW"}, Stop(e)
      PROVE  \E f \in Errors \ {"SUCCESS", "END"}, t \in Indices :
               ota' = [ota EXCEPT !.err = f, !.total = t] /\ UNCHANGED job
  BY <1>1, <1>3 DEF Errors
<1>4. [ota EXCEPT !.total = total, !.erase = ota.erase] = [ota EXCEPT !.total = total]
  BY DEF TypeOK
<1>5. total = ota.total \/ ota.total = 0
  OBVIOUS
<1> HIDE DEF total
<1> QED
  BY <1>1, <1>2, <1>3, <1>4, <1>5

LEMMA AcceptType ==
  ASSUME TypeOK, NEW img \in Images, NEW n \in Indices, AcceptBlock(img, n),
         UNCHANGED <<flash, running, past>>
  PROVE  TypeOK'
<1>1. SectorBase(At(ota.off, n)) \in Int
  <2>1. At(ota.off, n) \in Int
    BY AtType DEF TypeOK
  <2> QED
    BY <2>1, SectorFacts
<1>2. ImageBlock(img, n) \in Block
  BY BlockTypes DEF Indices
<1>3. [NoJob EXCEPT !.step = "flag"]
        \in [step : {"idle", "erase", "program", "flag"}, n : Indices, blk : Block]
  BY RecordTypes
<1>4. CASE \E e \in Errors \ {"SUCCESS", "END"}, t \in Indices :
             ota' = [ota EXCEPT !.err = e, !.total = t] /\ UNCHANGED job
  BY <1>4 DEF TypeOK
<1>5. CASE job' = [NoJob EXCEPT !.step = "flag"] /\ UNCHANGED ota
  BY <1>3, <1>5 DEF TypeOK
<1>6. ASSUME NEW t \in Indices, NEW step \in {"erase", "program"},
             job' = [step |-> step, n |-> n, blk |-> ImageBlock(img, n)],
             \/ ota' = [ota EXCEPT !.total = t, !.erase = SectorBase(At(ota.off, n))]
             \/ ota' = [ota EXCEPT !.total = t]
      PROVE  TypeOK'
  BY <1>1, <1>2, <1>6 DEF TypeOK
<1> QED
  BY <1>4, <1>5, <1>6, AcceptCases

\* What has gone wrong is recorded as two truth values.
LEMMA PastType ==
  ASSUME TypeOK, EraseSector \/ ProgramBlock \/ WriteFlag \/ PowerLoss
  PROVE  past' \in [missed : BOOLEAN, hurt : BOOLEAN]
<1>1. \A c, m : Hurt(c, m) \in BOOLEAN
  BY DEF Hurt
<1>2. past \in [missed : BOOLEAN, hurt : BOOLEAN]
  BY DEF TypeOK
<1>3. CASE EraseSector
  BY ZenonT(60), <1>1, <1>3 DEF EraseSector
<1>4. CASE ProgramBlock \/ WriteFlag \/ PowerLoss
  <2>1. \/ past' = past
        \/ \E c : past' = [past EXCEPT !.hurt = Hurt(c, FALSE)]
    BY <1>4 DEF ProgramBlock, WriteFlag, PowerLoss
  <2>2. ASSUME NEW c, past' = [past EXCEPT !.hurt = Hurt(c, FALSE)]
        PROVE  past' \in [missed : BOOLEAN, hurt : BOOLEAN]
    BY ZenonT(60), <1>1, <1>2, <2>2
  <2> QED
    BY <1>2, <2>1, <2>2
<1> QED
  BY <1>3, <1>4

LEMMA NextType == TypeOK /\ [Next]_vars => TypeOK'
<1> SUFFICES ASSUME TypeOK, [Next]_vars PROVE TypeOK'
  OBVIOUS
<1> USE DEF TypeOK
<1>1. CASE OtaStart
  <2>1. PICK addr \in EraseAddrs \cup {FADDR_START_ADDR} : ota' = [InitOta EXCEPT !.erase = addr]
    BY <1>1 DEF OtaStart
  <2>2. addr \in Int
    BY EraseAssumption
  <2> QED
    BY <1>1, <2>1, <2>2, RecordTypes DEF OtaStart
<1>2. CASE OtaSet
  BY ZenonT(60), <1>2 DEF OtaSet, Refuse, Errors
<1>3. CASE BadCommand
  BY <1>3 DEF BadCommand, Refuse, Errors
<1>4. ASSUME NEW off \in Offsets, NEW fw \in Ids, NEW total \in HostTotals, OtaSetParam(off, fw, total)
      PROVE  TypeOK'
  <2>1. off \in Addresses /\ total \in Indices
    BY HostAssumption
  <2> QED
    BY ZenonT(60), <1>4, <2>1 DEF OtaSetParam, Refuse, Errors, InRange
<1>5. ASSUME NEW img \in Images, NEW n \in Indices, DataPacket(img, n)
      PROVE  TypeOK'
  <2>1. CASE AcceptBlock(img, n)
    BY <1>5, <2>1, AcceptType DEF DataPacket, Broken
  <2>2. CASE ~AcceptBlock(img, n)
    BY <1>5, <2>2 DEF DataPacket, Broken, Errors
  <2> QED
    BY <2>1, <2>2
<1>6. CASE EraseSector
  <2>1. \A c : Cleared(c) \in [Blocks -> Block]
    BY BlockTypes DEF Cleared
  <2> QED
    BY <1>6, <2>1, PastType DEF EraseSector
<1>7. CASE ProgramBlock
  BY <1>7, RecordTypes, ProgramType, PastType DEF ProgramBlock
<1>8. CASE WriteFlag
  <2>1. Program(flash, ota.off, FlagBlock) \in [Blocks -> Block]
    BY ProgramType, BlockTypes DEF FlagBlock
  <2> QED
    BY <1>8, <2>1, RecordTypes, PastType DEF WriteFlag, Errors
<1>9. ASSUME NEW m \in Modes, OtaEnd(m) \/ AppReboot(m)
      PROVE  TypeOK'
  BY <1>9, RestartType, RecordTypes DEF OtaEnd, AppReboot
<1>10. CASE SoftReset
  BY <1>10, RestartType, RecordTypes DEF SoftReset
<1>11. CASE PowerLoss
  <2>1. flash' \in [Blocks -> Block]
    <3> DEFINE c == At(ota.off, job.n)
    <3>1. Program(flash, c, Spoilt) \in [Blocks -> Block]
      BY ProgramType, BlockTypes
    <3>2. Program(flash, ota.off, [id |-> Garbage, body |-> FF]) \in [Blocks -> Block]
      BY ProgramType, BlockTypes
    <3>3. \A b \in Blocks : Cleared(c)[b] \in Block
      BY BlockTypes DEF Cleared
    <3> HIDE DEF c
    <3>4. CASE job.step = "erase"
      BY <1>11, <3>3, <3>4, BlockTypes DEF PowerLoss, c
    <3>5. CASE job.step # "erase"
      BY <1>11, <3>1, <3>2, <3>5 DEF PowerLoss, c
    <3> QED
      BY <3>4, <3>5
  <2> QED
    BY <1>11, <2>1, RestartType, RecordTypes, PastType DEF PowerLoss
<1>12. CASE UNCHANGED vars
  BY <1>12 DEF vars
<1> QED
  BY <1>1, <1>2, <1>3, <1>4, <1>5, <1>6, <1>7, <1>8, <1>9, <1>10, <1>11, <1>12 DEF Next

\* The record, the flash and the pending primitive keep their types.
THEOREM TypeCorrect == Spec => []TypeOK
BY InitType, NextType, PTL DEF Spec
-----------------------------------------------------------------------------
(* The inductive step, one lemma per group of actions.                     *)

Safe == JobInv /\ IndexInv /\ FlagDown /\ FlagEarned /\ BootableImpliesIntact /\ EndMeansStored

\* A reset that leaves the application bootable only if it was intact is safe:
\* it puts every other part of the invariant back to its initial state.
LEMMA RestartSafe ==
  ASSUME NEW m, NEW fl, Restart(m, fl), BootableImpliesIntact', past'.hurt => Bootable'
  PROVE  Safe'
BY RestartType, StartOfApp, SizesAssumption DEF Safe, JobInv, IndexInv, FlagDown, FlagEarned,
     EndMeansStored, InitOta, NoJob, Rewound

\* The blocks of the flash follow one another; the one behind is not in it.
LEMMA AtOfApp ==
  /\ \A n \in Blocks : At(0, n) = n
  /\ At(0, FlashBlocks) \notin Blocks
<1>1. /\ AddrMod \in Nat \ {0} /\ AppAddr \in Nat \ {0} /\ FlashBlocks \in Nat
      /\ AppAddr + FlashBlocks <= AddrMod
  BY SizesAssumption
<1>2. ASSUME NEW n \in 0 .. FlashBlocks
      PROVE  At(0, n) = IF n + AppAddr < AddrMod THEN n ELSE n - AddrMod
  <2>1. n + AppAddr \in Nat /\ n + AppAddr < 2 * AddrMod /\ 0 + n = n BY <1>1
  <2> DEFINE a == n + AppAddr
  <2>2. At(0, n) = (a % AddrMod) - AppAddr BY <2>1 DEF At, Wrap
  <2>3. a \in Nat /\ a < 2 * AddrMod BY <2>1
  <2> HIDE DEF a
  <2>4. a % AddrMod = IF a < AddrMod THEN a ELSE a - AddrMod BY <1>1, <2>3, Remainder
  <2> QED BY <1>1, <2>2, <2>3, <2>4 DEF a
<1> QED BY <1>1, <1>2 DEF Blocks

\* An application that boots lies inside the blocks of applications, so what is
\* written elsewhere changes neither its flag nor its blocks.
LEMMA AppUntouched ==
  ASSUME FlagMeansWhole, Bootable, \A b \in AppArea : flash'[b] = flash[b]
  PROVE  FlagMeansWhole'
<1>1. PICK img \in Images : HeaderId[img] = START_UP_FLAG /\ Intact(img, 0)
  BY DEF FlagMeansWhole
<1>2. Total[img] \in Nat \ {0, 1} /\ FlashBlocks \in Nat
  BY ImagesAssumption, SizesAssumption
<1>3. Total[img] - 1 <= FlashBlocks
  <2>1. CASE Total[img] - 1 > FlashBlocks
    <3>1. FlashBlocks \in 0 .. Total[img] - 2 BY <1>2, <2>1
    <3> QED BY <1>1, <3>1, AtOfApp DEF Intact
  <2> QED BY <1>2, <2>1
<1>4. \A n \in 0 .. Total[img] - 2 : n \in Blocks /\ At(0, n) = n
  BY <1>2, <1>3, AtOfApp DEF Blocks
<1>5. \A n \in 0 .. Total[img] - 2 : n \in AppArea
  BY <1>1, <1>2, <1>3, <1>4 DEF AppArea
<1>6. Intact(img, 0)'
  BY <1>1, <1>4, <1>5 DEF Intact
<1> QED
  BY <1>1, <1>6 DEF FlagMeansWhole

\* Writes that tear or that hold the flag back never make the flag appear.
LEMMA BurnFacts ==
  /\ \A old \in Words, new \in {FF, Other, Garbage} :
       old # START_UP_FLAG => Burn(old, new) # START_UP_FLAG
  /\ \A old : Burn(old, FF) = old
BY WordsAssumption DEF Burn, Words, Ids

\* Programming a block changes that block only, and not a body it leaves erased.
LEMMA ProgramFacts ==
  ASSUME TypeOK, NEW c, NEW blk
  PROVE  /\ \A b \in Blocks : b # c => Program(flash, c, blk)[b] = flash[b]
         /\ c \in Blocks => Program(flash, c, blk)[c].id = Burn(flash[c].id, blk.id)
         /\ blk.body = FF =>
              \A b \in Blocks : Program(flash, c, blk)[b].body = flash[b].body
BY BurnFacts DEF Program, TypeOK, Block

\* Neither an erase nor a block nor what a power failure leaves is the flag.
LEMMA NoNewFlag ==
  ASSUME TypeOK, JobInv, EraseSector \/ ProgramBlock \/ PowerLoss, ~Bootable
  PROVE  ~Bootable'
<1>1. 0 \in Blocks /\ flash[0].id \in Words /\ flash[0].id # START_UP_FLAG
  BY StartOfApp DEF TypeOK, Block, Bootable
<1>2. FF # START_UP_FLAG /\ Garbage # START_UP_FLAG
  BY WordsAssumption DEF Ids
<1>3. \A c : Cleared(c)[0].id # START_UP_FLAG
  BY <1>1, <1>2 DEF Cleared, Erased
<1>4. ASSUME NEW c, NEW blk, blk.id \in {FF, Other, Garbage}
      PROVE  Program(flash, c, blk)[0].id # START_UP_FLAG
  <2>1. CASE c = 0 BY <1>1, <1>4, <2>1, ProgramFacts, BurnFacts
  <2>2. CASE c # 0 BY <1>1, <2>2, ProgramFacts
  <2> QED BY <2>1, <2>2
<1>5. CASE EraseSector
  BY <1>1, <1>3, <1>5 DEF EraseSector, Bootable
<1>6. CASE ProgramBlock
  <2>1. job.blk.id \in {FF, Other, Garbage}
    BY <1>6 DEF ProgramBlock, JobInv
  <2> QED
    BY <1>1, <1>4, <1>6, <2>1 DEF ProgramBlock, Bootable
<1>7. CASE PowerLoss
  <2>1. CASE job.step = "erase"
    <3>1. PICK torn \in SUBSET Blocks :
            flash' = [b \in Blocks |-> IF b \in torn THEN Spoilt ELSE Cleared(At(ota.off, job.n))[b]]
      BY <1>7, <2>1 DEF PowerLoss
    <3> QED
      BY <1>1, <1>2, <1>3, <3>1 DEF Bootable, Spoilt
  <2>2. CASE job.step \in {"program", "flag"}
    <3>1. flash' = flash \/ \E c : \E blk \in {Spoilt, [id |-> Garbage, body |-> FF]} :
                               flash' = Program(flash, c, blk)
      BY <1>7, <2>2 DEF PowerLoss
    <3> QED
      BY <1>1, <1>4, <3>1 DEF Bootable, Spoilt
  <2>3. CASE job.step = "idle"
    BY <1>1, <1>7, <2>3 DEF PowerLoss, Bootable
  <2> QED
    BY <2>1, <2>2, <2>3 DEF TypeOK
<1> QED
  BY <1>5, <1>6, <1>7

\* The same for an update of the application, once its flag is gone: or the
\* erase of its sector has done nothing.
LEMMA StillDown ==
  ASSUME TypeOK, Safe, ota.off = 0, job.step # "idle", ~(job.step = "erase" /\ job.n = 0)
  PROVE  ~Bootable \/ past.hurt
<1>1. ota.err = "SUCCESS" BY DEF Safe, JobInv
<1>2. CASE job.step = "erase" BY <1>1, <1>2 DEF Safe, FlagDown
<1>3. CASE job.step = "program" BY <1>1, <1>3 DEF Safe, FlagDown
<1>4. CASE job.step = "flag" BY <1>1, <1>4 DEF Safe, FlagDown, FlagEarned
<1> QED BY <1>2, <1>3, <1>4 DEF TypeOK

\* Commands and refused packets, which touch nothing but the record.
LEMMA StartSafe ==
  ASSUME ParserErases, TypeOK, Safe, OtaStart
  PROVE  Safe'
<1>1. PICK addr \in EraseAddrs \cup {-1} : ota' = [InitOta EXCEPT !.erase = addr]
  BY DEF OtaStart
<1>2. addr < 0
  BY DEF ParserErases
<1>3. UNCHANGED <<flash, job, running, past>> /\ job = NoJob
  BY DEF OtaStart, Ready
<1>4. BootableImpliesIntact' /\ Bootable' = Bootable
  BY <1>3 DEF Safe, BootableImpliesIntact, FlagMeansWhole, Bootable, Intact
<1>5. /\ ota'.err = "SUCCESS" /\ ~ota'.start /\ ota'.idx = Rewound /\ ota'.erase < 0
      /\ job' = NoJob /\ ota'.off = 0
  BY <1>1, <1>2, <1>3 DEF InitOta, Rewound
<1>6. IndexInv'
  BY <1>5, StartOfApp DEF IndexInv, NoJob
<1>7. FlagDown'
  BY <1>3, <1>4, <1>5 DEF Safe, FlagDown, NoJob
<1> QED
  BY <1>4, <1>5, <1>6, <1>7 DEF Safe, JobInv, FlagEarned, EndMeansStored, NoJob

\* A step that only reports an error, at rest, is safe.
LEMMA ErrorSafe ==
  ASSUME TypeOK, Safe, job.step = "idle", UNCHANGED <<flash, job, running, past>>,
         NEW e \in Errors \ {"SUCCESS", "END"}, NEW t \in Indices,
         ota' = [ota EXCEPT !.err = e, !.total = t]
  PROVE  Safe'
<1>1. BootableImpliesIntact' /\ Bootable' = Bootable
  BY DEF Safe, BootableImpliesIntact, FlagMeansWhole, Bootable, Intact
<1>2. ota'.err = e /\ ota'.start = ota.start /\ ota'.idx = ota.idx /\ ota'.erase = ota.erase
  BY DEF TypeOK
<1>3. e # "SUCCESS" /\ e # "END"
  OBVIOUS
<1>4. FlagDown'
  BY <1>1, <1>2, <1>3 DEF Safe, FlagDown
<1> QED
  BY <1>1, <1>2, <1>3, <1>4 DEF Safe, JobInv, IndexInv, FlagEarned, EndMeansStored, Rewound

LEMMA SetSafe ==
  ASSUME TypeOK, Safe, OtaSet \/ BadCommand
  PROVE  Safe'
<1>1. job.step = "idle" /\ UNCHANGED <<flash, job, running, past>>
  BY DEF OtaSet, BadCommand, Ready, Refuse, NoJob
<1>2. ASSUME NEW e \in {"NO_START", "PKT_SIZE_ERR", "UNKNOWN_CMD"}, ota' = [ota EXCEPT !.err = e]
      PROVE  Safe'
  <2>1. ota' = [ota EXCEPT !.err = e, !.total = ota.total] /\ ota.total \in Indices
    BY <1>2 DEF TypeOK
  <2>2. e \in Errors \ {"SUCCESS", "END"}
    BY DEF Errors
  <2> QED
    BY <1>1, <2>1, <2>2, ErrorSafe
<1>3. CASE ~ota.start /\ ota' = [ota EXCEPT !.start = TRUE]
  <2>1. /\ ota'.err = ota.err /\ ota'.off = ota.off /\ ota'.idx = ota.idx /\ ota'.total = ota.total
        /\ ota'.erase = ota.erase /\ ota'.fw = ota.fw /\ ota'.start
    BY <1>3 DEF TypeOK
  <2>2. UNCHANGED <<flash, job, running, past>> /\ ota.idx = Rewound
    BY <1>1, <1>3 DEF Safe, IndexInv
  <2>3. BootableImpliesIntact' /\ EndMeansStored' /\ Bootable' = Bootable
    BY <2>1, <2>2 DEF Safe, BootableImpliesIntact, FlagMeansWhole, EndMeansStored, Bootable, Intact
  <2>4. IndexInv'
    BY <1>1, <2>1, <2>2 DEF Safe, IndexInv
  <2>5. FlagDown'
    BY <1>1, <2>1, <2>2, <2>3 DEF Safe, FlagDown
  <2> QED
    BY <1>1, <2>1, <2>2, <2>3, <2>4, <2>5 DEF Safe, JobInv, FlagEarned
<1> QED
  BY <1>2, <1>3 DEF OtaSet, BadCommand, Refuse

LEMMA SetParamSafe ==
  ASSUME TypeOK, Safe, NEW off \in Offsets, NEW fw \in Ids, NEW total \in HostTotals,
         OtaSetParam(off, fw, total)
  PROVE  Safe'
<1>1. job = NoJob /\ job.step = "idle" /\ UNCHANGED <<flash, job, running, past>>
  BY DEF OtaSetParam, Ready, Refuse, NoJob
<1>2. CASE ota.start
  <2>1. ota' = [ota EXCEPT !.err = "NO_START", !.total = ota.total] /\ ota.total \in Indices
    BY <1>2 DEF OtaSetParam, Refuse, TypeOK
  <2> QED
    BY <1>1, <2>1, ErrorSafe DEF Errors
<1>3. CASE ~ota.start
  <2>1. /\ ota'.off = off /\ ota'.idx = ota.idx /\ ota'.erase = ota.erase /\ ota'.total = total
        /\ ota'.err = IF InRange(off, total) THEN ota.err ELSE "ERR_PARAM"
        /\ ota'.fw = fw /\ ota'.start = InRange(off, total)
    BY <1>3 DEF OtaSetParam, TypeOK
  <2>2. ota.idx = Rewound /\ ota.err # "END"
    BY <1>3 DEF Safe, IndexInv
  <2>3. BootableImpliesIntact' /\ Bootable' = Bootable
    BY <1>1 DEF Safe, BootableImpliesIntact, FlagMeansWhole, Bootable, Intact
  <2>4. IndexInv'
    BY <1>1, <2>1, <2>2 DEF Safe, IndexInv
  <2>5. FlagDown'
    BY <1>1, <2>1, <2>2, <2>3 DEF Safe, FlagDown
  <2> QED
    BY <1>1, <2>1, <2>2, <2>3, <2>4, <2>5
    DEF Safe, JobInv, FlagEarned, EndMeansStored, NoJob, Rewound
<1> QED
  BY <1>2, <1>3

\* A data packet at most arms a flash primitive, for the next block of an
\* unbroken update or, behind a checked image, for its flag.
LEMMA DataSafe ==
  ASSUME TypeOK, Safe, NEW img \in Images, NEW n \in Indices, DataPacket(img, n)
  PROVE  Safe'
<1>1. job = NoJob /\ job.step = "idle" /\ running = "boot" /\ n < CmdBase /\ UNCHANGED <<flash, running, past>>
  BY DEF DataPacket, Broken, Ready, NoJob
<1>2. BootableImpliesIntact' /\ Bootable' = Bootable
  BY <1>1 DEF Safe, BootableImpliesIntact, FlagMeansWhole, Bootable, Intact
<1>3. CASE UNCHANGED <<ota, job>>
  <2>1. FlagDown'
    BY <1>1, <1>2, <1>3 DEF Safe, FlagDown
  <2> QED
    BY <1>1, <1>2, <1>3, <2>1
    DEF Safe, JobInv, IndexInv, FlagEarned, EndMeansStored, Intact
<1>4. ASSUME NEW e \in {"NO_PARAM", "PKT_SIZE_ERR", "PKT_CRC_ERR", "PACKET_LOSS"},
             ota' = [ota EXCEPT !.err = e], UNCHANGED job
      PROVE  Safe'
  <2>1. ota' = [ota EXCEPT !.err = e, !.total = ota.total] /\ ota.total \in Indices
    BY <1>4 DEF TypeOK
  <2>2. e \in Errors \ {"SUCCESS", "END"}
    BY DEF Errors
  <2> QED
    BY <1>1, <1>4, <2>1, <2>2, ErrorSafe
<1>5. ASSUME ota.err = "SUCCESS", ota.start, n = NextIdx, AcceptBlock(img, n)
      PROVE  Safe'
  <2>1. n = 0 <=> ota.idx = Rewound
    BY <1>5, NextIdxFacts
  <2>2. CASE \E e \in Errors \ {"SUCCESS", "END"}, t \in Indices :
               ota' = [ota EXCEPT !.err = e, !.total = t] /\ UNCHANGED job
    BY <1>1, <2>2, ErrorSafe
  <2>3. CASE /\ job' = [NoJob EXCEPT !.step = "flag"] /\ UNCHANGED ota
             /\ n # 0 /\ HeaderId[img] = ota.fw /\ Intact(img, ota.off)
    <3>1. job'.step = "flag" /\ Intact(img, ota.off)'
      BY <1>1, <2>3 DEF NoJob, Intact
    <3>2. FlagDown'
      BY <1>1, <1>2, <2>3, <3>1 DEF Safe, FlagDown
    <3>3. IndexInv'
      BY <2>3, <3>1 DEF Safe, IndexInv
    <3> QED
      BY <1>1, <1>2, <1>5, <2>1, <2>3, <3>1, <3>2, <3>3
      DEF Safe, JobInv, FlagEarned, EndMeansStored
  <2>4. ASSUME NEW t \in Indices, t = ota.total \/ ota.total = 0, NEW step \in {"erase", "program"},
               job' = [step |-> step, n |-> n, blk |-> ImageBlock(img, n)],
               IF SectorBase(At(ota.off, n)) > ota.erase
               THEN step = "erase" /\ ota' = [ota EXCEPT !.total = t, !.erase = SectorBase(At(ota.off, n))]
               ELSE step = "program" /\ ota' = [ota EXCEPT !.total = t]
        PROVE  Safe'
    <3>1. /\ ota'.err = "SUCCESS" /\ ota'.start /\ ota'.off = ota.off /\ ota'.idx = ota.idx
          /\ ota'.total = t
          /\ job'.step = step /\ job'.n = n /\ job'.blk.id \in {FF, Other}
          /\ n = 0 => job'.blk.id = FF
      BY <1>5, <2>4 DEF TypeOK, ImageBlock
    <3>2. ASSUME step = "program", ota.off = 0 PROVE ~Bootable \/ past.hurt
      <4>1. CASE n = 0
        <5>1. ota.erase < 0
          BY <1>1, <2>1, <4>1 DEF Safe, IndexInv
        <5>2. SectorBase(At(ota.off, n)) = 0
          BY <3>2, <4>1, SectorFacts, AtZero, StartOfApp
        <5> QED
          BY <2>4, <3>2, <5>1, <5>2 DEF TypeOK
      <4> QED
        BY <1>5, <2>1, <3>2, <4>1 DEF Safe, FlagDown
    <3>3. job'.step # "idle" /\ job'.step # "flag"
      BY <3>1
    <3>4. JobInv' /\ FlagEarned' /\ EndMeansStored'
      BY <1>1, <3>1, <3>3 DEF JobInv, FlagEarned, EndMeansStored
    <3>5. IndexInv'
      BY <1>5, <2>4, <3>1, <3>3 DEF Safe, IndexInv
    <3>6. FlagDown'
      BY <1>1, <1>2, <1>5, <2>1, <3>1, <3>2, <3>3 DEF Safe, FlagDown, Rewound
    <3> QED
      BY <1>2, <3>4, <3>5, <3>6 DEF Safe
  <2> QED
    BY <1>5, <2>2, <2>3, <2>4, AcceptCases
<1> QED
  BY <1>3, <1>4, <1>5 DEF DataPacket, Broken

\* An erase takes the flag away with the first sector, or does nothing; or it
\* keeps clear of the application when the update is written elsewhere.
LEMMA EraseSafe ==
  ASSUME TypeOK, Safe, EraseSector
  PROVE  Safe'
<1> DEFINE c == At(ota.off, job.n)
           missed == flash' # Cleared(c)
<1>1. /\ job.step = "erase" /\ job' = [job EXCEPT !.step = "program"]
      /\ flash' = flash \/ flash' = Cleared(c)
      /\ past'.hurt = Hurt(c, missed) /\ UNCHANGED <<ota, running>>
  BY DEF EraseSector
<1> HIDE DEF c, missed
<1>2. job'.step = "program" /\ job'.n = job.n /\ job'.blk = job.blk /\ job.n \in Indices
  BY <1>1 DEF TypeOK
<1>3. ota.err = "SUCCESS" /\ (InRange(ota.off, 0) \/ InRange(ota.off, ota.total))
  BY <1>1 DEF Safe, JobInv, IndexInv
<1>4. ota.off >= 0 /\ ota.off \in Addresses /\ ota.off \in Int
  BY <1>3 DEF InRange, TypeOK, Addresses
<1>5. \A b \in Blocks : Cleared(c)[b] = IF SectorBase(b) = SectorBase(c) THEN Erased ELSE flash[b]
  BY DEF Cleared
<1>6. ~Bootable => ~Bootable'
  BY NoNewFlag DEF Safe
<1>7. past'.hurt => Bootable'
  BY <1>1 DEF Hurt
<1>8. ASSUME ota.off = 0, Bootable' PROVE past'.hurt
  <2>1. CASE missed
    BY <1>1, <1>8, <2>1 DEF Hurt
  <2>2. CASE ~missed /\ job.n = 0
    <3>1. c = 0 /\ flash' = Cleared(c) /\ 0 \in Blocks
      BY <1>4, <1>8, <2>2, AtZero, StartOfApp DEF c, missed
    <3>2. flash'[0] = Erased
      BY <1>5, <3>1
    <3> QED
      BY <1>8, <3>2, WordsAssumption DEF Bootable, Erased, Ids
  <2>3. CASE ~missed /\ job.n # 0
    <3>1. past.hurt
      BY <1>1, <1>6, <1>8, <2>3, StillDown
    <3> QED
      BY <1>1, <1>8, <3>1 DEF Hurt
  <2> QED
    BY <2>1, <2>2, <2>3
<1>9. BootableImpliesIntact'
  <2>1. SUFFICES ASSUME Bootable', ~past'.hurt PROVE FlagMeansWhole'
    BY DEF BootableImpliesIntact, FlagMeansWhole
  <2>2. ~past.hurt /\ ota.off # 0 /\ ~Foreign(c) /\ Bootable
    BY <1>1, <1>6, <1>8, <2>1 DEF Hurt
  <2>3. \A b \in AppArea : b \in Blocks /\ SectorBase(b) # SectorBase(c)
    BY <2>2 DEF Foreign, AppArea
  <2>4. \A b \in AppArea : flash'[b] = flash[b]
    BY <1>1, <1>5, <2>3
  <2>5. FlagMeansWhole
    BY <2>2 DEF Safe, BootableImpliesIntact
  <2> QED
    BY <2>2, <2>4, <2>5, AppUntouched
<1>10. JobInv' /\ IndexInv' /\ FlagEarned' /\ EndMeansStored'
  BY <1>1, <1>2, <1>3 DEF Safe, JobInv, IndexInv, FlagEarned, EndMeansStored
<1>11. FlagDown'
  BY <1>1, <1>2, <1>7, <1>8 DEF Safe, FlagDown, Rewound
<1> QED
  BY <1>9, <1>10, <1>11 DEF Safe

\* A block that is programmed is not the flag, and its index moves on.
LEMMA ProgramSafe ==
  ASSUME TypeOK, Safe, ProgramBlock
  PROVE  Safe'
<1> DEFINE c == At(ota.off, job.n)
<1>1. /\ job.step = "program" /\ job' = NoJob
      /\ flash' = flash \/ flash' = Program(flash, c, job.blk)
      /\ ota' = [ota EXCEPT !.idx = job.n] /\ UNCHANGED running
      /\ past' = [past EXCEPT !.hurt = Hurt(c, FALSE)]
  BY DEF ProgramBlock
<1> HIDE DEF c
<1>2. /\ ota'.err = ota.err /\ ota'.off = ota.off /\ ota'.idx = job.n /\ ota'.start = ota.start
      /\ ota'.erase = ota.erase /\ ota'.fw = ota.fw /\ ota'.total = ota.total
      /\ job.n \in Indices
  BY <1>1 DEF TypeOK
<1>3. past'.hurt = Hurt(c, FALSE)
  BY <1>1 DEF TypeOK
<1>4. ota.err = "SUCCESS" /\ ota.start /\ job.n < CmdBase
  BY <1>1 DEF Safe, JobInv
<1>5. job.n # Rewound
  BY <1>2, <1>4, SizesAssumption DEF Rewound, Indices
<1>6. ~Bootable => ~Bootable'
  BY NoNewFlag DEF Safe
<1>7. past'.hurt => Bootable'
  BY <1>3 DEF Hurt
<1>8. ASSUME ota.off = 0, Bootable' PROVE past'.hurt
  <2>1. past.hurt
    BY <1>1, <1>6, <1>8, StillDown
  <2> QED
    BY <1>3, <1>8, <2>1 DEF Hurt
<1>9. BootableImpliesIntact'
  <2>1. SUFFICES ASSUME Bootable', ~past'.hurt PROVE FlagMeansWhole'
    BY DEF BootableImpliesIntact, FlagMeansWhole
  <2>2. ~past.hurt /\ ota.off # 0 /\ ~Foreign(c) /\ Bootable
    BY <1>3, <1>6, <1>8, <2>1 DEF Hurt
  <2>3. \A b \in AppArea : b \in Blocks /\ b # c
    BY <2>2 DEF Foreign, AppArea
  <2>4. \A b \in AppArea : flash'[b] = flash[b]
    BY <1>1, <2>3, ProgramFacts
  <2>5. FlagMeansWhole
    BY <2>2 DEF Safe, BootableImpliesIntact
  <2> QED
    BY <2>2, <2>4, <2>5, AppUntouched
<1>10. JobInv' /\ FlagEarned' /\ EndMeansStored'
  BY <1>1, <1>2, <1>4 DEF JobInv, FlagEarned, EndMeansStored, NoJob
<1>11. IndexInv'
  BY <1>1, <1>2, <1>4, <1>5 DEF Safe, IndexInv, NoJob, Rewound
<1>12. FlagDown'
  BY <1>1, <1>2, <1>7, <1>8 DEF Safe, FlagDown, NoJob
<1> QED
  BY <1>9, <1>10, <1>11, <1>12 DEF Safe

\* The flag goes in front of an image that has been checked, and of no other.
LEMMA FlagSafe ==
  ASSUME TypeOK, Safe, WriteFlag
  PROVE  Safe' /\ (Bootable' => past.hurt \/ FlagMeansWhole')
<1>1. /\ job.step = "flag" /\ job' = NoJob /\ UNCHANGED running
      /\ flash' = flash \/ flash' = Program(flash, ota.off, FlagBlock)
      /\ ota' = [ota EXCEPT !.err =
                   IF flash'[ota.off].id = ota.fw THEN "END" ELSE "WRITE_FLASH_ERR"]
      /\ past' = [past EXCEPT !.hurt = Hurt(ota.off, FALSE)]
  BY DEF WriteFlag
<1>2. /\ ota'.err = IF flash'[ota.off].id = ota.fw THEN "END" ELSE "WRITE_FLASH_ERR"
      /\ ota'.off = ota.off /\ ota'.idx = ota.idx /\ ota'.start = ota.start
      /\ ota'.erase = ota.erase /\ ota'.fw = ota.fw /\ ota'.total = ota.total
  BY <1>1 DEF TypeOK
<1>3. past'.hurt = Hurt(ota.off, FALSE)
  BY <1>1 DEF TypeOK
<1>4. ota.err = "SUCCESS" /\ ota.start /\ ota.idx # Rewound
  BY <1>1 DEF Safe, JobInv, FlagEarned
<1>5. PICK img \in Images : HeaderId[img] = ota.fw /\ Intact(img, ota.off)
  BY <1>1 DEF Safe, FlagEarned
<1>6. ota.off \in Blocks /\ ota.off \in Int
  <2>1. 0 \in 0 .. Total[img] - 2
    BY ImagesAssumption
  <2>2. At(ota.off, 0) = ota.off
    BY AtZero DEF TypeOK
  <2> QED
    BY <1>5, <2>1, <2>2 DEF Intact, TypeOK, Blocks
<1>7. \A b \in Blocks : flash'[b].body = flash[b].body
  <2>1. FlagBlock.body = FF BY DEF FlagBlock
  <2> QED BY <1>1, <2>1, ProgramFacts
<1>8. \A i \in Images, o \in Int : Intact(i, o) => Intact(i, o)'
  BY <1>7 DEF Intact
<1>9. \A b \in Blocks : b # ota.off => flash'[b] = flash[b]
  BY <1>1, ProgramFacts
<1>10. Bootable' => past.hurt \/ FlagMeansWhole'
  <2>1. SUFFICES ASSUME Bootable', ~past.hurt PROVE FlagMeansWhole'
    BY DEF FlagMeansWhole
  <2>2. CASE Bootable
    <3>1. FlagMeansWhole
      BY <2>1 DEF Safe, BootableImpliesIntact
    <3> QED
      BY <1>8, <2>2, <3>1 DEF FlagMeansWhole
  <2>3. CASE ~Bootable
    <3>1. 0 \in Blocks BY StartOfApp
    <3>2. ota.off = 0
      BY <1>9, <2>1, <2>3, <3>1 DEF Bootable
    <3>3. flash'[0].id = Burn(flash[0].id, ota.fw)
      BY <1>1, <2>1, <2>3, <3>1, <3>2, ProgramFacts DEF Bootable, FlagBlock
    <3>4. ota.fw = START_UP_FLAG
      BY <2>1, <2>3, <3>3, WordsAssumption DEF Bootable, Burn, Ids
    <3> QED
      BY <1>5, <1>8, <3>2, <3>4 DEF FlagMeansWhole
  <2> QED
    BY <2>2, <2>3
<1>11. BootableImpliesIntact'
  <2>1. Bootable' /\ past.hurt => past'.hurt
    BY <1>3 DEF Hurt
  <2> QED
    BY <1>10, <2>1 DEF BootableImpliesIntact, FlagMeansWhole
<1>12. EndMeansStored'
  BY <1>2, <1>5, <1>6, <1>8 DEF EndMeansStored
<1>13. past'.hurt => Bootable'
  BY <1>3 DEF Hurt
<1>14. JobInv' /\ FlagEarned'
  BY <1>1, <1>2, <1>4 DEF JobInv, FlagEarned, NoJob
<1>15. ota'.err # "SUCCESS" /\ job'.step = "idle"
  BY <1>1, <1>2 DEF NoJob
<1>16. IndexInv'
  BY <1>2, <1>4, <1>15 DEF IndexInv, Rewound
<1>17. FlagDown'
  BY <1>13, <1>15 DEF FlagDown
<1> QED
  BY <1>10, <1>11, <1>12, <1>14, <1>16, <1>17 DEF Safe

\* Power failure: what is torn is never the flag of an image that boots.
LEMMA PowerSafe ==
  ASSUME TypeOK, Safe, PowerLoss
  PROVE  Safe'
<1> DEFINE c == At(ota.off, job.n)
<1>1. Restart("none", flash')
  BY DEF PowerLoss
<1>2. CASE job.step = "idle"
  <2>1. flash' = flash /\ past' = past
    BY <1>2 DEF PowerLoss
  <2>2. BootableImpliesIntact' /\ (past'.hurt => Bootable')
    BY <2>1 DEF Safe, FlagDown, BootableImpliesIntact, FlagMeansWhole, Bootable, Intact
  <2> QED
    BY <1>1, <2>2, RestartSafe
<1>3. CASE job.step # "idle"
  <2>1. past' = [past EXCEPT !.hurt = Hurt(c, FALSE)]
    BY <1>3 DEF PowerLoss
  <2> HIDE DEF c
  <2>2. past'.hurt = Hurt(c, FALSE)
    BY <2>1 DEF TypeOK
  <2>3. past'.hurt => Bootable'
    BY <2>2 DEF Hurt
  <2>4. SUFFICES ASSUME Bootable', ~past'.hurt PROVE FlagMeansWhole'
    <3>1. BootableImpliesIntact' BY <2>4 DEF BootableImpliesIntact, FlagMeansWhole
    <3> QED BY <1>1, <2>3, <3>1, RestartSafe
  <2>5. Bootable /\ ~past.hurt
    BY <2>2, <2>4, NoNewFlag DEF Safe, Hurt
  <2>6. FlagMeansWhole
    BY <2>5 DEF Safe, BootableImpliesIntact
  <2>7. CASE ota.off = 0
    <3>1. job.step = "erase" /\ job.n = 0
      BY <1>3, <2>5, <2>7, StillDown
    <3>2. c = 0 /\ 0 \in Blocks
      BY <2>7, <3>1, AtZero, StartOfApp DEF c
    <3>3. PICK torn \in SUBSET Blocks :
            flash' = [b \in Blocks |-> IF b \in torn THEN Spoilt ELSE Cleared(c)[b]]
      BY <3>1 DEF PowerLoss, c
    <3>4. flash'[0] = Spoilt \/ flash'[0] = Erased
      BY <3>2, <3>3 DEF Cleared
    <3> QED
      BY <2>4, <3>4, WordsAssumption DEF Bootable, Erased, Spoilt, Ids
  <2>8. CASE ota.off # 0 /\ job.step = "flag"
    <3>1. flash' = flash \/ flash' = Program(flash, ota.off, [id |-> Garbage, body |-> FF])
      BY <2>8 DEF PowerLoss
    <3>2. \A b \in Blocks : flash'[b].body = flash[b].body
      BY <3>1, ProgramFacts
    <3> QED
      BY <2>5, <2>6, <3>2 DEF FlagMeansWhole, Intact
  <2>9. CASE ota.off # 0 /\ job.step \in {"erase", "program"}
    <3>1. ~Foreign(c)
      BY <2>2, <2>4, <2>5, <2>9 DEF Hurt
    <3>2. \A b \in AppArea : b \in Blocks /\ SectorBase(b) # SectorBase(c) /\ b # c
      BY <3>1 DEF Foreign, AppArea
    <3>3. CASE job.step = "erase"
      <4>1. PICK torn \in SUBSET {b \in Blocks : SectorBase(b) = SectorBase(c)} :
              flash' = [b \in Blocks |-> IF b \in torn THEN Spoilt ELSE Cleared(c)[b]]
        BY <3>3 DEF PowerLoss, c
      <4>2. \A b \in AppArea : flash'[b] = flash[b]
        BY <3>2, <4>1 DEF Cleared
      <4> QED
        BY <2>5, <2>6, <4>2, AppUntouched
    <3>4. CASE job.step = "program"
      <4>1. flash' = flash \/ flash' = Program(flash, c, Spoilt)
        BY <3>4 DEF PowerLoss, c
      <4>2. \A b \in AppArea : flash'[b] = flash[b]
        BY <3>2, <4>1, ProgramFacts
      <4> QED
        BY <2>5, <2>6, <4>2, AppUntouched
    <3> QED
      BY <2>9, <3>3, <3>4
  <2> QED
    BY <1>3, <2>7, <2>8, <2>9 DEF TypeOK
<1> QED
  BY <1>2, <1>3
-----------------------------------------------------------------------------
LEMMA InitSafe == Init => Safe
<1> SUFFICES ASSUME Init PROVE Safe
  OBVIOUS
<1>1. JobInv /\ FlagEarned /\ EndMeansStored
  BY DEF Init, InitOta, NoJob, JobInv, FlagEarned, EndMeansStored
<1>2. IndexInv /\ FlagDown /\ ~past.hurt
  BY StartOfApp DEF Init, InitOta, NoJob, IndexInv, FlagDown, Rewound
<1>3. 0 \in Blocks
  BY StartOfApp
<1>4. CASE flash = [b \in Blocks |-> Erased]
  <2>1. ~Bootable
    BY <1>3, <1>4, WordsAssumption DEF Bootable, Erased, Ids
  <2> QED
    BY <1>1, <1>2, <2>1 DEF Safe, BootableImpliesIntact, FlagMeansWhole
<1>5. ASSUME NEW img \in Images,
             HeaderId[img] = START_UP_FLAG, Total[img] - 1 <= FlashBlocks,
             flash = [b \in Blocks |->
               IF b >= Total[img] - 1 THEN Erased
               ELSE [ImageBlock(img, b) EXCEPT !.id = IF b = 0 THEN HeaderId[img] ELSE @]]
      PROVE  Safe
  <2>1. ASSUME NEW n \in 0 .. Total[img] - 2
        PROVE  At(0, n) \in Blocks /\ flash[At(0, n)].body = <<img, n>>
    <3>1. n \in Blocks /\ ~(n >= Total[img] - 1)
      BY <1>5, SizesAssumption, ImagesAssumption DEF Blocks
    <3>2. At(0, n) = n
      BY <3>1, AtOfApp
    <3>3. flash[n].body = ImageBlock(img, n).body
      BY <1>5, <3>1 DEF ImageBlock
    <3> QED
      BY <3>1, <3>2, <3>3 DEF ImageBlock
  <2>2. Intact(img, 0)
    BY <2>1 DEF Intact
  <2> QED
    BY <1>1, <1>2, <1>5, <2>2 DEF Safe, BootableImpliesIntact, FlagMeansWhole
<1> QED
  BY <1>4, <1>5 DEF Init

LEMMA NextSafe ==
  ASSUME ParserErases, TypeOK, Safe, [Next]_vars
  PROVE  Safe'
<1>1. CASE OtaStart
  BY <1>1, StartSafe
<1>2. CASE OtaSet \/ BadCommand
  BY <1>2, SetSafe
<1>3. ASSUME NEW off \in Offsets, NEW fw \in Ids, NEW total \in HostTotals, OtaSetParam(off, fw, total)
      PROVE  Safe'
  BY <1>3, SetParamSafe
<1>4. ASSUME NEW img \in Images, NEW n \in Indices, DataPacket(img, n)
      PROVE  Safe'
  BY <1>4, DataSafe
<1>5. CASE EraseSector
  BY <1>5, EraseSafe
<1>6. CASE ProgramBlock
  BY <1>6, ProgramSafe
<1>7. CASE WriteFlag
  BY <1>7, FlagSafe
<1>8. ASSUME NEW m \in Modes, OtaEnd(m) \/ AppReboot(m) \/ SoftReset
      PROVE  Safe'
  <2>1. PICK r : Restart(r, flash)
    BY <1>8 DEF OtaEnd, AppReboot, SoftReset
  <2>2. flash' = flash /\ past' = past
    BY <1>8 DEF OtaEnd, AppReboot, SoftReset
  <2>3. BootableImpliesIntact' /\ (past'.hurt => Bootable')
    BY <2>2 DEF Safe, FlagDown, BootableImpliesIntact, FlagMeansWhole, Bootable, Intact
  <2> QED
    BY <2>1, <2>3, RestartSafe
<1>9. CASE PowerLoss
  BY <1>9, PowerSafe
<1>10. CASE UNCHANGED vars
  <2>1. UNCHANGED <<ota, flash, job, running, past>>
    BY <1>10 DEF vars
  <2>2. JobInv' /\ IndexInv' /\ FlagDown'
    BY <2>1 DEF Safe, JobInv, IndexInv, FlagDown, Bootable
  <2>3. FlagEarned' /\ BootableImpliesIntact' /\ EndMeansStored'
    BY <2>1 DEF Safe, FlagEarned, BootableImpliesIntact, FlagMeansWhole, EndMeansStored, Bootable,
       Intact
  <2> QED
    BY <2>2, <2>3 DEF Safe
<1> QED
  BY <1>1, <1>2, <1>3, <1>4, <1>5, <1>6, <1>7, <1>8, <1>9, <1>10 DEF Next, Modes

-----------------------------------------------------------------------------
(* What is erased ahead of the block that comes next.                      *)

\* While an update is unbroken, every block from the next one to the end of the
\* last sector erased is erased, if the erase has worked; only the sector about
\* to be erased is not.
ErasedInv ==
  ota.err = "SUCCESS" =>
    /\ job.step \in {"erase", "program"} => job.n = NextIdx
    /\ job.step = "erase" => ota.erase = SectorBase(At(ota.off, job.n))
    /\ job.step = "program" => SectorBase(At(ota.off, job.n)) <= ota.erase
    /\ job.step # "erase" /\ ~past.missed =>
         \A b \in Blocks : b >= ota.off + NextIdx /\ SectorBase(b) <= ota.erase =>
           flash[b] = Erased

\* A block further on is in the same sector or in a later one.
LEMMA SectorsInOrder ==
  ASSUME NEW a \in Nat, NEW b \in Nat, a <= b
  PROVE  SectorBase(a) <= SectorBase(b)
<1> DEFINE k == BlocksPerSector
           p == a \div k
           q == b \div k
           r == a % k
           s == b % k
<1>1. k \in Nat \ {0} BY SizesAssumption
<1> HIDE DEF k
<1>2. a = k * p + r /\ r \in 0 .. k - 1 /\ p \in Nat BY <1>1, Division
<1>3. b = k * q + s /\ s \in 0 .. k - 1 /\ q \in Nat BY <1>1, Division
<1>4. SectorBase(a) = a - r /\ SectorBase(b) = b - s BY DEF SectorBase, k
<1> HIDE DEF p, q, r, s
<1>5. k * p \in Int /\ k * q \in Int BY <1>1, <1>2, <1>3
<1>6. CASE p <= q
  <2>1. k * p <= k * q BY <1>1, <1>2, <1>3, <1>6, MultiplesGrow
  <2> QED BY <1>1, <1>2, <1>3, <1>4, <1>5, <2>1
<1>7. CASE p > q
  <2>1. k * (q + 1) <= k * p BY <1>1, <1>2, <1>3, <1>7, MultiplesGrow
  <2>2. k * (q + 1) = k * q + k BY <1>1, <1>3
  <2> QED BY <1>1, <1>2, <1>3, <1>5, <2>1, <2>2
<1> QED BY <1>2, <1>3, <1>6, <1>7

\* A reset, or a new start, leaves nothing to be found erased.
LEMMA NothingErased ==
  ASSUME job'.step = "idle", ota'.erase < 0, ota'.erase \in Int
  PROVE  ErasedInv'
<1>1. \A b \in Blocks : SectorBase(b) \in Int /\ SectorBase(b) >= 0
  BY SectorFacts DEF Blocks
<1> QED BY <1>1 DEF ErasedInv

\* A step that changes nothing the invariant reads but the total.
LEMMA ErasedKept ==
  ASSUME ErasedInv, UNCHANGED <<flash, past>>, ota'.err = "SUCCESS" => ota.err = "SUCCESS",
         ota'.off = ota.off, ota'.idx = ota.idx, ota'.erase = ota.erase,
         \/ UNCHANGED job
         \/ job.step # "erase" /\ job'.step \in {"idle", "flag"}
  PROVE  ErasedInv'
BY DEF ErasedInv, NextIdx

LEMMA DataErased ==
  ASSUME TypeOK, Safe, ErasedInv, NEW img \in Images, NEW n \in Indices, DataPacket(img, n)
  PROVE  ErasedInv'
<1>1. job = NoJob /\ job.step = "idle" /\ flash' = flash /\ past' = past
  BY DEF DataPacket, Ready, NoJob
<1>2. ASSUME UNCHANGED job,
             \/ UNCHANGED ota
             \/ \E e \in Errors \ {"SUCCESS", "END"} :
                  \/ ota' = [ota EXCEPT !.err = e]
                  \/ \E t \in Indices : ota' = [ota EXCEPT !.err = e, !.total = t]
      PROVE  ErasedInv'
  <2>1. /\ ota'.off = ota.off /\ ota'.idx = ota.idx /\ ota'.erase = ota.erase
        /\ ota'.err = "SUCCESS" => ota.err = "SUCCESS"
    BY <1>2 DEF TypeOK
  <2> QED BY <1>1, <1>2, <2>1, ErasedKept
<1>3. ASSUME ota.err = "SUCCESS", n = NextIdx, NEW t \in Indices, NEW step \in {"erase", "program"},
             job' = [step |-> step, n |-> n, blk |-> ImageBlock(img, n)],
             IF SectorBase(At(ota.off, n)) > ota.erase
             THEN step = "erase" /\ ota' = [ota EXCEPT !.total = t, !.erase = SectorBase(At(ota.off, n))]
             ELSE step = "program" /\ ota' = [ota EXCEPT !.total = t]
      PROVE  ErasedInv'
  <2>1. /\ ota'.err = ota.err /\ ota'.off = ota.off /\ ota'.idx = ota.idx /\ NextIdx' = NextIdx
        /\ job'.step = step /\ job'.n = n
    BY <1>3 DEF TypeOK, NextIdx
  <2>2. SectorBase(At(ota.off, n)) \in Int /\ ota.erase \in Int
    <3>1. At(ota.off, n) \in Int BY AtType DEF TypeOK
    <3> QED BY <3>1, SectorFacts DEF TypeOK
  <2>3. CASE SectorBase(At(ota.off, n)) > ota.erase
    <3>1. step = "erase" /\ ota'.erase = SectorBase(At(ota.off, n)) BY <1>3, <2>3 DEF TypeOK
    <3> QED BY <1>3, <2>1, <3>1 DEF ErasedInv
  <2>4. CASE ~(SectorBase(At(ota.off, n)) > ota.erase)
    <3>1. step = "program" /\ ota'.erase = ota.erase BY <1>3, <2>4 DEF TypeOK
    <3> QED BY <1>1, <1>3, <2>1, <2>2, <2>4, <3>1 DEF ErasedInv
  <2> QED BY <2>3, <2>4
<1>4. CASE n = NextIdx /\ ota.err = "SUCCESS" /\ AcceptBlock(img, n)
  <2>1. CASE /\ job' = [NoJob EXCEPT !.step = "flag"] /\ UNCHANGED ota
    <3>1. job'.step = "flag" BY <2>1 DEF NoJob
    <3> QED BY <1>1, <2>1, <3>1, ErasedKept
  <2>2. CASE \E e \in Errors \ {"SUCCESS", "END"}, t \in Indices :
               ota' = [ota EXCEPT !.err = e, !.total = t] /\ UNCHANGED job
    BY <1>2, <2>2
  <2>3. CASE \E t \in Indices :
              /\ t = ota.total \/ ota.total = 0
              /\ IF SectorBase(At(ota.off, n)) > ota.erase
                 THEN /\ job' = [step |-> "erase", n |-> n, blk |-> ImageBlock(img, n)]
                      /\ ota' = [ota EXCEPT !.total = t, !.erase = SectorBase(At(ota.off, n))]
                 ELSE /\ job' = [step |-> "program", n |-> n, blk |-> ImageBlock(img, n)]
                      /\ ota' = [ota EXCEPT !.total = t]
    BY <1>3, <1>4, <2>3
  <2> QED BY <1>4, <2>1, <2>2, <2>3, AcceptCases
<1> QED BY <1>2, <1>4 DEF DataPacket, Broken, Errors

\* Behind an erase the blocks from the next one on, as far as its sector goes,
\* are erased: those of earlier sectors lie before it.
LEMMA EraseErased ==
  ASSUME TypeOK, Safe, ErasedInv, EraseSector
  PROVE  ErasedInv'
<1> DEFINE c == At(ota.off, job.n)
<1>1. /\ job.step = "erase" /\ job' = [job EXCEPT !.step = "program"] /\ UNCHANGED ota
      /\ ~past'.missed => flash' = Cleared(c)
  BY DEF EraseSector
<1>2. job'.step = "program" /\ job'.n = job.n BY <1>1 DEF TypeOK
<1>3. ota.err = "SUCCESS" /\ job.n = NextIdx /\ ota.erase = SectorBase(c)
  BY <1>1 DEF Safe, JobInv, ErasedInv
<1>4. ota.off \in Addresses /\ ota.off \in Int /\ ota.off >= 0 /\ job.n \in Indices /\ job.n \in Int
  BY <1>3 DEF Safe, IndexInv, InRange, TypeOK, Indices, Addresses
<1>5. c \in Int /\ (c = ota.off + job.n \/ ota.off + job.n >= FlashBlocks)
  BY <1>4, AtFacts
<1> HIDE DEF c
<1>6. ASSUME flash' = Cleared(c), NEW b \in Blocks, b >= ota.off + job.n, SectorBase(b) <= ota.erase
      PROVE  flash'[b] = Erased
  <2>1. b \in Nat /\ b < FlashBlocks BY SizesAssumption DEF Blocks
  <2>2. c = ota.off + job.n BY <1>4, <1>5, <1>6, <2>1, SizesAssumption
  <2>3. c \in Nat /\ c <= b BY <1>4, <1>6, <2>2 DEF Indices
  <2>4. SectorBase(c) <= SectorBase(b) BY <2>1, <2>3, SectorsInOrder
  <2>5. SectorBase(b) \in Int /\ SectorBase(c) \in Int BY <2>1, <2>3, SectorFacts
  <2>6. SectorBase(b) = SectorBase(c) BY <1>3, <1>6, <2>4, <2>5
  <2> QED BY <1>6, <2>6 DEF Cleared
<1>7. SectorBase(c) <= ota.erase
  <2>1. ota.erase \in Int BY DEF TypeOK
  <2> QED BY <1>3, <2>1
<1>8. NextIdx' = NextIdx BY <1>1 DEF NextIdx
<1>9. c = At(ota'.off, job'.n) BY <1>1, <1>2 DEF c
<1> QED BY <1>1, <1>2, <1>3, <1>6, <1>7, <1>8, <1>9 DEF ErasedInv

\* The block that is programmed is the one before the next.
LEMMA ProgramErased ==
  ASSUME TypeOK, Safe, ErasedInv, ProgramBlock
  PROVE  ErasedInv'
<1> DEFINE c == At(ota.off, job.n)
<1>1. /\ job.step = "program" /\ job' = NoJob
      /\ flash' = flash \/ flash' = Program(flash, c, job.blk)
      /\ ota' = [ota EXCEPT !.idx = job.n]
  BY DEF ProgramBlock
<1>2. /\ ota'.err = ota.err /\ ota'.off = ota.off /\ ota'.erase = ota.erase /\ ota'.idx = job.n
      /\ past'.missed = past.missed
  BY <1>1 DEF TypeOK, ProgramBlock
<1>3. ota.err = "SUCCESS" /\ job.n < CmdBase /\ job.n = NextIdx
  BY <1>1 DEF Safe, JobInv, ErasedInv
<1>4. ota.off \in Addresses /\ ota.off \in Int /\ ota.off >= 0 /\ job.n \in Indices /\ job.n \in Int
  BY <1>3 DEF Safe, IndexInv, InRange, TypeOK, Indices, Addresses
<1>5. c \in Blocks => c = ota.off + job.n
  BY <1>4, AtFacts
<1> HIDE DEF c
<1>6. NextIdx' = job.n + 1
  BY <1>2, <1>3, <1>4, SizesAssumption DEF NextIdx, Indices
<1>7. ASSUME ~past.missed, NEW b \in Blocks, b >= ota.off + (job.n + 1), SectorBase(b) <= ota.erase
      PROVE  flash'[b] = Erased
  <2>1. b \in Int /\ b >= ota.off + job.n /\ b # ota.off + job.n BY <1>4, <1>7 DEF Blocks
  <2>2. b # c BY <1>5, <2>1
  <2>3. flash[b] = Erased BY <1>1, <1>3, <1>7, <2>1 DEF ErasedInv
  <2>4. Program(flash, c, job.blk)[b] = flash[b] BY <2>2, ProgramFacts
  <2> QED BY <1>1, <2>3, <2>4
<1> QED BY <1>1, <1>2, <1>6, <1>7 DEF ErasedInv, NoJob

LEMMA NextErased ==
  ASSUME ParserErases, TypeOK, Safe, ErasedInv, [Next]_vars
  PROVE  ErasedInv'
<1>1. CASE OtaStart
  <2>1. PICK addr \in EraseAddrs \cup {-1} : ota' = [InitOta EXCEPT !.erase = addr]
    BY <1>1 DEF OtaStart
  <2>2. addr < 0 /\ addr \in Int BY EraseAssumption DEF ParserErases
  <2>3. ota'.erase = addr BY <2>1 DEF InitOta
  <2>4. job'.step = "idle" BY <1>1 DEF OtaStart, Ready, NoJob
  <2> QED BY <2>2, <2>3, <2>4, NothingErased
<1>2. CASE OtaSet \/ BadCommand
  <2>1. /\ UNCHANGED <<flash, job, past>>
        /\ ota'.off = ota.off /\ ota'.idx = ota.idx /\ ota'.erase = ota.erase
        /\ ota'.err = "SUCCESS" => ota.err = "SUCCESS"
    BY <1>2 DEF OtaSet, BadCommand, Refuse, TypeOK
  <2> QED BY <2>1, ErasedKept
<1>3. ASSUME NEW off \in Offsets, NEW fw \in Ids, NEW total \in HostTotals, OtaSetParam(off, fw, total)
      PROVE  ErasedInv'
  <2>1. job.step = "idle" /\ UNCHANGED <<flash, job>>
    BY <1>3 DEF OtaSetParam, Refuse, Ready, NoJob
  <2>2. CASE ota.start
    <3>1. /\ ota'.off = ota.off /\ ota'.idx = ota.idx /\ ota'.erase = ota.erase
          /\ ota'.err = "NO_START"
      BY <1>3, <2>2 DEF OtaSetParam, Refuse, TypeOK
    <3> QED BY <3>1 DEF ErasedInv
  <2>3. CASE ~ota.start
    <3>1. ota.erase < 0 BY <2>1, <2>3 DEF Safe, IndexInv
    <3>2. ota'.erase = ota.erase /\ ota.erase \in Int BY <1>3, <2>3 DEF OtaSetParam, TypeOK
    <3> QED BY <2>1, <3>1, <3>2, NothingErased
  <2> QED BY <2>2, <2>3
<1>4. ASSUME NEW img \in Images, NEW n \in Indices, DataPacket(img, n)
      PROVE  ErasedInv'
  BY <1>4, DataErased
<1>5. CASE EraseSector BY <1>5, EraseErased
<1>6. CASE ProgramBlock BY <1>6, ProgramErased
<1>7. CASE WriteFlag
  <2>1. ota'.err # "SUCCESS"
    BY <1>7 DEF WriteFlag, TypeOK
  <2> QED BY <2>1 DEF ErasedInv
<1>8. ASSUME NEW r, NEW fl, Restart(r, fl)
      PROVE  ErasedInv'
  <2>1. job'.step = "idle" /\ ota'.erase = -1 BY <1>8, RestartType DEF InitOta, NoJob
  <2> QED BY <2>1, NothingErased
<1>9. ASSUME NEW m \in Modes, OtaEnd(m) \/ AppReboot(m) \/ SoftReset \/ PowerLoss
      PROVE  ErasedInv'
  BY <1>8, <1>9 DEF OtaEnd, AppReboot, SoftReset, PowerLoss
<1>10. CASE UNCHANGED vars
  BY <1>10 DEF vars, ErasedInv, NextIdx
<1> QED
  BY <1>1, <1>2, <1>3, <1>4, <1>5, <1>6, <1>7, <1>9, <1>10 DEF Next, Modes

LEMMA InitErased == Init => ErasedInv
<1>1. \A b \in Blocks : SectorBase(b) \in Int /\ SectorBase(b) >= 0
  BY SectorFacts DEF Blocks
<1> QED BY <1>1 DEF Init, ErasedInv, InitOta, NoJob
-----------------------------------------------------------------------------
(* The theorems.                                                           *)

\* The inductive invariant holds for every flash, file, packet and offset and for
\* every erase or write that fails, if the host leaves erasing to the parser.
THEOREM Invariance == ASSUME ParserErases PROVE Spec => []IInv
<1>1. IInv <=> TypeOK /\ Safe
  BY DEF IInv, Safe
<1>2. Init => IInv
  BY <1>1, InitType, InitSafe
<1>3. IInv /\ [Next]_vars => IInv'
  <2> SUFFICES ASSUME TypeOK, Safe, [Next]_vars PROVE TypeOK' /\ Safe'
    BY DEF IInv, Safe
  <2> QED
    BY NextType, NextSafe
<1> QED
  BY <1>2, <1>3, PTL DEF Spec

\* The flag stands in front of a complete image only, except after the two
\* things past.hurt records: an erase of its update that did nothing, and an
\* update that CMD_OTA_SET has let into the application from elsewhere.
THEOREM NeverBootsPartial == ASSUME ParserErases PROVE Spec => []BootableImpliesIntact
<1>1. IInv => BootableImpliesIntact
  BY DEF IInv
<1> QED
  BY <1>1, Invariance, PTL

\* Without exception, the start-up flag appears only in front of an image that
\* is complete at that moment, whatever has been refused, torn or not erased.
THEOREM FlagIsAlwaysEarned == ASSUME ParserErases PROVE Spec => FlagIsEarned
<1>1. IInv /\ [Next]_vars => [~Bootable /\ Bootable' => FlagMeansWhole']_vars
  <2> SUFFICES ASSUME TypeOK, Safe, Next, ~Bootable, Bootable' PROVE FlagMeansWhole'
    BY DEF IInv, Safe, FlagMeansWhole
  <2>1. ~past.hurt
    BY DEF Safe, FlagDown
  <2>2. CASE WriteFlag
    BY <2>1, <2>2, FlagSafe
  <2>3. ~EraseSector /\ ~ProgramBlock /\ ~PowerLoss
    BY NoNewFlag DEF Safe
  <2>4. flash' = flash => FALSE
    BY DEF Bootable
  <2>5. CASE OtaStart \/ OtaSet \/ BadCommand \/ SoftReset
    BY <2>4, <2>5 DEF OtaStart, OtaSet, BadCommand, Refuse, SoftReset
  <2>6. ASSUME NEW off \in Offsets, NEW fw \in Ids, NEW total \in HostTotals, OtaSetParam(off, fw, total)
        PROVE  FALSE
    BY <2>4, <2>6 DEF OtaSetParam, Refuse
  <2>7. ASSUME NEW img \in Images, NEW n \in Indices, DataPacket(img, n)
        PROVE  FALSE
    BY <2>4, <2>7 DEF DataPacket
  <2>8. ASSUME NEW m \in Modes, OtaEnd(m) \/ AppReboot(m)
        PROVE  FALSE
    BY <2>4, <2>8 DEF OtaEnd, AppReboot
  <2> QED
    BY <2>2, <2>3, <2>5, <2>6, <2>7, <2>8 DEF Next
<1> QED
  BY <1>1, Invariance, PTL DEF Spec, FlagIsEarned

\* A host that reads OTA_END has its image, with its id, in flash.
THEOREM EndIsReliable == ASSUME ParserErases PROVE Spec => []EndMeansStored
<1>1. IInv => EndMeansStored
  BY DEF IInv
<1> QED
  BY <1>1, Invariance, PTL

\* Once an error is reported nothing is written until the host starts again:
\* no flash primitive is pending then, and only a pending one writes.
THEOREM NoWriteAfterError == ASSUME ParserErases PROVE Spec => ErrorStopsWriting
<1>1. IInv /\ [Next]_vars => [ota.err # "SUCCESS" => flash' = flash]_vars
  <2> SUFFICES ASSUME IInv, Next, ota.err # "SUCCESS" PROVE flash' = flash
    BY DEF vars
  <2>1. job = NoJob /\ job.step = "idle"
    BY DEF IInv, JobInv, NoJob
  <2>2. CASE OtaStart \/ OtaSet \/ BadCommand
    BY <2>2 DEF OtaStart, OtaSet, BadCommand, Refuse
  <2>3. ASSUME NEW off \in Offsets, NEW fw \in Ids, NEW total \in HostTotals, OtaSetParam(off, fw, total)
        PROVE  flash' = flash
    BY <2>3 DEF OtaSetParam, Refuse
  <2>4. ASSUME NEW img \in Images, NEW n \in Indices, DataPacket(img, n)
        PROVE  flash' = flash
    BY <2>4 DEF DataPacket
  <2>5. ~EraseSector /\ ~ProgramBlock /\ ~WriteFlag
    BY <2>1 DEF EraseSector, ProgramBlock, WriteFlag
  <2>6. ASSUME NEW m \in Modes, OtaEnd(m) \/ AppReboot(m) \/ SoftReset
        PROVE  flash' = flash
    BY <2>6 DEF OtaEnd, AppReboot, SoftReset
  <2>7. CASE PowerLoss
    BY <2>1, <2>7 DEF PowerLoss
  <2> QED
    BY <2>2, <2>3, <2>4, <2>5, <2>6, <2>7 DEF Next, Modes
<1> QED
  BY <1>1, Invariance, PTL DEF Spec, ErrorStopsWriting

\* Nothing is erased or written with parameters that the range test, sums taken
\* modulo 2^32, does not let through, whatever CMD_OTA_SET has refused before.
THEOREM RefusedStaysUnused == ASSUME ParserErases PROVE Spec => []RefusedOffsetUnused
<1>1. IInv => RefusedOffsetUnused
  BY DEF IInv, JobInv, IndexInv, RefusedOffsetUnused
<1> QED
  BY <1>1, Invariance, PTL

\* An error ends with a start or a reset only, and both begin at block 0.
THEOREM ErrorStays == ASSUME ParserErases PROVE Spec => ErrorIsSticky
<1> DEFINE Fresh == ota'.idx = IdxMod - 1 /\ ~ota'.start
<1>1. IInv /\ [Next]_vars => [ota.err # "SUCCESS" /\ ota'.err = "SUCCESS" => Fresh]_vars
  <2> SUFFICES ASSUME IInv, Next, ota.err # "SUCCESS", ota'.err = "SUCCESS" PROVE Fresh
    BY DEF vars
  <2> HIDE DEF Fresh
  <2>1. job = NoJob /\ job.step = "idle"
    BY DEF IInv, JobInv, NoJob
  <2>2. "err" \in DOMAIN ota /\ ota = [ota EXCEPT !.err = @]
    BY DEF IInv, TypeOK
  <2>3. CASE OtaStart
    BY <2>3 DEF OtaStart, InitOta, Fresh
  <2>4. CASE OtaSet \/ BadCommand
    BY <2>2, <2>4 DEF OtaSet, BadCommand, Refuse
  <2>5. ASSUME NEW off \in Offsets, NEW fw \in Ids, NEW total \in HostTotals, OtaSetParam(off, fw, total)
        PROVE  FALSE
    BY <2>2, <2>5 DEF OtaSetParam, Refuse, IInv, TypeOK
  <2>6. ASSUME NEW img \in Images, NEW n \in Indices, DataPacket(img, n)
        PROVE  FALSE
    BY <2>6 DEF DataPacket, Broken
  <2>7. ~EraseSector /\ ~ProgramBlock /\ ~WriteFlag
    BY <2>1 DEF EraseSector, ProgramBlock, WriteFlag
  <2>8. ASSUME NEW m \in Modes, OtaEnd(m) \/ AppReboot(m) \/ SoftReset
        PROVE  Fresh
    BY <2>8 DEF OtaEnd, AppReboot, SoftReset, Restart, InitOta, Fresh
  <2>9. CASE PowerLoss
    BY <2>9 DEF PowerLoss, Restart, InitOta, Fresh
  <2> QED
    BY <2>3, <2>4, <2>5, <2>6, <2>7, <2>8, <2>9 DEF Next, Modes
<1> QED
  BY <1>1, Invariance, PTL DEF Spec, ErrorIsSticky

\* A block is programmed only over erased flash, also when an update begins
\* again in the middle of another or a block is sent twice: unless the erase
\* before it did nothing, which the code does not notice.
THEOREM OnlyErasedProgrammed == ASSUME ParserErases PROVE Spec => []ProgramOnlyErased
<1>1. IInv <=> TypeOK /\ Safe
  BY DEF IInv, Safe
<1>2. Init => IInv /\ ErasedInv
  BY <1>1, InitType, InitSafe, InitErased
<1>3. IInv /\ ErasedInv /\ [Next]_vars => IInv' /\ ErasedInv'
  <2> SUFFICES ASSUME TypeOK, Safe, ErasedInv, [Next]_vars
               PROVE  TypeOK' /\ Safe' /\ ErasedInv'
    BY DEF IInv, Safe
  <2> QED
    BY NextType, NextSafe, NextErased
<1>4. IInv /\ ErasedInv => ProgramOnlyErased
  <2> SUFFICES ASSUME IInv, ErasedInv, job.step = "program", At(ota.off, job.n) \in Blocks,
                      ~past.missed
               PROVE  flash[At(ota.off, job.n)] = Erased
    BY DEF ProgramOnlyErased
  <2>1. ota.err = "SUCCESS" /\ (InRange(ota.off, 0) \/ InRange(ota.off, ota.total))
    BY DEF IInv, JobInv, IndexInv
  <2>2. ota.off \in Addresses /\ ota.off >= 0 /\ job.n \in Indices
    BY <2>1 DEF IInv, TypeOK, InRange
  <2>3. At(ota.off, job.n) = ota.off + job.n /\ ota.off + job.n \in Int
    BY <2>2, AtFacts DEF Blocks
  <2>4. job.n = NextIdx /\ SectorBase(At(ota.off, job.n)) <= ota.erase
    BY <2>1 DEF ErasedInv
  <2> QED
    BY <2>1, <2>3, <2>4 DEF ErasedInv
<1> QED
  BY <1>2, <1>3, <1>4, PTL DEF Spec
-----------------------------------------------------------------------------
(* The update as a whole.  A step of OtaSystem is one of OtaParser or      *)
(* leaves the parser alone, so what is proved above holds here as well;    *)
(* SysInv adds how far page and parser have come together.                 *)

Sending   == client.phase \in {"send", "check"}
Writing   == client.phase \in {"send", "check", "last"}
Installed == Bootable /\ Intact(client.img, FADDR_APP_SEC)

\* The page's place in the file, what is on its way, and where it is written.
\* The device may still be at work only in a transfer, or behind a lost one.
PlaceInv ==
  /\ ota.off = FADDR_APP_SEC /\ ota.fw = START_UP_FLAG
  /\ Writing \/ client.phase = "failed" \/ job = NoJob
  /\ Writing \/ link.arrived = client.blk
  /\ link.arrived <= client.blk /\ client.blk <= Total[client.img]
  /\ Sending => client.blk < Total[client.img]
  /\ client.phase \in {"start", "set"} => client.blk = 0

\* The device has the blocks that have come through without a gap, and the one
\* that is being written is the last of them.
StepInv ==
  /\ link.whole <= link.arrived
  /\ link.begun /\ ota.err = "SUCCESS" /\ ota.start =>
       /\ job.step = "idle" => NextIdx = link.whole
       /\ job.step \in {"erase", "program"} => job.n + 1 = link.whole

\* The image that is checked, flagged and reported is the page's own.
OwnImageInv ==
  /\ Writing /\ job.step = "flag" => Intact(client.img, FADDR_APP_SEC)
  /\ Writing /\ ota.err = "END" => Installed
  /\ client.phase \in {"end", "done"} => Installed

SysInv == PlaceInv /\ StepInv /\ OwnImageInv
-----------------------------------------------------------------------------
LinkType   == link \in [begun : BOOLEAN, arrived : Nat, whole : Nat]
ClientType ==
  client \in [phase : Phases, img : Images, blk : Nat] /\ LinkType /\ faults \in 0 .. MaxFaults

\* A block that arrives is one of the page's file, in a transfer.
LEMMA BlkFacts ==
  ASSUME TypeOK, ClientType, PlaceInv, link.arrived < client.blk
  PROVE  /\ client.img \in Images /\ link.arrived \in Indices
         /\ link.arrived < Total[client.img] /\ Writing
<1>1. client.img \in Images /\ client.blk \in Nat /\ link.arrived \in Nat
  BY DEF ClientType, LinkType
<1>2. Total[client.img] \in Nat /\ Total[client.img] <= CmdBase
  BY <1>1, ImagesAssumption, ClientAssumption
<1>3. link.arrived < Total[client.img] /\ Writing
  BY <1>1, <1>2 DEF PlaceInv
<1> QED BY <1>1, <1>2, <1>3, SizesAssumption DEF Indices

\* The parser sees nothing in the system it would not see from any host.
LEMMA SysStep ==
  ASSUME TypeOK, ClientType, PlaceInv, [SysNext]_sysVars
  PROVE  [Next]_vars
<1> USE DEF device, vars
<1>1. CASE UserBegins \/ SendBlk \/ ReadCheck \/ ReadLast \/ LinkLost \/ UNCHANGED sysVars
  BY <1>1 DEF UserBegins, SendBlk, ReadCheck, ReadLast, Read, LinkLost, sysVars
<1>2. CASE UserRequestsBoot
  BY <1>2 DEF UserRequestsBoot, Delivered, Lost, Next, Modes
<1>3. CASE SendStart \/ SendSet \/ SendEnd
  BY <1>3 DEF SendStart, SendSet, SendEnd, Delivered, Lost, Next, Modes
<1>4. CASE Arrive
  <2>1. link.arrived < client.blk /\ (DataPacket(client.img, link.arrived) \/ UNCHANGED device)
    BY <1>4 DEF Arrive, Delivered, Lost
  <2> QED BY <2>1, BlkFacts DEF Next
<1>5. CASE FlashStep
  BY <1>5 DEF FlashStep, Charged, Next
<1>6. CASE Fault
  BY <1>6 DEF Fault, Next
<1> QED
  BY <1>1, <1>2, <1>3, <1>4, <1>5, <1>6 DEF SysNext, Client

LEMMA FaultsType ==
  ASSUME ClientType, UseFault \/ UNCHANGED faults
  PROVE  faults' \in 0 .. MaxFaults
BY ClientAssumption DEF ClientType, UseFault

LEMMA ClientStep ==
  ASSUME TypeOK, ClientType, PlaceInv, [SysNext]_sysVars
  PROVE  ClientType'
<1>0. UseFault \/ UNCHANGED faults
  BY DEF SysNext, Client, UserBegins, UserRequestsBoot, SendStart, SendSet, SendBlk, ReadCheck,
     ReadLast, Read, SendEnd, Arrive, FlashStep, Charged, Fault, LinkLost, Disconnected, Delivered,
     Lost, sysVars
<1>1. faults' \in 0 .. MaxFaults
  BY <1>0, FaultsType
<1>2. client \in [phase : Phases, img : Images, blk : Nat] /\ LinkType
  BY DEF ClientType
<1>3. LinkType'
  <2>1. CASE UserBegins
    BY <2>1 DEF UserBegins, NewLink, LinkType
  <2>2. CASE SendStart
    BY ZenonT(60), <1>2, <2>2 DEF SendStart, LinkType
  <2>3. CASE Arrive
    <3>1. link.arrived + 1 \in Nat /\ link.whole \in Nat
      BY <1>2 DEF LinkType
    <3>2. \/ link' = [link EXCEPT !.arrived = link.arrived + 1]
          \/ link' = [link EXCEPT !.arrived = link.arrived + 1, !.whole = link.whole]
          \/ link' = [link EXCEPT !.arrived = link.arrived + 1, !.whole = link.arrived + 1]
      BY <1>2, <2>3 DEF Arrive, LinkType
    <3> QED BY <1>2, <3>1, <3>2 DEF LinkType
  <2>4. CASE Fault \/ LinkLost
    BY <1>2, <2>4 DEF Fault, LinkLost, Disconnected, LinkType
  <2>5. CASE UNCHANGED link
    BY <1>2, <2>5 DEF LinkType
  <2> QED
    BY <2>1, <2>2, <2>3, <2>4, <2>5 DEF SysNext, Client, UserRequestsBoot, SendSet, SendBlk,
       ReadCheck, ReadLast, Read, SendEnd, FlashStep, Charged, sysVars
<1>4. client' \in [phase : Phases, img : Images, blk : Nat]
  <2>1. CASE UserBegins
    <3>1. PICK img \in Images : client' = [phase |-> "start", img |-> img, blk |-> 0]
      BY <2>1 DEF UserBegins
    <3> QED BY <3>1 DEF Phases
  <2>2. CASE SendStart \/ SendSet \/ SendEnd \/ ReadCheck \/ ReadLast
    BY ZenonT(60), <1>2, <2>2 DEF SendStart, SendSet, SendEnd, ReadCheck, ReadLast, Read, Go, Phases
  <2>3. CASE SendBlk
    <3>1. client.blk + 1 \in Nat BY <1>2
    <3> QED BY ZenonT(60), <1>2, <2>3, <3>1 DEF SendBlk, Phases
  <2>4. CASE Fault \/ LinkLost
    BY ZenonT(60), <1>2, <2>4 DEF Fault, LinkLost, Disconnected, Phases
  <2>5. CASE UNCHANGED client
    BY <1>2, <2>5
  <2> QED
    BY <2>1, <2>2, <2>3, <2>4, <2>5 DEF SysNext, Client, UserRequestsBoot, Arrive, FlashStep,
       Charged, sysVars
<1> QED BY <1>1, <1>3, <1>4 DEF ClientType
-----------------------------------------------------------------------------
\* Steps that leave flash alone.
LEMMA InstalledKept ==
  ASSUME flash' = flash, client'.img = client.img
  PROVE  /\ Installed => Installed'
         /\ Intact(client.img, 0) => Intact(client.img, 0)'
BY DEF Installed, Bootable, Intact

\* Steps of the page, and of the link, that the device does not see.
LEMMA PageSafe ==
  ASSUME TypeOK, ClientType, SysInv, UNCHANGED <<ota, flash, job>>,
         client'.img = client.img, link'.begun = link.begun, link'.whole = link.whole,
         link.arrived <= link'.arrived, link'.arrived \in Nat,
         PlaceInv', Writing' => Writing,
         client'.phase \in {"end", "done"} => Installed
  PROVE  SysInv'
<1>1. link.whole \in Nat /\ link.arrived \in Nat BY DEF ClientType, LinkType
<1>2. StepInv' BY <1>1 DEF SysInv, StepInv, NextIdx
<1>3. OwnImageInv' BY InstalledKept DEF SysInv, OwnImageInv
<1> QED BY <1>2, <1>3 DEF SysInv

\* A block comes to the parser, which takes it if it is the next one.
LEMMA ArriveSafe ==
  ASSUME TypeOK, Safe, ClientType, SysInv, Arrive, DataPacket(client.img, link.arrived),
         link'.begun = link.begun, link'.arrived = link.arrived + 1,
         link'.whole = IF link.whole = link.arrived THEN link.arrived + 1 ELSE link.whole
  PROVE  SysInv'
<1> DEFINE n == link.arrived
           img == client.img
<1>1. /\ img \in Images /\ n \in Indices /\ n \in Nat /\ Writing /\ client' = client
      /\ DataPacket(img, n) /\ n < client.blk /\ client.blk \in Nat
      /\ link.whole \in Nat /\ link.whole <= n
  BY BlkFacts DEF SysInv, StepInv, Arrive, ClientType, LinkType
<1>2. /\ link'.arrived = n + 1 /\ link'.begun = link.begun
      /\ link'.whole = IF link.whole = n THEN n + 1 ELSE link.whole
  OBVIOUS
<1>3. ota.off = 0 /\ ota.fw = START_UP_FLAG BY DEF SysInv, PlaceInv
<1>4. PlaceInv /\ client'.img = img BY <1>1 DEF SysInv
<1> HIDE DEF n
<1>5. job = NoJob /\ job.step = "idle" /\ UNCHANGED <<flash, running>>
  BY <1>1 DEF DataPacket, Ready, NoJob
<1>6. ASSUME ota'.off = ota.off, ota'.fw = ota.fw PROVE PlaceInv'
  BY <1>1, <1>2, <1>3, <1>4, <1>6 DEF PlaceInv, Writing, Sending
<1>7. link'.whole <= link'.arrived
  BY <1>1, <1>2
<1>8. ASSUME ota'.err # "SUCCESS", job' = job, ota'.err = "END" => ota.err = "END"
      PROVE  StepInv' /\ OwnImageInv'
  <2>1. job'.step = "idle" BY <1>5, <1>8
  <2>2. ota'.err = "END" => Installed'
    BY <1>1, <1>4, <1>5, <1>8, InstalledKept DEF SysInv, OwnImageInv
  <2>3. client'.phase \notin {"end", "done"} BY <1>1 DEF Writing
  <2> QED BY <1>7, <1>8, <2>1, <2>2, <2>3 DEF StepInv, OwnImageInv
<1>9. ASSUME NEW e \in Errors \ {"SUCCESS", "END"}, UNCHANGED job,
             \/ ota' = [ota EXCEPT !.err = e]
             \/ \E t \in Indices : ota' = [ota EXCEPT !.err = e, !.total = t]
      PROVE  SysInv'
  <2>1. ota'.err = e /\ ota'.off = ota.off /\ ota'.fw = ota.fw BY <1>9 DEF TypeOK
  <2>2. e # "SUCCESS" /\ e # "END" BY <1>9
  <2> QED BY <1>6, <1>8, <1>9, <2>1, <2>2 DEF SysInv
<1>10. CASE Broken
  <2>1. UNCHANGED <<ota, job>> /\ ota.err # "SUCCESS" BY <1>1, <1>10 DEF DataPacket, Broken
  <2> QED BY <1>6, <1>8, <2>1 DEF SysInv
<1>11. CASE ~Broken /\ ~ota.start
  <2>1. ota' = [ota EXCEPT !.err = "NO_PARAM"] /\ UNCHANGED job BY <1>1, <1>11 DEF DataPacket
  <2> QED BY <1>9, <2>1 DEF Errors
<1>12. CASE ~Broken /\ ota.start
  <2>1. ota.err = "SUCCESS" BY <1>12 DEF Broken
  <2>2. NextIdx \in Int BY NextIdxFacts DEF Indices
  <2>3. link.begun => NextIdx = link.whole BY <1>5, <1>12, <2>1 DEF SysInv, StepInv
  <2>4. CASE n # NextIdx /\ UNCHANGED <<ota, job>>
    <3>1. ~link.begun \/ n > NextIdx BY <1>1, <2>2, <2>3, <2>4
    <3>2. ~(n > NextIdx)
      <4>1. SUFFICES ASSUME n > NextIdx PROVE FALSE OBVIOUS
      <4>2. ota' = [ota EXCEPT !.err = "PACKET_LOSS"]
        BY <1>1, <1>12, <2>2, <4>1 DEF DataPacket
      <4>3. ota'.err = "PACKET_LOSS" BY <4>2 DEF TypeOK
      <4> QED BY <2>1, <2>4, <4>3
    <3>3. StepInv' BY <1>2, <1>7, <3>1, <3>2 DEF StepInv
    <3>4. OwnImageInv'
      <4>1. job'.step = "idle" /\ ota'.err = "SUCCESS" BY <1>5, <2>1, <2>4
      <4>2. client'.phase \notin {"end", "done"} BY <1>1 DEF Writing
      <4> QED BY <4>1, <4>2 DEF OwnImageInv
    <3> QED BY <1>6, <2>4, <3>3, <3>4 DEF SysInv
  <2>5. CASE n # NextIdx /\ ota' = [ota EXCEPT !.err = "PACKET_LOSS"] /\ UNCHANGED job
    BY <1>9, <2>5 DEF Errors
  <2>6. CASE n = NextIdx /\ \E e \in {"PKT_SIZE_ERR", "PKT_CRC_ERR"} :
               ota' = [ota EXCEPT !.err = e] /\ UNCHANGED job
    BY <1>9, <2>6 DEF Errors
  <2>7. CASE n = NextIdx /\ AcceptBlock(img, n)
    <3>1. CASE \E e \in Errors \ {"SUCCESS", "END"}, t \in Indices :
                 ota' = [ota EXCEPT !.err = e, !.total = t] /\ UNCHANGED job
      BY <1>9, <3>1
    <3>2. CASE /\ job' = [NoJob EXCEPT !.step = "flag"] /\ UNCHANGED ota
               /\ n # 0 /\ HeaderId[img] = ota.fw /\ Intact(img, ota.off)
      <4>1. job'.step = "flag" BY <3>2 DEF NoJob
      <4>2. Intact(client.img, 0)' BY <1>1, <1>3, <1>5, <3>2 DEF Intact
      <4>3. StepInv' BY <1>7, <4>1 DEF StepInv
      <4>4. OwnImageInv'
        <5>1. client'.phase \notin {"end", "done"} /\ ota'.err # "END" BY <1>1, <2>1, <3>2 DEF Writing
        <5> QED BY <4>2, <5>1 DEF OwnImageInv
      <4> QED BY <1>6, <3>2, <4>3, <4>4 DEF SysInv
    <3>3. ASSUME NEW t \in Indices, NEW step \in {"erase", "program"},
                 job' = [step |-> step, n |-> n, blk |-> ImageBlock(img, n)],
                 \/ ota' = [ota EXCEPT !.total = t, !.erase = SectorBase(At(ota.off, n))]
                 \/ ota' = [ota EXCEPT !.total = t]
          PROVE  SysInv'
      <4>1. /\ job'.step = step /\ job'.n = n
            /\ ota'.err = ota.err /\ ota'.off = ota.off /\ ota'.fw = ota.fw
        BY <3>3 DEF TypeOK
      <4>2. link.begun => link'.whole = n + 1 BY <1>2, <2>3, <2>7
      <4>3. StepInv' BY <1>2, <1>7, <4>1, <4>2 DEF StepInv
      <4>4. OwnImageInv'
        <5>1. client'.phase \notin {"end", "done"} /\ ota'.err # "END" /\ job'.step # "flag"
          BY <1>1, <2>1, <4>1 DEF Writing
        <5> QED BY <5>1 DEF OwnImageInv
      <4> QED BY <1>6, <4>1, <4>3, <4>4 DEF SysInv
    <3>4. CASE \E t \in Indices :
              /\ t = ota.total \/ ota.total = 0
              /\ IF SectorBase(At(ota.off, n)) > ota.erase
                 THEN /\ job' = [step |-> "erase", n |-> n, blk |-> ImageBlock(img, n)]
                      /\ ota' = [ota EXCEPT !.total = t, !.erase = SectorBase(At(ota.off, n))]
                 ELSE /\ job' = [step |-> "program", n |-> n, blk |-> ImageBlock(img, n)]
                      /\ ota' = [ota EXCEPT !.total = t]
      BY <3>3, <3>4
    <3> QED BY <1>1, <2>7, <3>1, <3>2, <3>4, AcceptCases
  <2>8. \/ n # NextIdx /\ UNCHANGED <<ota, job>>
        \/ n # NextIdx /\ ota' = [ota EXCEPT !.err = "PACKET_LOSS"] /\ UNCHANGED job
        \/ n = NextIdx /\ AcceptBlock(img, n)
        \/ n = NextIdx /\ \E e \in {"PKT_SIZE_ERR", "PKT_CRC_ERR"} :
                            ota' = [ota EXCEPT !.err = e] /\ UNCHANGED job
    BY <1>1, <1>12, <2>2 DEF DataPacket
  <2> QED BY <2>4, <2>5, <2>6, <2>7, <2>8
<1> QED BY <1>10, <1>11, <1>12

LEMMA FlashSafe ==
  ASSUME TypeOK, Safe, ClientType, SysInv, FlashStep
  PROVE  SysInv'
<1>1. UNCHANGED <<client, link>> BY DEF FlashStep, Charged
<1>2. job.step # "idle" /\ (EraseSector \/ ProgramBlock \/ WriteFlag)
  BY DEF FlashStep, Charged, EraseSector, ProgramBlock, WriteFlag
<1>3. ota.err = "SUCCESS" /\ ota.start BY <1>2 DEF Safe, JobInv
<1>4. Writing \/ client.phase = "failed" BY <1>2 DEF SysInv, PlaceInv, NoJob
<1>5. ota.off = 0 /\ ota.fw = START_UP_FLAG BY DEF SysInv, PlaceInv
<1>6. client.phase \notin {"end", "done"} BY <1>4 DEF Writing
<1>7. ASSUME ota'.off = ota.off, ota'.fw = ota.fw PROVE PlaceInv'
  BY <1>1, <1>4, <1>7 DEF SysInv, PlaceInv, Writing, Sending
<1>8. link.whole <= link.arrived BY DEF SysInv, StepInv
<1>9. CASE EraseSector
  <2>1. ota' = ota /\ job'.step = "program" /\ job'.n = job.n /\ job.step = "erase"
    BY <1>9 DEF EraseSector, TypeOK
  <2>2. StepInv' BY <1>1, <2>1 DEF SysInv, StepInv
  <2>3. OwnImageInv' BY <1>1, <1>3, <1>6, <2>1 DEF OwnImageInv
  <2> QED BY <1>7, <2>1, <2>2, <2>3 DEF SysInv
<1>10. CASE ProgramBlock
  <2>1. /\ job.step = "program" /\ job'.step = "idle" /\ ota'.idx = job.n
        /\ ota'.err = ota.err /\ ota'.start = ota.start /\ ota'.off = ota.off /\ ota'.fw = ota.fw
    BY <1>10 DEF ProgramBlock, TypeOK, NoJob
  <2>2. job.n < CmdBase /\ job.n \in Indices BY <2>1 DEF Safe, JobInv, TypeOK
  <2>3. NextIdx' = job.n + 1 BY <2>1, <2>2, SizesAssumption DEF NextIdx, Indices
  <2>4. StepInv' BY <1>1, <1>3, <2>1, <2>3 DEF SysInv, StepInv
  <2>5. OwnImageInv' BY <1>1, <1>3, <1>6, <2>1 DEF OwnImageInv
  <2> QED BY <1>7, <2>1, <2>4, <2>5 DEF SysInv
<1>11. CASE WriteFlag
  <2>1. /\ job.step = "flag" /\ job'.step = "idle"
        /\ flash' \in {flash, Program(flash, ota.off, FlagBlock)}
        /\ ota'.err = IF flash'[ota.off].id = ota.fw THEN "END" ELSE "WRITE_FLASH_ERR"
        /\ ota'.off = ota.off /\ ota'.fw = ota.fw
    BY <1>11 DEF WriteFlag, TypeOK, NoJob
  <2>2. \A b \in Blocks : flash'[b].body = flash[b].body
    BY <2>1, ProgramFacts DEF FlagBlock
  <2>3. ASSUME Writing PROVE Intact(client.img, 0)'
    <3>1. Intact(client.img, 0) BY <2>1, <2>3 DEF SysInv, OwnImageInv
    <3> QED BY <1>1, <2>2, <3>1 DEF Intact
  <2>4. ota'.err = "END" => Bootable' BY <1>5, <2>1 DEF Bootable
  <2>5. StepInv' BY <1>1, <1>8, <2>1 DEF StepInv
  <2>6. OwnImageInv'
    <3>1. Writing' => Writing BY <1>1 DEF Writing
    <3>2. Writing' /\ ota'.err = "END" => Installed' BY <2>3, <2>4, <3>1 DEF Installed
    <3> QED BY <1>1, <1>6, <2>1, <3>2 DEF OwnImageInv
  <2> QED BY <1>7, <2>1, <2>5, <2>6 DEF SysInv
<1> QED BY <1>2, <1>9, <1>10, <1>11

\* A reset ends what the page had begun, and leaves nothing on the way.
LEMMA ResetSafe ==
  ASSUME TypeOK, ClientType, SysInv, ota' = InitOta, job' = NoJob,
         client'.img = client.img, client'.blk = client.blk,
         client'.phase \in {"idle", "failed", "done"},
         client'.phase = "done" => Installed',
         link'.whole = link.whole, link'.arrived = client.blk
  PROVE  SysInv'
<1>1. ~Writing' /\ ~Sending' /\ client'.phase \notin {"start", "set", "end"}
  BY DEF Writing, Sending
<1>2. ota'.off = 0 /\ ota'.fw = START_UP_FLAG /\ ~ota'.start BY DEF InitOta
<1>3. client.blk \in Nat /\ link.whole \in Nat /\ link.arrived \in Nat BY DEF ClientType, LinkType
<1>4. PlaceInv'
  BY <1>1, <1>2, <1>3 DEF SysInv, PlaceInv
<1>5. StepInv'
  <2>1. link.whole <= client.blk BY <1>3 DEF SysInv, PlaceInv, StepInv
  <2> QED BY <1>2, <2>1 DEF StepInv
<1>6. OwnImageInv' BY <1>1 DEF OwnImageInv
<1> QED BY <1>4, <1>5, <1>6 DEF SysInv

\* The status read after CMD_OTA_SET lets the page begin only if the record is
\* that of an update that begins, or CMD_OTA_START has been lost.
LEMMA SetBegins ==
  ASSUME TypeOK, Safe, ClientType, SysInv, SendSet
  PROVE  SysInv'
<1>1. /\ client.phase = "set" /\ client'.blk = client.blk /\ client'.img = client.img
      /\ client'.phase = IF ota'.err = "SUCCESS" THEN "send" ELSE "failed"
      /\ job = NoJob /\ job' = NoJob /\ link' = link
  BY DEF SendSet, OtaSet, Refuse, Ready, Go, ClientType, Delivered, Lost, device
<1>2. \/ UNCHANGED ota
      \/ ~ota.start /\ ota' = [ota EXCEPT !.start = TRUE]
      \/ ota' = [ota EXCEPT !.err = "NO_START"]
  BY DEF SendSet, OtaSet, Refuse, Delivered, Lost, device
<1>3. /\ ota'.off = ota.off /\ ota'.fw = ota.fw /\ ota'.idx = ota.idx
      /\ ota'.err \in {ota.err, "NO_START"} /\ job.step = "idle" /\ job'.step = "idle"
  BY <1>1, <1>2 DEF TypeOK, NoJob
<1>4. client.blk = 0 /\ link.arrived = 0 /\ link.whole = 0
  BY <1>1 DEF SysInv, PlaceInv, StepInv, Writing, ClientType, LinkType
<1>5. Total[client.img] \in Nat \ {0} BY ImagesAssumption DEF ClientType
<1>6. PlaceInv'
  BY <1>1, <1>3, <1>4, <1>5 DEF SysInv, PlaceInv, Writing, Sending
<1>7. StepInv'
  <2>1. NextIdx' = NextIdx BY <1>3 DEF NextIdx
  <2>2. CASE UNCHANGED ota
    BY <1>1, <1>4, <2>1, <2>2 DEF SysInv, StepInv
  <2>3. CASE ~ota.start /\ ota' = [ota EXCEPT !.start = TRUE]
    <3>1. NextIdx = 0 BY <2>3, NextIdxFacts DEF Safe, IndexInv
    <3> QED BY <1>1, <1>3, <1>4, <2>1, <3>1 DEF StepInv
  <2>4. CASE ota' = [ota EXCEPT !.err = "NO_START"]
    <3>1. ota'.err # "SUCCESS" BY <2>4 DEF TypeOK
    <3> QED BY <1>1, <1>4, <3>1 DEF StepInv
  <2> QED BY <1>2, <2>2, <2>3, <2>4
<1>8. OwnImageInv'
  <2>1. Writing' => ota'.err = "SUCCESS" BY <1>1 DEF Writing
  <2> QED BY <1>1, <1>3, <2>1 DEF OwnImageInv
<1> QED BY <1>6, <1>7, <1>8 DEF SysInv

LEMMA SysSafe ==
  ASSUME TypeOK, Safe, ClientType, SysInv, [SysNext]_sysVars
  PROVE  SysInv'
<1>0. /\ Writing \/ client.phase = "failed" \/ job = NoJob
      /\ Writing \/ link.arrived = client.blk
      /\ client.blk \in Nat /\ link.arrived \in Nat /\ link.whole \in Nat
      /\ link.arrived <= client.blk /\ client.phase \in Phases
      /\ client.img \in Images /\ Total[client.img] \in Nat
  BY ImagesAssumption DEF SysInv, PlaceInv, ClientType, LinkType
<1>1. CASE UserBegins
  <2>1. PICK img \in Images : client' = [phase |-> "start", img |-> img, blk |-> 0]
    BY <1>1 DEF UserBegins
  <2>2. /\ UNCHANGED <<ota, job>> /\ job = NoJob
        /\ ~link'.begun /\ link'.arrived = 0 /\ link'.whole = 0
    BY <1>1 DEF UserBegins, Ready, NewLink, device
  <2>3. Total[img] \in Nat BY ImagesAssumption
  <2> QED
    BY <2>1, <2>2, <2>3 DEF SysInv, PlaceInv, StepInv, OwnImageInv, Writing, Sending
<1>2. CASE UserRequestsBoot
  <2>1. UNCHANGED <<client, link, flash>> /\ ~InSession
    BY <1>2 DEF UserRequestsBoot, AppReboot, Delivered, Lost, device
  <2>2. CASE Delivered(AppReboot("OTA"))
    <3>1. ota' = InitOta /\ job' = NoJob BY <2>2, RestartType DEF Delivered, AppReboot
    <3>2. client.phase \in {"idle", "failed", "done"}
      BY <1>0, <2>1 DEF InSession, Phases
    <3>3. client.phase = "done" => Installed'
      BY <2>1, InstalledKept DEF SysInv, OwnImageInv
    <3>4. link.arrived = client.blk BY <1>0, <3>2 DEF Writing
    <3> QED BY <2>1, <3>1, <3>2, <3>3, <3>4, ResetSafe
  <2>3. CASE Lost
    <3>1. UNCHANGED <<ota, job>> BY <2>3 DEF Lost, device
    <3>2. PlaceInv' BY <2>1, <3>1 DEF SysInv, PlaceInv, Writing, Sending
    <3>3. Writing' => Writing BY <2>1 DEF Writing
    <3>4. client.phase \in {"end", "done"} => Installed BY DEF SysInv, OwnImageInv
    <3> QED BY <1>0, <2>1, <3>1, <3>2, <3>3, <3>4, PageSafe
  <2> QED BY <1>2, <2>2, <2>3 DEF UserRequestsBoot
<1>3. CASE SendStart
  <2>1. /\ client.phase = "start" /\ client'.phase = "set" /\ client'.blk = client.blk
        /\ client'.img = client.img
    BY <1>3 DEF SendStart, Go, ClientType
  <2>2. client.blk = 0 /\ link.arrived = 0 /\ link.whole = 0
    BY <1>0, <2>1 DEF SysInv, PlaceInv, StepInv, Writing
  <2>3. CASE Delivered(OtaStart) /\ link' = [link EXCEPT !.begun = TRUE]
    <3>1. PICK addr \in EraseAddrs \cup {-1} : ota' = [InitOta EXCEPT !.erase = addr]
      BY <2>3 DEF Delivered, OtaStart
    <3>2. ~ota'.start /\ ota'.off = 0 /\ ota'.fw = START_UP_FLAG
      BY <3>1 DEF InitOta
    <3>3. job' = NoJob BY <2>3 DEF Delivered, OtaStart, Ready
    <3>4. link'.arrived = 0 /\ link'.whole = 0
      BY <2>2, <2>3 DEF ClientType, LinkType
    <3> QED
      BY <1>0, <2>1, <2>2, <3>2, <3>3, <3>4
      DEF SysInv, PlaceInv, StepInv, OwnImageInv, Writing, Sending
  <2>4. CASE Lost /\ UNCHANGED link
    <3>1. UNCHANGED <<ota, flash, job, link>> BY <2>4 DEF Lost, device
    <3>2. PlaceInv' BY <2>1, <3>1 DEF SysInv, PlaceInv, Writing, Sending
    <3>3. Writing' => Writing BY <2>1 DEF Writing
    <3> QED BY <1>0, <2>1, <3>1, <3>2, <3>3, PageSafe
  <2> QED BY <1>3, <2>3, <2>4 DEF SendStart
<1>4. CASE SendSet BY <1>4, SetBegins
<1>5. CASE SendBlk
  <2>1. /\ client.phase = "send" /\ client'.blk = client.blk + 1 /\ client'.img = client.img
        /\ client'.phase = IF client.blk >= Total[client.img] - 1 THEN "last"
                           ELSE IF (client.blk + 1) % CheckEvery = 0 THEN "check" ELSE "send"
        /\ UNCHANGED <<ota, flash, job, link>>
    BY <1>5 DEF SendBlk, ClientType, device
  <2>2. client'.phase \in {"send", "check", "last"} BY <2>1
  <2>3. client.blk < Total[client.img] BY <2>1 DEF SysInv, PlaceInv, Sending
  <2>4. Sending' => client'.blk < Total[client'.img]
    BY <1>0, <2>1 DEF Sending
  <2>5. Writing' /\ Writing BY <2>1, <2>2 DEF Writing
  <2>6. PlaceInv'
    BY <1>0, <2>1, <2>2, <2>3, <2>4, <2>5 DEF SysInv, PlaceInv
  <2> QED BY <1>0, <2>1, <2>2, <2>5, <2>6, PageSafe
<1>6. CASE ReadCheck
  <2>1. /\ client.phase = "check" /\ UNCHANGED <<ota, flash, job, link>>
        /\ client'.img = client.img /\ client'.blk = client.blk /\ job = NoJob
        /\ client'.phase \in {"send", "failed"} /\ link.arrived = client.blk
    BY <1>6 DEF ReadCheck, Read, Ready, ClientType, device
  <2>2. PlaceInv' BY <2>1 DEF SysInv, PlaceInv, Writing, Sending
  <2>3. Writing BY <2>1 DEF Writing
  <2> QED BY <1>0, <2>1, <2>2, <2>3, PageSafe
<1>7. CASE ReadLast
  <2>1. /\ client.phase = "last" /\ UNCHANGED <<ota, flash, job, link>>
        /\ client'.img = client.img /\ client'.blk = client.blk /\ job = NoJob
        /\ client'.phase = IF ota.err = "END" THEN "end" ELSE "failed"
        /\ link.arrived = client.blk
    BY <1>7 DEF ReadLast, Read, Ready, ClientType, device
  <2>2. PlaceInv' BY <2>1 DEF SysInv, PlaceInv, Writing, Sending
  <2>3. Writing BY <2>1 DEF Writing
  <2>4. client'.phase \in {"end", "done"} => Installed
    BY <2>1, <2>3 DEF SysInv, OwnImageInv
  <2> QED BY <1>0, <2>1, <2>2, <2>3, <2>4, PageSafe
<1>8. CASE SendEnd
  <2>1. /\ client.phase = "end" /\ client'.phase = "done" /\ client'.img = client.img
        /\ client'.blk = client.blk /\ UNCHANGED <<flash, link>>
    BY <1>8 DEF SendEnd, OtaEnd, Go, ClientType, Delivered, Lost, device
  <2>2. Installed BY <2>1 DEF SysInv, OwnImageInv
  <2>3. Installed' BY <2>1, <2>2, InstalledKept
  <2>4. link.arrived = client.blk BY <1>0, <2>1 DEF Writing
  <2>5. CASE Delivered(OtaEnd("none"))
    <3>1. ota' = InitOta /\ job' = NoJob BY <2>5, RestartType DEF Delivered, OtaEnd
    <3> QED BY <2>1, <2>3, <2>4, <3>1, ResetSafe
  <2>6. CASE Lost
    <3>1. UNCHANGED <<ota, flash, job>> BY <2>6 DEF Lost, device
    <3>2. PlaceInv' BY <2>1, <3>1 DEF SysInv, PlaceInv, Writing, Sending
    <3>3. ~Writing' BY <2>1 DEF Writing
    <3> QED BY <1>0, <2>1, <2>2, <3>1, <3>2, <3>3, PageSafe
  <2> QED BY <1>8, <2>5, <2>6 DEF SendEnd
<1>9. CASE Arrive
  <2>1. client' = client /\ link.arrived < client.blk BY <1>9 DEF Arrive
  <2>2. CASE Delivered(DataPacket(client.img, link.arrived))
             /\ link' = [link EXCEPT !.arrived = link.arrived + 1,
                           !.whole = IF @ = link.arrived THEN link.arrived + 1 ELSE @]
    <3>1. /\ link'.begun = link.begun /\ link'.arrived = link.arrived + 1
          /\ link'.whole = IF link.whole = link.arrived THEN link.arrived + 1 ELSE link.whole
      BY <2>2 DEF ClientType, LinkType
    <3>2. DataPacket(client.img, link.arrived) BY <2>2 DEF Delivered
    <3> QED BY <1>9, <3>1, <3>2, ArriveSafe
  <2>3. CASE Lost /\ link' = [link EXCEPT !.arrived = link.arrived + 1]
    <3>1. UNCHANGED <<ota, flash, job>> BY <2>3 DEF Lost, device
    <3>2. /\ link'.begun = link.begun /\ link'.arrived = link.arrived + 1
          /\ link'.whole = link.whole
      BY <2>3 DEF ClientType, LinkType
    <3>3. Writing /\ Writing' BY <1>0, <2>1 DEF Writing
    <3>4. PlaceInv' BY <1>0, <2>1, <3>1, <3>2, <3>3 DEF SysInv, PlaceInv, Sending
    <3>5. client'.phase \notin {"end", "done"} BY <3>3 DEF Writing
    <3> QED BY <1>0, <2>1, <3>1, <3>2, <3>3, <3>4, <3>5, PageSafe
  <2> QED BY <1>9, <2>2, <2>3 DEF Arrive
<1>10. CASE FlashStep BY <1>10, FlashSafe
<1>11. CASE Disconnected /\ (Fault \/ LinkLost)
  <2>1. /\ client'.img = client.img /\ client'.blk = client.blk
        /\ client'.phase = IF InSession THEN "failed" ELSE client.phase
        /\ link'.begun = link.begun /\ link'.arrived = client.blk /\ link'.whole = link.whole
    BY <1>11 DEF Disconnected, ClientType, LinkType
  <2>2. client'.phase \in {"idle", "failed", "done"}
    BY <1>0, <2>1 DEF InSession, Phases
  <2>3. CASE Fault
    <3>1. ota' = InitOta /\ job' = NoJob
      BY <2>3, RestartType DEF Fault, PowerLoss, SoftReset
    <3>2. client'.phase = "done" => Installed'
      <4>1. SUFFICES ASSUME client.phase = "done" PROVE Installed'
        BY <2>1
      <4>2. Installed /\ job.step = "idle"
        BY <1>0, <4>1 DEF SysInv, OwnImageInv, Writing, NoJob
      <4>3. flash' = flash BY <2>3, <4>2 DEF Fault, PowerLoss, SoftReset
      <4> QED BY <2>1, <4>2, <4>3, InstalledKept
    <3> QED BY <2>1, <2>2, <3>1, <3>2, ResetSafe
  <2>4. CASE LinkLost
    <3>1. UNCHANGED <<ota, flash, job>> /\ client'.phase = "failed"
      BY <2>1, <2>4 DEF LinkLost, device
    <3>2. PlaceInv' BY <1>0, <2>1, <3>1 DEF SysInv, PlaceInv, Writing, Sending
    <3>3. ~Writing' BY <3>1 DEF Writing
    <3> QED BY <1>0, <2>1, <3>1, <3>2, <3>3, PageSafe
  <2> QED BY <1>11, <2>3, <2>4
<1>12. CASE UNCHANGED sysVars
  <2>1. UNCHANGED <<ota, flash, job, client, link>> BY <1>12 DEF sysVars, device
  <2>2. PlaceInv' BY <2>1 DEF SysInv, PlaceInv, Writing, Sending
  <2>3. Writing' => Writing BY <2>1 DEF Writing
  <2>4. client.phase \in {"end", "done"} => Installed BY DEF SysInv, OwnImageInv
  <2> QED BY <1>0, <2>1, <2>2, <2>3, <2>4, PageSafe
<1>13. Fault \/ LinkLost => Disconnected BY DEF Fault, LinkLost
<1> QED
  BY <1>1, <1>2, <1>3, <1>4, <1>5, <1>6, <1>7, <1>8, <1>9, <1>10, <1>11, <1>12, <1>13
  DEF SysNext, Client
-----------------------------------------------------------------------------
LEMMA SysInvariant ==
  ASSUME ParserErases
  PROVE  SysSpec => [](TypeOK /\ Safe /\ ClientType /\ SysInv)
<1>1. SysInit => TypeOK /\ Safe /\ ClientType /\ SysInv
  <2> SUFFICES ASSUME SysInit PROVE ClientType /\ SysInv
    BY InitType, InitSafe DEF SysInit
  <2>1. PICK img \in Images : client = [phase |-> "idle", img |-> img, blk |-> 0]
    BY DEF SysInit
  <2>2. ClientType
    <3>1. LinkType BY DEF SysInit, NewLink, LinkType
    <3> QED BY <2>1, <3>1, ClientAssumption DEF SysInit, ClientType, Phases
  <2>3. /\ job = NoJob /\ ota.off = 0 /\ ota.fw = START_UP_FLAG
        /\ ~link.begun /\ link.arrived = 0 /\ link.whole = 0
    BY DEF SysInit, Init, InitOta, NewLink
  <2>4. Total[img] \in Nat BY ImagesAssumption
  <2>5. SysInv
    BY <2>1, <2>3, <2>4 DEF SysInv, PlaceInv, StepInv, OwnImageInv, Writing, Sending
  <2> QED BY <2>2, <2>5
<1>2. TypeOK /\ Safe /\ ClientType /\ SysInv /\ [SysNext]_sysVars
        => TypeOK' /\ Safe' /\ ClientType' /\ SysInv'
  <2> SUFFICES ASSUME TypeOK, Safe, ClientType, SysInv, [SysNext]_sysVars
               PROVE  TypeOK' /\ Safe' /\ ClientType' /\ SysInv'
    OBVIOUS
  <2>1. PlaceInv BY DEF SysInv
  <2>2. [Next]_vars BY <2>1, SysStep
  <2> QED BY <2>1, <2>2, NextType, NextSafe, ClientStep, SysSafe
<1> QED BY <1>1, <1>2, PTL DEF SysSpec

\* Page and parser keep the shape of their state.
THEOREM SystemTyped == ASSUME ParserErases PROVE SysSpec => []SysTypeOK
<1>1. TypeOK /\ ClientType => SysTypeOK BY DEF ClientType, LinkType, SysTypeOK
<1> QED BY <1>1, SysInvariant, PTL

\* An update driven by the page is one of the parser: whatever is proved of the
\* parser with any host holds of it.
THEOREM SystemImplementsParser == ASSUME ParserErases PROVE SysSpec => Spec
<1>1. SysInit => Init BY DEF SysInit
<1>2. TypeOK /\ ClientType /\ SysInv /\ [SysNext]_sysVars => [Next]_vars
  BY SysStep DEF SysInv
<1> QED BY <1>1, <1>2, SysInvariant, PTL DEF SysSpec, Spec

\* When the page says that the update is finished the device has that very
\* image, whole and flagged, whatever was lost or went wrong before.
THEOREM DoneIsInstalled == ASSUME ParserErases PROVE SysSpec => []DoneMeansInstalled
<1>1. SysInv => DoneMeansInstalled
  BY DEF SysInv, OwnImageInv, Installed, DoneMeansInstalled
<1> QED BY <1>1, SysInvariant, PTL

\* Whatever blocks are lost, the device takes none behind the first one it has
\* missed, and a retry does not resume at an old index, if CMD_OTA_START came
\* through.
THEOREM PageAndDeviceAgree == ASSUME ParserErases PROVE SysSpec => []IndicesAgree
<1>1. SysInv => IndicesAgree
  BY DEF SysInv, StepInv, IndicesAgree, Ready, NoJob
<1> QED BY <1>1, SysInvariant, PTL
=============================================================================
