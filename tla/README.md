# HDP16 / ST17H65 firmware: TLA+ models and proofs

A verification project for the firmware in `src/hdp16/source` (Bluetooth tags
and thermometers on the ST17H65/PHY6222 chip), and for the parts of the web
client in `src/web` that drive it.  It models what survives a reset (flash) and
what runs over several events or messages: the over-the-air update, the store
of the settings, the measurement history, advertising and connections, the
commands that set the Find My key, the buzzer, the log and the clock.

Run `tlc -config X.cfg M` and `tlapm M.tla` in this directory; PROJECT.json
lists every run, its module and its configuration.

## 1. The system

| Part | Source | State | Operations | Model |
| --- | --- | --- | --- | --- |
| OTA parser | `ble_ota.c` `ota_parser` | `ota` (error, index, total, offset, erase address), flash | START, SET, END, data packets | `OtaParser` |
| Boot choice | `main.c:526-548`, `thb2_main.c` | mode register (survives a soft reset) | restart, reboot on disconnect, advertising time-out | `OtaParser` |
| Application loader | `ble_ota.c` `start_app`, `startup_app` | header, segment table, RAM | copy segments, jump | `StartApp` |
| Web page, OTA part | `PHY62x2BTHome.html` 1052-1071, 1212-1402 | next block, file | begin, send, read the status, finish | `OtaSystem` |
| Web page, Find My key | `PHY62x2BTHome.html` 1724-1746, 2166-2183 | the key being set | send a half, read the answer | `TagApp` |
| Settings store | `flash_eep.c` | four flash banks: a number and records | save, read, pack, version check and format | `FlashEep`, `EepStore` |
| Measurement history | `logger.c` | ring of sectors, write place, readout | record, close, clear, search at start-up, read out | `Logger` |
| Readout transport | `sbp_profile.c` `wrk_notify` | a timer event | send until the stack is full, retry | `Logger` |
| GAP role | `thb2_peripheral.c` | role state, advertising enabler | advertise, links made, failed, closed, lost | `GapRole` |
| Host and radio behind it | `ble_host/gap_*.c`, `rf/patch.c`, `ll*.c` | advertising state, link, messages | commands and their statuses | `GapRole` |
| Application task | `thb2_main.c` | event flags, burst count, button | events in a fixed order, GAP state changes | parts, in `GapRole`, `TagApp`, `OtaParser`, `Logger` |
| Command parser | `cmd_parser.c`, `sbp_profile.c` | one command buffer, key, address | 30 commands | eight of them, in `TagApp`, `GapRole`, `Clock`, `Logger` |
| UART service | `nus_log.c`, `nuservice.c` | queue of messages | enqueue, send all | queue, in `TagApp` |
| Buzzer | `buzzer.c` | place in the melody, timer, lock | start, stop, tone event | `TagApp` |
| Clock | `config.c:60-99` | seconds, fraction, last counter value | read, set, restore | `Clock` |
| UART framing | `my_uart.c` | packet, place | a byte | `UartFrame` |
| Beacons, encryption, sensors, displays, battery, attribute tables, triggers | the other files | data | formatting and I/O | not modelled |
| Host tools, rest of the SDK | `src/flash`, `src/hdp16/SDK` | | serial programming; vendored code | not modelled |

**How they interact.** The scheduler (OSAL, in ROM) runs one task's handler to
its end at a time, the task that comes first in `tasksArr` first: link layer,
GAP, GATT, GAP role, application.  Tasks send each other messages and set event
flags; interrupts (radio, pins) set flags at any time, also in the middle of a
handler, and the radio's also ends advertising there and then.  A GATT write of
a data packet calls `ota_parser()` synchronously (`sbp_profile.c:389`); the page's
writes to it are write commands (`sbp_profile.c:96` has WRITE_NO_RSP only), which
nobody answers, so that it only learns from its reads what has come of them.  A
command write is copied to a buffer and handled by a later event (403-409).  The
readout of the history is a loop in an event that stops when the stack has no
buffer and goes on from a timer event.  Settings, history and image share one
flash, in disjoint areas.  The mode register connects the application with the
boot firmware across a soft reset.

**What makes it hard.** Power may fail between any two flash operations, and
during them; flash can be programmed once between erases; the host's packets
may be lost, repeated or damaged, and its sessions cut and repeated; a link may
be made while advertising is being restarted; the one command buffer may be
overwritten before its event; readouts interleave with writes, other requests
and disconnects; indices and counts are 16 bits wide and the clock's counter
goes round.  PROJECT.json lists each hazard at its line, with the properties
that cover it.

**What makes each part correct.**  Update: the flag is only set before a complete
image and nothing else is booted (with the exceptions of section 4); a reported
success is true; errors stop the writing and last until the
next start; every attempt ends; repeated attempts succeed.  Loader: an image
that is entered is in place.  Settings: a save is atomic up to the value being
saved, the others never change, the store always comes up.  History: restart
finds the place; records go to erased flash; a readout is in order, complete,
and ends.  Advertising: role, host and radio agree; the tag comes back on the
air; a press is told; the fast interval ends.  Commands: a key in use is one a
user gave, and what the page reports as set is set.  Buzzer: silent when
stopped.  Log: a queue.  Clock: close to the time, and never back.

## 2. The modules

**`OtaParser`.** Flash is a function from 16-byte blocks to records of a first
word and the rest; only the first word of an image (the flag "PHY6") matters.
`ota` is `ota_par_t`.  One call of the parser is one action (`OtaStart`,
`OtaSet`, `OtaSetParam`, `BadCommand`, `DataPacket`, `OtaEnd`), followed, when it
touches flash, by the operations it makes, one action each (`EraseSector`,
`ProgramBlock`, `WriteFlag`), so that `PowerLoss` can fall between them; `job`
says which is next, and no packet is handled meanwhile, as in the code.
`Restart` is `main()`'s choice after any reset.  CRC16 and CRC32 are taken to
have no collisions: `Intact` compares the blocks themselves.  Any erase and any write
may do nothing (`hal_flash_erase_sector` and `hal_flash_write` return BUSY, and
`ble_ota.c:215-235` does not look).  An erase that power loss interrupts leaves
each block erased or unreadable, a write leaves the block as it was or spoilt.
Addresses are counted in blocks from `FADDR_APP_SEC` and their sums wrap as
`uint32_t` does (`Wrap`, `At`), in the range test of CMD_OTA_SET, in the CRC and
where blocks are erased and written.  `past` is for the properties only: `missed`
says that the last erase did nothing, `hurt` that the flag has survived one of the
two things the code does not guard against (section 4, 5).

**`OtaSystem`** EXTENDS it with the web page (`client`) and the link between them.
The page's writes are commands: `SendBlk` goes on at once, and the blocks between
`link.arrived` and `client.blk` are on their way.  `Arrive` brings the next of them
to the parser, in the order they were sent (the link layer's part), or loses it.
START, SET and END may be lost as well.  Only a read has an answer; it is served
behind the writes before it.  `LinkLost` ends the connection with all that is on
its way and leaves the device as it is, also in the middle of a flash operation;
`Fault` is a power failure or a reset.  `faults` bounds all losses and failures
together, those of erases and writes included.  `link.whole` is how far the blocks
have arrived without a gap.

**`StartApp`** is `start_app()` with `info_seg`, a local that is read before it
is written, starting with an arbitrary value.

**`FlashEep`** models banks of words: `num` is a bank's number, `rec` its
records, a header word (id, size) followed by data words.  A word programmed
over another is Garbage unless equal; the exception that matters (the AND with
0x7fffffff at the commit) is modelled as such.  `Save` and `CheckVersion` begin a
call, the steps of pack, format and write follow.  **`EepStore`** is what
callers may rely on: a map from ids to values, a save that is done, lost or torn
by a power failure (never another's data), and a wipe; `FlashEep` implements it
under the mapping at its end, in which a format is one step.

**`Logger`** models sectors (id, flag, records) and the readout.  A record is
the serial number of its measurement: order and gaps are visible, values and
times are not.  `client` is what the reader has received since its request.

**`GapRole`** is the tag with a button (the HDP16 build) as far as the air can
see it.  `d` is a record of everything a reset clears: the role
(`gapRole_state`), the host's advertising state, the messages to the GAP task and
to the role's (`gapq`, `roleq`), the radio, the application's events and its
burst (`event`, `reload` for `adv_wrk.adv_event`, `adv_reload_count`).  The code
of a task is an operator from such a record to the next, composed as the calls
are; a step of the scheduler (`LLTask`, `GapTask`, `RoleTask`) applies one.  A
handler of the application is two steps, `AppStarts` and `AppEnds`, and a
`Connect` or `KeyChanges` may come between them.

**`TagApp`** is what the application does for a phone, with the phone's page
and its user.  `d` is RAM, `flash` the objects of the key and the address, stored
as `EepStore` promises: a save that power cuts short leaves the old value, the
new one, a torn one or none.  A command is one step up to its first save and
each save one more, for the power failures in between; the other tasks, and the
timers, wait meanwhile, while interrupts may set events.  The buffer
`findmy_key_new` (`new`) spoils its first half when it is made into an address,
as the code does.  The buzzer is its timer, its place in the melody, its sound
and its lock; the log is the ring with its two places and its count.

**`Clock`** counts in ticks of the 32 kHz counter.  `Elapsed` and `Carry` are
the arithmetic of `get_utc_time_sec()`, in unsigned words; `ideal` is the time a
perfect clock shows, against which the properties compare.

**`UartFrame`** is `process_uart_byte()`, one byte a step, and remembers the last
14 bytes to say what a frame is.

## 3. The runs

| Run | What is checked | Bounds |
| --- | --- | --- |
| `ota_parser` | `BootableImpliesIntact`, `RefusedOffsetUnused`, `EndMeansStored`, `ProgramOnlyErased`, `ErrorStopsWriting` | sectors of 2 blocks, 5 blocks of flash, addresses modulo 18; an application of 4 blocks and a file of another id of 2; offsets below, inside and behind the application and one whose sum wraps; counts 1 (OTA_OVERFLOW) and 2, or that of the header; no bound on packets, resets or failures (1.5 million states) |
| `ota_overflow` | violation of `NoWritePastEnd` | flash of 5 blocks, image of 4 at offset 4, no count |
| `ota_system` | `DoneMeansInstalled`, `IndicesAgree`, `AttemptEnds`, `UpdateCompletes` | two images of 3 and 4 blocks, a status read every 2 blocks (16 in the code), 3 losses, failures or resets (36 thousand states) |
| `start_app` | `EnteredIsLoaded` | loader limit 2 for 15, page limit 3 for 16, one more than that, two addresses |
| `flash_eep` | `TypeOK`, `CopyNotCurrent`, `PackIntoErased`, `ImplementsStore`, `ComesUp` | three banks of three records, version and name, one power failure, three packs |
| `eep_pack` | violation of `OnlySavedChanges` | three objects |
| `logger` | `TypeOK`, `RestartFindsPlace`, `RecordOnErased`, `NewestFirst`, `NothingLeftOut`, `ReadoutStops` | three sectors of two records, 7 records (the ring is filled and wraps), averaging of 2, two requests for 3 or 7 records, a clear, a power failure |
| `log_told` | violation of `ReaderIsTold` | two sectors, two records |
| `gap_role` | `TypeOK`, `RoleAgrees`, `OnlyFailedLinkStops`, `FastIsCounted`, `BattTimerInLink`, `RebootHasCause`, `AdvertisesAgain`, `PressIsBroadcast`, `BurstEnds` | bursts of 2 events; no bound on presses, links, commands or failures |
| `tag_app` | `TypeOK`, `KeyIsWhole`, `InstalledWhenTold`, `StoppedIsSilent`, `MelodyGoesOn`, `LogIsQueue`, `LogIsSent` | two keys, a log of 2 messages, a melody of a note and a rest; no bound on commands, links or power failures |
| `find_my` | violation of `KeyIsWhole` | as `tag_app`, with a user who presses again at once |
| `clock` | `NeverAhead`, `LosesATick`, `NeverGoesBack` | counter of 16 values, 8 of which a reading can count, seconds of 3 ticks, 22 ticks, 4 readings and 2 restarts since the clock was set |

The bounds are small but each contains the wrap, the overlap and the limit the
property is about: the address that wraps, the sector that is shared by two blocks,
the bank that fills up, the ring that comes round, the queue that is full, the
counter that goes round and the gap that a reading cannot count. `UartFrame` has no
run: 14 bytes of 256 values are too many states, and the proof covers them all. That
an image of 2^16 blocks counts as a short one is in `AcceptBlock` and covered by the
proofs; the files of the run are shorter. Deadlock is checked except in `StartApp`,
which ends with the jump or in the boot firmware.

**Fairness.** `OtaSystem`: a call of the parser runs to its end; what is on its way
arrives or is lost; the page goes on (each of its steps is the continuation of the
last write or answer); the user presses the button again when an attempt has failed.
That is an assumption about a person, and it is used by `UpdateCompletes` only.
`FlashEep`: a call runs to its end. `Logger`: an event runs to its end, the timer
fires, and a stack that is asked again and again for a buffer has one in the end
(strong fairness of `SendBlock`): without it a readout could be refused for ever.
`GapRole`: the scheduler goes on as long as a task has something to do, and a radio
that advertises goes on doing so; nothing is assumed of the other side of a link, of
the user or of the supply. `TagApp`: the scheduler goes on; the buzzer's timer fires
(strong fairness, since timers are not counted while a save goes on, and saves may
come again and again).

## 4. What the code does otherwise

The four violation runs show where the code departs from what its comments, its
headers or its client say; PROJECT.json quotes both sides.

1. `ota_overflow`: `NoWritePastEnd` (`ble_ota.c:198-203`).  A size from the header
   is not tested against the end of flash.  Reached by a host that gives an
   offset and no count.
2. `eep_pack`: `OnlySavedChanges` (`flash_eep.c:273`).  The place for copied
   records never advances, so two packed objects overlay each other.
3. `log_told`: `ReaderIsTold` (`logger.c:175`).  The end message of a readout is
   not repeated.
4. `find_my`: `KeyIsWhole` (`cmd_parser.c:284-285`).  The address is made from a
   key in place, in the buffer of the key's first half.  When the second half
   comes once more the tag stores a key nobody gave, and takes the address made
   from it.

Seven more have no standing run; a change of a configuration or a definition shows
them:

5. `FlagMeansWhole` (`ble_ota.c:155`, `232`): CMD_OTA_SET takes an offset inside an
   installed application, and the parser does not notice an erase that did nothing.
   Either leaves a flag before an image that is spoilt.  Add it as an INVARIANT to
   `MCOtaParser.cfg`.  `BootableImpliesIntact` says it of every other update, and
   `FlagIsEarned` that the flag is never newly set so.
6. `NoWritePastEnd` (`ble_ota.c:156`): the sum of offset and count wraps, so an offset
   near 2^32 is taken.  Add it as an INVARIANT to `MCOtaParser.cfg`; the counterexample
   is offset 9, the last address.
7. `IndicesAgree` with `client.phase = "send"` in place of `link.begun`: when both
   CMD_OTA_START and CMD_OTA_SET are lost in a retry, the page reads the SUCCESS of
   the update that was cut off and sends from block 0 to a device that waits for a
   later one (repeated blocks are passed over, `ble_ota.c:244`). With another file
   the two are mixed, and the CRC32 is what refuses it: `DoneMeansInstalled` holds
   all the same.
8. `StartFromSegments` (`ble_ota.c:277`): the start address of a header without
   one comes from an uninitialised variable, where the comments at 24 and 276 say
   it comes from a segment.  Add it as an INVARIANT to `MCStartApp.cfg`.
9. `WebImagesLoad` (`ble_ota.c:272`): 16 segments pass the page (`segs > 16` at
   `PHY62x2BTHome.html:1238`) and are not loaded, but the image is entered.  The
   same, in `MCStartApp.cfg`.
10. `OnlySavedChanges` (`flash_eep.c:262`): an object that was saved with another
   size is packed with its first length.  In `MCEepPack.cfg` set
   `Ids <- WithName` and `Values <- ResizedValues`.
11. `CopyNotCurrent` (`flash_eep.c:446`): two power failures in the format leave
   bank numbers that break the next pack's protection.  In `MCFlashEep.cfg` set
   `CrashInFormat = TRUE` and `MaxCrashes = 2`.

Three properties are weaker than one would wish because of what the code does.
The two branches at `config.c:82-85` are the wrong way round (the SDK's own,
`rf/patch.c:5738-5741`, are not), so a reading loses a tick, 30 microseconds,
unless the counter has gone round: `LosesATick` allows one for each.
`RebootHasCause` allows for a link that was lost: only a link that is closed
gets to `GAPROLE_WAITING`, where the reboot happens, although `config.h:657`
speaks of a reboot on disconnect.  `InstalledWhenTold` exempts the address
after a power failure between the saves of key and address (`past.apart`): the same
key sent again is found in place, and `cmd_parser.c:286` does not get to the address.
Without `\/ past.apart` the run `tag_app` shows it, as it shows an address that was
set by its own command, which is no fault.

Passing runs leave the cause of 2, 4, 10 and 11 out (two objects, a user who
waits, fixed sizes, `CrashInFormat = FALSE`) so that the rest is checked; for
the history, `ReadoutStops` is the weaker property that does hold.

## 5. Proofs

Every invariant that a passing run checks is also a theorem, for every value of the
constants that satisfies the assumptions named; PROJECT.json lists the theorems.
Each module below ends with them.

**`OtaProofs`**, for all images, flash sizes, offsets and counts that satisfy the
named assumptions of `OtaParser`.

*The parser*: `TypeCorrect`, `NeverBootsPartial` (`Spec => []BootableImpliesIntact`),
`FlagIsAlwaysEarned` (`FlagIsEarned`), `EndIsReliable` (`EndMeansStored`),
`NoWriteAfterError` (`ErrorStopsWriting`), `RefusedStaysUnused`
(`RefusedOffsetUnused`), `ErrorStays` (`ErrorIsSticky`) and `OnlyErasedProgrammed`
(`ProgramOnlyErased`).  `BootableImpliesIntact` is not inductive: nothing in it says
why writing a block cannot damage an image that has the flag, nor that the flag
about to be written follows a check.  `IInv` adds: `JobInv` (what a pending flash
operation may be: only of an update that is started and has no error), `IndexInv`
(that nothing has been erased while no block has been written: this is what shows
that the first sector is erased, and with it the old flag, before anything else is
written; and that the parameters of an update without an error have passed the
range test), `FlagDown` (while an update of the application is past its first
block, the flag is not there, or the erase did nothing) and `FlagEarned` (the flag
is only about to be written behind a complete image).  `ErasedInv` says that the
blocks of the open sector behind the index are erased, or that its erase did
nothing; that the sectors of an update follow one another although addresses wrap
is `SectorsInOrder`.

*Page and parser together*: `SystemImplementsParser` (`SysSpec => Spec`: whatever page
and link do, the device behaves as `OtaParser`, so all of the above holds there too),
`DoneIsInstalled` (`DoneMeansInstalled`) and `PageAndDeviceAgree` (`IndicesAgree`).
`SysInv` relates the page's next block, the blocks on their way and the device's
count (`PlaceInv`, `StepInv`: the block being written is the last one that arrived
without a gap), and what the page last read to what is in flash (`OwnImageInv`).

*Assumptions.* `ParserErases`: hosts leave the erase address to the parser
(START without its optional argument).  `HostAssumption` only says that offsets and
counts are 32-bit addresses and 16-bit numbers: every one of them is covered.
`ClientAssumption` is the page's limit on files.  `SizesAssumption`,
`WordsAssumption`, `ImagesAssumption` say that sizes are positive, that the flash
lies within the addresses and an index cannot reach around them, and that the
values of a word are distinct.

**`StartAppProofs`**: `EntersLoaded` (`EnteredIsLoaded`).  `LoadInv` says which segments
are in place when the loader has done `k` of them.  It is about tables of at most
`SegLimit` segments (the others are entered unloaded, section 4, 9), and takes
segments not to overlap.

**`FlashEepProofs`**, for any number and size of banks: `EepStaysTyped`, `PacksIntoErased`
(`PackIntoErased`) and `OldBankIsRead` (`CopyNotCurrent`).  `EepInv` adds to the types
`BlankErased` (a bank whose number word is erased is erased throughout) and
`JobInv` (what each step of a pack or a format may find); `NumberInv` orders the
numbers of the banks around a pack.  The scan for the current bank is a recursive
function over addresses; that it comes to an end, and where, is proved from the
set of the addresses it reaches and its least element, not by induction over the
function.  `OldBankIsRead` assumes `~CrashInFormat`, as the run does, because with two
power failures in the format the property is false (section 4, 11);
`PacksIntoErased` does not need it.  `EepAssumption` asks that a number (`Top`) is
positive, that there is a version to store and that sizes are numbers.

`StoreIsImplemented` (`ImplementsStore`) is the step simulation of `EepStore`: `View` and
`Saving` are what callers see of the banks, and every step of the code begins a
save, changes the one object it is for, empties the store or changes nothing of
them.  `StoreInv` says why: the current bank is `Good` (whole records, erased
behind the last, so that a header or data is never ANDed into anything), and what
a pack has looked at is `Taken` (the new bank is erased, or is the other object's
last record).  `RecordAppended`, `DataWritten` and `TakenReads` say what is read
from a bank after an append, its data and a copy.  It assumes `~CrashInFormat` and
`FixedPair`: two objects, each of one size and at least a word, that go into a bank together.
This is
what the run has, and it is what the code needs: with a third object or a changed
length a pack loses or mixes up records (section 4, 2 and 10), so without `FixedPair` the
theorem would be false.

**`LoggerProofs`**, for any number and size of sectors: `LogTyped`, `RestartIsSafe`
(`RestartFindsPlace`), `RecordsOnErased` (`RecordOnErased`), `ReadNewestFirst`
(`NewestFirst`) and `ReadLeavesNothingOut` (`NothingLeftOut`).  `FilledInOrder` and
`PlaceInv` describe the open sector (records up to the place, erased behind it)
and every step of opening one.  `RingInv` looks at the ring from the write place
backwards, by the distance in sectors (`Hops`): full sectors, with the serial
numbers falling without a gap, up to the first that is not.  `ReadInv` says where in
that picture the readout is: it may fall behind by one sector at the most, and it
has sent what lies between.  `UnbrokenInv` carries the hypothesis of section 6 (no
torn flag).  The first sector that is not full exists by a least-element argument
(well-founded induction on the naturals is not available with operator
parameters).

**`TagAppProofs`**, for any set of keys and any size of the log: `TagTyped`,
`KeysStayWhole` (`KeyIsWhole`), `ToldIsInstalled` (`InstalledWhenTold`), `StoppedStaysSilent`
(`StoppedIsSilent`) and `LogStaysQueue` (`LogIsQueue`).  The invariant has a part for the
objects in flash (`StoreInv`: what a save cut short may leave), one for what the
user and the page want (`WantInv`), one for the exchange (`ExchangeInv`: which half
of which key is in the one command buffer, in the key's buffer, and in the answer
under way) and one for what the page was told (`ToldInv`).  `KeysStayWhole` and
`ToldIsInstalled` assume `Patient`, a page that waits for its answer; without it
`KeyIsWhole` is false, as the run `find_my` shows.  `KeysAssumption` says that
a key is a pair of halves, neither of which is one of the markers the model uses
for zeroed, torn, spoilt or missing data.

**`GapRoleProofs`**, for bursts of every length (`EventCnt`, the setting
`adv_event_cnt`): `DeviceTyped`, `BurstIsCounted` (`FastIsCounted`), `RolesAgree`
(`RoleAgrees`), `OnlyFailedLinks` (`OnlyFailedLinkStops`), `BattTimerStops`
(`BattTimerInLink`) and `RebootCaused` (`RebootHasCause`).

For the first two the invariant is inductive as it stands: what has to be shown is
that each of some thirty operators on the device leaves the count and the interval
alone or changes both together, so there is one lemma for each, composed as the
operators are.  The other four speak of a device with nothing under way, and say
nothing of how it gets there.  `RoleInv` therefore names the phases a device goes
through, from `Booting` by `Started`, `Restarts`, `Starting` and `OnAir` to `Linked`,
and by `Ending` back to `Restarts` when advertising begins anew, with `Stopped` for a
link that failed.  A phase fixes the role, the host's state, the radio and the
messages on their way together.  A link may come in four of them and is followed
from the radio through the host's queue (`LinkAhead`) to the role's (`LinkSeen`),
behind the message that was on its way, and may have ended again before the role
hears of it.  For each task there is one lemma per phase (`HostPhases`,
`RolePhases`, `AppPhases`, ...): the step keeps the phase or leads to the next.
`ResetOnce` is what keeps RESET_ADV from enabling advertising a second time.

**`ClockProofs`**, for every width of the counter, mask, second and restart time:
`ClockTyped`, `ClockNeverAhead`, `ClockLosesATick` and `SecondsGoOn` (that the
seconds never go back).  The inductive invariant `CInv` adds to the types
`GapFits` (the counter is where the last reading and the ticks since put it,
modulo its width) and `RegsBehind` (the registers a restart reads are not ahead
of the clock).  The lemmas are about the arithmetic: `Elapsed` never exceeds the
ticks that passed, and misses at most one of them if they are fewer than the mask
keeps; `Carry` keeps the time shown.  `ClockAssumption` asks for no more than
positive sizes and a mask within the width.

**`UartFrame`** proves `FramesAreFound` (`Spec => []PrintedIsFrame`) with the real
packet length: a packet is printed exactly when the last 14 bytes are numbered 1
to 14, and it is these bytes.  The invariant says that the place is the length of
the longest run of numbered bytes that may yet become a packet, and that the
packet so far is that run.

*Only model-checked.* Liveness (`AttemptEnds`, `UpdateCompletes`, `ComesUp`,
`ReadoutStops`, `AdvertisesAgain`, `PressIsBroadcast`, `BurstEnds`,
`MelodyGoesOn`, `LogIsSent`) is beyond the prover.

## 6. Not modelled, and abstractions to know

*Why the map covers little of the tree.*  Of the 280924 lines of C in the
repository some 270000 are the vendor's SDK (controller, mesh, drivers,
examples), copied unchanged or compiled to ROM; the firmware itself is
`src/hdp16/source`.  The project models the firmware's control, and of the SDK only
what the tag's advertising and its connection pass through.  Much of what is left
of the firmware is tables, register access, number formatting and sensor scaling,
about which a state machine has nothing to say.

- A six-byte START (an erase address from the host) is an action of the model
  but switched off by `EraseAddrs = {}`: with it the host takes over erasing.
- `OtaParser`: erases and writes outside the modelled flash (before the application,
  where the boot firmware lies, or behind the last block) change nothing that is
  kept; `past.hurt` exempts them from `BootableImpliesIntact`.  An erase or write
  that reports BUSY has done nothing.
- `OtaSystem`: write commands are lost one by one or with the connection, never
  changed or put out of order; files above 0xff00 blocks, which could not be sent,
  are refused by `ClientAssumption` (testFwOTA's limit on the size).
- `FlashEep`: erases are atomic with respect to power failures, a word write is
  atomic; torn erases are not described anywhere in the repository.  The numbers
  of the banks count down from `Top` and are taken not to run out (`NumberBank`; the
  code has 31 bits for them).
- `Logger`: at most one sector of records (409) is written during a readout;
  at the fastest setting this takes 51 s, while 4096 records are read out in 43 s
  (`sbp_profile.c:520`).  Requests that start at a later record (the optional
  fourth and fifth byte), and a readout across a clear, are left out of the
  properties or the model.  A power failure that tears the flag of a full sector
  hides the records before it from every readout, so `NewestFirst` and
  `NothingLeftOut` are claimed while none has occurred (`Unbroken`).  The order of
  records over a restart that found no open sector is not preserved by the code
  and not claimed.
- `GapRole`: advertising events are so far apart (50 ms and more) that the tasks
  are idle in between (`fresh`), and a link outlasts the handler during which it
  was made.  Failed allocations, HCI errors, the timers that ask for other
  connection parameters, the measuring schedule and an order to reboot that is
  taken back are left out; `GAPROLE_CONNECTED_ADV` is not reached.  Only the HDP16
  build (button) is modelled; a press that is over before its event is handled
  is not seen by the code and not by the model.
- `TagApp`: what the commands that read the key do is left out (they read it
  from flash again), and so is what the page does with those answers
  (`PHY62x2BTHome.html:1739-1745`); answers may be refused by the stack.  The save of an address
  that is missing at start-up is taken not to be cut short.  Messages of the log
  are of two kinds, and are taken by the stack or lost there.
- `Clock`: the conversion to microseconds with the measured frequency, and its
  truncation, are left out, and so is the end of the 32-bit seconds.  The fraction
  is kept when the clock is set, as in the code (395), so it may be ahead by up to
  a second.  The registers are taken to keep their values over a restart; that
  a power failure clears them is not modelled.
- `cmd_parser.c`: commands that get or set single fields of the settings, and
  CMD_ID_FIX_MAC of the boot firmware, which rewrites flash sector 0 without any
  provision for a failure.
- Sensor values, formatting, advertising data, displays, triggers (not compiled
  for HDP16), the SDK's flash driver, the host tools.

## 7. What is left

1. `CmdParser` for the settings, the timers of connection parameters in the role,
   `Trigger` as an operator against a reference definition.
2. The flash driver's lock and time-out, and the ROM protocol of the host tools,
   as far as the repository shows them.
