# EarlyOT silicon_creator firmware: TLA+ models and proofs

This directory holds specifications of the boot firmware under
`sw/device/silicon_creator` of this OpenTitan derivative, the TLC
configurations that check them on small instances, and proofs of their main
properties for every instance. Source paths below are relative to
`sw/device/silicon_creator` unless they start with `sw/` or `hw/`.

    tlc -workers 2 -config MCBootData.cfg MCBootData.tla
    tlapm BootDataProof.tla

## The system

The repository is a hardware design with its firmware, tests and tools. The
program with state and protocols of its own is the boot firmware: ROM verifies
and starts the ROM_EXT, the ROM_EXT serves requests of the owner firmware,
verifies it and starts it. All of it is single threaded and runs to completion
at every boot. What interleaves with it is failure: a reset, a power loss or a
flash error between any two steps that touch state with a longer lifetime than
the boot. Three of its parts also talk to a host over a line of their own: rescue
mode and provisioning over the UART, bootstrap over SPI.

| Part | State it keeps | Operations | What makes it correct |
| --- | --- | --- | --- |
| Boot data, `lib/boot_data.c` | two flash info pages, each a log of 16 entries | `boot_data_read`, `boot_data_write`, `boot_data_check` | one atomic record whatever a crash leaves in the pages; always readable again |
| ROM_EXT, `rom_ext/rom_ext.c`, `rom_ext_boot_policy.c` | RAM copy of boot data | `rom_ext_start`, boot service handlers, `rom_ext_try_next_stage` | no image below the stored minimum version runs; every boot reaches an image if one is good |
| Boot services, `lib/boot_svc/` | one message in retention RAM, request then response | header check and finalize | a response says what happened; a request is served once or again with the same effect |
| Boot log, `lib/boot_log.c` | a record in retention RAM | init, digest | shows the owner the state it will be judged by (the nonce above all) |
| Ownership, `lib/ownership/` | owner pages in flash and their RAM copies; state and nonce in boot data | `ownership_init`, `ownership_unlock_handler` | state moves along the documented edges, with an accepted key, once per nonce |
| Rescue, `rom_ext/rescue.c`, `lib/xmodem.c` | session mode, frame, offset, flash offset | mode changes, XModem frames, flashing | what was sent is what was flashed; a session leads to a reboot |
| ROM, `rom/rom.c`, `boot_policy.c`, `lib/shutdown.c` | control flow counters, slot order; boot log, retention RAM at power-on | init, verify, boot, shutdown | the newest ROM_EXT that verifies runs; the counters agree on every path; a failed boot ends in a reset |
| Bootstrap, `rom/bootstrap.c`, `lib/bootstrap.c` | flash, phase of the SPI protocol, status bits | chip erase, sector erase, page program, reset | nothing old survives; to the host it is a SPI flash; the busy bit clears |
| DICE, `rom_ext.c` 296-496, `lib/cert/cert.c` | certificate page and its RAM buffer | buffer, compare, renew, rewrite | the chain names the measurements of the boot, whole and with nothing behind it; every boot gets on |
| Host tools, `sw/host/opentitanlib/src/rescue`, `bootstrap`, `spiflash`, `sw/host/provisioning` | an operation, its XModem state, what it takes the flash to hold; the step of a provisioning run | mode, send, receive; erase, program, reset; wait, endorse | success means that it happened |
| Flash driver, `lib/drivers/flash_ctrl.c` | controller registers | transactions, permissions | a transaction that fails is reported |
| Manufacturing, `manuf/` | OTP, flash info pages | individualize, personalize | what is locked is whole; what was handed out stays true; steps can be resumed |

They interact through calls, through boot data (all boot stages), and through
retention RAM (owner firmware and rescue host on one side, ROM_EXT on the
other). Three lifetimes meet in the ROM_EXT: flash outlives everything,
retention RAM outlives resets but not power, RAM lasts one boot.

The behaviours that are hard to test are crashes inside the few flash
transactions of a boot data write, sequences of such crashes around both pages,
requests that are retried because their message outlives a reset, errors that
are dropped half way through a handler, boot loops, damaged or lost frames while
flash is being written, and updates of a page that holds something which cannot
be made again. `PROJECT.json` lists
them with their lines under "hazards".

## Modules

| Module | Models | Built on |
| --- | --- | --- |
| `BootDataStore` | what `boot_data.c` promises: one record, replaced atomically, counter one higher | |
| `BootData` | `boot_data.c` over two pages, transaction by transaction | implements `BootDataStore` |
| `MCBootData` | instances of `BootData` | |
| `BootDataProof` | inductive invariant and safety theorems | `BootData` |
| `BootDataAtomicProof` | refinement theorem | `BootDataProof` |
| `RomExt` | one ROM_EXT boot after another, with requests, ownership and rescue | uses `BootDataStore` as its storage |
| `MCRomExt` | instances of `RomExt` | |
| `RomExtProof` | types, safety theorems of the boot services, and the keys that unlock | `RomExt` |
| `FileTransfer` | what an upload in rescue mode promises: acknowledged is stored, nothing else changes | |
| `Rescue` | `rescue.c` and `xmodem.c`, the line, and the host's `xmodem.rs` and `serial.rs` | implements `FileTransfer` |
| `RescueProof` | types, the buffer, downloads, acknowledged uploads, and the refinement of `FileTransfer` | `Rescue` |
| `MCRescue` | instances of `Rescue` | |
| `SpiFlash` | the SPI flash that bootstrap plays: locked until all of it is erased | |
| `Bootstrap` | `lib/bootstrap.c`, `rom/bootstrap.c`, flash transaction by transaction, and the programmer | implements `SpiFlash` |
| `Rom` | `rom.c` and `boot_policy.c` around it: straps, slots, counters, resets | extends `Bootstrap` |
| `RomProof` | types, what bootstrap leaves, which image runs, the counters, and the refinement of `SpiFlash` | `Rom` |
| `MCRom` | instances of `Rom` | |
| `Dice` | the certificate page over boots, image updates and cuts | |
| `DiceProof` | types, and the chain that the owner finds | `Dice` |
| `DiceLayoutProof` | that the chain is whole and nothing behind it | `DiceProof` |
| `MCDice` | instances of `Dice` | |
| `Personalize` | provisioning in the factory: `manuf/base`, `manuf/lib` and the host of `sw/host/provisioning` | |
| `PersonalizeProof` | types, what is locked, exported and reported | `Personalize` |
| `MCPersonalize` | an instance of `Personalize` | |

`RomExt` moves its storage only by the actions of `BootDataStore` (`Store!Read`,
`Store!BeginWrite`, ...), and `BootData` is shown to implement exactly these, so
what holds of the handlers holds over the two pages.

### BootData and the code

An entry is four units, one for each flash program transaction: `digest`;
`is_valid`; `head`, bytes 40 to 63; and `tail`, bytes 64 to 127, which
`flash_ctrl.c` writes in a second transaction because a program cannot cross a
64-byte window. A unit is erased, garbage, or the record it was programmed
from. So a digest matches when `digest`, `head` and `tail` come from one record.
The record keeps its counter and slot (and version, for the upgrade);
all other fields are one opaque value.

The forward and backward searches are the operators `FirstEmpty`, `LastValid`
and `Active`. `BootDataRead` is `boot_data_read`; `BootDataWrite` is the part of
`boot_data_write` up to its first transaction, then `Erase`, `Program` (three
times), `CheckEntry` and `Invalidate` follow as steps. At each of them
`PowerLoss` and `TransactionError` may cut the transaction, which leaves its
words unchanged, garbage or complete; a cut erase leaves each entry of the page
kept, scrambled, erased, or with only `is_valid` back in the erased state, which
brings an invalidated entry back to life. `WeakProgram` is a program that
reports success and did not take. `SearchError` and `ReadError` are failed reads.

### RomExt and the code

`pc` names the next part of `rom_ext_start`: `RomExtStart` up to the boot
services, `HandleBootSvc` with one action per request type, `Commit`, `WriteOk`,
`ReadBack` and `Respond` for the handlers that write, `Sync` for the boot log,
`TryNextStage`. `BootFails` is any later check of a boot that ends it. `WriteFails` and `ReadBackFails` follow the code's error paths:
`rom_ext_start` drops the handler's error and boots on. A trap is a boot that
ends in `shutdown_finalize`, as the interrupt handler does. An unlock is
written by `rom_ext_main` and always ends in a reset.

`Send` is the owner firmware leaving a request, or a rescue session receiving one;
`FlashOwnerBlock` and `FlashFirmware` are what a session does to flash.
`UnexpectedReset` is a watchdog or alert reset in the middle of a boot, which
may cut a response; `PowerLoss` also clears retention RAM. Signatures and
digests are ideal: a signature is the key that made it, an image is its
security version or fails to verify. A nonce is a number that was not used
before. `stale` is an older record that `BootData` allows to be still valid in
page 0; it matters only to a failed read-back.

### Rescue and the code

Each side is a set of actions that take the first message of their queue; the
queues are the UART, whose bytes come in order. Data is counted in units of 128
bytes, the small frame; the 1K frame, the 2 KiB buffer and the 256 frame numbers
are the constants `Big`, `Buffer` and `FrameMod`. A message is what
`xmodem_recv_frame` tells apart: a good frame, one with a bad CRC, a bad number
or a missing end, the single characters, a mode with its return, other
characters. Damage turns a message into another of these, or removes it, just
before it is heard. `data`, `offset`, `frame`, `flash_offset`, `mode` and `wait` are
the fields of `rescue_state_t`; `HandleRecvModes` with `FlashFirmwareBlock`,
`FlashOwnerBlock` and `CopyMessage` is the handler, called for a frame and for the
padded end of a file; `HandleFails` is its error return and the reset in its
middle. `tx` is the state of `xmodem_send` in the other direction. Modes and
operations of the host are those of `opentitantool rescue`.

A timeout fires when the line is silent. A host that is slower than a timeout
costs a fault, as does a reset. `Enter` resets the device with a break on the
line; any session ends in a reset of the device, after which it prints text.

### Bootstrap, Rom and the code

`fifo`, `wel` and `wip` are what the SPI device hardware shows: a command sets
`wip`, WREN sets `wel`, only `spi_device_flash_status_clear` clears them. `state` is
`bootstrap_state_t`. A handler takes a command (`HandleErase`, `HandleProgram`),
its flash operations follow as transactions (`Done`; `Error` and `WeakErase` as
faults), and `Return` looks at the errors. A call that fails drops its remaining
transactions, the next call is made all the same, as in the code. A flash word of
the model is a program window of 64 bytes. The host programs only what it takes
for erased, as its tool does after its erase, and believes what the status bits
tell it. It may be wrong, after a lost WREN or a reset: flash only clears bits, so a program
over a written word leaves garbage and is acknowledged all the same. `SpiFlash` promises the
value of a program only for the words that were erased when it began; the history variable
`blank` remembers them.

`Rom` runs the boots: `pc` follows `rom_main`. The control flow counters are kept
in steps: `Go` carries out the list of counter operations of a stretch of
code, written in the order of the code, and traps where a `HARDENED_CHECK` of
`cfi.h` would. The slot order is read from manifests before they are verified, so
an erased or garbled one may come first. `Restart` is any reset; `WakeUp` is the
one after low power, which skips the straps.

### Dice and the code

The page is an array of flash words. A certificate is its key and its length: the
first word is the ASN.1 header, the second carries the serial number, which is all
that `cert_x509_asn1_check_serial_number` compares. `Silicon`, `Creator` and `Owner`
are the three `rom_ext_attestation_*` functions on the RAM buffer, `ErasePage` and
`ProgramWindow` the update in `rom_ext_boot`. A cut erase leaves each window old,
erased or torn; a cut program leaves a beginning of its window written, and perhaps
the next word torn. Reading a torn word is an ECC error (these pages have ECC
on), after which the buffer counts as erased. `Update` is a new image.

`dice_certs_page_dirty` is a `hardened_bool_t` that is set to `true`, that is 1, at
`rom_ext.c:317` and compared with `kHardenedBoolTrue` later; the model keeps the two
apart. It does no harm, because a page that reads as erased always gets an empty
UDS header, which sets it properly.

Two history variables bound what a cut may have left: `cut` is set by it, and cleared by
the next complete update in which CDI_0 was renewed, which `fresh` marks.

### Personalize and the code

`otp` holds the words that one call writes: blank, partly written, torn, or a value, which
is 0 for given words and the number of a drawing of entropy for secrets. `digest` is what
the OTP holds and `locked` what its digest registers show, that is, what
`dif_otp_ctrl_is_digest_computed` returns: they differ from the lock until the next
reset, and the code depends on it. `Writable` is
`otp_ctrl_testutils_dai_write32`/`64` with their comparisons and read-backs. `pc` names the
next operation of the SRAM program or of `ft_personalize.c`; the operators `AtHwCfg0` to
`AtSecret2` are the checks that skip a partition. A flash page of seeds remembers the
drawing and the scrambling key it was written under, a page of certificates the
keys they endorse. `Keys` is what the endorsed keys are derived from.

`tx` and `rx` are the console. The host is a table: the line it waits for (`Waits`), what it
sends then (`Replies`), and where it goes (`AfterWait`); other lines are read past
(`Discard`), as `UartConsole::wait_for` does. `StartRun` is `main` with the reset that
reading the life cycle state takes, `Rerun` an operator who starts `ft` again after a
failure. `BootstrapAs` puts the firmware into flash in the form (plain or scrambled) that the
chip then reads; after `FlashCfg` is written the old image does not verify, which is why
the host bootstraps twice. Faults: `PowerLoss` in the middle of any step, `OperationFails`
(an error that is reported), `LockFails` (a lock that does not take, reported or not), `WeakWrite` (a flash
program that did not take), `LineError`, `BootstrapLost`, `HostFails`.

## Runs

| Run | Question | Bounds |
| --- | --- | --- |
| `bd_safety` | structure of the log, erased words, atomicity; does a device that got its boot data once get it at every later boot | 2 entries a page, counters to 9, 2 faults |
| `rx_policy` | slots and minimum versions: what boots, persists and is answered | 2 writes, versions to 3, 2 faults |
| `rx_unlock` | ownership unlocks with all keys, modes and old nonces | 3 writes, 2 faults |
| `rx_live` | does every boot reach an image or rescue | 2 writes, versions to 2, 1 fault |
| `rx_zero_min_sec_ver` | can a request stop the chip from booting (yes) | no fault |
| `rx_owner_pages` | are owner pages with a bad signature destroyed (page 1 is not) | no fault |
| `rescue` | is an acknowledged upload stored, a download exact, and does each operation end | 2 operations, files of 3, 5 and 9 units, 2 pages of 4, 2 faults and one more bad payload |
| `rescue_false_ack` | the same when a frame may read as an end of file (no) | 1 operation, 1 fault |
| `rom` | is the chip a SPI flash to the host, does the newest image run, does every boot reach one | 2 banks of 4 words, 4 sessions and commands, 1 fault |
| `dice` | do the certificates follow the measurements, does every boot get on | 4 windows of 4 words, 2 measurements of each image, 2 faults |
| `dice_uds_lost` | does the certificate of the factory stay (no) | 1 fault |
| `personalize` | is what is locked whole, what was exported true, success complete, and can a run be repeated | 4 runs of the host, 3 faults |

Two entries a page give a page a first and a last index; with counters from 5
to 9 the log goes round both pages and an erase meets entries of the round
before. Two faults let a crash strike in the recovery from a crash, and are the
least that leaves an entry valid and later reads it. One value of the remaining
fields is enough because records differ by counter and slot. In `RomExt` two or
three writes let a second request meet what the first one left; three or four
versions give an image that is always good and others that one or two requests
outdate. `RequestTypes` splits the requests over runs that finish in minutes;
`RequestSlots` and `DefaultMinSecVer` keep the two requests that are known to
loop out of `rx_live`.

In `Rescue` the three lengths end within the first page, begin the second, and go
beyond the slot, with small and with 1K frames; numbers are modulo 4, so they wrap
within a file. Two operations let what the first one left on the line and in the
device meet the second. `Junk` says what a frame without its start can read as; in
`rescue` it is characters, in `rescue_false_ack` also an end of file. In `Rom` an
erase address behind the flash, a program that wraps in its page, images of two
versions and four commands reach the program loop with erase, program and a second
session. A program that meets a word which the host wrongly takes for erased needs a fifth
command; that the refinement holds there too is proved, not run. In `Dice` the certificates begin at a window's first and last words and
within one. In `Personalize` the words, partitions, pages and messages are those of the code;
three faults let a run that resumes a cut one be cut, and one more strike in the third.

Deadlock is checked except in `rescue`, `rescue_false_ack`, `rom` and `personalize`: a host
that has no operation left need not do anything, bootstrap waits for it for ever, and a
provisioned chip stops.

### Fairness

`BootData` and `RomExt` add `WF_vars(Firmware)`, `Dice` `WF_vars(Boot)` and `Rom`
`WF_vars(RomNext)`: the CPU goes on executing and flash transactions end, as
`wait_for_done` assumes. Callers, owner firmware and host need not do anything,
resets and faults need not happen and happen finitely often. A boot ends in a
reset, whatever its error: `shutdown_finalize` resets the chip, and if that fails the
watchdog does. `Rom` also assumes `WF_vars(ResetByHost)`: a host that has changed
the straps makes the reset that `do_update` makes right after. `Rescue` has
`WF_vars(Device)`, which includes the device's timeouts, and `WF_vars(Host)`: the
host's process goes on with the operation it has begun, and reads what has come.
No message needs to arrive. So has `Personalize`; nobody needs to run the host again.

## Where the code and its comments differ

Four runs state what a comment or a document says and TLC refutes it on the code
as it is. Details, with the quoted lines, are in `PROJECT.json` under "findings".

- Raising the minimum BL0 version from zero, the default of
  `CREATOR_SW_CFG_MIN_SEC_VER_BL0` in
  `hw/ip/otp_ctrl/data/earlgrey_skus/*/BUILD`, fails a hardened check that is
  strict where equality is legal; the request is still in retention RAM after the
  reset, so it fails at every boot.
- `ownership_init` validates page 0 twice and page 1 never.
- The page with the UDS certificate, which only the factory can endorse, is erased
  to renew the certificates behind it: a power loss before the write is complete
  loses it for good.
- A frame of an XModem upload whose start byte is lost and whose number is 4 is
  taken for the end of the file and acknowledged.

Others that the models show when they are asked, and that no run keeps:

- A cut between the check of a new boot data entry and the invalidation of the
  old one leaves two valid entries after a write that succeeds later
  (`boot_data.c:633`); boot data copes with it.
- A primary slot request for an unknown slot traps at each boot (`rom_ext.c:683`), as its
  message outlives the reset.
- The boot log keeps the old primary slot and minimum version for the boot that
  changes them (`rom_ext.c:857`).
- An unlock is answered Ok before its boot data is written (`rom_ext.c:879`).
- After a read-back that fails, a boot may go on with an older minimum version
  (`rom_ext.c:720`).
- A RESET sent in the erase state of bootstrap is not acknowledged, against the
  comment at `lib/bootstrap.c:229`: the host sends it without WREN, the handler returns at
  line 214 and the busy bit stays set until a pin reset. So does it after a lost WREN.
- A power loss between the two flash words of a certificate's header and serial
  number makes the check of the tag trap at every later boot; see `ReachesOwner`.
  A certificate that was cut behind its serial number is taken over at each boot until
  its own key or that of CDI_0 changes. `WholeUnlessCut` says that it ends there: `cut` is
  cleared by an update in which CDI_0 was renewed (`fresh`).
- After a reset in the middle of a bootstrap session, page programs are ignored
  while the status bits tell the host that they are done (`upset` in `Bootstrap`). The
  signature check is what notices.
- The host's `send_finish` returns success without an ACK; `Rescue` counts an upload
  as done only with it.
- Once CREATOR_SW_CFG is locked no run of `ft` succeeds: the host waits for "Bootstrap
  requested." (`sw/host/provisioning/ft_lib/src/lib.rs:378`), which the firmware then skips. Each step
  is skipped when done "to facilitate test re-runs" (`manuf/lib/personalize.h:27`), but the
  run as a whole cannot be repeated from there. `Resumable` excludes it.
- A reset while the words of SECRET1 or SECRET2 are programmed makes every later run fail. One
  between the lock of SECRET2 and the export loses the RMA token, which is nowhere else.
- Any reset of the personalization firmware erases both certificate pages
  (`ft_personalize.c:361`), also after "Personalization done.": nothing remembers that it is.
- Nothing calls `manuf_individualize_device_owner_sw_cfg_check()`, so a lock of OWNER_SW_CFG
  that failed goes unnoticed; `SuccessIsComplete` leaves this partition out.

Seen while reading, outside what the models say: `compute_keymgr_owner_binding()`
(`ft_personalize.c:265`) never finishes its hash and copies an uninitialized digest, so the
CDI_1 key of the factory is arbitrary, and the first boot of the ROM_EXT renews its
certificate; the same function says that the sealing binding is unused, while the TPM keys are sealing
keys (`lib/otbn_boot_services.h:38`), derived in the field under another binding
(`rom_ext.c:391`); `shares_check()` looks at `share1[0]` in place of `share1[i]`
(`manuf/lib/personalize.c:154`).

## Proofs

`BootDataProof` proves for any number of entries per page, any settings, life
cycle states and number of faults:

- `TypeCorrect`: `Spec => []TypeOK`;
- `NoCounterTie`: `Spec => []PagesNeverTie`. `boot_data.c:417` argues that
  counters differ "since they are incremented at each write"; a crash between
  the check and the invalidation, or a cut erase, makes this a real question;
- `ProgramsOnce`: `Spec => []ProgramsErasedWords`.

None of these is inductive. The strengthening says how far a write has come:
counters grow along each page and between the pages below the active entry; while a write
is in progress its record has the greatest counter; the target was the first
empty entry and its units are programmed in order; `old` is the active entry
until the new one is complete.

`BootDataAtomicProof` proves `AtomicRecord`: `Spec => Atomic`, that is, every
behaviour of the two pages is one of `BootDataStore` under the mapping `Stored`.
The commit point is the program transaction that makes the last unit match.
One lemma per step says how it changes `Stored`; the ones to note are that erasing the
other page and invalidating the old entry do not change it.

`RomExtProof` proves, for any slots, versions, keys, nonces and bounds:

- `PolicyHolds`: `Spec => []NoRollback`, no image below the stored minimum
  version is running;
- `AnswersAreTrue`: `Spec => []AnswersHold`, while a response is in retention RAM
  the stored record is what it says;
- `VersionsOnlyRise`: `Spec => MinSecVerNeverDrops`;
- `OneTimeSlots`: `Spec => OneTimeSlotIsNotKept`, the next-boot slot of a request
  reaches the RAM copy and never the flash;
- `UnlocksTakeNonces`: `Spec => EachUnlockTakesANonce`.

The inductive invariant adds two parts to `NoRollback` and `AnswersHold`.
`Pending` says what a record that is being written may differ in from the stored
one, and which message asked for it: a commit, an error and a reset may each
install it. `Copy` says how the RAM copy relates to the stored record at each
`pc`: equal before the handlers, and afterwards with a version that is at least the
stored one, which is all that is left after a failed read-back. The lemma
`StepsOfStored` reduces the three action properties to this: a step leaves the
record alone or installs the pending one.

It also proves `TypeCorrect` (`[]TypeOK`), for which the copy has to be a record
at each `pc` that looks into it, and `UnlocksAreSigned` (`OnlyTrustedKeysUnlock`), for
which `Trusted` says that a bad page 0 never keeps its keys in RAM and that an unlock is
answered before it is written.

`RomProof` proves, for any layout of the flash, host, version and number of faults:

- `OldContentIsGone`: `Spec => []NothingSurvives`. It is inductive with one fact more: the
  words that are still old (`stale`) are written, so the verification that finds all words
  erased finds none of them;
- `RunsNewest`: `Spec => []NewestRuns`, from `Choice`: the order is still that of the
  flash, as nothing writes flash between reading the manifests and booting; the second image
  is tried when the first has failed; and one of the two has passed when one boots;
- `CountersAlwaysAgree`: `Spec => []CountersAgree`. `Value`, which gives a counter before an
  operation of a stretch of code, is shown to advance one operation at a time
  (`OneAfterAnother`), so each stretch of `rom_main` is followed operation by operation. The
  invariant `Counting` gives the values that the counters have between the stretches;
- `TypeCorrect`: `Spec => []TypeOK`. The work is in the calls of the flash driver:
  `SectorEraseCalls` and `PageProgramCalls` are shown to cover exactly the sector, and the
  words of the wrapped page, that the command names, and these to lie within the flash;
- `HostAlwaysSees`: `Spec => []HostSeesMemory`. `Serial` says that one command is on its way
  or in work at a time, and which phase goes with it. `Seen` follows it: what the host
  believes differs from the flash only in the words that the command still has to
  change (`Waiting`), and the calls that are left give them that value (`WorksRight`);
- `PlaysSpiFlash`: `Spec => ImplementsSpiFlash`, the refinement. Its invariant `Working` is
  the same without a host to trust: the words of the command that is in work have what
  it promises or are still in its calls, or a call has failed and the chip will reset. One lemma
  for each kind of step says which step of `SpiFlash` it is.

The attempt to prove this refinement refuted an earlier form of it, in which a program
had its whole effect whatever it met: one whose erase was lost is acknowledged over words
that are written. With `MaxCommands` 5 in `MCRom.cfg` TLC sees that too, in a run of five minutes;
the configuration keeps to 4.

`DiceProof` and `DiceLayoutProof` prove, for any size of windows, page and
certificates, any measurements, cuts and errors:

- `TypeCorrect`: `Spec => []TypeOK`;
- `ChainIsCurrent`: `Spec => []CurrentChain`;
- `TailIsErased`: `Spec => []NoStaleTail`;
- `ChainIsWhole`: `Spec => []WholeUnlessCut`.

The first two rest on `Inv`: a page and the buffer hold the UDS certificate only in its
place (`Tidy`), the buffer is right up to the offset at each step of the walk, a clean
buffer equals the page, and the windows that were programmed equal the buffer
(`Copied`). The other two are about words that the walk does not look at. For these,
`LayoutInv` says that a page is at any time what is left of one layout of three certificates
in a row (`Rest`), and from CDI_0 on all of it (`Exact`) unless an update was cut and CDI_0 has
not been renewed since; the step to note is a renewal of CDI_0, after which the buffer is
half a layout (`Half`), whatever it was before, whose CDI_1 certificate
cannot match, because what is behind CDI_0 has been erased.

`RescueProof` proves, for any sizes of frames, buffer and pages, files, host operations and
faults, and for frame numbers modulo anything above 1:

- `TypeCorrect`: `Spec => []TypeOK`;
- `FramesAlwaysFit`: `Spec => []FramesFit`;
- `DownloadsAreExact`: `Spec => []DownloadIsExact`;

and, when no damaged frame reads as an end of file (`"eof" \notin Junk`),

- `PagesAreInOrder`: `Spec => []PagesInOrder`;
- `AcknowledgedMeansStored`: `Spec => []AcknowledgedIsStored`;
- `UploadsKeepTheirPromise`: `Spec => ImplementsTransfer`, every behaviour of the protocol is
  one of `FileTransfer`.

The assumption on `Junk` is needed: without it `rescue_false_ack` finds the violation, and it is
the divergence listed above. It is an assumption about the line, and the three theorems that
need it say so.

The invariant has two parts accordingly. `Basic` holds whatever a damaged frame is read as:
where each side is in an operation (`Places`, `Session`), that one mode or its answer is on the
way at a time (`Handshake`), that an operation begins with nothing on the line that could be
stored (`Clean`), that a frame fits behind the offset (`Fitting`), and that of a download only the frame that is awaited and the one before it are on the way,
in order (`Delivered`). `Sent` is the same for uploads: only the blocks `block - 1` and `block`
are on their way, no older one behind a newer one, and the end of file behind all of them (`Frames`);
at most one acknowledgement is on its way, and it is true (`Acknowledged`); what the
device has counted is what it has written and buffered, and both are the beginning of the file
(`Buffered`, `PagesInOrder`). Two neighbouring frame numbers differ modulo `FrameMod`, which is
all the wrapping numbers have to do. The queues enter through two predicates, `Has` and
`Follows` (a message of one set, and one behind another), with a lemma for each way in which
the line changes.

`PersonalizeProof` proves, for any number of runs of the host and of faults:

- `TypeCorrect`: `Spec => []TypeOK`;
- `LocksAreWhole`: `Spec => []LockedIsWhole`;
- `ExportsAreTrue`: `Spec => []ExportsStay`;
- `SuccessIsTrue`: `Spec => []SuccessIsComplete`.

The invariant has a part for each stretch of the protocol. `Locking` says in which order
partitions are locked: because the error of a lock is dropped, CREATOR_SW_CFG may be
locked over a SECRET1 that is written and not locked, but nothing gets further from
there. `Individualizing` and `Personalizing` say what has been written at each place of
the two programs; `Growth` that a whole word never changes, nor a seed page behind the lock of
SECRET2. So a line or a variable of the host that told the truth (`Exported`) goes on to tell it.
For the certificates, `OneImport` counts: the host sends them once in a run, so there is at
most one import and one hash between them and success, and a restarted firmware cannot reach
its end again. Sequences enter through the sets of their lines only (`LogAppend`, `LogTail`,
`LogReplace`).

The constants' assumptions are named in the modules that declare the constants
(`ConstantsAssumption`, `MarksAssumption`, `ValuesAssumption`, `SizesAssumption`,
`WordsAssumption`, `FaultsAssumption` and so on); TLC evaluates them in each run. They give sizes
their ranges and markers distinct values (`Rescue` has frame numbers modulo more than 1, as
modulo 1 a repeated frame is a new one, and `None` apart from the operations). No theorem
assumes anything of the system but the three of `RescueProof` that name `Junk`.

Only model-checked: the liveness properties, which need fairness; `UdsStays` and the other
refuted ones. Every invariant, action property and refinement that a passing run checks is
proved.

## Assumptions and limits

- ECC and scrambling are off for the boot data pages, as
  `CREATOR_SW_CFG_FLASH_INFO_BOOT_DATA_CFG` is zero in the sival and prodc SKUs.
  With ECC a torn word would make later reads fail.
- An erase that reports success has erased; a program that reports success may
  not have taken, as the code itself assumes by reading back.
- The 32-bit counter does not wrap.
- Reset reasons other than power-on leave retention RAM alone
  (`CREATOR_SW_CFG_RET_RAM_RESET_MASK` clear).
- Boot data is version 1 or 2 at the start, or absent; other versions trap.
- `RomExt` starts from the state after provisioning: ownership locked, boot data at its default.
- A UART or SPI byte is lost or damaged, never made up; frames arrive in order. The
  BAUD mode of rescue is not modelled, nor is a host that sends frames of mixed sizes,
  for which `FramesFit` would not hold.
- Rescue writes an owner block in every ownership state (`rescue.c:54` says so), although
  `rom_ext/doc/rescue.md` restricts it.
- A digest of an OTP partition is written or not; a torn one is a broken chip, as is a life
  cycle transition that is cut. The device ID is in flash before provisioning, so a damaged
  one from the host is refused; a damaged key of the host is not a point of the curve.
- `RomExt` writes an image in one step, with the image as it was sent or one that does not
  verify, which is what a cut leaves; `Rescue` erases and writes it page by page.
- The modelled host of `Rescue` enters rescue anew for each operation, as each command of
  `opentitantool rescue` does. Several uploads in one session with WAIT, which the protocol
  allows, are not exercised.
- The pages of seeds are taken to read back as written. The code does so for the seeds, not for the
  key generation version behind them (`personalize.c:395`), about which no property speaks.
- A serial number is one flash word in `Dice`. In the code it spans several; one that is torn or
  partly written does not match, and its certificate is renewed, as with a wrong word.
- In `Rescue` the 0xFF padding of the last block is part of what is stored (`Padded`) and does not
  stay in the buffer, which the next block overwrites; the answer to a bad mode is some characters.
- A signature is good for exactly the image it was made for. A torn or garbled
  manifest may read as any version but does not verify.

## Plan

Done: boot data (model, runs, theorems, refinement); the ROM_EXT boot services over
it; rescue with its file transfer; the ROM with bootstrap; the certificate page;
provisioning.

Next, in this order:

1. `Rescue` in place of the three summary actions of `RomExt`, and `Rom` before it,
   so that both boot stages read one record.
2. `OwnerBlock`: TLV parse as an operator checked against a reference definition.
3. The chip probe stage and the life cycle transitions around `Personalize`.

Not modelled, and not planned: cryptography and OTBN programs (arithmetic out of
TLC's reach; ideal where they are used), register drivers, DIFs and test
libraries, test and lab tools, the RTL under `hw/`, which has its own verification
flow. They are most of the source, so the map covers a small share of it: the
state machines of the boot firmware are a few thousand lines.
