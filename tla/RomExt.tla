------------------------------- MODULE RomExt -------------------------------
(***************************************************************************)
(* One boot after another of the ROM_EXT (rom_ext/rom_ext.c), with the boot *)
(* services the owner firmware, or a rescue session, requests through the   *)
(* message in retention RAM.  The boot data is the atomic record of         *)
(* BootDataStore, which lib/boot_data.c implements.                         *)
(*                                                                          *)
(* Three memories with three lifetimes meet here: boot data outlives        *)
(* everything, retention RAM outlives resets but not power, RAM lasts one   *)
(* boot.  A reset or a failing flash transaction may come between any two   *)
(* steps that touch them.                                                   *)
(***************************************************************************)
EXTENDS Integers

CONSTANTS
  DefaultMinSecVer,   \* OTP CREATOR_SW_CFG_MIN_SEC_VER_BL0
  MaxVersion,         \* bound on security versions
  RequestTypes,       \* the requests that are sent
  RequestSlots,       \* the slots they name, "bad" for neither A nor B
  RecoveryKey,        \* whether kNoOwnerRecoveryKey is linked in
  None,
  MaxCounter,         \* bound: no request is sent at this boot data counter
  MaxFaults           \* bound on unexpected resets and flash errors

BootSlots == {"A", "B"}
Versions == 0 .. MaxVersion
OwnershipStates == {"LockedOwner", "LockedUpdate", "UnlockedAny",
                    "UnlockedEndorsed", "LockedNone"}
\* The fields of boot_data_t that are used here.  nonce_new() draws a value
\* never used before.
Content == [counter : Nat, primary_bl0_slot : BootSlots,
            min_security_version_bl0 : Versions,
            ownership_state : OwnershipStates, nonce : Nat]

UnlockModes == {"Any", "Endorsed", "Update", "Abort", "bad"}
Keys == {"owner", "unlock", "recovery", "other"}
\* Request messages, an unlock request with the key that signed it.  As the
\* owner reads the nonce from the boot log, it may be one or more behind.
SlotRequest(type) == [type : {type}, slot : RequestSlots]
MinSecVerRequest == [type : {"MinBl0SecVerReq"}, ver : Versions]
UnlockRequest == [type : {"OwnershipUnlockReq"}, mode : UnlockModes,
                  key : Keys, nonce : 0 .. MaxCounter]
Request == SlotRequest("NextBl0SlotReq") \cup SlotRequest("PrimaryBl0SlotReq")
           \cup MinSecVerRequest \cup UnlockRequest
Status == {"Ok", "BadSlot", "InvalidNonce", "InvalidMode", "InvalidSignature",
           "InvalidState", "InvalidRequest"}
Response == [type : {"NextBl0SlotRes", "OwnershipUnlockRes"}, status : Status]
            \cup [type : {"PrimaryBl0SlotRes"}, slot : BootSlots, status : {"Ok"}]
            \cup [type : {"MinBl0SecVerRes"}, ver : Versions, status : {"Ok"}]
\* No message, or one whose header check fails.
NoMessage == [type |-> "none"]
TornMessage == [type |-> "torn"]
OwnerPage == {"good", "bad", "destroyed"}
Image == -1 .. MaxVersion    \* security version, -1 for a slot that fails to verify
EmptyLog == [min_sec_ver |-> 0, primary |-> None, state |-> None, nonce |-> 0,
             bl0_slot |-> None]

ASSUME ConstantsAssumption ==
  /\ MaxVersion \in Nat /\ DefaultMinSecVer \in Versions
  /\ RequestTypes \subseteq {"NextBl0SlotReq", "PrimaryBl0SlotReq",
                             "MinBl0SecVerReq", "OwnershipUnlockReq"}
  /\ RequestSlots \subseteq {"A", "B", "bad"}
  /\ RecoveryKey \in BOOLEAN
  /\ MaxCounter \in Nat /\ MaxFaults \in Nat
  /\ None \notin Content /\ None \notin BootSlots /\ None \notin OwnershipStates

VARIABLES
  stored, request, copy, result,   \* boot data, see BootDataStore
  old,        \* the record the write in progress replaces
  stale,      \* a superseded record whose entry may still be valid
  msg,        \* retention RAM: boot_svc_msg
  log,        \* retention RAM: boot_log
  ownerFlash, \* the owner pages in flash: their signature is good or bad
  ownerPage,  \* owner_page[2], their RAM copies
  image,      \* the images in the two BL0 slots
  pc, running, faults

store == <<stored, request, copy, result>>
vars == <<stored, request, copy, result, old, stale, msg, log, ownerFlash,
          ownerPage, image, pc, running, faults>>
Store == INSTANCE BootDataStore
-----------------------------------------------------------------------------
Init ==
  /\ \E state \in {"LockedOwner", "LockedNone"} :
       stored = [counter |-> 5, primary_bl0_slot |-> "A", nonce |-> 0,
                 min_security_version_bl0 |-> DefaultMinSecVer,
                 ownership_state |-> state]
  /\ request = None /\ copy = None /\ result = "none" /\ old = None /\ stale = None
  /\ msg = NoMessage /\ log = EmptyLog
  /\ ownerFlash \in [{0, 1} -> {"good", "bad"}]
  /\ ownerPage = [p \in {0, 1} |-> "destroyed"]
  /\ image = [s \in BootSlots |-> IF s = "A" THEN MaxVersion - 1 ELSE MaxVersion]
  /\ pc = "off" /\ running = None /\ faults = 0

\* ROM clears the boot log; rom_ext_start() reads the boot data and fills it in.
LogAtStart == [EmptyLog EXCEPT
  !.min_sec_ver = copy'.min_security_version_bl0, !.primary = copy'.primary_bl0_slot,
  !.state = copy'.ownership_state, !.nonce = copy'.nonce]

\* ownership_init(): each page is checked against the keys of page 0.
\* [variant] the page 1 check is dropped altogether.
OwnershipInitUnchecked ==
  ownerPage' = [p \in {0, 1} |-> ownerFlash[p]]
OwnershipInit ==
  ownerPage' = [p \in {0, 1} |-> IF ownerFlash[0] = "good" THEN ownerFlash[p]
                                                           ELSE "destroyed"]

RomExtStart ==
  /\ pc = "off" /\ pc' = "boot_svc"
  /\ Store!Read
  /\ log' = LogAtStart
  /\ OwnershipInit
  /\ UNCHANGED <<old, stale, msg, ownerFlash, image, running, faults>>

\* boot_data_write() begins with the RAM copy as it is now.
BootDataWrite ==
  /\ Store!BeginWrite /\ old' = stored /\ pc' = "write"
  /\ UNCHANGED stale
Answer(response) == msg' = response
-----------------------------------------------------------------------------
\* handle_boot_svc().  An error it returns is dropped, the boot goes on.
NothingRequested ==
  /\ msg \notin Request
  /\ pc' = "sync" /\ UNCHANGED <<store, old, stale, msg>>

\* One-time boot: only the RAM copy changes.
\* [variants] the slot is not checked; it is made the primary one.
NextBl0SlotUnchecked ==
  /\ msg.type = "NextBl0SlotReq"
  /\ copy' = [copy EXCEPT !.primary_bl0_slot = msg.slot]
  /\ Answer([type |-> "NextBl0SlotRes", status |-> "Ok"])
  /\ pc' = "sync" /\ UNCHANGED <<stored, request, result, old, stale>>
NextBl0SlotPersistent ==
  /\ msg.type = "NextBl0SlotReq"
  /\ \/ /\ msg.slot \in BootSlots
        /\ copy' = [copy EXCEPT !.primary_bl0_slot = msg.slot]
        /\ Answer([type |-> "NextBl0SlotRes", status |-> "Ok"])
        /\ BootDataWrite
     \/ /\ msg.slot \notin BootSlots
        /\ Answer([type |-> "NextBl0SlotRes", status |-> "BadSlot"])
        /\ pc' = "sync" /\ UNCHANGED <<store, old, stale>>
NextBl0Slot ==
  /\ msg.type = "NextBl0SlotReq"
  /\ \/ /\ msg.slot \in BootSlots
        /\ copy' = [copy EXCEPT !.primary_bl0_slot = msg.slot]
        /\ Answer([type |-> "NextBl0SlotRes", status |-> "Ok"])
     \/ /\ msg.slot \notin BootSlots
        /\ UNCHANGED copy
        /\ Answer([type |-> "NextBl0SlotRes", status |-> "BadSlot"])
  /\ pc' = "sync" /\ UNCHANGED <<stored, request, result, old, stale>>

\* [variant] the response is written before boot data.
PrimaryBl0SlotAnswersFirst ==
  /\ msg.type = "PrimaryBl0SlotReq" /\ msg.slot \in BootSlots
  /\ copy' = [copy EXCEPT !.primary_bl0_slot = msg.slot]
  /\ Answer([type |-> "PrimaryBl0SlotRes", status |-> "Ok", slot |-> msg.slot])
  /\ BootDataWrite
PrimaryBl0Slot ==
  /\ msg.type = "PrimaryBl0SlotReq"
  /\ \/ /\ msg.slot = copy.primary_bl0_slot
        /\ pc' = "respond" /\ UNCHANGED <<store, old, stale>>
     \/ /\ msg.slot \in BootSlots \ {copy.primary_bl0_slot}
        /\ copy' = [copy EXCEPT !.primary_bl0_slot = msg.slot]
        /\ BootDataWrite
     \/ /\ msg.slot \notin BootSlots
        /\ pc' = "trap" /\ UNCHANGED <<store, old, stale>>
  /\ UNCHANGED msg

\* diff < requested, the hardened check on the way, is false when the current
\* minimum is zero.
\* [variant] the current minimum is not a lower bound.
MinBl0SecVerLowers ==
  /\ msg.type = "MinBl0SecVerReq"
  /\ copy' = [copy EXCEPT !.min_security_version_bl0 = msg.ver]
  /\ BootDataWrite
  /\ UNCHANGED msg
MinBl0SecVer ==
  /\ msg.type = "MinBl0SecVerReq"
  /\ \/ /\ msg.ver > copy.min_security_version_bl0
        /\ copy.min_security_version_bl0 = 0
        /\ pc' = "trap" /\ UNCHANGED <<store, old, stale>>
     \/ /\ msg.ver > copy.min_security_version_bl0
        /\ copy.min_security_version_bl0 # 0
        /\ copy' = [copy EXCEPT !.min_security_version_bl0 = msg.ver]
        /\ BootDataWrite
     \/ /\ msg.ver <= copy.min_security_version_bl0
        /\ pc' = "respond" /\ UNCHANGED <<store, old, stale>>
  /\ UNCHANGED msg

\* ownership_key_validate(), with the keys of page 0: the owner key always
\* counts, the recovery key where it is accepted and linked in.  A page with a
\* bad signature holds keys of somebody else.
KeyValid(accepted) ==
  \/ msg.key \in {"owner", "unlock"} \cap accepted /\ ownerPage[0] = "good"
  \/ msg.key = "other" /\ ownerPage[0] = "bad"
  \/ msg.key \in {"recovery"} \cap accepted /\ RecoveryKey

\* The state each mode may start from with the keys it takes, and where it
\* leads to.
UnlockKeys ==
  CASE msg.mode \in {"Any", "Endorsed"} /\ copy.ownership_state = "LockedOwner"
         -> {"owner", "unlock", "recovery"}
    [] msg.mode \in {"Any", "Endorsed"} /\ copy.ownership_state = "LockedNone"
         -> {"owner", "recovery"}
    [] msg.mode = "Update" /\ copy.ownership_state = "LockedOwner"
         -> {"owner", "unlock"}
    [] msg.mode = "Abort" /\ copy.ownership_state \in
                               {"UnlockedEndorsed", "UnlockedAny", "LockedUpdate"}
         -> {"owner", "unlock"}
    [] OTHER -> {}
UnlockedState ==
  CASE msg.mode = "Any" -> "UnlockedAny"
    [] msg.mode = "Endorsed" -> "UnlockedEndorsed"
    [] msg.mode = "Update" -> "LockedUpdate"
    [] msg.mode = "Abort" -> "LockedOwner"
UnlockError ==
  CASE msg.mode = "bad" -> "InvalidRequest"
    [] msg.mode # "bad" /\ UnlockKeys = {} -> "InvalidState"
    [] UnlockKeys # {} /\ ~KeyValid(UnlockKeys) -> "InvalidSignature"
    [] UnlockKeys # {} /\ KeyValid(UnlockKeys) /\ msg.nonce # copy.nonce -> "InvalidNonce"
    [] OTHER -> "Ok"

\* ownership_unlock_handler().  On success it answers Ok and returns
\* kErrorWriteBootdataThenReboot: rom_ext_main() writes the boot data.
\* [variant] the nonce stays.
UnlockKeepsNonce ==
  /\ msg.type = "OwnershipUnlockReq"
  /\ Answer([type |-> "OwnershipUnlockRes", status |-> UnlockError])
  /\ \/ /\ UnlockError = "Ok"
        /\ copy' = [copy EXCEPT !.ownership_state = UnlockedState]
        /\ BootDataWrite
     \/ /\ UnlockError # "Ok"
        /\ pc' = "sync" /\ UNCHANGED <<store, old, stale>>
OwnershipUnlock ==
  /\ msg.type = "OwnershipUnlockReq"
  /\ Answer([type |-> "OwnershipUnlockRes", status |-> UnlockError])
  /\ \/ /\ UnlockError = "Ok"
        /\ copy' = [copy EXCEPT !.ownership_state = UnlockedState,
                                !.nonce = @ + 1]
        /\ BootDataWrite
     \/ /\ UnlockError # "Ok"
        /\ pc' = "sync" /\ UNCHANGED <<store, old, stale>>

HandleBootSvc ==
  /\ pc = "boot_svc"
  /\ \/ NothingRequested
     \/ NextBl0Slot
     \/ PrimaryBl0Slot
     \/ MinBl0SecVer
     \/ OwnershipUnlock
  /\ UNCHANGED <<log, ownerFlash, ownerPage, image, running, faults>>
-----------------------------------------------------------------------------
Fault == faults < MaxFaults /\ faults' = faults + 1

Commit ==
  /\ pc = "write" /\ Store!Commit
  /\ stale' \in {stale, None}   \* page 0 may be erased for it
  /\ UNCHANGED <<old, msg, log, ownerFlash, ownerPage, image, pc, running, faults>>

\* An unlock is written by rom_ext_main(), which then shuts down; the others
\* go on in their handler.
WriteOk ==
  /\ pc = "write" /\ Store!ReturnOk
  /\ pc' = IF msg \in Request THEN "readback" ELSE "shutdown"
  /\ old' = None
  /\ UNCHANGED <<stale, msg, log, ownerFlash, ownerPage, image, running, faults>>

\* The entry of a write that was cut after it took effect leaves the one it
\* replaces valid.
Superseded == {stale} \cup (IF request # None /\ stored' = request THEN {old} ELSE {})
WriteFails ==
  /\ pc = "write" /\ Fault /\ Store!ReturnError
  /\ stale' \in Superseded
  /\ pc' = IF msg \in Request THEN "sync" ELSE "shutdown"
  /\ old' = None
  /\ UNCHANGED <<msg, log, ownerFlash, ownerPage, image, running>>

ReadBack ==
  /\ pc = "readback" /\ pc' = "respond"
  /\ Store!Read
  /\ UNCHANGED <<old, stale, msg, log, ownerFlash, ownerPage, image, running, faults>>

\* The search fails in page 1, after it copied what it found in page 0, or
\* before that.
ReadBackFails ==
  /\ pc = "readback" /\ Fault /\ pc' = "sync"
  /\ copy' \in {copy, stored, stale} \ {None}
  /\ Store!ReadFails
  /\ UNCHANGED <<old, stale, msg, log, ownerFlash, ownerPage, image, running>>

Respond ==
  /\ pc = "respond" /\ pc' = "sync"
  /\ \/ /\ msg.type = "PrimaryBl0SlotReq"
        /\ Answer([type |-> "PrimaryBl0SlotRes", status |-> "Ok",
                   slot |-> copy.primary_bl0_slot])
     \/ /\ msg.type = "MinBl0SecVerReq"
        /\ Answer([type |-> "MinBl0SecVerRes", status |-> "Ok",
                   ver |-> copy.min_security_version_bl0])
  /\ UNCHANGED <<store, old, stale, log, ownerFlash, ownerPage, image, running, faults>>
-----------------------------------------------------------------------------
\* The end of rom_ext_start(): a UART break leads to rescue.
Sync ==
  /\ pc = "sync" /\ pc' \in {"boot", "rescue"}
  /\ log' = [log EXCEPT !.nonce = copy.nonce, !.state = copy.ownership_state]
  /\ UNCHANGED <<store, old, stale, msg, ownerFlash, ownerPage, image, running, faults>>

\* rom_ext_verify(), [variant] without the version check.
VerifiedUnversioned(slot) == image[slot] # -1
Verified(slot) == image[slot] >= copy.min_security_version_bl0

\* rom_ext_try_next_stage(): the first of the two images that verifies.
\* [variant] only the primary one is tried.
TryPrimaryOnly(slot) == slot = copy.primary_bl0_slot /\ Verified(slot)
FirstVerified(slot) ==
  /\ Verified(slot)
  /\ slot # copy.primary_bl0_slot => ~Verified(copy.primary_bl0_slot)
TryNextStage ==
  /\ pc = "boot"
  /\ \/ \E slot \in BootSlots :
           /\ FirstVerified(slot)
           /\ running' = slot /\ pc' = "owner"
           /\ log' = [log EXCEPT !.bl0_slot = slot]
     \/ /\ \A slot \in BootSlots : ~FirstVerified(slot)
        /\ pc' = "shutdown" /\ UNCHANGED <<running, log>>
  /\ UNCHANGED <<store, old, stale, msg, ownerFlash, ownerPage, image, faults>>

\* boot_data_read() fails in rom_ext_init().
RomExtStartFails ==
  /\ pc = "off" /\ Fault /\ pc' = "shutdown"
  /\ copy' = copy /\ Store!ReadFails
  /\ UNCHANGED <<old, stale, msg, log, ownerFlash, ownerPage, image, running>>

\* rom_ext_boot() returns an error, of a certificate update for example: the
\* other image is not tried.
BootFails ==
  /\ pc = "boot" /\ Fault /\ pc' = "shutdown"
  /\ \E slot \in BootSlots :
       FirstVerified(slot) /\ log' = [log EXCEPT !.bl0_slot = slot]
  /\ UNCHANGED <<store, old, stale, msg, ownerFlash, ownerPage, image, running>>

\* Resets, after which RAM holds nothing; retention RAM keeps its contents.
ResetChip ==
  /\ Store!Reset
  /\ pc' = "off" /\ old' = None /\ running' = None
  /\ ownerPage' = [p \in {0, 1} |-> "destroyed"]
  /\ UNCHANGED <<ownerFlash, image>>
\* shutdown_finalize(), also called by the handler of the trap.
Shutdown ==
  /\ pc \in {"shutdown", "trap"}
  /\ ResetChip /\ UNCHANGED <<stale, msg, log, faults>>
OwnerReset ==
  /\ pc = "owner"
  /\ ResetChip /\ UNCHANGED <<stale, msg, log, faults>>
RescueReboot ==
  /\ pc = "rescue"
  /\ ResetChip /\ UNCHANGED <<stale, msg, log, faults>>

\* A reset nobody asked for may cut a response that is being written.
UnexpectedReset ==
  /\ pc \notin {"off", "owner"} /\ Fault
  /\ ResetChip /\ stale' \in Superseded
  /\ msg' \in {msg} \cup (IF pc \in {"boot_svc", "respond"} /\ msg \in Request
                         THEN {TornMessage} ELSE {})
  /\ UNCHANGED log
\* At power-on ROM clears retention RAM.
PowerLoss ==
  /\ pc # "off" /\ Fault
  /\ ResetChip /\ stale' \in Superseded
  /\ msg' = NoMessage /\ log' = EmptyLog
-----------------------------------------------------------------------------
\* What the owner firmware, and the host in a rescue session, may do.
Sendable == {r \in Request : /\ r.type \in RequestTypes
                             /\ r.type = "OwnershipUnlockReq" => r.nonce <= log.nonce}
Send ==
  /\ pc \in {"owner", "rescue"} /\ stored.counter < MaxCounter
  /\ msg' \in Sendable
  /\ UNCHANGED <<store, old, stale, log, ownerFlash, ownerPage, image, pc, running, faults>>

\* flash_owner_block(): nothing of the block is validated.
FlashOwnerBlock ==
  /\ pc = "rescue"
  /\ \E signature \in {"good", "bad"} : ownerFlash' = [ownerFlash EXCEPT ![1] = signature]
  /\ UNCHANGED <<store, old, stale, msg, log, ownerPage, image, pc, running, faults>>
\* flash_firmware_block(), from the erase of the slot to its last block.
FlashFirmware ==
  /\ pc = "rescue"
  /\ \E slot \in BootSlots, version \in Image : image' = [image EXCEPT ![slot] = version]
  /\ UNCHANGED <<store, old, stale, msg, log, ownerFlash, ownerPage, pc, running, faults>>
-----------------------------------------------------------------------------
Firmware == \/ RomExtStart \/ HandleBootSvc \/ Commit \/ WriteOk \/ ReadBack
            \/ Respond \/ Sync \/ TryNextStage \/ Shutdown
Faults == \/ RomExtStartFails \/ WriteFails \/ ReadBackFails
          \/ BootFails \/ UnexpectedReset \/ PowerLoss
Environment == \/ Send \/ FlashOwnerBlock \/ FlashFirmware
               \/ OwnerReset \/ RescueReboot
Next == Firmware \/ Faults \/ Environment

Spec == Init /\ [][Next]_vars
\* The CPU keeps running; owner and host need not do anything.
FairSpec == Spec /\ WF_vars(Firmware)
-----------------------------------------------------------------------------
TypeOK ==
  /\ stored \in Content
  /\ {request, copy, old, stale} \subseteq Content \cup {None}
  /\ result \in {"none", "read", "written", "error", "read_error"}
  /\ msg \in Request \cup Response \cup {NoMessage, TornMessage}
  /\ log.primary \in BootSlots \cup {None} /\ log.bl0_slot \in BootSlots \cup {None}
  /\ log.state \in OwnershipStates \cup {None}
  /\ log.min_sec_ver \in Versions /\ log.nonce \in Nat
  /\ ownerFlash \in [{0, 1} -> {"good", "bad"}]
  /\ ownerPage \in [{0, 1} -> OwnerPage]
  /\ image \in [BootSlots -> Image]
  /\ pc \in {"off", "boot_svc", "write", "readback", "respond", "sync", "boot",
             "rescue", "owner", "shutdown", "trap"}
  /\ running \in BootSlots \cup {None}
  /\ faults \in 0 .. MaxFaults

\* rom_ext.c:719 "Read the boot data back to ensure the correct policy is used
\* this boot": the image that runs is one the minimum security version in boot
\* data allows, also when the minimum rose, or failed to rise, this very boot.
CorrectPolicy ==
  pc = "owner" => image[running] >= stored.min_security_version_bl0

\* That holds unless the read-back fails: the error is dropped and the boot
\* goes on with what the failed search left in the RAM copy.  Otherwise the RAM
\* copy the check uses may run ahead of boot data, but never behind it.
NoRollback == result # "read_error" => CorrectPolicy

\* The minimum security version never drops, over all handlers, resets and
\* retries of a request that stayed in retention RAM.
MinSecVerNeverDrops ==
  [][stored'.min_security_version_bl0 >= stored.min_security_version_bl0]_vars

\* rom_ext.c:641 "This will cause a one-time boot of the requested side": the
\* primary slot in boot data only changes to the slot of the request for it
\* that is pending; a one-time slot or another service's write never sticks.
OneTimeSlotIsNotKept ==
  [][stored'.primary_bl0_slot # stored.primary_bl0_slot =>
       msg.type = "PrimaryBl0SlotReq" /\ msg.slot = stored'.primary_bl0_slot]_vars

\* A response that says Ok holds of boot data when it is there to read, at the
\* end of the boot that wrote it and in every later boot until it is replaced.
AnswersHold ==
  /\ msg.type = "PrimaryBl0SlotRes" => msg.slot = stored.primary_bl0_slot
  /\ msg.type = "MinBl0SecVerRes" => msg.ver = stored.min_security_version_bl0

\* The ownership state moves along the edges of ownership_unlock.c only, each
\* time in one record with a new nonce, so that no request works twice.
Edges == ({"LockedOwner"} \X {"UnlockedAny", "UnlockedEndorsed", "LockedUpdate"})
         \cup ({"LockedNone"} \X {"UnlockedAny", "UnlockedEndorsed"})
         \cup ({"UnlockedAny", "UnlockedEndorsed", "LockedUpdate"} \X {"LockedOwner"})
EachUnlockTakesANonce ==
  [][stored'.ownership_state # stored.ownership_state =>
       /\ <<stored.ownership_state, stored'.ownership_state>> \in Edges
       /\ stored'.nonce > stored.nonce]_vars

\* An unlock is only ever begun for a request signed by the owner of page 0 or
\* the holder of the recovery key: ownership_init() leaves no key of a page
\* whose signature is bad for ownership_key_validate() to use.
OnlyTrustedKeysUnlock ==
  [][msg.type = "OwnershipUnlockReq" /\ pc' = "write" => msg.key # "other"]_vars

\* ownership.c:56 "If the page is bad, destroy the RAM copy", said of page 1.
\* It does not hold of page 1: the second call validates page 0 again.
BadPagesAreDestroyed == \A p \in {0, 1} : ownerPage[p] # "bad"

\* rom_ext.c:850 "Regardless of whether a boot service request produced an
\* error, we want to continue booting": where an image verifies, also under
\* the minimum that is being asked for, every boot leads to it or to rescue.
Bootable == \E slot \in BootSlots :
  /\ image[slot] >= stored.min_security_version_bl0
  /\ msg.type = "MinBl0SecVerReq" => image[slot] >= msg.ver
BootsWithAnyRequest == (pc = "off" /\ Bootable) ~> (pc \in {"owner", "rescue"})
=============================================================================
