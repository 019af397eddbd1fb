---------------------------- MODULE RomExtProof ----------------------------
(***************************************************************************)
(* Safety of the ROM_EXT boot services for all versions, requests, counters *)
(* and numbers of faults.  The invariant says, at each point of a boot, how *)
(* the RAM copy and the record being written relate to boot data.           *)
(***************************************************************************)
EXTENDS RomExt, TLAPS

Records ==
  /\ stored \in Content
  /\ image \in [BootSlots -> Image]
  /\ pc \in {"off", "boot_svc", "write", "readback", "respond", "sync", "boot",
             "rescue", "owner", "shutdown", "trap"}

\* The record being written keeps every promise it would break by replacing
\* the stored one: it may do so at this step, at an error or at a reset.
Pending ==
  /\ request # None => pc = "write"
  /\ pc = "write" =>
       /\ request \in Content /\ copy \in Content /\ result = "read"
       /\ copy.min_security_version_bl0 = request.min_security_version_bl0
       /\ request.min_security_version_bl0 >= stored.min_security_version_bl0
       /\ request.primary_bl0_slot # stored.primary_bl0_slot =>
            msg.type = "PrimaryBl0SlotReq" /\ msg.slot = request.primary_bl0_slot
       /\ request.ownership_state # stored.ownership_state =>
            /\ <<stored.ownership_state, request.ownership_state>> \in Edges
            /\ request.nonce > stored.nonce
       /\ msg.type \notin {"PrimaryBl0SlotRes", "MinBl0SecVerRes"}

\* The RAM copy is boot data while a request is looked at and when it is
\* answered, and not behind it when an image is verified.
Copy ==
  /\ pc \in {"boot_svc", "respond"} => copy = stored /\ result = "read"
  /\ (pc \in {"sync", "boot"} /\ result # "read_error") =>
       /\ copy \in Content
       /\ copy.min_security_version_bl0 >= stored.min_security_version_bl0
  /\ pc = "readback" => stored.min_security_version_bl0 = copy.min_security_version_bl0

Inv == Records /\ Pending /\ Copy /\ NoRollback /\ AnswersHold

-----------------------------------------------------------------------------
\* Messages that are sent are requests, not answers.
LEMMA RequestsAreNoAnswers ==
  ASSUME NEW r \in Request
  PROVE  r.type \notin {"PrimaryBl0SlotRes", "MinBl0SecVerRes", "OwnershipUnlockRes"}
  BY DEF Request, SlotRequest, MinSecVerRequest, UnlockRequest

\* An unlock that is not refused follows an edge of ownership_unlock.c.
LEMMA UnlockFollowsEdge ==
  ASSUME UnlockError = "Ok"
  PROVE  <<copy.ownership_state, UnlockedState>> \in Edges
  <1>1. UnlockKeys # {}
    BY DEF UnlockError
  <1>2. CASE msg.mode \in {"Any", "Endorsed"}
    BY <1>1, <1>2 DEF UnlockKeys, UnlockedState, Edges
  <1>3. CASE msg.mode = "Update"
    BY <1>1, <1>3 DEF UnlockKeys, UnlockedState, Edges
  <1>4. CASE msg.mode = "Abort"
    BY <1>1, <1>4 DEF UnlockKeys, UnlockedState, Edges
  <1>5. CASE msg.mode \notin {"Any", "Endorsed", "Update", "Abort"}
    BY <1>1, <1>5 DEF UnlockKeys
  <1> QED BY <1>2, <1>3, <1>4, <1>5

\* What boot data may become in a step of a boot or a reset: what it was, or
\* the record being written.
StoredOrRequest ==
  stored' = stored \/ (pc = "write" /\ stored' = request)

LEMMA StepsOfStored ==
  ASSUME Inv, [Next]_vars
  PROVE  StoredOrRequest
  <1> SUFFICES ASSUME Next PROVE StoredOrRequest
    BY DEF vars, StoredOrRequest
  <1> USE DEF Inv, Pending, StoredOrRequest
  <1>1. CASE RomExtStart BY <1>1 DEF RomExtStart, Store!Read
  <1>2. CASE HandleBootSvc
    BY <1>2 DEF HandleBootSvc, NothingRequested, NextBl0Slot, PrimaryBl0Slot,
                MinBl0SecVer, OwnershipUnlock, BootDataWrite, Store!BeginWrite, store
  <1>3. CASE Commit BY <1>3 DEF Commit, Store!Commit
  <1>4. CASE WriteOk BY <1>4 DEF WriteOk, Store!ReturnOk
  <1>5. CASE ReadBack BY <1>5 DEF ReadBack, Store!Read
  <1>6. CASE Respond \/ Sync \/ TryNextStage
    BY <1>6 DEF Respond, Sync, TryNextStage, store
  <1>7. CASE Shutdown \/ OwnerReset \/ RescueReboot \/ UnexpectedReset \/ PowerLoss
    BY <1>7 DEF Shutdown, OwnerReset, RescueReboot, UnexpectedReset, PowerLoss,
                ResetChip, Store!Reset
  <1>8. CASE RomExtStartFails \/ ReadBackFails
    BY <1>8 DEF RomExtStartFails, ReadBackFails, Store!ReadFails
  <1>9. CASE WriteFails BY <1>9 DEF WriteFails, Store!ReturnError
  <1>10. CASE BootFails \/ Send \/ FlashOwnerBlock \/ FlashFirmware
    BY <1>10 DEF BootFails, Send, FlashOwnerBlock, FlashFirmware, store
  <1> QED
    BY <1>1, <1>2, <1>3, <1>4, <1>5, <1>6, <1>7, <1>8, <1>9, <1>10
       DEF Next, Firmware, Faults, Environment
-----------------------------------------------------------------------------
LEMMA InitInv == Init => Inv
  <1> SUFFICES ASSUME Init PROVE Inv
    OBVIOUS
  <1>1. Records
    BY ConstantsAssumption
       DEF Init, Records, Content, BootSlots, Versions, OwnershipStates, Image
  <1>2. Pending /\ Copy /\ NoRollback /\ AnswersHold
    BY DEF Init, Pending, Copy, NoRollback, CorrectPolicy, AnswersHold, NoMessage
  <1> QED BY <1>1, <1>2 DEF Inv

\* A reset, at any point, falls back to a state that promises less.
LEMMA ResetKeepsInv ==
  ASSUME Inv, ResetChip,
         msg' \in {msg, TornMessage, NoMessage}
  PROVE  Inv'
  <1> USE DEF Inv, ResetChip, Store!Reset
  <1>1. stored' = stored \/ (pc = "write" /\ stored' = request)
    BY DEF Pending
  <1>2. Records'
    BY <1>1 DEF Records, Pending
  <1>3. Pending' /\ Copy' /\ NoRollback'
    BY DEF Pending, Copy, NoRollback, CorrectPolicy
  <1>4. AnswersHold'
    BY <1>1 DEF AnswersHold, Pending, TornMessage, NoMessage
  <1> QED BY <1>2, <1>3, <1>4

\* boot_data_write() changes nothing but the counter.
LEMMA CountUp ==
  ASSUME NEW c \in Content, NEW n \in Nat, NEW r, r = [c EXCEPT !.counter = n]
  PROVE  /\ r \in Content
         /\ r.min_security_version_bl0 = c.min_security_version_bl0
         /\ r.primary_bl0_slot = c.primary_bl0_slot
         /\ r.ownership_state = c.ownership_state
         /\ r.nonce = c.nonce
  BY DEF Content

\* A handler that writes: what the record it asks for owes to boot data.
LEMMA HandlersKeepInv ==
  ASSUME Inv, HandleBootSvc
  PROVE  Inv'
  <1> USE DEF Inv, HandleBootSvc
  <1>1. /\ pc = "boot_svc" /\ stored \in Content /\ copy = stored /\ result = "read"
        /\ request = None
    BY DEF Records, Copy, Pending
  <1>2. /\ stored.min_security_version_bl0 \in Nat
        /\ stored.nonce \in Nat
    BY <1>1, ConstantsAssumption DEF Content, Versions
  <1>3. CASE NothingRequested
    BY <1>1, <1>2, <1>3 DEF NothingRequested, store, Records, Pending, Copy,
       NoRollback, CorrectPolicy, AnswersHold
  <1>4. CASE NextBl0Slot
    <2>1. copy' \in Content
          /\ copy'.min_security_version_bl0 = copy.min_security_version_bl0
      BY <1>1, <1>4 DEF NextBl0Slot, Content
    <2> QED
      BY <1>1, <1>2, <1>4, <2>1 DEF NextBl0Slot, Answer, Records, Pending, Copy,
         NoRollback, CorrectPolicy, AnswersHold
  <1>5. CASE PrimaryBl0Slot
    <2>1. CASE pc' = "write"
      <3>1. /\ copy' = [copy EXCEPT !.primary_bl0_slot = msg.slot] /\ copy' \in Content
            /\ request' = [copy' EXCEPT !.counter = stored.counter + 1]
            /\ msg.type = "PrimaryBl0SlotReq" /\ UNCHANGED <<stored, result, msg, image>>
        BY <1>5, <2>1 DEF PrimaryBl0Slot, BootDataWrite, Store!BeginWrite
      <3>2. /\ request' \in Content
            /\ request'.min_security_version_bl0 = copy'.min_security_version_bl0
            /\ copy'.min_security_version_bl0 = stored.min_security_version_bl0
            /\ request'.primary_bl0_slot = msg.slot
            /\ request'.ownership_state = stored.ownership_state
        <4>1. stored.counter + 1 \in Nat
          BY <1>1 DEF Content
        <4>2. /\ request' \in Content
              /\ request'.min_security_version_bl0 = copy'.min_security_version_bl0
              /\ request'.primary_bl0_slot = copy'.primary_bl0_slot
              /\ request'.ownership_state = copy'.ownership_state
              /\ request'.nonce = copy'.nonce
          <5>1. request' = [copy' EXCEPT !.counter = stored.counter + 1]
            BY <3>1
          <5>2. copy' \in Content
            BY <3>1
          <5> HIDE DEF Inv, HandleBootSvc
          <5> QED BY <4>1, <5>1, <5>2, CountUp
        <4> QED BY <1>1, <3>1, <4>2 DEF Content
      <3> QED
        BY <1>1, <1>2, <2>1, <3>1, <3>2 DEF Records, Pending, Copy,
           NoRollback, CorrectPolicy, AnswersHold
    <2>2. CASE pc' # "write"
      BY <1>1, <1>2, <1>5, <2>2 DEF PrimaryBl0Slot, BootDataWrite, store, Records,
         Pending, Copy, NoRollback, CorrectPolicy, AnswersHold
    <2> QED BY <2>1, <2>2
  <1>6. CASE MinBl0SecVer
    <2>1. CASE pc' = "write"
      <3>1. /\ copy' = [copy EXCEPT !.min_security_version_bl0 = msg.ver]
            /\ copy' \in Content
            /\ msg.ver > copy.min_security_version_bl0
            /\ request' = [copy' EXCEPT !.counter = stored.counter + 1]
            /\ msg.type = "MinBl0SecVerReq" /\ UNCHANGED <<stored, result, msg, image>>
        BY <1>6, <2>1 DEF MinBl0SecVer, BootDataWrite, Store!BeginWrite
      <3>2. /\ request' \in Content
            /\ request'.min_security_version_bl0 = copy'.min_security_version_bl0
            /\ copy'.min_security_version_bl0 = msg.ver
            /\ request'.primary_bl0_slot = stored.primary_bl0_slot
            /\ request'.ownership_state = stored.ownership_state
        <4>1. stored.counter + 1 \in Nat
          BY <1>1 DEF Content
        <4>2. /\ request' \in Content
              /\ request'.min_security_version_bl0 = copy'.min_security_version_bl0
              /\ request'.primary_bl0_slot = copy'.primary_bl0_slot
              /\ request'.ownership_state = copy'.ownership_state
              /\ request'.nonce = copy'.nonce
          <5>1. request' = [copy' EXCEPT !.counter = stored.counter + 1]
            BY <3>1
          <5>2. copy' \in Content
            BY <3>1
          <5> HIDE DEF Inv, HandleBootSvc
          <5> QED BY <4>1, <5>1, <5>2, CountUp
        <4> QED BY <1>1, <3>1, <4>2 DEF Content
      <3>3. msg.ver \in Nat
        BY <3>1, <3>2, ConstantsAssumption DEF Content, Versions
      <3> QED
        BY <1>1, <1>2, <2>1, <3>1, <3>2, <3>3 DEF Records, Pending, Copy,
           NoRollback, CorrectPolicy, AnswersHold
    <2>2. CASE pc' # "write"
      BY <1>1, <1>2, <1>6, <2>2 DEF MinBl0SecVer, BootDataWrite, store, Records,
         Pending, Copy, NoRollback, CorrectPolicy, AnswersHold
    <2> QED BY <2>1, <2>2
  <1>7. CASE OwnershipUnlock
    <2>1. CASE pc' = "write"
      <3>1. /\ UnlockError = "Ok"
            /\ copy' = [copy EXCEPT !.ownership_state = UnlockedState,
                                    !.nonce = @ + 1]
            /\ copy' \in Content
            /\ request' = [copy' EXCEPT !.counter = stored.counter + 1]
            /\ msg' = [type |-> "OwnershipUnlockRes", status |-> UnlockError]
            /\ UNCHANGED <<stored, result, image>>
        BY <1>7, <2>1 DEF OwnershipUnlock, Answer, BootDataWrite, Store!BeginWrite
      <3>2. /\ request' \in Content
            /\ request'.min_security_version_bl0 = copy'.min_security_version_bl0
            /\ copy'.min_security_version_bl0 = stored.min_security_version_bl0
            /\ request'.primary_bl0_slot = stored.primary_bl0_slot
            /\ request'.ownership_state = UnlockedState
            /\ request'.nonce = stored.nonce + 1
        <4>1. stored.counter + 1 \in Nat
          BY <1>1 DEF Content
        <4>2. /\ request' \in Content
              /\ request'.min_security_version_bl0 = copy'.min_security_version_bl0
              /\ request'.primary_bl0_slot = copy'.primary_bl0_slot
              /\ request'.ownership_state = copy'.ownership_state
              /\ request'.nonce = copy'.nonce
          <5>1. request' = [copy' EXCEPT !.counter = stored.counter + 1]
            BY <3>1
          <5>2. copy' \in Content
            BY <3>1
          <5> HIDE DEF Inv, HandleBootSvc
          <5> QED BY <4>1, <5>1, <5>2, CountUp
        <4> QED BY <1>1, <3>1, <4>2 DEF Content
      <3>3. <<stored.ownership_state, UnlockedState>> \in Edges
        BY <1>1, <3>1, UnlockFollowsEdge
      <3> QED
        BY <1>1, <1>2, <2>1, <3>1, <3>2, <3>3 DEF Records, Pending, Copy,
           NoRollback, CorrectPolicy, AnswersHold
    <2>2. CASE pc' # "write"
      BY <1>1, <1>2, <1>7, <2>2 DEF OwnershipUnlock, Answer, BootDataWrite, store,
         Records, Pending, Copy, NoRollback, CorrectPolicy, AnswersHold
    <2> QED BY <2>1, <2>2
  <1> QED BY <1>3, <1>4, <1>5, <1>6, <1>7
-----------------------------------------------------------------------------
\* Every step keeps the invariant.
LEMMA StepInv == Inv /\ [Next]_vars => Inv'
  <1> SUFFICES ASSUME Inv, [Next]_vars PROVE Inv'
    OBVIOUS
  <1>0. /\ stored.min_security_version_bl0 \in Int
        /\ \A slot \in BootSlots : image[slot] \in Int
    BY ConstantsAssumption DEF Inv, Records, Content, Versions, Image
  <1>1. CASE UNCHANGED vars
    BY <1>1 DEF vars, Inv, Records, Pending, Copy, NoRollback, CorrectPolicy, AnswersHold
  <1>2. CASE RomExtStart
    BY <1>0, <1>2 DEF RomExtStart, Store!Read, Inv, Records, Pending, Copy,
       NoRollback, CorrectPolicy, AnswersHold
  <1>3. CASE HandleBootSvc
    BY <1>3, HandlersKeepInv
  <1>4. CASE Commit
    <2>1. /\ request \in Content /\ stored' = request
          /\ request.min_security_version_bl0 \in Int
      BY <1>4, ConstantsAssumption
         DEF Commit, Store!Commit, Inv, Pending, Content, Versions
    <2> QED
      BY <1>4, <2>1 DEF Commit, Store!Commit, Inv, Records, Pending, Copy,
         NoRollback, CorrectPolicy, AnswersHold
  <1>5. CASE WriteOk
    BY <1>0, <1>5 DEF WriteOk, Store!ReturnOk, Inv, Records, Pending, Copy,
       NoRollback, CorrectPolicy, AnswersHold
  <1>6. CASE WriteFails
    <2>1. /\ request \in Content /\ stored' \in {stored, request}
          /\ request.min_security_version_bl0 \in Int
      BY <1>6, ConstantsAssumption
         DEF WriteFails, Store!ReturnError, Inv, Pending, Content, Versions
    <2> QED
      BY <1>0, <1>6, <2>1 DEF WriteFails, Store!ReturnError, Inv, Records, Pending,
         Copy, NoRollback, CorrectPolicy, AnswersHold
  <1>7. CASE ReadBack
    BY <1>0, <1>7 DEF ReadBack, Store!Read, Inv, Records, Pending, Copy,
       NoRollback, CorrectPolicy, AnswersHold
  <1>8. CASE ReadBackFails \/ RomExtStartFails
    BY <1>8 DEF ReadBackFails, RomExtStartFails, Store!ReadFails, Inv, Records,
       Pending, Copy, NoRollback, CorrectPolicy, AnswersHold
  <1>9. CASE Respond
    BY <1>0, <1>9 DEF Respond, Answer, store, Inv, Records, Pending, Copy,
       NoRollback, CorrectPolicy, AnswersHold
  <1>10. CASE Sync
    BY <1>10 DEF Sync, store, Inv, Records, Pending, Copy, NoRollback,
       CorrectPolicy, AnswersHold
  <1>11. CASE TryNextStage \/ BootFails
    <2>1. copy \in Content => copy.min_security_version_bl0 \in Int
      BY ConstantsAssumption DEF Content, Versions
    <2> QED
      BY <1>0, <1>11, <2>1 DEF TryNextStage, BootFails, FirstVerified, Verified,
         store, Inv, Records, Pending, Copy, NoRollback, CorrectPolicy, AnswersHold
  <1>12. CASE Shutdown \/ OwnerReset \/ RescueReboot \/ UnexpectedReset \/ PowerLoss
    BY <1>12, ResetKeepsInv
       DEF Shutdown, OwnerReset, RescueReboot, UnexpectedReset, PowerLoss
  <1>13. CASE Send
    <2>1. msg'.type \notin {"PrimaryBl0SlotRes", "MinBl0SecVerRes"}
      BY <1>13, RequestsAreNoAnswers DEF Send, Sendable
    <2> QED
      BY <1>13, <2>1 DEF Send, store, Inv, Records, Pending, Copy, NoRollback,
         CorrectPolicy, AnswersHold
  <1>14. CASE FlashOwnerBlock
    BY <1>14 DEF FlashOwnerBlock, store, Inv, Records, Pending, Copy, NoRollback,
       CorrectPolicy, AnswersHold
  <1>15. CASE FlashFirmware
    BY <1>15 DEF FlashFirmware, store, Inv, Records, Pending, Copy, NoRollback,
       CorrectPolicy, AnswersHold
  <1> QED
    BY <1>1, <1>2, <1>3, <1>4, <1>5, <1>6, <1>7, <1>8, <1>9, <1>10, <1>11, <1>12,
       <1>13, <1>14, <1>15 DEF Next, Firmware, Faults, Environment

\* The invariant holds of every boot.
THEOREM InvAlways == Spec => []Inv
  BY InitInv, StepInv, PTL DEF Spec

\* rom_ext_boot_policy_manifest_check(): whatever was requested, cut, retried
\* or flashed before, no image older than the stored minimum runs, unless the
\* read-back of this boot failed.
THEOREM PolicyHolds == Spec => []NoRollback
  <1>1. Inv => NoRollback
    BY DEF Inv
  <1> QED BY <1>1, InvAlways, PTL

\* The responses for the primary slot and the minimum version are true of boot
\* data for as long as they stay in retention RAM.
THEOREM AnswersAreTrue == Spec => []AnswersHold
  <1>1. Inv => AnswersHold
    BY DEF Inv
  <1> QED BY <1>1, InvAlways, PTL

\* No step of boot_svc_min_sec_ver_handler(), of another handler or of a reset
\* lowers the minimum security version.
THEOREM VersionsOnlyRise == Spec => MinSecVerNeverDrops
  <1>1. Inv /\ [Next]_vars =>
          [stored'.min_security_version_bl0 >= stored.min_security_version_bl0]_vars
    <2> SUFFICES ASSUME Inv, [Next]_vars
                 PROVE  stored'.min_security_version_bl0 >= stored.min_security_version_bl0
      OBVIOUS
    <2>1. stored.min_security_version_bl0 \in Int
      BY ConstantsAssumption DEF Inv, Records, Content, Versions
    <2> QED BY <2>1, StepsOfStored DEF StoredOrRequest, Inv, Pending
  <1> QED BY <1>1, InvAlways, PTL DEF Spec, MinSecVerNeverDrops

\* The slot of boot_svc_next_boot_bl0_slot_handler() is never written: the
\* primary slot changes to the one that a pending request names.
THEOREM OneTimeSlots == Spec => OneTimeSlotIsNotKept
  <1>1. Inv /\ [Next]_vars =>
          [stored'.primary_bl0_slot # stored.primary_bl0_slot =>
             msg.type = "PrimaryBl0SlotReq" /\ msg.slot = stored'.primary_bl0_slot]_vars
    BY StepsOfStored DEF StoredOrRequest, Inv, Pending
  <1> QED BY <1>1, InvAlways, PTL DEF Spec, OneTimeSlotIsNotKept

\* The record that changes the ownership state retires the nonce with it.
THEOREM UnlocksTakeNonces == Spec => EachUnlockTakesANonce
  <1>1. Inv /\ [Next]_vars =>
          [stored'.ownership_state # stored.ownership_state =>
             /\ <<stored.ownership_state, stored'.ownership_state>> \in Edges
             /\ stored'.nonce > stored.nonce]_vars
    BY StepsOfStored DEF StoredOrRequest, Inv, Pending
  <1> QED BY <1>1, InvAlways, PTL DEF Spec, EachUnlockTakesANonce
-----------------------------------------------------------------------------
\* The types of all variables, and the keys that an unlock is begun with.
BootLog == [min_sec_ver : Versions, primary : BootSlots \cup {None},
            state : OwnershipStates \cup {None}, nonce : Nat,
            bl0_slot : BootSlots \cup {None}]

\* The RAM copy is a record whenever rom_ext.c looks into it.
StoreTypes ==
  /\ stored \in Content
  /\ {request, copy, old, stale} \subseteq Content \cup {None}
  /\ result \in {"none", "read", "written", "error", "read_error"}
  /\ pc \in {"boot_svc", "write", "readback", "respond", "sync", "boot"} => copy \in Content
MessageTypes == msg \in Request \cup Response \cup {NoMessage, TornMessage}
OtherTypes ==
  /\ log \in BootLog
  /\ ownerFlash \in [{0, 1} -> {"good", "bad"}] /\ ownerPage \in [{0, 1} -> OwnerPage]
  /\ image \in [BootSlots -> Image]
  /\ pc \in {"off", "boot_svc", "write", "readback", "respond", "sync", "boot",
             "rescue", "owner", "shutdown", "trap"}
  /\ running \in BootSlots \cup {None} /\ faults \in 0 .. MaxFaults
Types == StoreTypes /\ MessageTypes /\ OtherTypes

\* ownership_init() leaves no key of a bad page 0, and an unlock request has
\* been answered before its record is written.
Trusted ==
  /\ ownerPage[0] # "bad"
  /\ pc = "write" => msg.type # "OwnershipUnlockReq"
-----------------------------------------------------------------------------
\* Errors of an unlock are among the answers.
LEMMA ErrorsAreStatus == UnlockError \in Status
  BY DEF UnlockError, Status

LEMMA AnswersAreResponses ==
  /\ \A s \in Status, t \in {"NextBl0SlotRes", "OwnershipUnlockRes"} :
       [type |-> t, status |-> s] \in Response
  /\ \A s \in BootSlots :
       [type |-> "PrimaryBl0SlotRes", status |-> "Ok", slot |-> s] \in Response
  /\ \A v \in Versions :
       [type |-> "MinBl0SecVerRes", status |-> "Ok", ver |-> v] \in Response
  BY DEF Response

\* What a handler may make of a record is a record.
LEMMA RecordsStay ==
  ASSUME NEW c \in Content
  PROVE  /\ \A s \in BootSlots : [c EXCEPT !.primary_bl0_slot = s] \in Content
         /\ \A n \in Nat : [c EXCEPT !.counter = n + 1] \in Content
  <1>1. \A s \in BootSlots : [c EXCEPT !.primary_bl0_slot = s] \in Content
    BY DEF Content
  <1>2. \A n \in Nat : [c EXCEPT !.counter = n + 1] \in Content
    BY DEF Content
  <1> QED BY <1>1, <1>2

LEMMA InitTypes == Init => Types /\ Trusted
  <1> SUFFICES ASSUME Init PROVE Types /\ Trusted
    OBVIOUS
  <1>1. StoreTypes
    BY ConstantsAssumption DEF Init, Content, BootSlots, OwnershipStates, StoreTypes
  <1>2. log \in BootLog
    BY ConstantsAssumption DEF Init, EmptyLog, BootLog, Versions
  <1>3. image \in [BootSlots -> Image] /\ faults \in 0 .. MaxFaults
    BY ConstantsAssumption DEF Init, Image, BootSlots
  <1> QED
    BY <1>1, <1>2, <1>3
       DEF Init, Types, MessageTypes, OtherTypes, Trusted, NoMessage, OwnerPage
-----------------------------------------------------------------------------
\* A handler writes records and answers with responses.
LEMMA HandlersKeepTypes ==
  ASSUME Types, HandleBootSvc
  PROVE  Types'
  <1>1. pc = "boot_svc" /\ copy \in Content /\ stored \in Content
    BY DEF HandleBootSvc, Types, StoreTypes
  <1>2. BootDataWrite => StoreTypes' /\ pc' = "write"
    <2> SUFFICES ASSUME BootDataWrite PROVE StoreTypes' /\ pc' = "write"
      OBVIOUS
    <2>1. /\ copy' \in Content /\ request' = [copy' EXCEPT !.counter = stored.counter + 1]
          /\ UNCHANGED <<stored, result, stale>> /\ old' = stored /\ pc' = "write"
      BY DEF BootDataWrite, Store!BeginWrite
    <2>2. stored.counter \in Nat
      BY <1>1 DEF Content
    <2>3. request' \in Content
      BY <2>1, <2>2, RecordsStay
    <2> QED
      BY <2>1, <2>3 DEF Types, StoreTypes
  <1>3. copy' = copy /\ UNCHANGED <<stored, request, result, old, stale>> => StoreTypes'
    BY <1>1 DEF Types, StoreTypes
  <1>4. CASE NothingRequested
    BY <1>3, <1>4 DEF NothingRequested, store, Types, MessageTypes, OtherTypes, HandleBootSvc
  <1>5. CASE NextBl0Slot
    <2>1. copy' \in Content
      BY <1>1, <1>5, RecordsStay DEF NextBl0Slot
    <2>2. StoreTypes'
      BY <1>5, <2>1 DEF NextBl0Slot, Types, StoreTypes
    <2>3. msg' \in Response
      BY <1>5, AnswersAreResponses DEF NextBl0Slot, Answer, Status
    <2> QED
      BY <1>5, <2>2, <2>3
         DEF NextBl0Slot, Types, MessageTypes, OtherTypes, HandleBootSvc
  <1>6. CASE PrimaryBl0Slot
    <2>1. StoreTypes' /\ pc' \in {"write", "respond", "trap"}
      BY <1>2, <1>3, <1>6 DEF PrimaryBl0Slot, store
    <2> QED
      BY <1>6, <2>1 DEF PrimaryBl0Slot, Types, MessageTypes, OtherTypes, HandleBootSvc
  <1>7. CASE MinBl0SecVer
    <2>1. StoreTypes' /\ pc' \in {"write", "respond", "trap"}
      BY <1>2, <1>3, <1>7 DEF MinBl0SecVer, store
    <2> QED
      BY <1>7, <2>1 DEF MinBl0SecVer, Types, MessageTypes, OtherTypes, HandleBootSvc
  <1>8. CASE OwnershipUnlock
    <2>1. StoreTypes' /\ pc' \in {"write", "sync"}
      BY <1>2, <1>3, <1>8 DEF OwnershipUnlock, store
    <2>2. msg' \in Response
      BY <1>8, ErrorsAreStatus, AnswersAreResponses DEF OwnershipUnlock, Answer
    <2> QED
      BY <1>8, <2>1, <2>2 DEF OwnershipUnlock, Types, MessageTypes, OtherTypes, HandleBootSvc
  <1> QED
    BY <1>4, <1>5, <1>6, <1>7, <1>8 DEF HandleBootSvc

\* The log is filled in field by field.
LEMMA LogsStay ==
  ASSUME Types
  PROVE  /\ copy \in Content =>
              [log EXCEPT !.nonce = copy.nonce, !.state = copy.ownership_state] \in BootLog
         /\ \A s \in BootSlots : [log EXCEPT !.bl0_slot = s] \in BootLog
         /\ copy' \in Content => LogAtStart \in BootLog
         /\ EmptyLog \in BootLog
  <1>1. EmptyLog \in BootLog
    BY ConstantsAssumption DEF EmptyLog, BootLog, Versions
  <1>2. \A s \in BootSlots : [log EXCEPT !.bl0_slot = s] \in BootLog
    BY DEF Types, OtherTypes, BootLog
  <1>3. ASSUME copy \in Content
        PROVE [log EXCEPT !.nonce = copy.nonce, !.state = copy.ownership_state] \in BootLog
    BY <1>3 DEF Types, OtherTypes, BootLog, Content
  <1>4. ASSUME copy' \in Content PROVE LogAtStart \in BootLog
    BY <1>4, <1>1 DEF LogAtStart, BootLog, Content
  <1> QED BY <1>1, <1>2, <1>3, <1>4

\* A reset empties the RAM and may take the write in progress with it.
LEMMA ResetKeepsTypes ==
  ASSUME Types, ResetChip, stale' \in {stale} \cup {old},
         msg' \in {msg, TornMessage, NoMessage}, log' \in BootLog, faults' \in 0 .. MaxFaults
  PROVE  Types'
  <1>1. StoreTypes'
    BY DEF ResetChip, Store!Reset, Types, StoreTypes
  <1>2. MessageTypes'
    BY DEF Types, MessageTypes, TornMessage, NoMessage
  <1>3. OtherTypes'
    BY DEF ResetChip, Types, OtherTypes, OwnerPage
  <1> QED BY <1>1, <1>2, <1>3 DEF Types

LEMMA FaultsStay ==
  ASSUME Types, Fault
  PROVE  faults' \in 0 .. MaxFaults
  BY ConstantsAssumption DEF Types, OtherTypes, Fault
-----------------------------------------------------------------------------
LEMMA StepTypes == Types /\ [Next]_vars => Types'
  <1> SUFFICES ASSUME Types, [Next]_vars PROVE Types'
    OBVIOUS
  <1>1. CASE UNCHANGED vars
    BY <1>1 DEF vars, Types, StoreTypes, MessageTypes, OtherTypes, BootLog
  <1>2. CASE RomExtStart
    <2>1. copy' \in Content
      BY <1>2 DEF RomExtStart, Store!Read, Types, StoreTypes
    <2>2. log' \in BootLog
      BY <1>2, <2>1, LogsStay DEF RomExtStart
    <2>3. ownerPage' \in [{0, 1} -> OwnerPage]
      BY <1>2 DEF RomExtStart, OwnershipInit, Types, OtherTypes, OwnerPage
    <2> QED
      BY <1>2, <2>1, <2>2, <2>3
         DEF RomExtStart, Store!Read, Types, StoreTypes, MessageTypes, OtherTypes
  <1>3. CASE HandleBootSvc
    BY <1>3, HandlersKeepTypes
  <1>4. CASE Commit
    BY <1>4 DEF Commit, Store!Commit, Types, StoreTypes, MessageTypes, OtherTypes
  <1>5. CASE WriteOk
    <2>1. pc' \in {"readback", "shutdown"}
      BY <1>5 DEF WriteOk
    <2> QED
      BY <1>5, <2>1
         DEF WriteOk, Store!ReturnOk, Types, StoreTypes, MessageTypes, OtherTypes
  <1>6. CASE WriteFails
    <2>1. pc' \in {"sync", "shutdown"} /\ stale' \in {stale, old} /\ faults' \in 0 .. MaxFaults
      BY <1>6, FaultsStay DEF WriteFails, Superseded
    <2> QED
      BY <1>6, <2>1
         DEF WriteFails, Store!ReturnError, Types, StoreTypes, MessageTypes, OtherTypes
  <1>7. CASE ReadBack
    BY <1>7 DEF ReadBack, Store!Read, Types, StoreTypes, MessageTypes, OtherTypes
  <1>8. CASE ReadBackFails
    <2>1. faults' \in 0 .. MaxFaults /\ copy' \in Content
      BY <1>8, FaultsStay DEF ReadBackFails, Types, StoreTypes
    <2> QED
      BY <1>8, <2>1
         DEF ReadBackFails, Store!ReadFails, Types, StoreTypes, MessageTypes, OtherTypes
  <1>9. CASE RomExtStartFails
    <2>1. faults' \in 0 .. MaxFaults
      BY <1>9, FaultsStay DEF RomExtStartFails
    <2> QED
      BY <1>9, <2>1
         DEF RomExtStartFails, Store!ReadFails, Types, StoreTypes, MessageTypes, OtherTypes
  <1>10. CASE Respond
    <2>1. copy \in Content /\ pc' = "sync"
      BY <1>10 DEF Respond, Types, StoreTypes
    <2>2. msg' \in Response
      BY <1>10, <2>1, AnswersAreResponses DEF Respond, Answer, Content
    <2> QED
      BY <1>10, <2>1, <2>2 DEF Respond, store, Types, StoreTypes, MessageTypes, OtherTypes
  <1>11. CASE Sync
    <2>1. copy \in Content
      BY <1>11 DEF Sync, Types, StoreTypes
    <2>2. log' \in BootLog
      BY <1>11, <2>1, LogsStay DEF Sync
    <2> QED
      BY <1>11, <2>1, <2>2 DEF Sync, store, Types, StoreTypes, MessageTypes, OtherTypes
  <1>12. CASE TryNextStage
    <2>1. log' \in BootLog /\ running' \in BootSlots \cup {None} /\ pc' \in {"owner", "shutdown"}
      BY <1>12, LogsStay DEF TryNextStage, Types, OtherTypes
    <2> QED
      BY <1>12, <2>1 DEF TryNextStage, store, Types, StoreTypes, MessageTypes, OtherTypes
  <1>13. CASE BootFails
    <2>1. log' \in BootLog /\ pc' = "shutdown" /\ faults' \in 0 .. MaxFaults
      BY <1>13, LogsStay, FaultsStay DEF BootFails
    <2> QED
      BY <1>13, <2>1 DEF BootFails, store, Types, StoreTypes, MessageTypes, OtherTypes
  <1>14. CASE Shutdown \/ OwnerReset \/ RescueReboot
    BY <1>14, ResetKeepsTypes DEF Shutdown, OwnerReset, RescueReboot, Types, OtherTypes
  <1>15. CASE UnexpectedReset
    <2>1. msg' \in {msg, TornMessage} /\ stale' \in {stale} \cup {old} /\ log' \in BootLog
      BY <1>15 DEF UnexpectedReset, Superseded, Types, OtherTypes
    <2> QED
      BY <1>15, <2>1, ResetKeepsTypes, FaultsStay DEF UnexpectedReset
  <1>16. CASE PowerLoss
    <2>1. stale' \in {stale} \cup {old}
      BY <1>16 DEF PowerLoss, Superseded
    <2> QED
      BY <1>16, <2>1, ResetKeepsTypes, FaultsStay, LogsStay DEF PowerLoss
  <1>17. CASE Send
    <2>1. msg' \in Request
      BY <1>17 DEF Send, Sendable
    <2> QED
      BY <1>17, <2>1 DEF Send, store, Types, StoreTypes, MessageTypes, OtherTypes
  <1>18. CASE FlashOwnerBlock
    BY <1>18 DEF FlashOwnerBlock, store, Types, StoreTypes, MessageTypes, OtherTypes
  <1>19. CASE FlashFirmware
    BY <1>19 DEF FlashFirmware, store, Types, StoreTypes, MessageTypes, OtherTypes
  <1> QED
    BY <1>1, <1>2, <1>3, <1>4, <1>5, <1>6, <1>7, <1>8, <1>9, <1>10, <1>11, <1>12, <1>13,
       <1>14, <1>15, <1>16, <1>17, <1>18, <1>19 DEF Next, Firmware, Faults, Environment

\* Every variable of the ROM_EXT keeps its type, over every request, fault and
\* reset: the handlers of lib/boot_svc and lib/ownership write records only.
THEOREM TypeCorrect == Spec => []TypeOK
  <1>1. Types => TypeOK
    BY DEF Types, StoreTypes, MessageTypes, OtherTypes, TypeOK, BootLog
  <1> QED
    BY <1>1, InitTypes, StepTypes, PTL DEF Spec
-----------------------------------------------------------------------------
\* An unlock that is not refused is signed with a key of ownership_key_validate().
LEMMA UnlockIsSigned ==
  ASSUME UnlockError = "Ok", ownerPage[0] # "bad"
  PROVE  msg.key # "other"
  <1>1. KeyValid(UnlockKeys)
    <2>1. msg.mode # "bad"
      BY DEF UnlockError
    <2>2. UnlockKeys # {}
      BY <2>1 DEF UnlockError
    <2> QED BY <2>1, <2>2 DEF UnlockError
  <1> QED BY <1>1 DEF KeyValid

\* The next-state relation keeps the keys trusted, and begins no other unlock.
LEMMA StepTrusted ==
  ASSUME Types, Trusted, [Next]_vars
  PROVE  /\ Trusted'
         /\ msg.type = "OwnershipUnlockReq" /\ pc' = "write" => msg.key # "other"
  <1>1. CASE UNCHANGED vars
    BY <1>1 DEF vars, Trusted
  <1>2. CASE RomExtStart
    <2>1. ownerPage'[0] = IF ownerFlash[0] = "good" THEN ownerFlash[0] ELSE "destroyed"
      BY <1>2 DEF RomExtStart, OwnershipInit
    <2> QED BY <1>2, <2>1 DEF RomExtStart, Trusted
  <1>3. CASE HandleBootSvc
    <2>1. ownerPage' = ownerPage /\ pc = "boot_svc"
      BY <1>3 DEF HandleBootSvc
    <2>2. CASE OwnershipUnlock
      <3>1. msg'.type = "OwnershipUnlockRes"
        BY <2>2 DEF OwnershipUnlock, Answer
      <3>2. pc' = "write" => UnlockError = "Ok"
        BY <2>2 DEF OwnershipUnlock
      <3> QED BY <2>1, <3>1, <3>2, UnlockIsSigned DEF Trusted
    <2>3. CASE PrimaryBl0Slot \/ MinBl0SecVer
      <3>1. msg' = msg /\ msg.type # "OwnershipUnlockReq"
        BY <2>3 DEF PrimaryBl0Slot, MinBl0SecVer
      <3> QED BY <2>1, <3>1 DEF Trusted
    <2>4. CASE NothingRequested \/ NextBl0Slot
      <3>1. pc' = "sync"
        BY <2>4 DEF NothingRequested, NextBl0Slot
      <3> QED BY <2>1, <3>1 DEF Trusted
    <2> QED BY <1>3, <2>2, <2>3, <2>4 DEF HandleBootSvc
  <1>4. CASE Commit
    BY <1>4 DEF Commit, Trusted
  <1>5. CASE WriteOk \/ WriteFails \/ ReadBack \/ ReadBackFails \/ RomExtStartFails
    <2>1. ownerPage' = ownerPage /\ pc' # "write"
      BY <1>5 DEF WriteOk, WriteFails, ReadBack, ReadBackFails, RomExtStartFails
    <2> QED BY <2>1 DEF Trusted
  <1>6. CASE Respond \/ Sync \/ TryNextStage \/ BootFails
    <2>1. ownerPage' = ownerPage /\ pc' # "write"
      BY <1>6 DEF Respond, Sync, TryNextStage, BootFails
    <2> QED BY <2>1 DEF Trusted
  <1>7. CASE Shutdown \/ OwnerReset \/ RescueReboot \/ UnexpectedReset \/ PowerLoss
    <2>1. ownerPage'[0] = "destroyed" /\ pc' = "off"
      BY <1>7 DEF Shutdown, OwnerReset, RescueReboot, UnexpectedReset, PowerLoss, ResetChip
    <2> QED BY <2>1 DEF Trusted
  <1>8. CASE Send \/ FlashOwnerBlock \/ FlashFirmware
    <2>1. ownerPage' = ownerPage /\ pc' = pc /\ pc \in {"owner", "rescue"}
      BY <1>8 DEF Send, FlashOwnerBlock, FlashFirmware
    <2> QED BY <2>1 DEF Trusted
  <1> QED
    BY <1>1, <1>2, <1>3, <1>4, <1>5, <1>6, <1>7, <1>8 DEF Next, Firmware, Faults, Environment

\* ownership_unlock_handler() writes a new state only for a request that the
\* owner of page 0 or the recovery key has signed, over every content of the two
\* owner pages and every reset.
THEOREM UnlocksAreSigned == Spec => OnlyTrustedKeysUnlock
  <1>1. Types /\ Trusted /\ [Next]_vars => Types' /\ Trusted'
    BY StepTypes, StepTrusted
  <1>2. Types /\ Trusted /\ [Next]_vars =>
          [msg.type = "OwnershipUnlockReq" /\ pc' = "write" => msg.key # "other"]_vars
    BY StepTrusted
  <1> QED
    BY <1>1, <1>2, InitTypes, PTL DEF Spec, OnlyTrustedKeysUnlock
=============================================================================
