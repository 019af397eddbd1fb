------------------------------ MODULE Personalize ------------------------------
(***************************************************************************)
(* Provisioning of a chip in the factory: the SRAM program that fills the     *)
(* configuration partitions of the OTP, the personalization firmware that      *)
(* draws the secrets of the chip and has its keys endorsed (manuf/base,        *)
(* manuf/lib), and the host that drives both over the console and the reset    *)
(* pin (sw/host/provisioning).  The OTP is written once: what a reset, a lost  *)
(* line or an error leaves behind is where the next run begins.               *)
(***************************************************************************)
EXTENDS Integers, Sequences

CONSTANTS
  None,
  Blank, Partial, Torn, \* of OTP: not, partly, badly programmed.  Of flash pages:
                        \* erased (Blank), or left by a cut or weak operation (Torn)
  MaxRuns,              \* bound on the runs of the host's program
  MaxFaults             \* bound on faults

\* The words of the OTP that are written together.  FlashCfg is the word of
\* CREATOR_SW_CFG that switches on the scrambling of the data flash.
Given == {"HwCfg0", "HwCfg1", "CreatorSwCfg", "FlashCfg", "OwnerSwCfg"}
Secrets == {"Secret1", "Secret2"}
SwPartitions == {"CreatorSwCfg", "OwnerSwCfg"}
Partitions == {"HwCfg0", "HwCfg1", "Secret1", "Secret2"} \cup SwPartitions
PartitionOf(words) == IF words = "FlashCfg" THEN "CreatorSwCfg" ELSE words
SeedPages == {"CreatorSeed", "OwnerSeed", "AttestationSeeds"}
CertPages == {"DiceCerts", "TpmCerts"}

ASSUME BoundsAssumption == MaxRuns \in Nat \ {0} /\ MaxFaults \in Nat
ASSUME MarksAssumption ==
  Blank # Partial /\ Partial # Torn /\ Torn # Blank /\ {Blank, Partial, Torn} \cap Nat = {}

VARIABLES
  mission,   \* the life cycle state: TEST_UNLOCKED1, or the mission mode
  otp,       \* words |-> Blank, Partial, Torn, 0 (as given), or the number of the
             \* drawing of entropy that a secret comes from
  digest,    \* partitions whose digest is in the OTP
  seeds,     \* page |-> Blank, Torn, or a drawing and the key it is scrambled with
  certs,     \* page |-> Blank, Torn, or the keys that its certificates endorse
  image,     \* personalization firmware in the data flash: "none", "plain", "scrambled"
  locked,    \* partitions whose digest register is set, since the last reset
  pc,        \* where the device is
  ram,       \* the drawing that it has in RAM
  imported,  \* and the keys in the certificates that it has there
  rx, tx,    \* console, to the device and to the host
  hpc,       \* where the host is
  token,     \* the RMA unlock token that the host has: its drawing
  endorsed,  \* the keys that the host has had endorsed
  drawn, runs, faults

chip == <<mission, otp, digest, seeds, certs, image>>
device == <<locked, pc, ram, imported, drawn>>
host == <<hpc, token, endorsed, runs>>
vars == <<chip, device, rx, tx, host, faults>>
-----------------------------------------------------------------------------
\* What the chip derives its attestation keys from.
Keys == [seeds |-> seeds, root |-> otp["Secret2"]]
\* The flash scrambling keys, fetched from SECRET1.
ScramblingKey == IF "Secret1" \in locked THEN otp["Secret1"] ELSE None
\* How the ROM sets up the data flash: an image in the other form does not verify.
Encoding == IF otp["FlashCfg"] = 0 THEN "scrambled" ELSE "plain"

Message(type, body) == [type |-> type, body |-> body]
Log(type, body) == tx' = Append(tx, Message(type, body))

\* What any reset does to the device.
Restart(next) ==
  /\ locked' = digest /\ pc' = next /\ UNCHANGED drawn
  /\ ram' = None /\ imported' = None /\ rx' = <<>>
Boots == IF image = Encoding THEN "Start" ELSE "Halted"

\* Waiting for a message of the host.  One that does not deserialize ends the
\* program: CHECK_STATUS_OK() in test_main().
Receiving == [ReceiveData |-> "data", ReceiveKey |-> "key",
              ReceiveInputs |-> "inputs", ReceiveCerts |-> "certs"]
Receive(next) ==
  /\ pc \in DOMAIN Receiving /\ rx # <<>>
  /\ rx' = Tail(rx)
  /\ pc' = IF Head(rx).type = Receiving[pc] THEN next ELSE "Halted"
-----------------------------------------------------------------------------
\* The checks that let a program skip a partition, each leading to the next
\* one that has work.
AtHwCfg1 == IF "HwCfg1" \in locked THEN "CreatorSwCfg" ELSE "HwCfg1"
AtHwCfg0 == IF "HwCfg0" \in locked THEN AtHwCfg1 ELSE "HwCfg0"
AtSecret2Export == IF "Secret2" \in locked THEN "ExportToken" ELSE "AskForKey"
AtSecret2 == IF "Secret2" \in locked THEN "EraseCerts" ELSE "AskForKey"
AtCreator == IF "CreatorSwCfg" \in locked THEN AtSecret2 ELSE "FlashCfg"
AtSecret1 ==
  IF "Secret1" \in locked THEN AtCreator
  ELSE IF {"HwCfg0", "HwCfg1"} \subseteq locked THEN "Secret1" ELSE "Halted"

AfterWrite == [HwCfg0 |-> "LockHwCfg0", HwCfg1 |-> "LockHwCfg1",
               CreatorSwCfg |-> "OwnerSwCfg", OwnerSwCfg |-> "LockOwnerSwCfg",
               Secret1 |-> "LockSecret1", FlashCfg |-> "LockCreatorSwCfg",
               Secret2 |-> "LockSecret2"]
Locks == [LockHwCfg0 |-> "HwCfg0", LockHwCfg1 |-> "HwCfg1", LockOwnerSwCfg |-> "OwnerSwCfg",
          LockSecret1 |-> "Secret1", LockCreatorSwCfg |-> "CreatorSwCfg",
          LockSecret2 |-> "Secret2"]
AfterLock == [LockHwCfg0 |-> AtHwCfg1, LockHwCfg1 |-> "CreatorSwCfg",
              LockOwnerSwCfg |-> "IndividualizeDone", LockSecret1 |-> AtCreator,
              LockCreatorSwCfg |-> "RequestBootstrap", LockSecret2 |-> "ExportToken"]
-----------------------------------------------------------------------------
\* otp_ctrl_testutils_dai_write32(), _write64(): given words may be written
\* again over themselves; random words over anything but blank ones are an error
\* or differ when they are read back.  A locked partition takes no change.
Value(words) == IF words = "Secret1" THEN drawn + 1 ELSE IF words = "Secret2" THEN ram ELSE 0
WritableOnce(words) == otp[words] = Blank
Writable(words) ==
  /\ otp[words] = Blank \/ (words \in Given /\ otp[words] # Torn)
  /\ PartitionOf(words) \in locked => otp[words] = 0
WriteWords ==
  /\ pc \in DOMAIN AfterWrite
  /\ IF Writable(pc)
       THEN /\ otp' = [otp EXCEPT ![pc] = Value(pc)]
            /\ pc' = AfterWrite[pc]
            /\ drawn' = IF pc = "Secret1" THEN drawn + 1 ELSE drawn
       ELSE pc' = "Halted" /\ UNCHANGED <<otp, drawn>>
  /\ UNCHANGED <<mission, digest, seeds, certs, image, locked, ram, imported, rx, tx, host, faults>>

\* otp_ctrl_testutils_lock_partition().  The digest is visible and the lock
\* works from the next reset on.
LockPartition ==
  /\ pc \in DOMAIN Locks
  /\ digest' = digest \cup {Locks[pc]}
  /\ pc' = AfterLock[pc]
  /\ UNCHANGED <<mission, otp, seeds, certs, image, locked, ram, imported, drawn, rx, tx, host, faults>>

\* sram_ft_individualize.c
StartSram ==
  /\ pc = "Sram" /\ Log("sram", None) /\ pc' = "ReceiveData"
  /\ UNCHANGED <<chip, locked, ram, imported, drawn, rx, host, faults>>
ReceiveData ==
  /\ pc = "ReceiveData" /\ Receive(AtHwCfg0)
  /\ UNCHANGED <<chip, locked, ram, imported, drawn, tx, host, faults>>
IndividualizeDone ==
  /\ pc = "IndividualizeDone" /\ Log("individualized", None) /\ pc' = "Halted"
  /\ UNCHANGED <<chip, locked, ram, imported, drawn, rx, host, faults>>

\* ft_personalize.c: test_main(), personalize_otp_and_flash_secrets().
\* The image is in flash in a mission mode only, so the check of the life cycle
\* state holds.
Start ==
  /\ pc = "Start" /\ pc' = AtSecret1
  /\ UNCHANGED <<chip, locked, ram, imported, drawn, rx, tx, host, faults>>
RequestBootstrap ==
  /\ pc = "RequestBootstrap" /\ Log("bootstrap", None) /\ pc' = "Halted"
  /\ UNCHANGED <<chip, locked, ram, imported, drawn, rx, host, faults>>
AskForKey ==
  /\ pc = "AskForKey" /\ Log("key", None) /\ pc' = "ReceiveKey"
  /\ UNCHANGED <<chip, locked, ram, imported, drawn, rx, host, faults>>

\* manuf_personalize_device_secrets(): all that is drawn in one call is one
\* drawing.  SECRET1 has to be locked, as the seeds are stored scrambled.
ReceiveKey ==
  /\ pc = "ReceiveKey"
  /\ Receive(IF "Secret1" \in locked THEN "CreatorSeed" ELSE "Halted")
  /\ drawn' = drawn + 1 /\ ram' = drawn'
  /\ UNCHANGED <<chip, locked, imported, tx, host, faults>>
AfterSeedExport == [CreatorSeed |-> "OwnerSeed", OwnerSeed |-> "AttestationSeeds",
                    AttestationSeeds |-> "ExportToken"]
AfterSeed == [CreatorSeed |-> "OwnerSeed", OwnerSeed |-> "AttestationSeeds",
              AttestationSeeds |-> "Secret2"]
Seed == [drawing |-> ram, key |-> ScramblingKey]
\* flash_keymgr_secret_seed_write(), flash_attestation_key_seed_write(): erase,
\* write and read back.
WriteSeedUnread(content) ==
  /\ pc \in SeedPages
  /\ seeds' = [seeds EXCEPT ![pc] = content] /\ pc' = AfterSeed[pc]
  /\ UNCHANGED <<mission, otp, digest, certs, image, locked, ram, imported, drawn, rx, tx, host>>
WriteSeedAs(content) ==
  /\ pc \in SeedPages
  /\ seeds' = [seeds EXCEPT ![pc] = content]
  /\ pc' = IF content = Seed THEN AfterSeed[pc] ELSE "Halted"
  /\ UNCHANGED <<mission, otp, digest, certs, image, locked, ram, imported, drawn, rx, tx, host>>
WriteSeed == WriteSeedAs(Seed) /\ UNCHANGED faults

\* The wrapped token goes to the host, and sw_reset() follows.
ExportToken ==
  /\ pc = "ExportToken" /\ Log("token", ram)
  /\ Restart(Boots)
  /\ UNCHANGED <<chip, host, faults>>

\* personalize_dice_certificates()
EraseCerts ==
  /\ pc = "EraseCerts" /\ pc' = "ReceiveInputs"
  /\ certs' = [p \in CertPages |-> Blank]
  /\ Log("inputs", None)
  /\ UNCHANGED <<mission, otp, digest, seeds, image, locked, ram, imported, drawn, rx, host, faults>>
ReceiveInputs ==
  /\ pc = "ReceiveInputs" /\ Receive("ReceiveCerts")
  /\ tx' = IF pc' = "ReceiveCerts"
             THEN tx \o <<Message("tbs", Keys), Message("import", None)>> ELSE tx
  /\ UNCHANGED <<chip, locked, ram, imported, drawn, host, faults>>
ReceiveCerts ==
  /\ pc = "ReceiveCerts" /\ Receive("DiceCerts")
  /\ imported' = IF pc' = "Halted" THEN None ELSE Head(rx).body
  /\ UNCHANGED <<chip, locked, ram, drawn, tx, host, faults>>
\* flash_ctrl_info_write() of the certificates of a page; nothing reads back.
WriteCertsAs(content) ==
  /\ pc \in CertPages
  /\ certs' = [certs EXCEPT ![pc] = content]
  /\ pc' = IF pc = "DiceCerts" THEN "TpmCerts" ELSE "Finish"
  /\ UNCHANGED <<mission, otp, digest, seeds, image, locked, ram, imported, drawn, rx, tx, host>>
WriteCerts == WriteCertsAs(imported) /\ UNCHANGED faults
\* log_hash_of_all_certs() gives up on a page whose certificates have no header.
Finish ==
  /\ pc = "Finish"
  /\ \/ /\ pc' = "Done"
        /\ tx' = tx \o <<Message("hash", certs), Message("done", None)>>
     \/ \E p \in CertPages : certs[p] = Torn /\ pc' = "Halted" /\ UNCHANGED tx
  /\ UNCHANGED <<chip, locked, ram, imported, drawn, rx, host, faults>>
-----------------------------------------------------------------------------
\* The host reads its console until the line it waits for has come, sends what
\* it has to send then, and goes on.
Waits == [WaitForSram |-> "sram", WaitForSramDone |-> "individualized",
          WaitForRequest |-> "bootstrap", WaitForKeyRequest |-> "key",
          WaitForToken |-> "token", WaitForInputsRequest |-> "inputs", WaitForTbs |-> "tbs",
          WaitForImport |-> "import", WaitForHash |-> "hash", WaitForDone |-> "done"]
Replies == [WaitForSram |-> "data", WaitForKeyRequest |-> "key",
            WaitForInputsRequest |-> "inputs", WaitForImport |-> "certs"]
AfterWait == [WaitForSram |-> "WaitForSramDone", WaitForSramDone |-> "TestExit",
              WaitForRequest |-> "BootstrapAgain", WaitForKeyRequest |-> "WaitForToken",
              WaitForToken |-> "WaitForInputsRequest", WaitForInputsRequest |-> "WaitForTbs",
              WaitForTbs |-> "WaitForImport", WaitForImport |-> "WaitForHash",
              WaitForHash |-> "WaitForDone", WaitForDone |-> "Succeeded"]
\* endorsed certificates are for the keys in the TBS certificates.
Body(type) == IF type = "certs" THEN endorsed ELSE None
Certified == [p \in CertPages |-> endorsed]

\* The hash is compared with that of the certificates sent: ensure!() in
\* provision_certificates().
AcceptsAny == TRUE
Accepts == hpc = "WaitForHash" => Head(tx).body = Certified

Discard ==
  /\ hpc \in DOMAIN Waits /\ tx # <<>> /\ Head(tx).type # Waits[hpc]
  /\ tx' = Tail(tx)
  /\ UNCHANGED <<chip, device, rx, host, faults>>
Hear ==
  /\ hpc \in DOMAIN Waits /\ tx # <<>> /\ Head(tx).type = Waits[hpc]
  /\ tx' = Tail(tx)
  /\ hpc' = IF Accepts THEN AfterWait[hpc] ELSE "Failed"
  /\ token' = IF hpc = "WaitForToken" THEN Head(tx).body ELSE token
  /\ endorsed' = IF hpc = "WaitForTbs" THEN Head(tx).body ELSE endorsed
  /\ rx' = IF hpc \in DOMAIN Replies
             THEN Append(rx, Message(Replies[hpc], Body(Replies[hpc]))) ELSE rx
  /\ UNCHANGED <<chip, device, runs, faults>>

\* Nothing more will come: the timeout of the wait ends the run.
Quiet == pc \in {"Halted", "Done"} \/ (pc \in DOMAIN Receiving /\ rx = <<>>)
Timeout ==
  /\ hpc \in DOMAIN Waits /\ tx = <<>> /\ Quiet
  /\ hpc' = "Failed"
  /\ UNCHANGED <<chip, device, rx, tx, token, endorsed, runs, faults>>

\* main() reads the life cycle state, with a reset, and skips what is done.
StartRun ==
  /\ hpc = "ReadLcState" /\ tx' = <<>>
  /\ IF mission THEN Restart("Halted") /\ hpc' = "Bootstrap"
                ELSE Restart("Sram") /\ hpc' = "WaitForSram"
  /\ UNCHANGED <<chip, token, endorsed, runs, faults>>
TestExit ==
  /\ hpc = "TestExit" /\ hpc' = "Bootstrap"
  /\ mission' = TRUE /\ Restart("Halted")
  /\ UNCHANGED <<otp, digest, seeds, certs, image, tx, token, endorsed, runs, faults>>
\* run_ft_personalize(): init.bootstrap.init(), before and after the scrambling.
AfterBootstrap == [Bootstrap |-> "WaitForRequest", BootstrapAgain |-> "WaitForKeyRequest"]
BootstrapAs(result, next) ==
  /\ hpc \in DOMAIN AfterBootstrap /\ hpc' = AfterBootstrap[hpc]
  /\ tx' = <<>> /\ image' = result /\ Restart(next)
  /\ UNCHANGED <<mission, otp, digest, seeds, certs, token, endorsed, runs>>
BootstrapImage == BootstrapAs(Encoding, "Start") /\ UNCHANGED faults

Rerun ==
  /\ hpc = "Failed" /\ runs < MaxRuns /\ runs' = runs + 1
  /\ hpc' = "ReadLcState"
  /\ UNCHANGED <<chip, device, rx, tx, token, endorsed, faults>>
-----------------------------------------------------------------------------
Fault == faults < MaxFaults /\ faults' = faults + 1

\* What a step that is cut may leave.
Cut(words) ==
  IF otp[words] \notin {Blank, Partial} \/ ~Writable(words) THEN {otp[words]}
  ELSE {otp[words], Torn, Value(words)} \cup (IF words = "FlashCfg" THEN {} ELSE {Partial})
CutOtp ==
  IF pc \in DOMAIN AfterWrite THEN {[otp EXCEPT ![pc] = c] : c \in Cut(pc)} ELSE {otp}
CutDigest ==
  IF pc \in DOMAIN Locks THEN {digest, digest \cup {Locks[pc]}} ELSE {digest}
CutSeeds ==
  IF pc \in SeedPages
    THEN {[seeds EXCEPT ![pc] = c] : c \in {seeds[pc], Blank, Torn, Seed}} ELSE {seeds}
CutCerts ==
  IF pc = "EraseCerts" THEN {c \in [CertPages -> {Blank, Torn} \cup {certs[p] : p \in CertPages}] :
                               \A p \in CertPages : c[p] \in {certs[p], Blank, Torn}}
  ELSE IF pc \in CertPages
    THEN {[certs EXCEPT ![pc] = c] : c \in {Blank, Torn, imported}} ELSE {certs}
CutStep ==
  /\ otp' \in CutOtp /\ digest' \in CutDigest /\ seeds' \in CutSeeds /\ certs' \in CutCerts
  /\ UNCHANGED <<mission, image>>

\* A reset, from anywhere, in the middle of what the device is doing.
PowerLoss ==
  /\ Fault /\ CutStep
  /\ locked' = digest' /\ ram' = None /\ imported' = None /\ rx' = <<>>
  /\ drawn' = drawn + 1
  /\ pc' = IF image = (IF otp'["FlashCfg"] = 0 THEN "scrambled" ELSE "plain")
             THEN "Start" ELSE "Halted"
  /\ UNCHANGED <<tx, host>>
\* An operation on OTP or flash that reports an error ends the program.
OperationFails ==
  /\ Fault
  /\ pc \in DOMAIN AfterWrite \cup SeedPages \cup CertPages \cup {"EraseCerts"}
  /\ CutStep /\ pc' = "Halted" /\ drawn' = drawn + 1
  /\ UNCHANGED <<locked, ram, imported, rx, tx, host>>
\* A lock that fails ends the program when the DAI does not take it or does not become
\* idle; the error code it leaves is not looked at (otp_ctrl_testutils_lock_partition()).
LockFails ==
  /\ Fault
  /\ pc \in DOMAIN Locks /\ pc' \in {AfterLock[pc], "Halted"}
  /\ UNCHANGED <<chip, locked, ram, imported, drawn, rx, tx, host>>
\* An operation on flash that reports success and did not take.
WeakWrite == Fault /\ (WriteSeedAs(Torn) \/ WriteCertsAs(Torn))
\* A line to the host is lost.  One to the device is lost, or does not decode, or is
\* certificates that decode as others.  The host's key is checked to be a point.
LineError ==
  /\ Fault
  /\ \/ tx # <<>> /\ tx' = Tail(tx) /\ UNCHANGED rx
     \/ /\ rx # <<>> /\ UNCHANGED tx
        /\ \/ rx' = Tail(rx)
           \/ rx' = <<Message("bad", None)>> \o Tail(rx)
           \/ Head(rx).type = "certs" /\ rx' = <<Message("certs", Torn)>> \o Tail(rx)
  /\ UNCHANGED <<chip, device, host>>
\* A bootstrap that did not arrive: the SPI status bits say that it did (see Bootstrap).
BootstrapLost == Fault /\ BootstrapAs("none", "Halted")
\* The host fails: a timeout too early, the signing service, the operator.
HostFails ==
  /\ Fault
  /\ hpc \notin {"Succeeded", "Failed"} /\ hpc' = "Failed"
  /\ UNCHANGED <<chip, device, rx, tx, token, endorsed, runs>>
-----------------------------------------------------------------------------
Init ==
  /\ mission = FALSE
  /\ otp = [w \in Given \cup Secrets |-> Blank]
  /\ digest = {} /\ locked = {}
  /\ seeds = [p \in SeedPages |-> Blank] /\ certs = [p \in CertPages |-> Blank]
  /\ image = "none"
  /\ pc = "Halted" /\ ram = None /\ imported = None /\ rx = <<>> /\ tx = <<>>
  /\ hpc = "ReadLcState" /\ token = None /\ endorsed = None
  /\ drawn = 0 /\ runs = 1 /\ faults = 0

Device ==
  \/ WriteWords \/ LockPartition \/ StartSram \/ ReceiveData \/ IndividualizeDone
  \/ Start \/ RequestBootstrap \/ AskForKey \/ ReceiveKey \/ WriteSeed \/ ExportToken
  \/ EraseCerts \/ ReceiveInputs \/ ReceiveCerts \/ WriteCerts \/ Finish
Host == Discard \/ Hear \/ Timeout \/ StartRun \/ TestExit \/ BootstrapImage
Faults ==
  \/ PowerLoss \/ OperationFails \/ LockFails \/ WeakWrite \/ LineError \/ BootstrapLost
  \/ HostFails
Next == Device \/ Host \/ Rerun \/ Faults
Spec == Init /\ [][Next]_vars
FairSpec == Spec /\ WF_vars(Device) /\ WF_vars(Host)
-----------------------------------------------------------------------------
\* A word of the OTP or a page is whole when it has a value.
Whole(content) == content \notin {Blank, Partial, Torn}

Drawings == 1 .. drawn
SeedContents == {Blank, Torn} \cup [drawing : Drawings, key : Drawings]
KeySets == [seeds : [SeedPages -> SeedContents],
            root : {Blank, Partial, Torn} \cup Drawings]
Bodies(type) ==
  CASE type = "token" -> Drawings
    [] type = "tbs" -> KeySets
    [] type = "certs" -> {Torn} \cup KeySets
    [] type = "hash" -> [CertPages -> {Torn} \cup KeySets]
    [] OTHER -> {None}
Types == {"sram", "individualized", "bootstrap", "key", "token", "inputs", "tbs", "import",
          "hash", "done", "data", "certs", "bad"}
IsMessage(m) == m.type \in Types /\ m = Message(m.type, m.body) /\ m.body \in Bodies(m.type)

\* The types of the variables.  SECRET1 is locked wherever a seed is written, so
\* no seed is stored with an unknown scrambling key.
TypeOK ==
  /\ mission \in BOOLEAN
  /\ \A w \in Given : otp[w] \in {Blank, Partial, Torn, 0}
  /\ \A w \in Secrets : otp[w] \in {Blank, Partial, Torn} \cup Drawings
  /\ digest \subseteq Partitions /\ locked \subseteq digest
  /\ \A p \in SeedPages : seeds[p] \in SeedContents
  /\ \A p \in CertPages : certs[p] \in {Blank, Torn} \cup KeySets
  /\ image \in {"none", "plain", "scrambled"}
  /\ pc \in {"Halted", "Sram", "Start", "RequestBootstrap", "AskForKey", "ExportToken",
             "EraseCerts", "IndividualizeDone", "Finish", "Done"}
            \cup DOMAIN Receiving \cup DOMAIN AfterWrite \cup DOMAIN Locks
            \cup SeedPages \cup CertPages
  /\ ram \in {None} \cup Drawings /\ imported \in {None, Torn} \cup KeySets
  /\ \A i \in DOMAIN rx : IsMessage(rx[i])
  /\ \A i \in DOMAIN tx : IsMessage(tx[i])
  /\ hpc \in {"ReadLcState", "TestExit", "Succeeded", "Failed"}
             \cup DOMAIN AfterBootstrap \cup DOMAIN Waits
  /\ token \in {None} \cup Drawings /\ endorsed \in {None} \cup KeySets
  /\ drawn \in Nat /\ runs \in 1 .. MaxRuns /\ faults \in 0 .. MaxFaults

\* What is locked is whole, in spite of every reset and error before: a digest is
\* there only over complete words; SECRET2, which ends the personalization, only
\* when all seeds come from its own drawing and are stored with the scrambling
\* keys of the chip (manuf_personalize_device_secrets()).
LockedIsWhole ==
  /\ \A p \in digest : Whole(otp[p])
  /\ "CreatorSwCfg" \in digest => otp["FlashCfg"] = 0
  /\ "Secret2" \in digest =>
       /\ "Secret1" \in digest
       /\ \A p \in SeedPages : seeds[p] = [drawing |-> otp["Secret2"], key |-> otp["Secret1"]]
  /\ mission => \A w \in Given \ {"FlashCfg"} : otp[w] = 0

\* What the chip has handed out stays true of it, whatever later boots of the
\* firmware do: the RMA unlock token that the host has is the one whose hash is in
\* the OTP (extract_rma_unlock_token()), and the keys that it has had endorsed
\* are those that the chip derives (provision_certificates()).
ExportsStay ==
  /\ token # None => token = otp["Secret2"]
  /\ endorsed # None => endorsed = Keys

\* When the host reports "Provisioning Done" the chip is provisioned: partitions
\* are locked, the host has the token, and the certificates in flash are the endorsed
\* ones as long as no reset has started the firmware, which erases them, again.
\* Nothing looks at the lock of OWNER_SW_CFG.
SuccessIsComplete ==
  hpc = "Succeeded" =>
    /\ mission /\ Partitions \ {"OwnerSwCfg"} \subseteq digest
    /\ token = otp["Secret2"] /\ endorsed = Keys
    /\ pc = "Done" => certs = Certified

\* A run that begins, with the reset of StartRun, and meets no fault succeeds,
\* whatever earlier runs left, as long as no given word is torn, SECRET1 is blank
\* or locked, the partitions of the test state are locked when that state is left,
\* and CREATOR_SW_CFG is not locked: after it the host waits for a request that
\* the firmware no longer makes.
Begun ==
  \/ ~mission /\ hpc = "WaitForSram" /\ pc = "Sram"
  \/ mission /\ hpc = "Bootstrap" /\ pc = "Halted"
Resumable ==
  /\ \A w \in Given : otp[w] # Torn
  /\ otp["Secret1"] = Blank \/ "Secret1" \in digest
  /\ mission => {"HwCfg0", "HwCfg1"} \subseteq digest
  /\ "CreatorSwCfg" \notin digest
ResumesUntilLocked ==
  \A f \in 0 .. MaxFaults :
    (Begun /\ Resumable /\ faults = f) ~> (hpc = "Succeeded" \/ faults # f)
=============================================================================
