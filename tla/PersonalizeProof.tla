--------------------------- MODULE PersonalizeProof ---------------------------
(***************************************************************************)
(* Proofs about Personalize for every number of runs, resets, errors and lost  *)
(* lines: what is locked, exported and reported.                              *)
(***************************************************************************)
EXTENDS Personalize, TLAPS

\* The console: the lines that are on their way, whether one of a type is, and
\* whether there is at most one.
Lines(s) == {s[i] : i \in DOMAIN s}
IsLog(s) == s \in Seq(Lines(s))
Told(s, type) == \E m \in Lines(s) : m.type = type
Once(s, type) ==
  \A i, j \in DOMAIN s : s[i].type = type /\ s[j].type = type => i = j
-----------------------------------------------------------------------------
\* The words, and the places in the two programs, as sets.
Words == Given \cup Secrets
Places ==
  {"Halted", "Sram", "Start", "RequestBootstrap", "AskForKey", "ExportToken",
   "EraseCerts", "IndividualizeDone", "Finish", "Done"}
    \cup DOMAIN Receiving \cup DOMAIN AfterWrite \cup DOMAIN Locks \cup SeedPages \cup CertPages
HostPlaces ==
  {"ReadLcState", "TestExit", "Succeeded", "Failed"} \cup DOMAIN AfterBootstrap \cup DOMAIN Waits

\* The places of the SRAM program, those with a drawing in RAM, and those behind
\* the lock of SECRET2.
InSram == {"Sram", "ReceiveData", "HwCfg0", "LockHwCfg0", "HwCfg1", "LockHwCfg1", "CreatorSwCfg",
           "OwnerSwCfg", "LockOwnerSwCfg", "IndividualizeDone"}
Drawn == SeedPages \cup {"Secret2", "LockSecret2", "ExportToken"}
Before == {"HwCfg0", "HwCfg1", "CreatorSwCfg"}
Endorsed ==
  {"EraseCerts", "ReceiveInputs", "ReceiveCerts", "DiceCerts", "TpmCerts", "Finish", "Done"}
AllGiven == \A w \in Given \ {"FlashCfg"} : otp[w] = 0

\* The variables with their domains, which TypeOK leaves open.
Shape ==
  /\ otp \in [Words -> {Blank, Partial, Torn} \cup Nat]
  /\ seeds \in [SeedPages -> SeedContents]
  /\ certs \in [CertPages -> {Blank, Torn} \cup KeySets]
  /\ IsLog(rx) /\ IsLog(tx)

\* The order in which partitions are locked.  The error of a lock is not looked at,
\* so CREATOR_SW_CFG may be locked when SECRET1 is only written.  A lock of SECRET2
\* that has not taken effect is followed by the reset of ExportToken.
Locking ==
  /\ "Secret1" \in digest => {"HwCfg0", "HwCfg1"} \subseteq digest
  /\ "CreatorSwCfg" \in digest => {"HwCfg0", "HwCfg1"} \subseteq digest /\ Whole(otp["Secret1"])
  /\ "Secret2" \in digest => Before \cup {"Secret1"} \subseteq digest
  /\ "Secret2" \in digest \ locked => pc = "ExportToken"

\* What the SRAM program has written at each of its places, and when it has said so.
Individualizing ==
  /\ pc \in {"LockHwCfg0", "HwCfg1", "LockHwCfg1", "CreatorSwCfg", "OwnerSwCfg", "LockOwnerSwCfg",
             "IndividualizeDone"} => otp["HwCfg0"] = 0
  /\ pc \in {"LockHwCfg1", "CreatorSwCfg", "OwnerSwCfg", "LockOwnerSwCfg",
             "IndividualizeDone"} => otp["HwCfg1"] = 0
  /\ pc \in {"OwnerSwCfg", "LockOwnerSwCfg", "IndividualizeDone"} => otp["CreatorSwCfg"] = 0
  /\ pc \in {"LockOwnerSwCfg", "IndividualizeDone"} => otp["OwnerSwCfg"] = 0
  /\ Told(tx, "individualized") \/ hpc = "TestExit" => AllGiven

\* Firmware is in flash, and runs, in a mission mode only.
MissionFirst ==
  /\ pc \notin InSram \cup {"Halted"} \/ image # "none" => mission
  /\ hpc \notin {"ReadLcState", "WaitForSram", "WaitForSramDone", "TestExit", "Failed"} => mission

\* How far the secrets are at each place of the personalization firmware.
Personalizing ==
  /\ pc \in {"Secret1", "LockSecret1", "FlashCfg", "LockCreatorSwCfg"} =>
       {"HwCfg0", "HwCfg1"} \subseteq digest
  /\ pc \in {"LockSecret1", "FlashCfg", "LockCreatorSwCfg"} => Whole(otp["Secret1"])
  /\ pc = "LockSecret1" => "CreatorSwCfg" \notin digest
  /\ pc = "LockCreatorSwCfg" => otp["FlashCfg"] = 0
  /\ pc \in {"AskForKey", "ReceiveKey"} \cup Drawn => Before \subseteq digest
  /\ pc \in {"AskForKey", "ReceiveKey"} \cup (Drawn \ {"ExportToken"}) => "Secret2" \notin digest
  /\ pc \in Drawn => "Secret1" \in locked /\ ram \in Drawings
  /\ pc \in {"OwnerSeed", "AttestationSeeds", "Secret2", "LockSecret2"} =>
       seeds["CreatorSeed"] = Seed
  /\ pc \in {"AttestationSeeds", "Secret2", "LockSecret2"} => seeds["OwnerSeed"] = Seed
  /\ pc \in {"Secret2", "LockSecret2"} => seeds["AttestationSeeds"] = Seed
  /\ pc \in {"LockSecret2", "ExportToken"} => otp["Secret2"] = ram
  /\ pc \in Endorsed => "Secret2" \in digest
  /\ pc \in CertPages => imported \in {Torn} \cup KeySets
  /\ pc \in {"TpmCerts", "Finish"} => certs["DiceCerts"] \in {Torn} \cup KeySets
  /\ pc = "Finish" => certs["TpmCerts"] \in {Torn} \cup KeySets

\* What has left the chip, on the line or with the host, is true of it.
Exported ==
  /\ \A m \in Lines(tx) : m.type = "token" => m.body = otp["Secret2"] /\ Whole(otp["Secret2"])
  /\ \A m \in Lines(tx) : m.type = "tbs" => m.body = Keys /\ "Secret2" \in digest
  /\ Told(tx, "inputs") => "Secret2" \in digest
  /\ token # None => token = otp["Secret2"] /\ Whole(otp["Secret2"])
  /\ endorsed # None => endorsed = Keys /\ "Secret2" \in digest
  /\ hpc \in {"WaitForInputsRequest", "WaitForTbs", "WaitForImport", "WaitForHash", "WaitForDone",
              "Succeeded"} => token = otp["Secret2"] /\ Whole(otp["Secret2"])
  /\ hpc \in {"WaitForTbs", "WaitForImport", "WaitForHash", "WaitForDone", "Succeeded"} =>
       "Secret2" \in digest
  /\ hpc \in {"WaitForImport", "WaitForHash", "WaitForDone", "Succeeded"} => endorsed = Keys

\* The host sends certificates once in a run, so that the firmware writes them and
\* reports their hash at most once between them and the end of the run.
Writing == {"DiceCerts", "TpmCerts", "Finish"}
Early == HostPlaces \ {"WaitForHash", "WaitForDone", "Succeeded", "Failed", "ReadLcState"}
OneImport ==
  /\ hpc \in Early => ~Told(rx, "certs") /\ ~Told(tx, "hash") /\ pc \notin Writing \cup {"Done"}
  /\ hpc = "WaitForHash" =>
       /\ Once(rx, "certs") /\ Once(tx, "hash")
       /\ Told(rx, "certs") => pc \notin Writing \cup {"Done"} /\ ~Told(tx, "hash")
       /\ \A m \in Lines(tx) : m.type = "hash" =>
            pc \notin Writing /\ (pc = "Done" => certs = m.body)
  /\ hpc \in {"WaitForDone", "Succeeded"} =>
       ~Told(rx, "certs") /\ pc \notin Writing /\ (pc = "Done" => certs = Certified)

Inv ==
  /\ TypeOK /\ Shape /\ Locking /\ LockedIsWhole /\ Individualizing /\ MissionFirst /\ Personalizing
  /\ Exported /\ OneImport

\* What no step undoes.
Grows ==
  /\ \A w \in Words : Whole(otp[w]) => otp'[w] = otp[w]
  /\ digest \subseteq digest'
  /\ "Secret2" \in digest => seeds' = seeds
  /\ mission => mission'
  /\ drawn' \in {drawn, drawn + 1}

Logs == IsLog(rx) /\ IsLog(tx)
-----------------------------------------------------------------------------
\* Lines that are added, taken from the front, or damaged there.
LEMMA LogIntro ==
  ASSUME NEW S, NEW s \in Seq(S)
  PROVE  IsLog(s)
<1>1. /\ Len(s) \in Nat /\ DOMAIN s = 1 .. Len(s)
      /\ s = [i \in 1 .. Len(s) |-> s[i]]
  OBVIOUS
<1>2. \A i \in 1 .. Len(s) : s[i] \in Lines(s)
  BY <1>1 DEF Lines
<1>3. s \in [1 .. Len(s) -> Lines(s)]
  BY <1>1, <1>2
<1> QED
  BY <1>1, <1>3 DEF IsLog

LEMMA LogEmpty ==
  /\ DOMAIN <<>> = {} /\ IsLog(<<>>) /\ Lines(<<>>) = {}
  /\ \A t : ~Told(<<>>, t) /\ Once(<<>>, t)
<1>1. DOMAIN <<>> = {}
  OBVIOUS
<1> QED
  BY <1>1 DEF IsLog, Lines, Told, Once

LEMMA LogAppend ==
  ASSUME NEW s, IsLog(s), NEW e
  PROVE  /\ IsLog(Append(s, e)) /\ Lines(Append(s, e)) = Lines(s) \cup {e}
         /\ \A t : Once(s, t) /\ (e.type = t => ~Told(s, t)) => Once(Append(s, e), t)
<1> DEFINE S == Lines(s) \cup {e}
           a == Append(s, e)
<1>1. s \in Seq(S) /\ e \in S
  BY DEF IsLog
<1>2. /\ a \in Seq(S) /\ Len(a) = Len(s) + 1 /\ a[Len(a)] = e
      /\ \A i \in 1 .. Len(s) : a[i] = s[i]
  BY <1>1
<1>3. DOMAIN s = 1 .. Len(s) /\ DOMAIN a = 1 .. Len(a) /\ Len(s) \in Nat
  BY <1>1, <1>2
<1>4. Lines(a) = S
  BY <1>2, <1>3 DEF Lines
<1>5. ASSUME NEW t, Once(s, t), e.type = t => ~Told(s, t) PROVE Once(a, t)
  <2> HIDE DEF a
  <2>1. \A i \in DOMAIN a : i \in DOMAIN s \/ i = Len(a)
    BY <1>2, <1>3
  <2>2. \A i \in DOMAIN s : s[i] \in Lines(s)
    BY DEF Lines
  <2> QED
    BY <2>1, <2>2, <1>2, <1>3, <1>5 DEF Once, Told
<1> QED
  BY <1>2, <1>4, <1>5 DEF IsLog

LEMMA LogTail ==
  ASSUME NEW s, IsLog(s), s # <<>>
  PROVE  /\ IsLog(Tail(s)) /\ Lines(Tail(s)) \subseteq Lines(s)
         /\ Lines(s) = {Head(s)} \cup Lines(Tail(s))
         /\ \A t : Once(s, t) => Once(Tail(s), t)
         /\ \A t : Once(s, t) /\ Head(s).type = t => ~Told(Tail(s), t)
<1> DEFINE r == Tail(s)
<1>1. /\ s \in Seq(Lines(s)) /\ Len(s) \in Nat /\ Len(s) > 0 /\ DOMAIN s = 1 .. Len(s)
      /\ r \in Seq(Lines(s)) /\ Len(r) = Len(s) - 1 /\ DOMAIN r = 1 .. Len(r)
      /\ \A i \in 1 .. Len(r) : r[i] = s[i + 1]
      /\ Head(s) = s[1]
  BY DEF IsLog
<1> HIDE DEF r
<1>2. \A i \in DOMAIN r : i + 1 \in DOMAIN s /\ i + 1 # 1 /\ r[i] = s[i + 1]
  BY <1>1
<1>3. \A i \in DOMAIN s : i = 1 \/ (i - 1 \in DOMAIN r /\ s[i] = r[i - 1])
  BY <1>1
<1>4. Lines(s) = {Head(s)} \cup Lines(r)
  <2>1. Head(s) \in Lines(s) /\ \A m \in Lines(r) : m \in Lines(s)
    BY <1>1, <1>2 DEF Lines
  <2>2. ASSUME NEW i \in DOMAIN s PROVE s[i] = Head(s) \/ s[i] \in Lines(r)
    <3>1. CASE i = 1
      BY <3>1, <1>1
    <3>2. CASE i # 1
      BY <3>2, <1>3 DEF Lines
    <3> QED
      BY <3>1, <3>2
  <2> QED
    BY <2>1, <2>2 DEF Lines
<1>5. IsLog(r)
  BY <1>1, LogIntro
<1>6. ASSUME NEW t, Once(s, t)
      PROVE  Once(r, t) /\ (Head(s).type = t => ~Told(r, t))
  <2>1. \A i \in DOMAIN r : i \in Int
    BY <1>1
  <2>2. \A i, j \in DOMAIN r : r[i].type = t /\ r[j].type = t => i + 1 = j + 1
    BY <1>2, <1>6 DEF Once
  <2>3. 1 \in DOMAIN s
    BY <1>1
  <2>4. \A i \in DOMAIN r : r[i].type = t => Head(s).type # t
    BY <1>1, <1>2, <1>6, <2>3 DEF Once
  <2> QED
    BY <2>1, <2>2, <2>4 DEF Once, Told, Lines
<1> QED
  BY <1>4, <1>5, <1>6 DEF r

LEMMA LogTwo ==
  ASSUME NEW s, IsLog(s), NEW e, NEW f
  PROVE  /\ s \o <<e, f>> = Append(Append(s, e), f)
         /\ IsLog(s \o <<e, f>>) /\ Lines(s \o <<e, f>>) = Lines(s) \cup {e, f}
<1> DEFINE S == Lines(s) \cup {e, f}
           a == Append(Append(s, e), f)
<1>1. s \in Seq(S) /\ e \in S /\ f \in S
  BY DEF IsLog
<1>2. s \o <<e, f>> = a
  BY <1>1
<1>3. IsLog(Append(s, e)) /\ Lines(Append(s, e)) = Lines(s) \cup {e}
  BY LogAppend
<1>4. IsLog(a) /\ Lines(a) = S
  BY <1>3, LogAppend
<1> QED
  BY <1>2, <1>4

LEMMA LogReplace ==
  ASSUME NEW s, IsLog(s), s # <<>>, NEW e
  PROVE  /\ IsLog(<<e>> \o Tail(s)) /\ Lines(<<e>> \o Tail(s)) \subseteq Lines(s) \cup {e}
         /\ \A t : Once(s, t) /\ (e.type = t => Head(s).type = t) => Once(<<e>> \o Tail(s), t)
<1> DEFINE S == Lines(s) \cup {e}
           r == <<e>> \o Tail(s)
<1>1. s \in Seq(S) /\ Len(s) \in Nat /\ Len(s) > 0 /\ DOMAIN s = 1 .. Len(s) /\ Head(s) = s[1]
  BY DEF IsLog
<1>2. /\ Tail(s) \in Seq(S) /\ Len(Tail(s)) = Len(s) - 1
      /\ \A i \in 1 .. Len(s) - 1 : Tail(s)[i] = s[i + 1]
  BY <1>1
<1>3. <<e>> \in Seq(S) /\ Len(<<e>>) = 1 /\ <<e>>[1] = e
  OBVIOUS
<1>4. /\ r \in Seq(S) /\ Len(r) = Len(s) /\ DOMAIN r = 1 .. Len(s)
      /\ \A i \in 1 .. Len(s) : r[i] = IF i <= 1 THEN <<e>>[i] ELSE Tail(s)[i - 1]
  BY <1>1, <1>2, <1>3
<1> HIDE DEF r
<1>5. r[1] = e /\ \A i \in DOMAIN s : i # 1 => r[i] = s[i]
  BY <1>1, <1>2, <1>3, <1>4
<1>6. Lines(r) \subseteq S
  BY <1>1, <1>4, <1>5 DEF Lines
<1>7. ASSUME NEW t, Once(s, t), e.type = t => Head(s).type = t PROVE Once(r, t)
  <2>1. \A i \in DOMAIN r : i \in DOMAIN s /\ (r[i].type = t => s[i].type = t)
    BY <1>1, <1>4, <1>5, <1>7
  <2> QED
    BY <2>1, <1>7 DEF Once
<1>8. IsLog(r)
  BY <1>4, LogIntro
<1> QED
  BY <1>6, <1>7, <1>8 DEF r
-----------------------------------------------------------------------------
\* The tables of the two programs, row by row.
LEMMA Tables ==
  /\ DOMAIN AfterWrite = Words
  /\ DOMAIN Locks = {"LockHwCfg0", "LockHwCfg1", "LockOwnerSwCfg", "LockSecret1",
                     "LockCreatorSwCfg", "LockSecret2"}
  /\ AfterWrite["HwCfg0"] = "LockHwCfg0" /\ AfterWrite["HwCfg1"] = "LockHwCfg1"
  /\ AfterWrite["CreatorSwCfg"] = "OwnerSwCfg" /\ AfterWrite["OwnerSwCfg"] = "LockOwnerSwCfg"
  /\ AfterWrite["Secret1"] = "LockSecret1" /\ AfterWrite["FlashCfg"] = "LockCreatorSwCfg"
  /\ AfterWrite["Secret2"] = "LockSecret2"
  /\ Locks["LockHwCfg0"] = "HwCfg0" /\ Locks["LockHwCfg1"] = "HwCfg1"
  /\ Locks["LockOwnerSwCfg"] = "OwnerSwCfg" /\ Locks["LockSecret1"] = "Secret1"
  /\ Locks["LockCreatorSwCfg"] = "CreatorSwCfg" /\ Locks["LockSecret2"] = "Secret2"
  /\ AfterLock["LockHwCfg0"] = AtHwCfg1 /\ AfterLock["LockHwCfg1"] = "CreatorSwCfg"
  /\ AfterLock["LockOwnerSwCfg"] = "IndividualizeDone" /\ AfterLock["LockSecret1"] = AtCreator
  /\ AfterLock["LockCreatorSwCfg"] = "RequestBootstrap"
  /\ AfterLock["LockSecret2"] = "ExportToken"
  /\ AfterSeed["CreatorSeed"] = "OwnerSeed" /\ AfterSeed["OwnerSeed"] = "AttestationSeeds"
  /\ AfterSeed["AttestationSeeds"] = "Secret2"
BY DEF AfterWrite, Locks, AfterLock, AfterSeed, Words, Given, Secrets

LEMMA LocksArePartitions ==
  \A p \in DOMAIN Locks : Locks[p] \in Partitions
BY Tables DEF Partitions, SwPartitions

LEMMA HostTables ==
  /\ DOMAIN Receiving = {"ReceiveData", "ReceiveKey", "ReceiveInputs", "ReceiveCerts"}
  /\ Receiving["ReceiveData"] = "data" /\ Receiving["ReceiveKey"] = "key"
  /\ Receiving["ReceiveInputs"] = "inputs" /\ Receiving["ReceiveCerts"] = "certs"
  /\ DOMAIN Waits = {"WaitForSram", "WaitForSramDone", "WaitForRequest", "WaitForKeyRequest",
                     "WaitForToken", "WaitForInputsRequest", "WaitForTbs", "WaitForImport",
                     "WaitForHash", "WaitForDone"}
  /\ Waits["WaitForSram"] = "sram" /\ Waits["WaitForSramDone"] = "individualized"
  /\ Waits["WaitForRequest"] = "bootstrap" /\ Waits["WaitForKeyRequest"] = "key"
  /\ Waits["WaitForToken"] = "token" /\ Waits["WaitForInputsRequest"] = "inputs"
  /\ Waits["WaitForTbs"] = "tbs" /\ Waits["WaitForImport"] = "import"
  /\ Waits["WaitForHash"] = "hash" /\ Waits["WaitForDone"] = "done"
  /\ DOMAIN Replies = {"WaitForSram", "WaitForKeyRequest", "WaitForInputsRequest",
                       "WaitForImport"}
  /\ Replies["WaitForSram"] = "data" /\ Replies["WaitForKeyRequest"] = "key"
  /\ Replies["WaitForInputsRequest"] = "inputs" /\ Replies["WaitForImport"] = "certs"
  /\ AfterWait["WaitForSram"] = "WaitForSramDone" /\ AfterWait["WaitForSramDone"] = "TestExit"
  /\ AfterWait["WaitForRequest"] = "BootstrapAgain"
  /\ AfterWait["WaitForKeyRequest"] = "WaitForToken"
  /\ AfterWait["WaitForToken"] = "WaitForInputsRequest"
  /\ AfterWait["WaitForInputsRequest"] = "WaitForTbs"
  /\ AfterWait["WaitForTbs"] = "WaitForImport" /\ AfterWait["WaitForImport"] = "WaitForHash"
  /\ AfterWait["WaitForHash"] = "WaitForDone" /\ AfterWait["WaitForDone"] = "Succeeded"
  /\ DOMAIN AfterBootstrap = {"Bootstrap", "BootstrapAgain"}
  /\ AfterBootstrap["Bootstrap"] = "WaitForRequest"
  /\ AfterBootstrap["BootstrapAgain"] = "WaitForKeyRequest"
BY DEF Receiving, Waits, Replies, AfterWait, AfterBootstrap

LEMMA Marks ==
  /\ Blank # Partial /\ Partial # Torn /\ Torn # Blank
  /\ \A n \in Nat : Whole(n)
  /\ ~Whole(Blank) /\ ~Whole(Partial) /\ ~Whole(Torn)
  /\ \A c \in {Blank, Partial, Torn} \cup Nat : Whole(c) <=> c \in Nat
BY MarksAssumption DEF Whole
-----------------------------------------------------------------------------
\* What may change in OTP and seed pages, by which step.
Unwritten ==
  /\ otp' = otp /\ digest' = digest /\ seeds' = seeds /\ (mission => mission')
  /\ drawn' \in {drawn, drawn + 1}
LEMMA StepsOfChip ==
  ASSUME [Next]_vars
  PROVE  \/ Unwritten \/ WriteWords \/ LockPartition
         \/ \E c \in {Seed, Torn} : WriteSeedAs(c)
         \/ CutStep /\ drawn' = drawn + 1
<1>1. CASE UNCHANGED vars
  BY <1>1 DEF vars, chip, device, host, Unwritten
<1>2. CASE Device
  <2>1. CASE StartSram \/ ReceiveData \/ IndividualizeDone \/ Start \/ RequestBootstrap
    BY <2>1 DEF StartSram, ReceiveData, IndividualizeDone, Start, RequestBootstrap,
                chip, Unwritten
  <2>2. CASE AskForKey \/ ReceiveKey \/ ReceiveInputs \/ ReceiveCerts \/ Finish
    BY <2>2 DEF AskForKey, ReceiveKey, ReceiveInputs, ReceiveCerts, Finish, chip, Unwritten
  <2>3. CASE ExportToken \/ EraseCerts \/ WriteCerts
    BY <2>3 DEF ExportToken, EraseCerts, WriteCerts, WriteCertsAs, Restart, chip, Unwritten
  <2>4. CASE WriteSeed
    BY <2>4 DEF WriteSeed
  <2> QED
    BY <1>2, <2>1, <2>2, <2>3, <2>4 DEF Device
<1>3. CASE Host \/ Rerun
  <2>1. CASE Discard \/ Hear \/ Timeout \/ Rerun
    BY <2>1 DEF Discard, Hear, Timeout, Rerun, chip, device, Unwritten
  <2>2. CASE StartRun \/ TestExit \/ BootstrapImage
    BY <2>2 DEF StartRun, TestExit, BootstrapImage, BootstrapAs, Restart, chip, Unwritten
  <2> QED
    BY <1>3, <2>1, <2>2 DEF Host
<1>4. CASE Faults
  <2>1. CASE PowerLoss \/ OperationFails
    BY <2>1 DEF PowerLoss, OperationFails
  <2>2. CASE LockFails \/ LineError \/ HostFails \/ BootstrapLost
    BY <2>2 DEF LockFails, LineError, HostFails, BootstrapLost, BootstrapAs, Restart, chip,
                device, Unwritten
  <2>3. CASE WeakWrite
    BY <2>3 DEF WeakWrite, WriteCertsAs, Unwritten
  <2> QED
    BY <1>4, <2>1, <2>2, <2>3 DEF Faults
<1> QED
  BY <1>1, <1>2, <1>3, <1>4 DEF Next

\* The words that the device may write: what they become, and that a whole one
\* keeps its value.
LEMMA WriteKeeps ==
  ASSUME Inv, pc \in Words, Writable(pc)
  PROVE  /\ Value(pc) \in Nat /\ (pc \in Given => Value(pc) = 0)
         /\ Whole(otp[pc]) => Value(pc) = otp[pc]
<1>1. drawn \in Nat /\ drawn + 1 \in Nat /\ (pc = "Secret2" => ram \in Nat)
  BY DEF Inv, TypeOK, Personalizing, Drawn, Drawings
<1>2. Value(pc) \in Nat /\ (pc \in Given => Value(pc) = 0)
  BY <1>1 DEF Value, Given
<1>3. CASE pc \in Given
  <2>1. otp[pc] \in {Blank, Partial, Torn, 0}
    BY <1>3 DEF Inv, TypeOK
  <2> QED
    BY <1>2, <1>3, <2>1, Marks
<1>4. CASE pc \in Secrets
  BY <1>2, <1>4, Marks DEF Writable, Given, Secrets
<1> QED
  BY <1>2, <1>3, <1>4 DEF Words

LEMMA Growth ==
  ASSUME Inv, [Next]_vars
  PROVE  Grows
<1> USE DEF Inv
<1>1. CASE Unwritten
  BY <1>1 DEF Grows, Unwritten
<1>2. CASE WriteWords
  <2>1. /\ UNCHANGED <<digest, seeds, mission>> /\ drawn' \in {drawn, drawn + 1}
        /\ pc \in Words
    BY <1>2, Tables DEF WriteWords
  <2>2. otp' = otp \/ (Writable(pc) /\ otp' = [otp EXCEPT ![pc] = Value(pc)])
    BY <1>2 DEF WriteWords
  <2>3. \A w \in Words : Whole(otp[w]) => otp'[w] = otp[w]
    BY <2>1, <2>2, WriteKeeps DEF Shape
  <2> QED
    BY <2>1, <2>3 DEF Grows
<1>3. CASE LockPartition
  BY <1>3 DEF LockPartition, Grows
<1>4. CASE \E c \in {Seed, Torn} : WriteSeedAs(c)
  <2>1. pc \in SeedPages /\ UNCHANGED <<otp, digest, mission, drawn>>
    BY <1>4 DEF WriteSeedAs
  <2>2. "Secret2" \notin digest
    BY <2>1 DEF Personalizing, Drawn, SeedPages
  <2> QED
    BY <2>1, <2>2 DEF Grows
<1>5. CASE CutStep /\ drawn' = drawn + 1
  <2>1. \A w \in Words : Whole(otp[w]) => otp'[w] = otp[w]
    <3>1. CASE pc \notin Words
      BY <1>5, <3>1, Tables DEF CutStep, CutOtp
    <3>2. CASE pc \in Words
      <4>1. PICK c \in Cut(pc) : otp' = [otp EXCEPT ![pc] = c]
        BY <1>5, <3>2, Tables DEF CutStep, CutOtp
      <4>2. Whole(otp[pc]) => c = otp[pc]
        BY <4>1 DEF Cut, Whole
      <4> QED
        BY <4>1, <4>2 DEF Shape
    <3> QED
      BY <3>1, <3>2
  <2>2. "Secret2" \in digest => seeds' = seeds
    <3>1. "Secret2" \in digest => pc \notin SeedPages
      BY DEF Personalizing, Drawn, SeedPages
    <3> QED
      BY <1>5, <3>1 DEF CutStep, CutSeeds
  <2>3. digest \subseteq digest' /\ mission' = mission
    BY <1>5 DEF CutStep, CutDigest
  <2> QED
    BY <1>5, <2>1, <2>2, <2>3 DEF Grows
<1> QED
  BY <1>1, <1>2, <1>3, <1>4, <1>5, StepsOfChip
-----------------------------------------------------------------------------
LEMMA MessageFields ==
  \A t, b : Message(t, b).type = t /\ Message(t, b).body = b
BY DEF Message

\* The lines that the device says, with where it is then, and those that the host sends.
Said(m) ==
  \/ m.type \in {"sram", "bootstrap", "key", "import", "done"} /\ m = Message(m.type, None)
  \/ pc = "IndividualizeDone" /\ m = Message("individualized", None)
  \/ pc = "ExportToken" /\ m = Message("token", ram)
  \/ pc = "EraseCerts" /\ m = Message("inputs", None)
  \/ pc = "ReceiveInputs" /\ m = Message("tbs", Keys)
  \/ pc = "Finish" /\ pc' = "Done" /\ m = Message("hash", certs) /\ UNCHANGED <<certs, rx>>
Sent(m) ==
  \/ m.type \in {"bad", "data", "key", "inputs"} /\ m = Message(m.type, None)
  \/ Told(rx, "certs") /\ m = Message("certs", Torn)
  \/ hpc = "WaitForImport" /\ hpc' = "WaitForHash" /\ m = Message("certs", endorsed)

LEMMA LinesOfTx ==
  ASSUME Inv, [Next]_vars
  PROVE  /\ IsLog(tx') /\ \A m \in Lines(tx') : m \in Lines(tx) \/ Said(m)
         /\ Once(tx, "hash") /\ (pc = "Finish" => ~Told(tx, "hash")) => Once(tx', "hash")
<1>1. IsLog(tx)
  BY DEF Inv, Shape
<1>2. CASE UNCHANGED tx
  BY <1>1, <1>2
<1>3. CASE tx' = <<>>
  BY <1>3, LogEmpty
<1>4. CASE tx # <<>> /\ tx' = Tail(tx)
  BY <1>1, <1>4, LogTail
<1>5. CASE StartSram \/ IndividualizeDone \/ RequestBootstrap \/ AskForKey
           \/ ExportToken \/ EraseCerts
  <2>1. PICK m : tx' = Append(tx, m) /\ Said(m) /\ m.type # "hash"
    BY <1>5, MessageFields DEF StartSram, IndividualizeDone, RequestBootstrap, AskForKey,
      ExportToken, EraseCerts, Log, Said
  <2> QED
    BY <1>1, <2>1, LogAppend
<1>6. CASE ReceiveInputs \/ Finish
  <2>1. CASE tx' = tx
    BY <1>2, <2>1
  <2>2. CASE tx' # tx
    <3>1. \E e, f : /\ tx' = tx \o <<e, f>> /\ Said(e) /\ Said(f)
                     /\ f.type # "hash" /\ (e.type = "hash" => pc = "Finish")
      <4>1. CASE ReceiveInputs
        <5>1. Said(Message("tbs", Keys)) /\ Said(Message("import", None))
          BY <4>1, MessageFields DEF ReceiveInputs, Said
        <5>2. tx' = tx \o <<Message("tbs", Keys), Message("import", None)>>
          BY <2>2, <4>1 DEF ReceiveInputs
        <5>3. Message("import", None).type # "hash" /\ Message("tbs", Keys).type # "hash"
          BY MessageFields
        <5> QED
          BY <5>1, <5>2, <5>3
      <4>2. CASE Finish
        <5>1. pc = "Finish" /\ pc' = "Done" /\ UNCHANGED <<certs, rx>>
              /\ tx' = tx \o <<Message("hash", certs), Message("done", None)>>
          BY <2>2, <4>2 DEF Finish, chip
        <5>2. Said(Message("hash", certs)) /\ Said(Message("done", None))
          BY <5>1, MessageFields DEF Said
        <5>3. Message("done", None).type # "hash"
          BY MessageFields
        <5> QED
          BY <5>1, <5>2, <5>3
      <4> QED
        BY <1>6, <4>1, <4>2
    <3>2. PICK e, f : /\ tx' = tx \o <<e, f>> /\ Said(e) /\ Said(f)
                     /\ f.type # "hash" /\ (e.type = "hash" => pc = "Finish")
      BY <3>1
    <3>3. IsLog(tx') /\ Lines(tx') = Lines(tx) \cup {e, f} /\ tx' = Append(Append(tx, e), f)
      <4>1. /\ IsLog(tx \o <<e, f>>) /\ Lines(tx \o <<e, f>>) = Lines(tx) \cup {e, f}
            /\ tx \o <<e, f>> = Append(Append(tx, e), f)
        BY <1>1, LogTwo
      <4>2. tx' = tx \o <<e, f>>
        BY <3>2
      <4> QED
        BY <4>1, <4>2
    <3>4. Once(tx, "hash") /\ (pc = "Finish" => ~Told(tx, "hash")) => Once(tx', "hash")
      <4>1. Once(tx, "hash") /\ (pc = "Finish" => ~Told(tx, "hash")) => Once(Append(tx, e), "hash")
        BY <1>1, <3>2, LogAppend
      <4>2. IsLog(Append(tx, e))
        BY <1>1, LogAppend
      <4> QED
        BY <3>2, <3>3, <4>1, <4>2, LogAppend
    <3> QED
      BY <3>2, <3>3, <3>4
  <2> QED
    BY <2>1, <2>2
<1>7. CASE UNCHANGED vars
  BY <1>2, <1>7 DEF vars
<1>8. CASE Device
  <2>1. CASE WriteWords \/ LockPartition \/ ReceiveData \/ Start \/ ReceiveKey \/ WriteSeed
             \/ ReceiveCerts \/ WriteCerts
    BY <1>2, <2>1 DEF WriteWords, LockPartition, ReceiveData, Start, ReceiveKey, WriteSeed,
      WriteSeedAs, ReceiveCerts, WriteCerts, WriteCertsAs
  <2> QED
    BY <1>5, <1>6, <1>8, <2>1 DEF Device
<1>9. CASE Host \/ Rerun
  BY <1>2, <1>3, <1>4, <1>9 DEF Host, Rerun, Discard, Hear, Timeout, StartRun, TestExit,
    BootstrapImage, BootstrapAs
<1>10. CASE Faults
  BY <1>2, <1>3, <1>4, <1>10 DEF Faults, PowerLoss, OperationFails, LockFails, WeakWrite,
    WriteSeedAs, WriteCertsAs, LineError, BootstrapLost, BootstrapAs, HostFails
<1> QED
  BY <1>7, <1>8, <1>9, <1>10 DEF Next

LEMMA LinesOfRx ==
  ASSUME Inv, [Next]_vars
  PROVE  /\ IsLog(rx') /\ \A m \in Lines(rx') : m \in Lines(rx) \/ Sent(m)
         /\ Once(rx, "certs") /\ (hpc = "WaitForImport" => ~Told(rx, "certs")) => Once(rx', "certs")
<1>1. IsLog(rx)
  BY DEF Inv, Shape
<1>2. CASE UNCHANGED rx
  BY <1>1, <1>2
<1>3. CASE rx' = <<>>
  BY <1>3, LogEmpty
<1>4. CASE rx # <<>> /\ rx' = Tail(rx)
  BY <1>1, <1>4, LogTail
<1>5. CASE Hear
  <2>1. CASE hpc \in DOMAIN Replies
    <3>1. PICK m : rx' = Append(rx, m) /\ Sent(m) /\ (m.type = "certs" => hpc = "WaitForImport")
      <4>1. rx' = Append(rx, Message(Replies[hpc], Body(Replies[hpc])))
        BY <1>5, <2>1 DEF Hear
      <4>2. CASE hpc = "WaitForImport"
        <5>1. hpc' = "WaitForHash"
          BY <1>5, <4>2, HostTables DEF Hear, Accepts
        <5> QED
          BY <4>1, <4>2, <5>1, HostTables, MessageFields DEF Sent, Body
      <4>3. CASE hpc # "WaitForImport"
        BY <2>1, <4>1, <4>3, HostTables, MessageFields DEF Sent, Body
      <4> QED
        BY <4>2, <4>3
    <3> QED
      BY <1>1, <3>1, LogAppend
  <2>2. CASE hpc \notin DOMAIN Replies
    BY <1>2, <1>5, <2>2 DEF Hear
  <2> QED
    BY <2>1, <2>2
<1>6. CASE LineError
  <2>1. CASE rx # <<>> /\ rx' = <<Message("bad", None)>> \o Tail(rx)
    BY <1>1, <2>1, LogReplace, MessageFields DEF Sent
  <2>2. CASE rx # <<>> /\ Head(rx).type = "certs" /\ rx' = <<Message("certs", Torn)>> \o Tail(rx)
    <3>1. Told(rx, "certs")
      BY <1>1, <2>2, LogTail DEF Told
    <3> QED
      BY <1>1, <2>2, <3>1, LogReplace, MessageFields DEF Sent
  <2> QED
    BY <1>2, <1>4, <1>6, <2>1, <2>2 DEF LineError
<1>7. CASE UNCHANGED vars
  BY <1>2, <1>7 DEF vars
<1>8. CASE Device
  BY <1>2, <1>3, <1>4, <1>8 DEF Device, WriteWords, LockPartition, StartSram, ReceiveData,
    IndividualizeDone, Start, RequestBootstrap, AskForKey, ReceiveKey, WriteSeed,
    WriteSeedAs, ExportToken, Restart, EraseCerts, ReceiveInputs, ReceiveCerts, Receive,
    WriteCerts, WriteCertsAs, Finish
<1>9. CASE Host \/ Rerun
  BY <1>2, <1>3, <1>5, <1>9 DEF Host, Rerun, Discard, Timeout, StartRun, TestExit, Restart,
    BootstrapImage, BootstrapAs
<1>10. CASE Faults
  BY <1>2, <1>3, <1>6, <1>10 DEF Faults, PowerLoss, OperationFails, LockFails, WeakWrite,
    WriteSeedAs, WriteCertsAs, BootstrapLost, BootstrapAs, Restart, HostFails
<1> QED
  BY <1>7, <1>8, <1>9, <1>10 DEF Next
-----------------------------------------------------------------------------
\* The types, which grow with the drawings.
LEMMA Wider ==
  ASSUME Inv, [Next]_vars
  PROVE  /\ drawn' \in Nat /\ Drawings \subseteq Drawings' /\ Drawings \subseteq Nat
         /\ SeedContents \subseteq SeedContents' /\ KeySets \subseteq KeySets'
         /\ \A t : Bodies(t) \subseteq Bodies(t)'
<1>1. drawn \in Nat /\ drawn' \in {drawn, drawn + 1}
  BY Growth DEF Inv, TypeOK, Grows
<1>2. drawn' \in Nat /\ Drawings \subseteq Drawings' /\ Drawings \subseteq Nat
  BY <1>1 DEF Drawings
<1>3. SeedContents \subseteq SeedContents'
  BY <1>2 DEF SeedContents
<1>4. KeySets \subseteq KeySets'
  BY <1>2, <1>3 DEF KeySets
<1>5. [CertPages -> {Torn} \cup KeySets] \subseteq [CertPages -> {Torn} \cup KeySets']
  BY <1>4
<1>6. \A t : Bodies(t) \subseteq Bodies(t)'
  BY <1>2, <1>4, <1>5 DEF Bodies
<1> QED
  BY <1>2, <1>3, <1>4, <1>6

\* A seed is written with the scrambling key of the chip.
LEMMA SeedIsContent ==
  ASSUME Inv, pc \in SeedPages
  PROVE  Seed \in SeedContents /\ Seed = [drawing |-> ram, key |-> otp["Secret1"]]
<1>1. "Secret1" \in locked /\ ram \in Drawings /\ locked \subseteq digest
  BY DEF Inv, TypeOK, Personalizing, Drawn
<1>2. otp["Secret1"] \in Drawings
  BY <1>1 DEF Inv, TypeOK, LockedIsWhole, Whole, Secrets
<1> QED
  BY <1>1, <1>2 DEF Seed, ScramblingKey, SeedContents

LEMMA KeysAreKeys ==
  ASSUME Inv
  PROVE  Keys \in KeySets
<1>1. seeds \in [SeedPages -> SeedContents] /\ otp["Secret2"] \in {Blank, Partial, Torn} \cup Drawings
  BY DEF Inv, TypeOK, Shape, Secrets
<1> QED
  BY <1>1 DEF Keys, KeySets

\* What an operation writes is a value of its word.
ValueOf(w, c) == c \in {Blank, Partial, Torn} \cup (IF w \in Given THEN {0} ELSE Drawings')
LEMMA ValueHasType ==
  ASSUME Inv, pc \in Words, Writable(pc)
  PROVE  /\ Value(pc) \in IF pc \in Given THEN {0} ELSE 1 .. drawn + 1
         /\ pc # "Secret1" => Value(pc) \in IF pc \in Given THEN {0} ELSE Drawings
<1>1. drawn \in Nat /\ (pc = "Secret2" => ram \in Drawings)
  BY DEF Inv, TypeOK, Personalizing, Drawn
<1> QED
  BY <1>1 DEF Value, Drawings, Given, Secrets, Words

LEMMA StoredTypes ==
  ASSUME Inv, [Next]_vars
  PROVE  /\ otp' \in [Words -> {Blank, Partial, Torn} \cup Nat]
         /\ \A w \in Words : ValueOf(w, otp'[w])
         /\ digest' \subseteq Partitions
         /\ seeds' \in [SeedPages -> SeedContents']
<1> USE Wider DEF Inv
<1>1. /\ otp \in [Words -> {Blank, Partial, Torn} \cup Nat] /\ seeds \in [SeedPages -> SeedContents]
      /\ digest \subseteq Partitions /\ \A w \in Words : ValueOf(w, otp[w])
  <2>1. \A w \in Given : otp[w] \in {Blank, Partial, Torn, 0}
    BY DEF TypeOK
  <2>2. \A w \in Secrets : otp[w] \in {Blank, Partial, Torn} \cup Drawings'
    BY DEF TypeOK
  <2>3. \A w \in Words : ValueOf(w, otp[w])
    BY <2>1, <2>2 DEF ValueOf, Words
  <2> QED
    BY <2>3 DEF TypeOK, Shape
<1>2. seeds \in [SeedPages -> SeedContents']
  BY <1>1
<1>3. CASE Unwritten
  BY <1>1, <1>2, <1>3 DEF Unwritten
<1>4. ASSUME pc \in Words, NEW c, ValueOf(pc, c), otp' = [otp EXCEPT ![pc] = c]
      PROVE  otp' \in [Words -> {Blank, Partial, Torn} \cup Nat]
             /\ \A w \in Words : ValueOf(w, otp'[w])
  <2>1. c \in {Blank, Partial, Torn} \cup Nat
    BY <1>4 DEF ValueOf, Drawings
  <2> QED
    BY <1>1, <1>4, <2>1
<1>5. CASE WriteWords
  <2>1. pc \in Words /\ UNCHANGED <<digest, seeds>>
    BY <1>5, Tables DEF WriteWords
  <2>2. CASE Writable(pc)
    <3>1. otp' = [otp EXCEPT ![pc] = Value(pc)] /\ drawn \in Nat
          /\ drawn' = IF pc = "Secret1" THEN drawn + 1 ELSE drawn
      BY <1>5, <2>2 DEF WriteWords, TypeOK
    <3>2. ValueOf(pc, Value(pc))
      BY <2>1, <2>2, <3>1, ValueHasType DEF ValueOf, Drawings
    <3> QED
      BY <1>1, <1>2, <1>4, <2>1, <3>1, <3>2
  <2>3. CASE ~Writable(pc)
    BY <1>1, <1>2, <1>5, <2>1, <2>3 DEF WriteWords
  <2> QED
    BY <2>2, <2>3
<1>6. CASE LockPartition
  BY <1>1, <1>2, <1>6, LocksArePartitions DEF LockPartition
<1>7. CASE \E c \in {Seed, Torn} : WriteSeedAs(c)
  <2>1. PICK c \in {Seed, Torn} : WriteSeedAs(c)
    BY <1>7
  <2>2. pc \in SeedPages /\ UNCHANGED <<otp, digest>> /\ seeds' = [seeds EXCEPT ![pc] = c]
    BY <2>1 DEF WriteSeedAs
  <2>3. c \in SeedContents'
    BY <2>1, <2>2, SeedIsContent DEF SeedContents
  <2> QED
    BY <1>1, <1>2, <2>2, <2>3
<1>8. CASE CutStep /\ drawn' = drawn + 1
  <2>1. /\ otp' \in [Words -> {Blank, Partial, Torn} \cup Nat]
        /\ \A w \in Words : ValueOf(w, otp'[w])
    <3>1. CASE pc \notin Words
      BY <1>1, <1>8, <3>1, Tables DEF CutStep, CutOtp
    <3>2. CASE pc \in Words
      <4>1. PICK c \in Cut(pc) : otp' = [otp EXCEPT ![pc] = c]
        BY <1>8, <3>2, Tables DEF CutStep, CutOtp
      <4>2. CASE c = otp[pc]
        BY <1>1, <1>4, <3>2, <4>1, <4>2
      <4>3. CASE c # otp[pc]
        <5>1. Writable(pc) /\ c \in {Torn, Partial, Value(pc)}
          BY <4>1, <4>3 DEF Cut
        <5>2. ValueOf(pc, Value(pc))
          BY <1>8, <3>2, <5>1, ValueHasType DEF ValueOf, Drawings
        <5> QED
          BY <1>4, <3>2, <4>1, <5>1, <5>2 DEF ValueOf
      <4> QED
        BY <4>2, <4>3
    <3> QED
      BY <3>1, <3>2
  <2>2. digest' \subseteq Partitions
    BY <1>1, <1>8, LocksArePartitions DEF CutStep, CutDigest
  <2>3. seeds' \in [SeedPages -> SeedContents']
    <3>1. CASE pc \notin SeedPages
      BY <1>2, <1>8, <3>1 DEF CutStep, CutSeeds
    <3>2. CASE pc \in SeedPages
      <4>1. PICK c \in {seeds[pc], Blank, Torn, Seed} : seeds' = [seeds EXCEPT ![pc] = c]
        BY <1>8, <3>2 DEF CutStep, CutSeeds
      <4>2. c \in SeedContents'
        BY <1>1, <3>2, <4>1, SeedIsContent DEF SeedContents
      <4> QED
        BY <1>2, <3>2, <4>1, <4>2
    <3> QED
      BY <3>1, <3>2
  <2> QED
    BY <2>1, <2>2, <2>3
<1> QED
  BY <1>3, <1>5, <1>6, <1>7, <1>8, StepsOfChip

LEMMA BodiesOf ==
  /\ Bodies("token") = Drawings /\ Bodies("tbs") = KeySets /\ Bodies("certs") = {Torn} \cup KeySets
  /\ Bodies("hash") = [CertPages -> {Torn} \cup KeySets]
  /\ \A t : t \notin {"token", "tbs", "certs", "hash"} => Bodies(t) = {None}
BY DEF Bodies

LEMMA LinesTyped ==
  ASSUME Inv
  PROVE  /\ \A m \in Lines(tx) \cup Lines(rx) : IsMessage(m)
         /\ \A m \in Lines(tx) \cup Lines(rx) :
              /\ m.type = "token" => m.body \in Drawings
              /\ m.type = "tbs" => m.body \in KeySets
              /\ m.type = "certs" => m.body \in {Torn} \cup KeySets
<1>1. \A m \in Lines(tx) \cup Lines(rx) : IsMessage(m)
  BY DEF Inv, TypeOK, Lines
<1> QED
  BY <1>1, BodiesOf DEF IsMessage

LEMMA LineTypes ==
  ASSUME Inv, [Next]_vars
  PROVE  ((\A i \in DOMAIN rx : IsMessage(rx[i])) /\ (\A i \in DOMAIN tx : IsMessage(tx[i])))'
<1>1. \A t : Bodies(t) \subseteq Bodies(t)'
  BY Wider
<1>2. ASSUME NEW m, IsMessage(m) PROVE IsMessage(m)'
  BY <1>1, <1>2 DEF IsMessage
<1>3. ASSUME NEW t \in Types, NEW b \in Bodies(t) PROVE IsMessage(Message(t, b))
  BY <1>3, MessageFields DEF IsMessage
<1>4. ASSUME NEW m, Said(m) PROVE IsMessage(m)
  <2>1. CASE m.type \in {"sram", "bootstrap", "key", "import", "done"} /\ m = Message(m.type, None)
    BY <1>3, <2>1, BodiesOf DEF Types
  <2>2. CASE m = Message("individualized", None) \/ m = Message("inputs", None)
    BY <1>3, <2>2, BodiesOf DEF Types
  <2>3. CASE pc = "ExportToken" /\ m = Message("token", ram)
    BY <1>3, <2>3, BodiesOf DEF Types, Inv, Personalizing, Drawn
  <2>4. CASE m = Message("tbs", Keys)
    BY <1>3, <2>4, BodiesOf, KeysAreKeys DEF Types
  <2>5. CASE pc = "Finish" /\ m = Message("hash", certs)
    <3>1. certs \in [CertPages -> {Torn} \cup KeySets]
      BY <2>5 DEF Inv, Shape, Personalizing, CertPages
    <3> QED
      BY <1>3, <2>5, <3>1, BodiesOf DEF Types
  <2> QED
    BY <1>4, <2>1, <2>2, <2>3, <2>4, <2>5 DEF Said
<1>5. ASSUME NEW m, Sent(m) PROVE IsMessage(m)
  <2>1. CASE m.type \in {"bad", "data", "key", "inputs"} /\ m = Message(m.type, None)
    BY <1>3, <2>1, BodiesOf DEF Types
  <2>2. CASE m = Message("certs", Torn)
    BY <1>3, <2>2, BodiesOf DEF Types
  <2>3. CASE hpc = "WaitForImport" /\ m = Message("certs", endorsed)
    <3>1. endorsed \in KeySets
      BY <2>3, KeysAreKeys DEF Inv, Exported
    <3> QED
      BY <1>3, <2>3, <3>1, BodiesOf DEF Types
  <2> QED
    BY <1>5, <2>1, <2>2, <2>3 DEF Sent
<1>6. \A m \in Lines(tx') \cup Lines(rx') : IsMessage(m)'
  BY <1>2, <1>4, <1>5, LinesTyped, LinesOfTx, LinesOfRx
<1> QED
  BY <1>6 DEF Lines

\* The certificate pages.
LEMMA CertTypes ==
  ASSUME Inv, [Next]_vars
  PROVE  certs' \in [CertPages -> {Blank, Torn} \cup KeySets']
<1> USE Wider DEF Inv, Shape
<1>1. certs \in [CertPages -> {Blank, Torn} \cup KeySets']
  OBVIOUS
<1>2. CASE UNCHANGED certs
  BY <1>1, <1>2
<1>3. CASE EraseCerts
  BY <1>3 DEF EraseCerts
<1>4. CASE WriteCertsAs(imported) \/ WriteCertsAs(Torn)
  <2>1. PICK c \in {imported, Torn} : certs' = [certs EXCEPT ![pc] = c] /\ pc \in CertPages
    BY <1>4 DEF WriteCertsAs
  <2>2. c \in {Torn} \cup KeySets'
    BY <2>1 DEF Personalizing
  <2> QED
    BY <1>1, <2>1, <2>2
<1>5. CASE CutStep
  <2>1. CASE pc = "EraseCerts"
    BY <1>1, <1>5, <2>1 DEF CutStep, CutCerts
  <2>2. CASE pc \in CertPages
    <3>1. PICK c \in {certs[pc], Blank, Torn, imported} : certs' = [certs EXCEPT ![pc] = c]
      BY <1>5, <2>2 DEF CutStep, CutCerts, CertPages
    <3>2. c \in {Blank, Torn} \cup KeySets'
      BY <1>1, <2>2, <3>1 DEF Personalizing
    <3> QED
      BY <1>1, <2>2, <3>1, <3>2
  <2>3. CASE pc \notin CertPages \cup {"EraseCerts"}
    BY <1>1, <1>5, <2>3 DEF CutStep, CutCerts
  <2> QED
    BY <2>1, <2>2, <2>3
<1>6. CASE UNCHANGED vars
  BY <1>2, <1>6 DEF vars, chip
<1>7. CASE Device
  BY <1>2, <1>3, <1>4, <1>7 DEF Device, WriteWords, LockPartition, StartSram, ReceiveData,
    IndividualizeDone, Start, RequestBootstrap, AskForKey, ReceiveKey, WriteSeed,
    WriteSeedAs, ExportToken, ReceiveInputs, ReceiveCerts, WriteCerts, Finish, chip
<1>8. CASE Host \/ Rerun
  BY <1>2, <1>8 DEF Host, Rerun, Discard, Hear, Timeout, StartRun, TestExit,
    BootstrapImage, BootstrapAs, chip
<1>9. CASE Faults
  BY <1>2, <1>4, <1>5, <1>9 DEF Faults, PowerLoss, OperationFails, LockFails, WeakWrite,
    WriteSeedAs, LineError, BootstrapLost, BootstrapAs, HostFails, chip
<1> QED
  BY <1>6, <1>7, <1>8, <1>9 DEF Next

\* What is in RAM, of the device and of the host.
LEMMA RamTypes ==
  ASSUME Inv, [Next]_vars
  PROVE  /\ ram' \in {None} \cup Drawings' /\ imported' \in {None, Torn} \cup KeySets'
         /\ token' \in {None} \cup Drawings' /\ endorsed' \in {None} \cup KeySets'
<1> USE Wider DEF Inv
<1>1. /\ ram \in {None} \cup Drawings' /\ imported \in {None, Torn} \cup KeySets'
      /\ token \in {None} \cup Drawings' /\ endorsed \in {None} \cup KeySets'
  BY DEF TypeOK
<1>2. CASE UNCHANGED <<ram, imported, token, endorsed>>
  BY <1>1, <1>2
<1>3. CASE ram' = None /\ imported' = None /\ UNCHANGED <<token, endorsed>>
  BY <1>1, <1>3
<1>4. CASE ReceiveKey
  <2>1. ram' = drawn + 1 /\ drawn' = drawn + 1 /\ UNCHANGED <<imported, token, endorsed>>
    BY <1>4 DEF ReceiveKey, host
  <2> QED
    BY <1>1, <2>1 DEF Drawings, TypeOK
<1>5. CASE ReceiveCerts
  <2>1. imported' = None \/ (rx # <<>> /\ Head(rx).type = "certs" /\ imported' = Head(rx).body)
    BY <1>5, HostTables DEF ReceiveCerts, Receive
  <2>2. rx # <<>> => Head(rx) \in Lines(rx)
    BY LogTail DEF Shape
  <2>3. imported' \in {None, Torn} \cup KeySets'
    BY <2>1, <2>2, LinesTyped
  <2> QED
    BY <1>1, <1>5, <2>3 DEF ReceiveCerts, host
<1>6. CASE Hear
  <2>1. Head(tx) \in Lines(tx) /\ Head(tx).type = Waits[hpc]
    BY <1>6, LogTail DEF Hear, Shape
  <2>2. token' \in {None} \cup Drawings' /\ endorsed' \in {None} \cup KeySets'
    BY <1>1, <1>6, <2>1, LinesTyped, HostTables DEF Hear
  <2> QED
    BY <1>1, <1>6, <2>2 DEF Hear, device
<1>7. CASE UNCHANGED vars
  BY <1>2, <1>7 DEF vars, device, host
<1>8. CASE Device
  BY <1>2, <1>3, <1>4, <1>5, <1>8 DEF Device, WriteWords, LockPartition, StartSram,
    ReceiveData, IndividualizeDone, Start, RequestBootstrap, AskForKey, WriteSeed,
    WriteSeedAs, ExportToken, Restart, EraseCerts, ReceiveInputs, WriteCerts,
    WriteCertsAs, Finish, host
<1>9. CASE Host \/ Rerun
  BY <1>2, <1>3, <1>6, <1>9 DEF Host, Rerun, Discard, Timeout, StartRun, TestExit,
    BootstrapImage, BootstrapAs, Restart, device, host
<1>10. CASE Faults
  BY <1>2, <1>3, <1>10 DEF Faults, PowerLoss, OperationFails, LockFails, WeakWrite,
    WriteCertsAs, WriteSeedAs, LineError, BootstrapLost, BootstrapAs, Restart, HostFails,
    device, host
<1> QED
  BY <1>7, <1>8, <1>9, <1>10 DEF Next

LEMMA ControlTypes ==
  ASSUME Inv, [Next]_vars
  PROVE  /\ mission' \in BOOLEAN /\ image' \in {"none", "plain", "scrambled"}
         /\ runs' \in 1 .. MaxRuns /\ faults' \in 0 .. MaxFaults
         /\ locked' \subseteq digest' /\ locked \subseteq locked'
<1>1. /\ mission \in BOOLEAN /\ image \in {"none", "plain", "scrambled"}
      /\ runs \in 1 .. MaxRuns /\ faults \in 0 .. MaxFaults /\ locked \subseteq digest
      /\ digest \subseteq digest' /\ Encoding \in {"plain", "scrambled"}
  BY Growth DEF Inv, TypeOK, Grows, Encoding
<1>2. mission' \in BOOLEAN /\ image' \in {"none", "plain", "scrambled"}
  BY <1>1 DEF Next, Device, Host, Faults, WriteWords, LockPartition, StartSram,
    ReceiveData, IndividualizeDone, Start, RequestBootstrap, AskForKey, ReceiveKey,
    WriteSeed, WriteSeedAs, ExportToken, EraseCerts, ReceiveInputs, ReceiveCerts,
    WriteCerts, WriteCertsAs, Finish, Rerun, Discard, Hear, Timeout, StartRun, TestExit,
    BootstrapImage, BootstrapAs, PowerLoss, OperationFails, LockFails, WeakWrite,
    LineError, BootstrapLost, HostFails, CutStep, chip, vars
<1>3. runs' \in 1 .. MaxRuns /\ faults' \in 0 .. MaxFaults
  BY <1>1, BoundsAssumption DEF Next, Device, Host, Faults, WriteWords, LockPartition,
    StartSram, ReceiveData, IndividualizeDone, Start, RequestBootstrap, AskForKey,
    ReceiveKey, WriteSeed, WriteSeedAs, ExportToken, EraseCerts, ReceiveInputs,
    ReceiveCerts, WriteCerts, WriteCertsAs, Finish, Rerun, Discard, Hear, Timeout,
    StartRun, TestExit, BootstrapImage, BootstrapAs, PowerLoss, OperationFails, LockFails,
    WeakWrite, LineError, BootstrapLost, HostFails, Fault, host, vars
<1>4. locked' \subseteq digest' /\ locked \subseteq locked'
  BY <1>1 DEF Next, Device, Host, Faults, WriteWords, LockPartition, StartSram,
    ReceiveData, Restart, IndividualizeDone, Start, RequestBootstrap, AskForKey,
    ReceiveKey, WriteSeed, WriteSeedAs, ExportToken, EraseCerts, ReceiveInputs,
    ReceiveCerts, WriteCerts, WriteCertsAs, Finish, Rerun, Discard, Hear, Timeout,
    StartRun, TestExit, BootstrapImage, BootstrapAs, PowerLoss, OperationFails, LockFails,
    WeakWrite, LineError, BootstrapLost, HostFails, device, vars
<1> QED
  BY <1>2, <1>3, <1>4

LEMMA CheckPlaces ==
  /\ {AtHwCfg0, AtHwCfg1, AtCreator, AtSecret1, AtSecret2, Boots} \subseteq Places
  /\ \A p \in DOMAIN AfterWrite : AfterWrite[p] \in Places
  /\ \A p \in DOMAIN Locks : AfterLock[p] \in Places
  /\ \A p \in SeedPages : AfterSeed[p] \in Places
<1>1. {AtHwCfg0, AtHwCfg1, AtCreator, AtSecret1, AtSecret2, Boots} \subseteq Places
  BY Tables DEF AtHwCfg0, AtHwCfg1, AtCreator, AtSecret1, AtSecret2, Boots, Places, Words,
    Given, Secrets
<1>2. \A p \in DOMAIN AfterWrite : AfterWrite[p] \in Places
  BY Tables DEF Places, Words, Given, Secrets
<1>3. \A p \in DOMAIN Locks : AfterLock[p] \in Places
  BY <1>1, Tables DEF Places, Words, Given, Secrets
<1>4. \A p \in SeedPages : AfterSeed[p] \in Places
  BY Tables DEF Places, SeedPages, Words, Secrets
<1> QED
  BY <1>1, <1>2, <1>3, <1>4

\* How the host gets on.
Turns ==
  /\ UNCHANGED <<token, endorsed>>
  /\ \/ hpc' \in {hpc, "Failed", "ReadLcState"}
     \/ /\ hpc' \in {"WaitForSram", "Bootstrap", "WaitForRequest", "WaitForKeyRequest"}
        /\ hpc' # "WaitForSram" => mission'
        /\ pc' \in {"Sram", "Halted", "Start"} /\ rx' = <<>>
        /\ tx' = <<>> \/ (hpc = "TestExit" /\ tx' = tx)
LEMMA StepsOfHost ==
  ASSUME Inv, [Next]_vars
  PROVE  Turns \/ Hear
<1>1. CASE UNCHANGED host \/ HostFails \/ Timeout \/ Rerun
  BY <1>1 DEF HostFails, Timeout, Rerun, host, Turns
<1>2. CASE StartRun \/ TestExit
  BY <1>2 DEF StartRun, TestExit, Restart, chip, Turns
<1>3. CASE BootstrapImage \/ BootstrapLost
  BY <1>3, HostTables DEF BootstrapImage, BootstrapLost, BootstrapAs, Restart, Turns, Inv,
    MissionFirst
<1>4. CASE Device
  BY <1>1, <1>4 DEF Device, WriteWords, LockPartition, StartSram, ReceiveData,
    IndividualizeDone, Start, RequestBootstrap, AskForKey, ReceiveKey, WriteSeed,
    WriteSeedAs, ExportToken, EraseCerts, ReceiveInputs, ReceiveCerts, WriteCerts,
    WriteCertsAs, Finish
<1>5. CASE Host \/ Rerun \/ UNCHANGED vars
  BY <1>1, <1>2, <1>3, <1>5 DEF Host, Discard, vars
<1>6. CASE Faults
  BY <1>1, <1>3, <1>6 DEF Faults, WriteSeedAs, WriteCertsAs, PowerLoss, OperationFails,
    LockFails, WeakWrite, LineError
<1> QED
  BY <1>4, <1>5, <1>6 DEF Next

LEMMA PlaceTypes ==
  ASSUME Inv, [Next]_vars
  PROVE  pc' \in Places /\ hpc' \in HostPlaces
<1>1. pc \in Places /\ hpc \in HostPlaces
  BY DEF Inv, TypeOK, Places, HostPlaces
<1>2. {"Halted", "Sram", "Start", "AskForKey", "ReceiveData", "ReceiveKey", "ReceiveInputs",
       "ReceiveCerts", "CreatorSeed", "DiceCerts", "TpmCerts", "Finish", "Done"} \subseteq Places
  BY HostTables DEF Places, SeedPages, CertPages
<1>3. pc' \in Places
  <2>1. CASE Device
    <3>1. CASE WriteWords \/ LockPartition
      BY <1>2, <3>1, CheckPlaces DEF WriteWords, LockPartition
    <3>2. CASE StartSram \/ ReceiveData \/ IndividualizeDone \/ Start \/ RequestBootstrap
               \/ AskForKey \/ ReceiveKey \/ ExportToken
      BY <1>2, <3>2, CheckPlaces DEF StartSram, ReceiveData, IndividualizeDone, Start,
        RequestBootstrap, AskForKey, ReceiveKey, Receive, ExportToken, Restart
    <3>3. CASE WriteSeed \/ EraseCerts \/ ReceiveInputs \/ ReceiveCerts \/ WriteCerts \/ Finish
      BY <1>2, <3>3, CheckPlaces DEF WriteSeed, WriteSeedAs, EraseCerts, ReceiveInputs,
        ReceiveCerts, Receive, WriteCerts, WriteCertsAs, Finish
    <3> QED
      BY <2>1, <3>1, <3>2, <3>3 DEF Device
  <2>2. CASE Host \/ Rerun \/ Faults \/ UNCHANGED vars
    BY <1>1, <1>2, <2>2, CheckPlaces DEF Host, Rerun, Faults, Discard, Hear, Timeout,
      StartRun, TestExit, BootstrapImage, BootstrapAs, Restart, PowerLoss, OperationFails,
      LockFails, WeakWrite, WriteSeedAs, WriteCertsAs, LineError, BootstrapLost,
      HostFails, device, vars
  <2> QED
    BY <2>1, <2>2 DEF Next
<1>4. hpc' \in HostPlaces
  BY <1>1, StepsOfHost, HostTables DEF Turns, Hear, HostPlaces
<1> QED
  BY <1>3, <1>4

LEMMA TypesKept ==
  ASSUME Inv, [Next]_vars
  PROVE  TypeOK' /\ Shape'
<1>1. /\ \A w \in Given : otp'[w] \in {Blank, Partial, Torn, 0}
      /\ \A w \in Secrets : otp'[w] \in {Blank, Partial, Torn} \cup Drawings'
  BY StoredTypes DEF ValueOf, Words, Given, Secrets
<1>2. pc' \in Places' /\ hpc' \in HostPlaces'
  BY PlaceTypes DEF Places, HostPlaces
<1>3. Shape'
  BY StoredTypes, CertTypes, LinesOfTx, LinesOfRx DEF Shape
<1>4. /\ \A p \in SeedPages : seeds'[p] \in SeedContents'
      /\ \A p \in CertPages : certs'[p] \in {Blank, Torn} \cup KeySets'
  BY <1>3 DEF Shape
<1> QED
  BY <1>1, <1>2, <1>3, <1>4, StoredTypes, RamTypes, ControlTypes, LineTypes, Wider
  DEF TypeOK, Places, HostPlaces
-----------------------------------------------------------------------------
\* Which partition a step may lock.
LEMMA StepsOfDigest ==
  ASSUME Inv, [Next]_vars
  PROVE  \/ digest' = digest
         \/ /\ pc \in DOMAIN Locks /\ digest' = digest \cup {Locks[pc]}
            /\ UNCHANGED <<otp, seeds, mission>>
            /\ locked' = digest' \/ pc' = AfterLock[pc]
<1>1. CASE PowerLoss
  <2>1. CutStep /\ locked' = digest'
    BY <1>1 DEF PowerLoss
  <2>2. CASE pc \in DOMAIN Locks
    <3>1. pc \notin Words /\ pc \notin SeedPages
      BY <2>2, Tables DEF Words, Given, Secrets, SeedPages
    <3> QED
      BY <2>1, <2>2, <3>1, Tables DEF CutStep, CutOtp, CutSeeds, CutDigest
  <2>3. CASE pc \notin DOMAIN Locks
    BY <2>1, <2>3 DEF CutStep, CutDigest
  <2> QED
    BY <2>2, <2>3
<1>2. CASE OperationFails
  <2>1. pc \notin DOMAIN Locks
    BY <1>2, Tables DEF OperationFails, Words, Given, Secrets, SeedPages, CertPages
  <2> QED
    BY <1>2, <2>1 DEF OperationFails, CutStep, CutDigest
<1>3. CASE LockPartition
  BY <1>3 DEF LockPartition
<1>4. CASE Device
  BY <1>3, <1>4 DEF Device, WriteWords, StartSram, ReceiveData, IndividualizeDone, Start,
    RequestBootstrap, AskForKey, ReceiveKey, WriteSeed, WriteSeedAs, ExportToken,
    EraseCerts, ReceiveInputs, ReceiveCerts, WriteCerts, WriteCertsAs, Finish, chip
<1>5. CASE Host \/ Rerun \/ UNCHANGED vars
  BY <1>5 DEF Host, Rerun, Discard, Hear, Timeout, StartRun, TestExit,
    BootstrapImage, BootstrapAs, chip, vars
<1>6. CASE Faults
  BY <1>1, <1>2, <1>6 DEF Faults, LockFails, WeakWrite, WriteCertsAs,
    WriteSeedAs, LineError, BootstrapLost, BootstrapAs, HostFails, chip
<1> QED
  BY <1>4, <1>5, <1>6 DEF Next

\* The places before a lock have what the lock needs.
LEMMA LockedKept ==
  ASSUME Inv, [Next]_vars
  PROVE  LockedIsWhole'
<1> USE DEF Inv
<1>1. Grows /\ TypeOK' /\ Shape'
  BY Growth, TypesKept
<1>2. ASSUME NEW p \in digest PROVE Whole(otp'[p])
  BY <1>1, <1>2 DEF LockedIsWhole, Grows, TypeOK, Partitions, SwPartitions, Words, Given,
    Secrets
<1>3. otp["FlashCfg"] = 0 => otp'["FlashCfg"] = 0
  BY <1>1, Marks DEF Grows, Words, Given
<1>4. "Secret2" \in digest =>
        /\ "Secret1" \in digest'
        /\ \A p \in SeedPages : seeds'[p] = [drawing |-> otp'["Secret2"], key |-> otp'["Secret1"]]
  BY <1>1 DEF LockedIsWhole, Grows, Words, Secrets
<1>5. mission' => \A w \in Given \ {"FlashCfg"} : otp'[w] = 0
  <2>1. mission' => AllGiven
    <3>1. CASE TestExit
      BY <3>1 DEF TestExit, Individualizing
    <3>2. CASE mission' = mission
      BY <3>2 DEF LockedIsWhole, AllGiven
    <3> QED
      BY <3>1, <3>2 DEF Next, Device, Host, Faults, WriteWords, LockPartition, StartSram,
        ReceiveData, IndividualizeDone, Start, RequestBootstrap, AskForKey, ReceiveKey,
        WriteSeed, WriteSeedAs, ExportToken, EraseCerts, ReceiveInputs, ReceiveCerts,
        WriteCerts, WriteCertsAs, Finish, Rerun, Discard, Hear, Timeout, StartRun,
        BootstrapImage, BootstrapAs, PowerLoss, OperationFails, LockFails, WeakWrite,
        LineError, BootstrapLost, HostFails, CutStep, chip, vars
  <2> QED
    BY <1>1, <2>1, Marks DEF AllGiven, Grows, Words
<1>6. CASE digest' = digest
  BY <1>2, <1>3, <1>4, <1>5, <1>6 DEF LockedIsWhole
<1>7. CASE /\ pc \in DOMAIN Locks /\ digest' = digest \cup {Locks[pc]}
           /\ UNCHANGED <<otp, seeds, mission>>
  <2>1. Whole(otp[Locks[pc]])
    <3>1. CASE pc \in {"LockHwCfg0", "LockHwCfg1", "LockOwnerSwCfg"}
      BY <3>1, Tables, Marks DEF Individualizing
    <3>2. CASE pc = "LockCreatorSwCfg"
      <4>1. otp["CreatorSwCfg"] = 0
        BY <3>2 DEF MissionFirst, LockedIsWhole, InSram, Given
      <4> QED
        BY <3>2, <4>1, Tables, Marks
    <3>3. CASE pc = "LockSecret1"
      BY <3>3, Tables DEF Personalizing
    <3>4. CASE pc = "LockSecret2"
      BY <3>4, Tables, Marks, Wider DEF Personalizing, Drawn
    <3> QED
      BY <1>7, <3>1, <3>2, <3>3, <3>4, Tables
  <2>2. pc = "LockCreatorSwCfg" => otp["FlashCfg"] = 0
    BY DEF Personalizing
  <2>3. pc = "LockSecret2" =>
          /\ "Secret1" \in digest
          /\ \A p \in SeedPages : seeds[p] = [drawing |-> otp["Secret2"], key |-> otp["Secret1"]]
    BY DEF Personalizing, Drawn, SeedPages, Seed, ScramblingKey, TypeOK
  <2>4. Locks[pc] = "CreatorSwCfg" => pc = "LockCreatorSwCfg"
    BY <1>7, Tables
  <2>5. Locks[pc] = "Secret2" => pc = "LockSecret2"
    BY <1>7, Tables
  <2>6. \A p \in digest' : Whole(otp'[p])
    BY <1>2, <1>7, <2>1
  <2>7. "CreatorSwCfg" \in digest' => otp'["FlashCfg"] = 0
    BY <1>7, <2>2, <2>4 DEF LockedIsWhole
  <2>8. "Secret2" \in digest' =>
        /\ "Secret1" \in digest'
        /\ \A p \in SeedPages : seeds'[p] = [drawing |-> otp'["Secret2"], key |-> otp'["Secret1"]]
    BY <1>4, <1>7, <2>3, <2>5
  <2> QED
    BY <1>5, <2>6, <2>7, <2>8 DEF LockedIsWhole
<1> QED
  BY <1>6, <1>7, StepsOfDigest

LEMMA LockingKept ==
  ASSUME Inv, [Next]_vars
  PROVE  Locking'
<1> USE DEF Inv
<1>1. Grows
  BY Growth
<1>2. Whole(otp["Secret1"]) => Whole(otp'["Secret1"])
  BY <1>1 DEF Grows, Words, Secrets
<1>3. "Secret2" \in digest \ locked =>
        locked' = digest' \/ (pc' = "ExportToken" /\ UNCHANGED <<digest, locked>>)
  <2>1. "Secret2" \in digest \ locked => pc = "ExportToken"
    BY DEF Locking
  <2>2. CASE pc = "ExportToken"
    <3>1. pc \notin DOMAIN AfterWrite \cup DOMAIN Locks \cup DOMAIN Receiving
                    \cup SeedPages \cup CertPages
      BY <2>2, Tables, HostTables DEF Words, Given, Secrets, SeedPages, CertPages
    <3>2. CASE Device \/ Rerun \/ UNCHANGED vars
      BY <2>2, <3>1, <3>2, HostTables DEF Device, WriteWords, LockPartition, StartSram,
        ReceiveData, IndividualizeDone, Start, RequestBootstrap, AskForKey, ReceiveKey,
        WriteSeed, WriteSeedAs, ExportToken, Restart, EraseCerts, ReceiveInputs,
        ReceiveCerts, WriteCerts, WriteCertsAs, Finish, chip, Rerun, device, vars
    <3>3. CASE Host
      BY <2>2, <3>3 DEF Host, Discard, Hear, Timeout, StartRun, TestExit, BootstrapImage,
        BootstrapAs, Restart, chip, device
    <3>4. CASE Faults
      BY <2>2, <3>1, <3>4 DEF Faults, PowerLoss, OperationFails, LockFails, WeakWrite,
        WriteCertsAs, WriteSeedAs, LineError, BootstrapLost, BootstrapAs, Restart,
        HostFails, chip, device
    <3> QED
      BY <3>2, <3>3, <3>4 DEF Next
  <2> QED
    BY <2>1, <2>2
<1>4. "Secret2" \in digest /\ "Secret2" \notin locked' => pc' = "ExportToken"
  <2>1. "Secret2" \in locked => "Secret2" \in locked'
    BY ControlTypes
  <2>2. digest \subseteq digest'
    BY <1>1 DEF Grows
  <2> QED
    BY <1>3, <2>1, <2>2
<1>5. CASE digest' = digest
  BY <1>2, <1>4, <1>5 DEF Locking
<1>6. CASE /\ pc \in DOMAIN Locks /\ digest' = digest \cup {Locks[pc]}
           /\ UNCHANGED <<otp, seeds, mission>>
           /\ locked' = digest' \/ pc' = AfterLock[pc]
  <2>1. CASE pc \in {"LockHwCfg0", "LockHwCfg1", "LockOwnerSwCfg"}
    BY <1>2, <1>4, <1>6, <2>1, Tables DEF Locking, Before
  <2>2. CASE pc = "LockCreatorSwCfg"
    BY <1>2, <1>4, <1>6, <2>2, Tables DEF Locking, Before, Personalizing
  <2>3. CASE pc = "LockSecret1"
    BY <1>2, <1>4, <1>6, <2>3, Tables DEF Locking, Before, Personalizing
  <2>4. CASE pc = "LockSecret2"
    <3>1. Before \cup {"Secret1"} \subseteq digest
      BY <2>4 DEF Personalizing, Drawn, TypeOK
    <3>2. digest' = digest \cup {"Secret2"} /\ (locked' = digest' \/ pc' = "ExportToken")
      BY <1>6, <2>4, Tables
    <3> QED
      BY <1>2, <3>1, <3>2 DEF Locking, Before
  <2> QED
    BY <1>6, <2>1, <2>2, <2>3, <2>4, Tables
<1> QED
  BY <1>5, <1>6, StepsOfDigest

\* How the device gets on: it stays, it is reset or ends, or it takes one of its steps.
Stays == UNCHANGED <<chip, pc, ram, locked, imported>>
Restarts == pc' \in {"Halted", "Sram", "Start"}
Takes ==
  \/ WriteWords /\ Writable(pc)
  \/ (LockPartition \/ LockFails) /\ pc' = AfterLock[pc]
  \/ StartSram \/ ReceiveData \/ Start \/ AskForKey \/ ReceiveKey
  \/ WriteSeedAs(Seed) \/ ExportToken \/ EraseCerts \/ ReceiveInputs \/ ReceiveCerts
  \/ WriteCertsAs(imported) \/ WriteCertsAs(Torn) \/ Finish

LEMMA StepsOfPc ==
  ASSUME [Next]_vars
  PROVE  Stays \/ Restarts \/ Takes
<1>1. CASE WriteWords \/ IndividualizeDone \/ RequestBootstrap
  BY <1>1 DEF WriteWords, IndividualizeDone, RequestBootstrap, Restarts, Takes
<1>2. CASE \E c \in {Seed, Torn} : WriteSeedAs(c)
  BY <1>2 DEF WriteSeedAs, Restarts, Takes
<1>3. CASE Device
  BY <1>1, <1>2, <1>3 DEF Device, WriteSeed, WriteCerts, LockPartition, Takes
<1>4. CASE StartRun \/ TestExit \/ BootstrapImage \/ BootstrapLost
  BY <1>4 DEF StartRun, TestExit, BootstrapImage, BootstrapLost, BootstrapAs, Restart,
    Restarts
<1>5. CASE Host \/ Rerun \/ UNCHANGED vars
  BY <1>4, <1>5 DEF Host, Rerun, Discard, Hear, Timeout, device, vars, Stays
<1>6. CASE Faults
  <2>1. CASE PowerLoss \/ OperationFails
    BY <2>1 DEF PowerLoss, OperationFails, Restarts
  <2>2. CASE LineError \/ HostFails
    BY <2>2 DEF LineError, HostFails, device, Stays
  <2>3. CASE LockFails
    BY <2>3 DEF LockFails, Restarts, Takes
  <2> QED
    BY <1>2, <1>4, <1>6, <2>1, <2>2, <2>3 DEF Faults, WeakWrite, Takes
<1> QED
  BY <1>3, <1>5, <1>6 DEF Next

LEMMA IndividualizingKept ==
  ASSUME Inv, [Next]_vars
  PROVE  Individualizing'
<1> USE DEF Inv
<1> DEFINE S1 == {"LockHwCfg0", "HwCfg1", "LockHwCfg1", "CreatorSwCfg", "OwnerSwCfg",
                  "LockOwnerSwCfg", "IndividualizeDone"}
           S2 == {"LockHwCfg1", "CreatorSwCfg", "OwnerSwCfg", "LockOwnerSwCfg", "IndividualizeDone"}
           S3 == {"OwnerSwCfg", "LockOwnerSwCfg", "IndividualizeDone"}
           S4 == {"LockOwnerSwCfg", "IndividualizeDone"}
<1>1. \A w \in Given : otp[w] = 0 => otp'[w] = 0
  BY Growth, Marks DEF Grows, Words
<1>2. \A w \in Given : w \in locked => otp[w] = 0
  BY DEF LockedIsWhole, TypeOK, Whole
<1>3. /\ pc' \in S1 => otp'["HwCfg0"] = 0
      /\ pc' \in S2 => otp'["HwCfg1"] = 0
      /\ pc' \in S3 => otp'["CreatorSwCfg"] = 0
      /\ pc' \in S4 => otp'["OwnerSwCfg"] = 0
  <2>1. CASE Stays \/ Restarts
    BY <1>1, <2>1 DEF Individualizing, Stays, Restarts, Given, chip
  <2>2. CASE WriteWords /\ Writable(pc)
    <3>1. otp' = [otp EXCEPT ![pc] = Value(pc)] /\ pc' = AfterWrite[pc] /\ pc \in Words
      BY <2>2, Tables DEF WriteWords
    <3>2. pc \in Given => otp'[pc] = 0
      BY <3>1 DEF Shape, Value, Given
    <3> QED
      BY <1>1, <3>1, <3>2, Tables DEF Individualizing, Words, Given, Secrets
  <2>3. CASE (LockPartition \/ LockFails) /\ pc' = AfterLock[pc]
    <3>1. pc' = AfterLock[pc] /\ otp' = otp /\ pc \in DOMAIN Locks
      BY <2>3 DEF LockPartition, LockFails, chip
    <3>2. AtCreator \notin S1
      BY DEF AtCreator, AtSecret2
    <3> QED
      BY <1>2, <3>1, <3>2, Tables DEF Individualizing, AtHwCfg1, Given
  <2>4. CASE ReceiveData
    BY <1>1, <1>2, <2>4 DEF ReceiveData, Receive, AtHwCfg0, AtHwCfg1, Given, chip
  <2>5. CASE Takes
    BY <2>2, <2>3, <2>4, <2>5, Tables DEF Takes, StartSram, Start, AskForKey, ReceiveKey,
      Receive, WriteSeedAs, ExportToken, Restart, Boots, EraseCerts, ReceiveInputs,
      ReceiveCerts, WriteCertsAs, Finish, AtSecret1, AtCreator, AtSecret2, SeedPages
  <2> QED
    BY <2>1, <2>5, StepsOfPc
<1>4. Told(tx', "individualized") \/ hpc' = "TestExit" => AllGiven
  <2>1. Told(tx', "individualized") => AllGiven
    <3>1. ASSUME NEW m, Said(m), m.type = "individualized" PROVE pc = "IndividualizeDone"
      BY <3>1, MessageFields DEF Said
    <3>2. pc = "IndividualizeDone" => AllGiven
      BY DEF Individualizing, AllGiven, Given
    <3> QED
      BY <3>1, <3>2, LinesOfTx DEF Told, Individualizing
  <2>2. hpc' = "TestExit" => hpc = "TestExit" \/ Told(tx, "individualized")
    <3>1. CASE Hear
      <4>1. Head(tx) \in Lines(tx) /\ Head(tx).type = Waits[hpc] /\ hpc \in DOMAIN Waits
        BY <3>1, LogTail DEF Hear, Shape
      <4>2. hpc' = "TestExit" => hpc = "WaitForSramDone"
        BY <3>1, <4>1, HostTables DEF Hear
      <4> QED
        BY <4>1, <4>2, HostTables DEF Told
    <3> QED
      BY <3>1, StepsOfHost DEF Turns
  <2> QED
    BY <2>1, <2>2 DEF Individualizing
<1>5. AllGiven => AllGiven'
  BY <1>1 DEF AllGiven
<1> QED
  BY <1>3, <1>4, <1>5 DEF Individualizing

LEMMA MissionFirstKept ==
  ASSUME Inv, [Next]_vars
  PROVE  MissionFirst'
<1> USE DEF Inv
<1>1. mission => mission'
  BY Growth DEF Grows
<1>2. image' # "none" => mission'
  BY <1>1 DEF MissionFirst, Next, Device, Host, Faults, WriteWords, LockPartition,
    StartSram, ReceiveData, IndividualizeDone, Start, RequestBootstrap, AskForKey,
    ReceiveKey, WriteSeed, WriteSeedAs, ExportToken, EraseCerts, ReceiveInputs,
    ReceiveCerts, WriteCerts, WriteCertsAs, Finish, Rerun, Discard, Hear, Timeout,
    StartRun, TestExit, BootstrapImage, BootstrapAs, PowerLoss, OperationFails, LockFails,
    WeakWrite, LineError, BootstrapLost, HostFails, AfterBootstrap, CutStep, chip, vars
<1>3. pc' \notin InSram \cup {"Halted"} => mission'
  <2>1. CASE Stays
    BY <1>1, <2>1 DEF Stays, MissionFirst
  <2>2. CASE Restarts
    <3>1. pc' = "Start" => image' # "none" \/ mission
      <4>1. CASE UNCHANGED pc \/ ExportToken \/ BootstrapImage
        BY <4>1, HostTables DEF MissionFirst, InSram, ExportToken, BootstrapImage,
          BootstrapAs
      <4>2. CASE PowerLoss
        BY <4>2 DEF PowerLoss, CutStep
      <4>3. CASE Device
        BY <2>2, <4>1, <4>3, Tables DEF Device, WriteWords, LockPartition, StartSram,
          ReceiveData, IndividualizeDone, Start, RequestBootstrap, AskForKey, ReceiveKey,
          Receive, WriteSeed, WriteSeedAs, EraseCerts, ReceiveInputs, ReceiveCerts,
          WriteCerts, WriteCertsAs, Finish, AtHwCfg0, AtHwCfg1, AtSecret1, AtCreator,
          AtSecret2, SeedPages, Words, Given, Secrets
      <4>4. CASE Host \/ Rerun \/ UNCHANGED vars
        BY <4>1, <4>4 DEF Host, Rerun, Discard, Hear, Timeout, StartRun, TestExit,
          Restart, device, vars
      <4>5. CASE Faults
        BY <4>1, <4>2, <4>5, Tables DEF Faults, OperationFails, LockFails, WeakWrite,
          WriteSeedAs, WriteCertsAs, LineError, BootstrapLost, BootstrapAs, Restart,
          HostFails, device, AtHwCfg1, AtCreator, AtSecret2, SeedPages
      <4> QED
        BY <4>3, <4>4, <4>5 DEF Next
    <3> QED
      BY <1>1, <1>2, <2>2, <3>1 DEF Restarts, InSram
  <2>3. CASE Takes
    <3>1. CASE pc \notin InSram \cup {"Halted"}
      BY <1>1, <3>1 DEF MissionFirst
    <3>2. CASE pc \in InSram \cup {"Halted"}
      <4>1. CASE WriteWords /\ Writable(pc)
        BY <3>2, <4>1, Tables DEF WriteWords, InSram, Words, Given, Secrets
      <4>2. CASE LockPartition \/ LockFails
        BY <3>2, <4>2, Tables DEF LockPartition, LockFails, InSram, AtHwCfg1
      <4> QED
        BY <2>3, <3>2, <4>1, <4>2 DEF Takes, StartSram, ReceiveData, Receive, Start,
          AskForKey, ReceiveKey, WriteSeedAs, SeedPages, ExportToken, EraseCerts,
          ReceiveInputs, ReceiveCerts, WriteCertsAs, CertPages, Finish, InSram, AtHwCfg0,
          AtHwCfg1
    <3> QED
      BY <3>1, <3>2
  <2> QED
    BY <2>1, <2>2, <2>3, StepsOfPc
<1>4. hpc' \notin {"ReadLcState", "WaitForSram", "WaitForSramDone", "TestExit", "Failed"} => mission'
  <2>1. CASE Turns
    BY <1>1, <2>1 DEF Turns, MissionFirst
  <2>2. CASE Hear
    BY <1>1, <2>2, HostTables DEF Hear, MissionFirst
  <2> QED
    BY <2>1, <2>2, StepsOfHost
<1> QED
  BY <1>2, <1>3, <1>4 DEF MissionFirst

LEMMA PersonalizingKept ==
  ASSUME Inv, [Next]_vars
  PROVE  Personalizing'
<1> USE DEF Inv
<1> DEFINE Unlocked == {"Secret1", "LockSecret1", "FlashCfg", "LockCreatorSwCfg", "AskForKey",
                       "ReceiveKey"}
<1>1. CASE pc' \notin Unlocked \cup Drawn \cup Endorsed
  BY <1>1 DEF Personalizing, Drawn, SeedPages, Endorsed, CertPages
<1>2. CASE Restarts
  BY <1>1, <1>2 DEF Restarts, Drawn, SeedPages, Endorsed
<1>3. /\ Drawings \subseteq Drawings' /\ KeySets \subseteq KeySets' /\ Drawings \subseteq Nat
      /\ \A w \in Words : Whole(otp[w]) => otp'[w] = otp[w]
      /\ digest \subseteq digest' /\ locked \subseteq locked' /\ locked \subseteq digest
      /\ drawn \in Nat
  BY Wider, Growth, ControlTypes DEF Grows, TypeOK
<1>4. CASE Stays
  <2>1. UNCHANGED <<otp, digest, seeds, certs, pc, ram, locked, imported>>
    BY <1>4 DEF Stays, chip
  <2>2. Seed' = Seed
    BY <2>1 DEF Seed, ScramblingKey
  <2>3. pc' \in Drawn => "Secret1" \in locked' /\ ram' \in Drawings'
    BY <1>3, <2>1 DEF Personalizing
  <2>4. /\ pc' \in {"OwnerSeed", "AttestationSeeds", "Secret2", "LockSecret2"} =>
             seeds'["CreatorSeed"] = Seed'
        /\ pc' \in {"AttestationSeeds", "Secret2", "LockSecret2"} => seeds'["OwnerSeed"] = Seed'
        /\ pc' \in {"Secret2", "LockSecret2"} => seeds'["AttestationSeeds"] = Seed'
    BY <2>1, <2>2 DEF Personalizing
  <2>5. /\ pc' \in CertPages => imported' \in {Torn} \cup KeySets'
        /\ pc' \in {"TpmCerts", "Finish"} => certs'["DiceCerts"] \in {Torn} \cup KeySets'
        /\ pc' = "Finish" => certs'["TpmCerts"] \in {Torn} \cup KeySets'
    BY <1>3, <2>1 DEF Personalizing
  <2> QED
    BY <2>1, <2>3, <2>4, <2>5 DEF Personalizing, Whole
<1>5. \A p \in Partitions : p \in locked => Whole(otp[p])
  BY <1>3 DEF LockedIsWhole
<1>6. CASE WriteWords /\ Writable(pc)
  <2>1. /\ otp' = [otp EXCEPT ![pc] = Value(pc)] /\ pc' = AfterWrite[pc] /\ pc \in Words
        /\ UNCHANGED <<digest, seeds, locked, ram>>
    BY <1>6, Tables DEF WriteWords
  <2>2. otp'[pc] = Value(pc)
    BY <2>1 DEF Shape
  <2>3. CASE pc = "Secret1"
    <3>1. otp["Secret1"] = Blank /\ Whole(otp'["Secret1"])
      BY <1>3, <1>6, <2>2, <2>3, Marks DEF Writable, Given, Value
    <3>2. "CreatorSwCfg" \notin digest
      BY <3>1, Marks DEF Locking
    <3> QED
      BY <2>1, <2>3, <3>1, <3>2, Tables DEF Personalizing, Drawn, SeedPages, Endorsed,
        CertPages
  <2>4. CASE pc = "FlashCfg"
    <3>1. otp'["FlashCfg"] = 0 /\ Whole(otp'["Secret1"])
      BY <1>3, <2>2, <2>4 DEF Personalizing, Value, Words, Secrets
    <3> QED
      BY <2>1, <2>4, <3>1, Tables DEF Personalizing, Drawn, SeedPages, Endorsed, CertPages
  <2>5. CASE pc = "Secret2"
    <3>1. otp'["Secret2"] = ram
      BY <2>2, <2>5 DEF Value
    <3>2. otp'["Secret1"] = otp["Secret1"]
      BY <2>1, <2>5 DEF Shape
    <3>3. Seed' = Seed
      BY <2>1, <3>2 DEF Seed, ScramblingKey
    <3> QED
      BY <1>3, <2>1, <2>5, <3>1, <3>3, Tables DEF Personalizing, Drawn, SeedPages,
        Endorsed, CertPages
  <2> QED
    BY <1>1, <2>1, <2>3, <2>4, <2>5, Tables DEF Words, Given, Secrets, Drawn, SeedPages,
      Endorsed
<1>7. CASE (LockPartition \/ LockFails) /\ pc' = AfterLock[pc]
  <2>1. /\ pc \in DOMAIN Locks /\ pc' = AfterLock[pc] /\ digest' \subseteq digest \cup {Locks[pc]}
        /\ UNCHANGED <<otp, seeds, locked, ram>>
    BY <1>7 DEF LockPartition, LockFails, chip
  <2>2. CASE pc = "LockSecret1"
    <3>1. "CreatorSwCfg" \notin locked
      BY <1>3, <2>2 DEF Personalizing
    <3>2. pc' = "FlashCfg"
      BY <2>1, <2>2, <3>1, Tables DEF AtCreator
    <3> QED
      BY <1>3, <2>1, <2>2, <3>2 DEF Personalizing, Drawn, SeedPages, Endorsed, CertPages
  <2>3. CASE pc = "LockSecret2"
    <3>1. pc' = "ExportToken"
      BY <2>1, <2>3, Tables
    <3> QED
      BY <1>3, <2>1, <2>3, <3>1 DEF Personalizing, Drawn, SeedPages, Endorsed, CertPages
  <2> QED
    BY <1>1, <2>1, <2>2, <2>3, Tables DEF AtHwCfg1, Drawn, SeedPages, Endorsed
<1>8. CASE Start
  <2>1. pc' = AtSecret1 /\ UNCHANGED <<otp, digest, locked>>
    BY <1>8 DEF Start, chip
  <2>2. CASE pc' = "Secret1"
    <3>1. {"HwCfg0", "HwCfg1"} \subseteq digest
      BY <1>3, <2>1, <2>2 DEF AtSecret1, AtCreator, AtSecret2
    <3> QED
      BY <2>1, <2>2, <3>1 DEF Personalizing, Drawn, SeedPages, Endorsed, CertPages
  <2>3. CASE pc' = "FlashCfg"
    BY <1>3, <1>5, <2>1, <2>3 DEF AtSecret1, AtCreator, AtSecret2, Personalizing, Drawn,
      SeedPages, Endorsed, CertPages, Locking, Partitions
  <2>4. CASE pc' = "AskForKey"
    <3>1. "CreatorSwCfg" \in digest /\ "Secret2" \notin locked
      BY <1>3, <2>1, <2>4 DEF AtSecret1, AtCreator, AtSecret2
    <3>2. "Secret2" \notin digest
      BY <1>8, <3>1 DEF Locking, Start
    <3> QED
      BY <2>1, <2>4, <3>1, <3>2 DEF Locking, Personalizing, Drawn, SeedPages, Endorsed,
        CertPages, Before
  <2>5. CASE pc' = "EraseCerts"
    BY <1>3, <2>1, <2>5 DEF AtSecret1, AtCreator, AtSecret2, Personalizing, Drawn,
      SeedPages, Endorsed, CertPages
  <2>6. pc' \in {"Secret1", "FlashCfg", "AskForKey", "EraseCerts", "Halted"}
    BY <2>1 DEF AtSecret1, AtCreator, AtSecret2
  <2> QED
    BY <1>1, <2>2, <2>3, <2>4, <2>5, <2>6 DEF Drawn, SeedPages, Endorsed
<1>9. CASE AskForKey
  BY <1>9 DEF AskForKey, chip, Personalizing, Drawn, SeedPages, Endorsed, CertPages
<1>10. CASE ReceiveKey
  BY <1>1, <1>3, <1>10 DEF ReceiveKey, Receive, chip, Personalizing, Drawings, Drawn,
    SeedPages, Endorsed, CertPages
<1>11. CASE WriteSeedAs(Seed)
  <2>1. /\ pc \in SeedPages /\ seeds' = [seeds EXCEPT ![pc] = Seed] /\ pc' = AfterSeed[pc]
        /\ UNCHANGED <<otp, digest, locked, ram, drawn>>
    BY <1>11 DEF WriteSeedAs
  <2>2. Seed' = Seed
    BY <2>1 DEF Seed, ScramblingKey
  <2> QED
    BY <2>1, <2>2, Tables DEF Shape, Personalizing, Drawn, SeedPages, Endorsed, CertPages,
      Drawings
<1>12. CASE EraseCerts \/ ReceiveInputs
  BY <1>1, <1>12 DEF EraseCerts, ReceiveInputs, Receive, chip, Personalizing, Drawn,
    SeedPages, Endorsed, CertPages
<1>13. CASE ReceiveCerts
  <2>1. Head(rx) \in Lines(rx)
    BY <1>13, LogTail DEF ReceiveCerts, Receive, Shape
  <2>2. pc' = "DiceCerts" => imported' \in {Torn} \cup KeySets
    BY <1>13, <2>1, LinesTyped, HostTables DEF ReceiveCerts, Receive
  <2> QED
    BY <1>1, <1>3, <1>13, <2>2 DEF ReceiveCerts, Receive, chip, Personalizing, Drawn,
      SeedPages, Endorsed, CertPages
<1>14. CASE \E c \in {imported, Torn} : WriteCertsAs(c)
  <2>1. PICK c \in {imported, Torn} : WriteCertsAs(c)
    BY <1>14
  <2>2. pc \in CertPages /\ certs' = [certs EXCEPT ![pc] = c] /\ UNCHANGED <<digest, imported>>
        /\ pc' = IF pc = "DiceCerts" THEN "TpmCerts" ELSE "Finish"
    BY <2>1 DEF WriteCertsAs
  <2>3. c \in {Torn} \cup KeySets
    BY <2>1, <2>2 DEF Personalizing
  <2> QED
    BY <1>3, <2>2, <2>3 DEF Shape, Personalizing, Drawn, SeedPages, Endorsed, CertPages
<1>15. CASE Finish
  BY <1>1, <1>15 DEF Finish, chip, Personalizing, Drawn, SeedPages, Endorsed, CertPages
<1>16. CASE StartSram \/ ReceiveData \/ ExportToken
  BY <1>1, <1>16 DEF StartSram, ReceiveData, Receive, ExportToken, Restart, Boots,
    AtHwCfg0, AtHwCfg1, Drawn, SeedPages, Endorsed
<1> QED
  BY <1>2, <1>4, <1>6, <1>7, <1>8, <1>9, <1>10, <1>11, <1>12, <1>13, <1>14, <1>15, <1>16,
    StepsOfPc DEF Takes
-----------------------------------------------------------------------------
\* Behind the lock of SECRET2 the keys stay, so what was said of them stays true.
LEMMA ExportedKept ==
  ASSUME Inv, [Next]_vars
  PROVE  Exported'
<1> USE DEF Inv
<1>1. Whole(otp["Secret2"]) => otp'["Secret2"] = otp["Secret2"] /\ Whole(otp'["Secret2"])
  BY Growth DEF Grows, Words, Secrets
<1>2. "Secret2" \in digest => Keys' = Keys /\ "Secret2" \in digest'
  BY <1>1, Growth DEF Grows, LockedIsWhole, Keys
<1>3. pc = "ExportToken" => ram = otp["Secret2"] /\ Whole(otp["Secret2"])
  BY Wider, Marks DEF Personalizing, Drawn
<1>4. pc \in {"EraseCerts", "ReceiveInputs"} => "Secret2" \in digest
  BY DEF Personalizing, Endorsed
<1>5. \A m \in Lines(tx') : m.type = "token" => m.body = otp'["Secret2"] /\ Whole(otp'["Secret2"])
  <2>1. ASSUME NEW m, Said(m), m.type = "token" PROVE m.body = otp["Secret2"] /\ Whole(otp["Secret2"])
    BY <1>3, <2>1, MessageFields DEF Said
  <2> QED
    BY <1>1, <2>1, LinesOfTx DEF Exported
<1>6. \A m \in Lines(tx') : m.type = "tbs" => m.body = Keys' /\ "Secret2" \in digest'
  <2>1. ASSUME NEW m, Said(m), m.type = "tbs" PROVE m.body = Keys /\ "Secret2" \in digest
    BY <1>4, <2>1, MessageFields DEF Said
  <2> QED
    BY <1>2, <2>1, LinesOfTx DEF Exported
<1>7. Told(tx', "inputs") => "Secret2" \in digest'
  <2>1. ASSUME NEW m, Said(m), m.type = "inputs" PROVE "Secret2" \in digest
    BY <1>4, <2>1, MessageFields DEF Said
  <2> QED
    BY <1>2, <2>1, LinesOfTx DEF Exported, Told
<1>8. CASE Turns
  BY <1>1, <1>2, <1>5, <1>6, <1>7, <1>8 DEF Turns, Exported
<1>9. CASE Hear
  <2>1. Head(tx) \in Lines(tx) /\ Head(tx).type = Waits[hpc] /\ hpc \in DOMAIN Waits
    BY <1>9, LogTail DEF Hear, Shape
  <2>2. /\ hpc' = "Failed" \/ hpc' = AfterWait[hpc]
        /\ token' = IF hpc = "WaitForToken" THEN Head(tx).body ELSE token
        /\ endorsed' = IF hpc = "WaitForTbs" THEN Head(tx).body ELSE endorsed
    BY <1>9 DEF Hear
  <2>3. hpc = "WaitForToken" => Head(tx).body = otp["Secret2"] /\ Whole(otp["Secret2"])
    BY <2>1, HostTables DEF Exported
  <2>4. hpc = "WaitForTbs" => Head(tx).body = Keys /\ "Secret2" \in digest
    BY <2>1, HostTables DEF Exported
  <2>5. hpc = "WaitForInputsRequest" => "Secret2" \in digest
    BY <2>1, HostTables DEF Exported, Told
  <2>6. /\ token' # None => token' = otp'["Secret2"] /\ Whole(otp'["Secret2"])
        /\ endorsed' # None => endorsed' = Keys' /\ "Secret2" \in digest'
    BY <1>1, <1>2, <2>2, <2>3, <2>4 DEF Exported
  <2>7. /\ hpc' \in {"WaitForInputsRequest", "WaitForTbs", "WaitForImport", "WaitForHash",
                     "WaitForDone", "Succeeded"} => token' = otp'["Secret2"] /\ Whole(otp'["Secret2"])
        /\ hpc' \in {"WaitForTbs", "WaitForImport", "WaitForHash", "WaitForDone", "Succeeded"}
             => "Secret2" \in digest'
        /\ hpc' \in {"WaitForImport", "WaitForHash", "WaitForDone", "Succeeded"}
             => endorsed' = Keys'
    BY <1>1, <1>2, <2>1, <2>2, <2>3, <2>4, <2>5, HostTables DEF Exported
  <2> QED
    BY <1>5, <1>6, <1>7, <2>6, <2>7 DEF Exported
<1> QED
  BY <1>8, <1>9, StepsOfHost

\* How the firmware comes to write certificates, and to its end.
LEMMA WritingSteps ==
  ASSUME Inv, [Next]_vars
  PROVE  /\ pc' \in Writing => \/ pc \in Writing
                               \/ Told(rx, "certs") /\ (Once(rx, "certs") => ~Told(rx', "certs"))
         /\ pc' = "Done" => (pc = "Done" \/ pc = "Finish") /\ certs' = certs
<1>1. CASE Stays \/ Restarts
  BY <1>1 DEF Stays, Restarts, chip, Writing
<1>2. CASE ReceiveCerts
  <2>1. rx # <<>> /\ rx' = Tail(rx) /\ pc' = IF Head(rx).type = "certs" THEN "DiceCerts" ELSE "Halted"
    BY <1>2, HostTables DEF ReceiveCerts, Receive
  <2>2. /\ Head(rx) \in Lines(rx)
        /\ Once(rx, "certs") /\ Head(rx).type = "certs" => ~Told(rx', "certs")
    BY <2>1, LogTail DEF Inv, Shape
  <2> QED
    BY <2>1, <2>2 DEF Told, Writing
<1>3. CASE WriteWords /\ Writable(pc)
  BY <1>3, Tables DEF WriteWords, Words, Given, Secrets, Writing
<1>4. CASE LockPartition \/ LockFails
  BY <1>4, Tables DEF LockPartition, LockFails, AtHwCfg1, AtCreator, AtSecret2, Writing
<1>5. CASE WriteSeedAs(Seed)
  BY <1>5, Tables DEF WriteSeedAs, SeedPages, Writing
<1>6. CASE Takes
  BY <1>2, <1>3, <1>4, <1>5, <1>6 DEF Takes, StartSram, ReceiveData, Receive, Start,
    AskForKey, ReceiveKey, ExportToken, Restart, Boots, EraseCerts, ReceiveInputs,
    WriteCertsAs, CertPages, Finish, chip, Writing, AtHwCfg0, AtHwCfg1, AtSecret1,
    AtCreator, AtSecret2
<1> QED
  BY <1>1, <1>6, StepsOfPc

LEMMA OneImportKept ==
  ASSUME Inv, [Next]_vars
  PROVE  OneImport'
<1> USE DEF Inv
<1>1. \A m \in Lines(tx') : m.type = "hash" =>
        \/ m \in Lines(tx)
        \/ pc = "Finish" /\ pc' = "Done" /\ m.body = certs /\ UNCHANGED <<certs, rx>>
  <2>1. ASSUME NEW m, Said(m), m.type = "hash"
        PROVE  pc = "Finish" /\ pc' = "Done" /\ m.body = certs /\ UNCHANGED <<certs, rx>>
    BY <2>1, MessageFields DEF Said
  <2> QED
    BY <2>1, LinesOfTx
<1>2. Told(rx', "certs") => Told(rx, "certs") \/ (hpc = "WaitForImport" /\ hpc' = "WaitForHash")
  <2>1. ASSUME NEW m, Sent(m), m.type = "certs"
        PROVE  Told(rx, "certs") \/ (hpc = "WaitForImport" /\ hpc' = "WaitForHash")
    BY <2>1, MessageFields DEF Sent
  <2> QED
    BY <2>1, LinesOfRx DEF Told
<1>3. CASE hpc' = hpc /\ UNCHANGED endorsed
  <2>1. CASE hpc \in Early
    BY <1>1, <1>2, <1>3, <2>1, WritingSteps DEF OneImport, Told, Writing, Early
  <2>2. CASE hpc = "WaitForHash"
    <3>1. Once(rx', "certs") /\ Once(tx', "hash")
      BY <2>2, LinesOfTx, LinesOfRx DEF OneImport, Told, Writing
    <3>2. Told(rx', "certs") => Told(rx, "certs")
      BY <1>2, <2>2
    <3>3. Told(rx', "certs") => pc' \notin Writing \cup {"Done"} /\ ~Told(tx', "hash")
      <4>1. SUFFICES ASSUME Told(rx', "certs")
                     PROVE  pc' \notin Writing \cup {"Done"} /\ ~Told(tx', "hash")
        OBVIOUS
      <4>2. pc \notin Writing \cup {"Done"} /\ ~Told(tx, "hash") /\ Once(rx, "certs")
        BY <2>2, <3>2, <4>1 DEF OneImport
      <4> QED
        BY <1>1, <4>1, <4>2, WritingSteps DEF Told, Writing
    <3>4. ASSUME NEW m \in Lines(tx'), m.type = "hash"
          PROVE  pc' \notin Writing /\ (pc' = "Done" => certs' = m.body)
      <4>1. CASE m \in Lines(tx)
        <5>1. pc \notin Writing /\ (pc = "Done" => certs = m.body) /\ ~Told(rx, "certs")
          BY <2>2, <3>4, <4>1 DEF OneImport, Told
        <5> QED
          BY <5>1, WritingSteps DEF Writing
      <4>2. CASE m \notin Lines(tx)
        BY <1>1, <3>4, <4>2 DEF Writing
      <4> QED
        BY <4>1, <4>2
    <3> QED
      BY <1>3, <2>2, <3>1, <3>3, <3>4 DEF OneImport, Early
  <2>3. CASE hpc \in {"WaitForDone", "Succeeded"}
    <3>1. ~Told(rx', "certs") /\ pc' \notin Writing
      BY <1>2, <2>3, WritingSteps DEF OneImport
    <3>2. pc' = "Done" => certs' = certs /\ pc = "Done"
      BY <2>3, WritingSteps DEF OneImport, Writing
    <3>3. Certified' = Certified
      BY <1>3 DEF Certified
    <3> QED
      BY <1>3, <2>3, <3>1, <3>2, <3>3 DEF OneImport, Early
  <2>4. CASE hpc \in {"Failed", "ReadLcState"}
    BY <1>3, <2>4 DEF OneImport, Early
  <2> QED
    BY <2>1, <2>2, <2>3, <2>4 DEF TypeOK, Early, HostPlaces
<1>4. CASE hpc' \in {"Failed", "ReadLcState"}
  BY <1>4 DEF OneImport, Early
<1>5. CASE Turns
  <2>1. CASE /\ hpc' \in {"WaitForSram", "Bootstrap", "WaitForRequest", "WaitForKeyRequest"}
             /\ pc' \in {"Sram", "Halted", "Start"} /\ rx' = <<>>
             /\ tx' = <<>> \/ (hpc = "TestExit" /\ tx' = tx)
    <3>1. hpc = "TestExit" => ~Told(tx, "hash")
      BY DEF OneImport, Early, HostPlaces
    <3>2. ~Told(rx', "certs") /\ ~Told(tx', "hash") /\ pc' \notin Writing \cup {"Done"}
      BY <2>1, <3>1, LogEmpty DEF Writing
    <3> QED
      BY <2>1, <3>2 DEF OneImport
  <2> QED
    BY <1>3, <1>4, <1>5, <2>1 DEF Turns
<1>6. CASE Hear
  <2>1. /\ tx # <<>> /\ tx' = Tail(tx) /\ Head(tx).type = Waits[hpc] /\ hpc \in DOMAIN Waits
        /\ hpc' = IF Accepts THEN AfterWait[hpc] ELSE "Failed"
        /\ UNCHANGED <<pc, certs>>
        /\ hpc = "WaitForHash" => rx' = rx /\ endorsed' = endorsed
        /\ hpc = "WaitForDone" => endorsed' = endorsed
    BY <1>6, HostTables DEF Hear, chip, device
  <2>2. Head(tx) \in Lines(tx) /\ Lines(tx') \subseteq Lines(tx)
    BY <2>1, LogTail DEF Shape
  <2>3. CASE hpc' \in Early
    <3>1. hpc \in Early /\ hpc # "WaitForImport"
      BY <2>1, <2>3, HostTables DEF Early, HostPlaces
    <3> QED
      BY <1>2, <2>1, <2>2, <2>3, <3>1 DEF OneImport, Told, Early
  <2>4. CASE hpc' = "WaitForHash"
    <3>1. hpc = "WaitForImport"
      BY <2>1, <2>4, HostTables
    <3>2. ~Told(rx, "certs") /\ ~Told(tx, "hash") /\ pc \notin Writing \cup {"Done"}
      BY <3>1, HostTables DEF OneImport, Early, HostPlaces
    <3>3. ~Told(tx', "hash") /\ pc' \notin Writing \cup {"Done"}
      BY <2>1, <2>2, <3>2 DEF Told
    <3>4. Once(rx', "certs") /\ Once(tx', "hash")
      BY <3>1, <3>2, LinesOfRx, LinesOfTx DEF Once, Told, Lines
    <3> QED
      BY <2>4, <3>3, <3>4 DEF OneImport, Told, Early
  <2>5. CASE hpc' = "WaitForDone"
    <3>1. hpc = "WaitForHash" /\ Head(tx).type = "hash" /\ Head(tx).body = Certified
      BY <2>1, <2>5, HostTables DEF Accepts
    <3>2. ~Told(rx, "certs") /\ pc \notin Writing /\ (pc = "Done" => certs = Certified)
      BY <2>2, <3>1 DEF OneImport, Told
    <3>3. Certified' = Certified
      BY <2>1, <3>1 DEF Certified
    <3> QED
      BY <2>1, <2>5, <3>1, <3>2, <3>3 DEF OneImport, Early
  <2>6. CASE hpc' = "Succeeded"
    <3>1. hpc = "WaitForDone"
      BY <2>1, <2>6, HostTables
    <3>2. Certified' = Certified
      BY <2>1, <3>1 DEF Certified
    <3> QED
      BY <1>2, <2>1, <2>6, <3>1, <3>2 DEF OneImport, Early
  <2> QED
    BY <1>4, <2>3, <2>4, <2>5, <2>6, PlaceTypes DEF Early
<1> QED
  BY <1>5, <1>6, StepsOfHost
-----------------------------------------------------------------------------
LEMMA InvInit == Init => Inv
<1> SUFFICES ASSUME Init PROVE Inv
  OBVIOUS
<1> USE DEF Init
<1>1. Shape
  BY LogEmpty DEF Shape, Words, SeedContents
<1>2. TypeOK
  <2>1. /\ \A w \in Given \cup Secrets : otp[w] = Blank
        /\ \A p \in SeedPages : seeds[p] = Blank
        /\ \A p \in CertPages : certs[p] = Blank
    OBVIOUS
  <2>2. DOMAIN rx = {} /\ DOMAIN tx = {}
    BY LogEmpty
  <2>3. pc \in Places /\ hpc \in HostPlaces
    BY DEF Places, HostPlaces
  <2>4. /\ mission \in BOOLEAN /\ digest \subseteq Partitions /\ locked \subseteq digest
        /\ image \in {"none", "plain", "scrambled"} /\ ram \in {None} \cup Drawings
        /\ imported \in {None, Torn} \cup KeySets /\ token \in {None} \cup Drawings
        /\ endorsed \in {None} \cup KeySets
    OBVIOUS
  <2>5. drawn \in Nat /\ runs \in 1 .. MaxRuns /\ faults \in 0 .. MaxFaults
    BY BoundsAssumption
  <2>6. \A p \in SeedPages : seeds[p] \in SeedContents
    BY <2>1 DEF SeedContents
  <2> QED
    BY <2>1, <2>2, <2>3, <2>4, <2>5, <2>6 DEF TypeOK, Places, HostPlaces
<1>3. LockedIsWhole /\ Locking
  BY DEF LockedIsWhole, Locking
<1>4. Individualizing /\ MissionFirst /\ Personalizing
  BY LogEmpty DEF Individualizing, MissionFirst, Personalizing, InSram, Drawn, SeedPages,
    CertPages, Endorsed
<1>5. Exported /\ OneImport
  BY LogEmpty, HostTables DEF Exported, OneImport, Early, Writing
<1> QED
  BY <1>1, <1>2, <1>3, <1>4, <1>5 DEF Inv

LEMMA InvStep == Inv /\ [Next]_vars => Inv'
BY TypesKept, LockedKept, LockingKept, IndividualizingKept, MissionFirstKept,
  PersonalizingKept, ExportedKept, OneImportKept DEF Inv

LEMMA InvHolds == Spec => []Inv
BY InvInit, InvStep, PTL DEF Spec

\* The types of the variables: TypeOK.
THEOREM TypeCorrect == Spec => []TypeOK
<1>1. Inv => TypeOK
  BY DEF Inv
<1> QED
  BY <1>1, InvHolds, PTL

\* What manuf_individualize_device_*() and manuf_personalize_device_secrets() lock
\* is whole: LockedIsWhole.
THEOREM LocksAreWhole == Spec => []LockedIsWhole
<1>1. Inv => LockedIsWhole
  BY DEF Inv
<1> QED
  BY <1>1, InvHolds, PTL

\* The token and the endorsed keys that provision_certificates() and its callers
\* have are those of the chip: ExportsStay.
THEOREM ExportsAreTrue == Spec => []ExportsStay
<1>1. Inv => ExportsStay
  BY DEF Inv, Exported, ExportsStay
<1> QED
  BY <1>1, InvHolds, PTL

\* "Provisioning Done" means a provisioned chip: SuccessIsComplete.
THEOREM SuccessIsTrue == Spec => []SuccessIsComplete
<1>1. Inv => SuccessIsComplete
  <2>1. SUFFICES ASSUME Inv, hpc = "Succeeded"
        PROVE  /\ mission /\ Partitions \ {"OwnerSwCfg"} \subseteq digest
               /\ token = otp["Secret2"] /\ endorsed = Keys /\ (pc = "Done" => certs = Certified)
    BY DEF SuccessIsComplete
  <2>2. "Secret2" \in digest /\ Before \cup {"Secret1"} \subseteq digest
    BY <2>1 DEF Inv, Exported, Locking
  <2> QED
    BY <2>1, <2>2 DEF Inv, MissionFirst, Exported, OneImport, Partitions, SwPartitions,
      Before
<1> QED
  BY <1>1, InvHolds, PTL
=============================================================================
