--------------------------------- MODULE Rom ---------------------------------
(***************************************************************************)
(* The ROM (silicon_creator/rom/rom.c, rom/boot_policy.c): bootstrap when    *)
(* the straps ask for it, and otherwise the newer of the two ROM_EXT images  *)
(* that verifies, with the counters of lib/cfi.h and lib/base/sec_mmio.h     *)
(* that it checks its own control flow with.                                 *)
(*                                                                          *)
(* An image is ImageLen words at the start of a bank; its first word is the  *)
(* manifest.  A signature is good when all words are those of one version.   *)
(***************************************************************************)
EXTENDS Bootstrap

CONSTANTS ImageLen

ASSUME ImageAssumption == ImageLen \in 1 .. BankSize

Banks == {0, 1}          \* slots A and B
Counters == {"Main", "Init", "Verify", "TryBoot", "PreBootCheck", "Boot", "SecMmio"}

VARIABLES
  pc,             \* the part of rom_main() that is next
  waking,         \* waking_from_low_power
  counters,       \* rom_counters, in steps; sec_mmio_ctx.check_count
  order,          \* boot_policy_manifests_get()
  running,        \* the image that has been jumped to
  min_version,    \* boot_data.min_security_version_rom_ext
  bootstrap_dis   \* OTP: ROM_BOOTSTRAP_DIS

romVars == <<pc, waking, counters, order, running, min_version, bootstrap_dis>>
vars == <<bootstrapVars, romVars>>
-----------------------------------------------------------------------------
Manifest(b) == memory[b * BankSize]
\* boot_policy_manifest_check()
ManifestOk(b) == Manifest(b) \in Versions /\ Manifest(b) >= min_version
\* rom_verify() succeeds.
Bootable(b) ==
  ManifestOk(b) /\ \A i \in 0 .. ImageLen - 1 : memory[b * BankSize + i] = Manifest(b)

\* The version fields of a slot, read before anything is verified: erased flash
\* reads as the greatest version, garbage as any.
Newest == 1 + CHOOSE v \in Versions : \A u \in Versions : u <= v
ReadsAs(b) ==
  CASE Manifest(b) = Erased -> {Newest}
    [] Manifest(b) = Garbage -> Versions \cup {Newest}
    [] OTHER -> {Manifest(b)}
\* [variant] slot A is always first.
OrdersAFirst == {<<0, 1>>}
\* boot_policy_manifests_get()
Orders ==
  {IF a >= b THEN <<0, 1>> ELSE <<1, 0>> : a \in ReadsAs(0), b \in ReadsAs(1)}

\* cfi.h: the counters begin at step 1 and each increment checks the step.
StartCounter(c) == [op |-> "init", counter |-> c, step |-> 1]
Increment(c, s) == [op |-> "increment", counter |-> c, step |-> s]
Check(c, s) == [op |-> "check", counter |-> c, step |-> s]
PrepCall(c, s, target) == << Increment(c, s), StartCounter(target), Increment(c, s + 1) >>
CheckValues == [op |-> "bump", counter |-> "SecMmio", step |-> 0]
CheckCounters(n) == Increment("SecMmio", n)
\* A counter before the i-th operation: it has grown since it was last started.
Counts(ops, j, c) == ops[j].counter = c /\ ops[j].op \in {"increment", "bump"}
Value(ops, i, c) ==
  LET starts == {j \in 1 .. i - 1 : ops[j].op = "init" /\ ops[j].counter = c}
      since == {j \in 1 .. i - 1 : Counts(ops, j, c) /\ \A k \in starts : k < j}
  IN  (IF starts = {} THEN counters[c] ELSE 1) + Cardinality(since)
\* The code up to `next`: HARDENED_CHECK traps on a counter that disagrees.
Go(operations, next) == \E ops \in {operations} :
  /\ counters' = [c \in Counters |-> Value(ops, Len(ops) + 1, c)]
  /\ pc' = IF \A i \in DOMAIN ops : ops[i].op \in {"increment", "check"} =>
                                      ops[i].step = Value(ops, i, ops[i].counter)
           THEN next ELSE "trap"
-----------------------------------------------------------------------------
\* rom_init(), after rom_main() has called it
Init1 ==
  /\ pc = "init"
  /\ Go(<< StartCounter("Main") >> \o PrepCall("Main", 1, "Init")
        \o << Increment("Init", 1), CheckValues, CheckCounters(1), Increment("Init", 2),
              Increment("Main", 3), Check("Init", 3) >>,
        IF waking THEN "try" ELSE "straps")
  /\ UNCHANGED <<bootstrapVars, waking, order, running, min_version, bootstrap_dis>>

\* bootstrap_requested()
Requested == strap /\ ~bootstrap_dis
ReadStraps ==
  /\ pc = "straps" /\ pc' = IF Requested THEN "bootstrap" ELSE "try"
  /\ UNCHANGED <<bootstrapVars, waking, counters, order, running, min_version, bootstrap_dis>>
\* bootstrap() reads the straps again.
CallBootstrap ==
  /\ pc = "bootstrap" /\ state = "off"
  /\ IF Requested THEN EnterBootstrap /\ UNCHANGED pc
     ELSE pc' = "shutdown" /\ UNCHANGED bootstrapVars
  /\ UNCHANGED <<waking, counters, order, running, min_version, bootstrap_dis>>
RunBootstrap == pc = "bootstrap" /\ DeviceNext /\ UNCHANGED romVars

\* rom_try_boot(), up to the first image; boot_data_read() may fail
TryBoot ==
  /\ pc = "try"
  /\ \/ /\ order' \in Orders
        /\ Go(PrepCall("Main", 4, "TryBoot") \o << Increment("TryBoot", 1) >>
              \o PrepCall("TryBoot", 2, "Verify"), "first")
        /\ UNCHANGED bootstrapVars
     \/ /\ Fault /\ pc' = "shutdown"
        /\ UNCHANGED <<counters, order, memory, device, stale, host>>
  /\ UNCHANGED <<waking, running, min_version, bootstrap_dis>>

\* How far rom_verify() gets with an image: a key, or a signature, may be wrong.
Halfway == << Increment("Verify", 1) >>
Through == << Increment("Verify", 1), Increment("Verify", 2) >>
VerifyCounts(b) ==
  IF ~ManifestOk(b) THEN {<<>>} ELSE IF Bootable(b) THEN {Through} ELSE {Halfway, Through}
\* [variant] the counter of rom_try_boot() is not started anew.
TryFirstNoInit ==
  /\ pc = "first"
  /\ \E verified \in VerifyCounts(order[1]) :
     LET counts == verified \o << Increment("TryBoot", 4) >>
     IN  IF Bootable(order[1])
         THEN Go(counts \o << Check("Verify", 3) >> \o PrepCall("TryBoot", 5, "Boot"), "boot")
         ELSE Go(counts \o PrepCall("TryBoot", 5, "Verify"), "second")
  /\ UNCHANGED <<bootstrapVars, waking, order, running, min_version, bootstrap_dis>>
\* [variant] there is no second attempt.
TryFirstOnly ==
  /\ pc = "first"
  /\ \E verified \in VerifyCounts(order[1]) :
     LET counts == verified \o << Increment("TryBoot", 4) >>
     IN  IF Bootable(order[1])
         THEN Go(counts \o << Check("Verify", 3), StartCounter("TryBoot") >>
                 \o PrepCall("TryBoot", 1, "Boot"), "boot")
         ELSE Go(counts, "shutdown")
  /\ UNCHANGED <<bootstrapVars, waking, order, running, min_version, bootstrap_dis>>
\* rom_try_boot(), with what rom_verify() says of the first image
TryFirst ==
  /\ pc = "first"
  /\ \E verified \in VerifyCounts(order[1]) :
     LET counts == verified \o << Increment("TryBoot", 4) >>
     IN  IF Bootable(order[1])
         THEN Go(counts \o << Check("Verify", 3), StartCounter("TryBoot") >>
                 \o PrepCall("TryBoot", 1, "Boot"), "boot")
         ELSE Go(counts \o PrepCall("TryBoot", 5, "Verify"), "second")
  /\ UNCHANGED <<bootstrapVars, waking, order, running, min_version, bootstrap_dis>>
\* and of the second
TrySecond ==
  /\ pc = "second"
  /\ \E verified \in VerifyCounts(order[2]) :
     IF Bootable(order[2])
     THEN Go(verified \o << Increment("TryBoot", 7), Check("Verify", 3) >>
             \o PrepCall("TryBoot", 8, "Boot"), "boot")
     ELSE Go(verified, "shutdown")
  /\ UNCHANGED <<bootstrapVars, waking, order, running, min_version, bootstrap_dis>>

\* rom_boot() and rom_pre_boot_check(): the counter says which image it is.
Chosen == IF Bootable(order[1]) THEN order[1] ELSE order[2]
Boot ==
  /\ pc = "boot"
  /\ Go(<< Increment("Boot", 1), CheckCounters(2) >> \o PrepCall("Boot", 2, "PreBootCheck")
        \o [i \in 1 .. 6 |-> Increment("PreBootCheck", i)]
        \o << CheckCounters(3), Increment("PreBootCheck", 7),
              Increment("Boot", 4), Check("PreBootCheck", 8), CheckValues, CheckCounters(5),
              Check("TryBoot", IF Chosen = order[1] THEN 3 ELSE 10), Increment("Boot", 5) >>,
        "run")
  /\ running' = Chosen
  /\ UNCHANGED <<bootstrapVars, waking, order, min_version, bootstrap_dis>>

\* A reset: the ROM begins again.
Restart(w) ==
  /\ pc' = "init" /\ waking' = w /\ counters' = [c \in Counters |-> 0]
  /\ order' = <<0, 1>> /\ running' = None
  /\ UNCHANGED <<min_version, bootstrap_dis>>
ResetByHost == PinReset /\ Off /\ Restart(FALSE)
\* shutdown_finalize(), or rstmgr_reset(), has asked for it; or power is lost.
ResetByDevice ==
  /\ pc \in {"shutdown", "trap"} \/ state = "shutdown"
  /\ Off /\ Restart(FALSE)
  /\ upset' = (upset \/ session \in {"idle", "wait"})
  /\ UNCHANGED <<session, expect, strap, commands, faults>>
ResetByFault ==
  /\ Fault /\ Off /\ Restart(FALSE)
  /\ upset' = (upset \/ session \in {"idle", "wait"})
  /\ UNCHANGED <<session, expect, strap, commands>>
\* The ROM_EXT or its owner stage sleeps, and the chip wakes up.
WakeUp == pc = "run" /\ Restart(TRUE) /\ UNCHANGED bootstrapVars

Init ==
  /\ BootstrapInit
  /\ \E a, b \in Versions :  \* the images it has been shipped with
       memory = [w \in Words |-> IF w < ImageLen THEN a
                                 ELSE IF w - BankSize \in 0 .. ImageLen - 1 THEN b ELSE Erased]
  /\ pc = "init" /\ waking = FALSE /\ counters = [c \in Counters |-> 0]
  /\ order = <<0, 1>> /\ running = None
  /\ min_version \in Versions /\ bootstrap_dis \in BOOLEAN
RomNext ==
  \/ Init1 \/ ReadStraps \/ CallBootstrap \/ RunBootstrap
  \/ TryBoot \/ TryFirst \/ TrySecond \/ Boot \/ ResetByDevice
Next ==
  \/ RomNext
  \/ HostNext /\ UNCHANGED romVars
  \/ ResetByHost \/ ResetByFault \/ WakeUp
Spec == Init /\ [][Next]_vars
\* The device goes on by itself, and the host resets it when it has changed the
\* straps; whether it goes on with its session is its own affair.
FairSpec == Spec /\ WF_vars(RomNext) /\ WF_vars(ResetByHost)
-----------------------------------------------------------------------------
TypeOK ==
  /\ TypeOKBootstrap
  /\ pc \in {"init", "straps", "bootstrap", "try", "first", "second", "boot", "run",
             "shutdown", "trap"}
  /\ {waking, bootstrap_dis} \subseteq BOOLEAN
  /\ counters \in [Counters -> 0 .. 10]
  /\ order \in {<<0, 1>>, <<1, 0>>} /\ running \in Banks \cup {None}
  /\ min_version \in Versions

\* What runs has verified, and is the newest image that does; of two of the
\* same version it is slot A (boot_policy_manifests_get(), rom_try_boot(),
\* rom_boot()).
NewestRuns ==
  pc = "run" =>
    /\ Bootable(running)
    /\ \A b \in Banks \ {running} : Bootable(b) =>
         Manifest(running) > Manifest(b) \/ (Manifest(running) = Manifest(b) /\ running = 0)

\* On every path through the ROM, woken or reset, with either image and however
\* far the first one got, the counters are what the next check takes them to be
\* (cfi.h, sec_mmio.c).
CountersAgree == pc # "trap"

\* While the straps are off, the ROM gets to an image when one verifies: the
\* chip recovers from any interrupted bootstrap that has left an image.
BootsValidImage ==
  (~strap /\ pc # "bootstrap" /\ \E b \in Banks : Bootable(b)) ~> (pc = "run" \/ strap)
=============================================================================
