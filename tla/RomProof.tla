------------------------------ MODULE RomProof ------------------------------
(***************************************************************************)
(* Proofs about Rom and Bootstrap for every layout of the flash, every set   *)
(* of versions, every host and every number of faults.                       *)
(***************************************************************************)
EXTENDS Rom, FiniteSetTheorems, SequenceTheorems, TLAPS

\* A word that bootstrap has found written and has not erased since is still
\* written, so the verification of the erase sees every one of them.
StaleWritten ==
  /\ stale \subseteq {w \in Words : memory[w] # Erased}
  /\ NothingSurvives

\* The slot order was read from the flash as it still is; the second image is
\* tried when the first has failed, and one of them has passed when it boots.
Choice ==
  /\ pc \in {"first", "second", "boot"} => order \in Orders
  /\ pc = "second" => ~Bootable(order[1])
  /\ pc = "boot" => Bootable(order[1]) \/ Bootable(order[2])
  /\ NewestRuns
-----------------------------------------------------------------------------
\* A transaction of the flash leaves a stale word written or takes it off
\* `stale`: erased words are off it, garbage is not erased.
LEMMA CarryKeepsStale ==
  ASSUME StaleWritten, NEW t, NEW spared, NEW spoilt, Carry(t, spared, spoilt)
  PROVE  /\ stale' \subseteq {w \in Words : memory'[w] # Erased}
         /\ stale = {} => stale' = {}
<1>1. SUFFICES ASSUME NEW w \in stale'
               PROVE  w \in Words /\ memory'[w] # Erased
  BY DEF Carry
<1>2. w \in stale /\ w \in Words /\ memory[w] # Erased
  BY DEF Carry, StaleWritten
<1>3. memory'[w] = IF w \in spoilt THEN Garbage
                   ELSE IF w \in t.words \ spared THEN After(t, w) ELSE memory[w]
  BY <1>2 DEF Carry
<1>4. CASE w \in spoilt
  BY <1>2, <1>3, <1>4, ValuesAssumption
<1>5. CASE w \notin spoilt
  <2>1. w \notin t.words \ spared
    BY <1>5 DEF Carry
  <2> QED
    BY <1>2, <1>3, <1>5, <2>1
<1> QED
  BY <1>4, <1>5

\* No step of the device lets a stale word get into "program".
LEMMA DeviceKeepsStale ==
  ASSUME StaleWritten, DeviceNext
  PROVE  StaleWritten'
<1>1. CASE HandleErase
  BY <1>1, Zenon DEF HandleErase, Shutdown, Ignore, Take, Acknowledge, StatusClear,
                     StaleWritten, NothingSurvives, Words
<1>2. CASE HandleEraseVerify
  <2>1. stale' = stale /\ memory' = memory
    BY <1>2 DEF HandleEraseVerify
  <2>2. AllErased => stale = {}
    BY DEF AllErased, StaleWritten
  <2>3. state' = "program" => AllErased
    BY <1>2 DEF HandleEraseVerify, Shutdown
  <2> QED
    BY <2>1, <2>2, <2>3 DEF StaleWritten, NothingSurvives
<1>3. CASE HandleProgram
  <2>1. stale' = stale /\ memory' = memory /\ state = "program"
    BY <1>3 DEF HandleProgram
  <2> QED
    BY <2>1 DEF StaleWritten, NothingSurvives
<1>4. CASE Done
  <2>1. Carry(Transaction, {}, {}) /\ state' = state
    BY <1>4 DEF Done
  <2> QED
    BY <2>1, CarryKeepsStale DEF StaleWritten, NothingSurvives
<1>5. CASE Error
  <2>1. PICK spoilt : Carry(Transaction, Transaction.words, spoilt)
    BY <1>5 DEF Error
  <2>2. state' = state
    BY <1>5 DEF Error
  <2> QED
    BY <2>1, <2>2, CarryKeepsStale DEF StaleWritten, NothingSurvives
<1>6. CASE WeakErase
  <2>1. PICK spared : Carry(Transaction, spared, {})
    BY <1>6 DEF WeakErase
  <2>2. state' = state
    BY <1>6 DEF WeakErase
  <2> QED
    BY <2>1, <2>2, CarryKeepsStale DEF StaleWritten, NothingSurvives
<1>7. CASE Return
  <2>1. stale' = stale /\ memory' = memory
    BY <1>7 DEF Return
  <2>2. state' = "program" => state = "program"
    BY <1>7 DEF Return, Shutdown
  <2> QED
    BY <2>1, <2>2 DEF StaleWritten, NothingSurvives
<1> QED
  BY <1>1, <1>2, <1>3, <1>4, <1>5, <1>6, <1>7 DEF DeviceNext

LEMMA StaleStep ==
  ASSUME StaleWritten, [Next]_vars
  PROVE  StaleWritten'
<1>1. CASE UNCHANGED <<memory, state, stale>>
  BY <1>1 DEF StaleWritten, NothingSurvives
<1>2. CASE RunBootstrap
  BY <1>2, DeviceKeepsStale DEF RunBootstrap
<1>3. CASE CallBootstrap
  <2>1. CASE EnterBootstrap
    BY <2>1 DEF EnterBootstrap, StaleWritten, NothingSurvives
  <2>2. CASE UNCHANGED bootstrapVars
    BY <2>2 DEF bootstrapVars, device, StaleWritten, NothingSurvives
  <2> QED
    BY <1>3, <2>1, <2>2 DEF CallBootstrap
<1>4. CASE Off
  BY <1>4 DEF Off, StaleWritten, NothingSurvives
<1>5. CASE HostNext
  <2>1. UNCHANGED <<memory, state, stale>>
    BY <1>5 DEF HostNext, Straps, Send, Sends, Glitch, SendReset, Poll, device
  <2> QED
    BY <1>1, <2>1
<1>6. CASE Init1 \/ ReadStraps \/ TryBoot \/ TryFirst \/ TrySecond \/ Boot \/ WakeUp
  <2>1. UNCHANGED <<memory, state, stale>>
    BY <1>6 DEF Init1, ReadStraps, TryBoot, TryFirst, TrySecond, Boot, WakeUp, bootstrapVars,
                device
  <2> QED
    BY <1>1, <2>1
<1>7. CASE UNCHANGED vars
  BY <1>1, <1>7 DEF vars, bootstrapVars, device
<1> QED
  BY <1>2, <1>3, <1>4, <1>5, <1>6, <1>7
     DEF Next, RomNext, ResetByDevice, ResetByHost, ResetByFault

\* What the flash held before bootstrap is gone when programming begins, for
\* every size of the first erase, weak erase, error and reset
\* (bootstrap_handle_erase(), bootstrap_handle_erase_verify()).
THEOREM OldContentIsGone == Spec => []NothingSurvives
<1>1. Init => StaleWritten
  BY DEF Init, BootstrapInit, StaleWritten, NothingSurvives
<1>2. StaleWritten /\ [Next]_vars => StaleWritten'
  BY StaleStep
<1>3. StaleWritten => NothingSurvives
  BY DEF StaleWritten
<1> QED
  BY <1>1, <1>2, <1>3, PTL DEF Spec
-----------------------------------------------------------------------------
\* Of the slot orders that the flash allows, the image that boots is the newest:
\* an image that verifies has its version read as it is.
LEMMA OrderPutsNewestFirst ==
  ASSUME order \in Orders,
         NEW x, x = Chosen, Bootable(order[1]) \/ Bootable(order[2])
  PROVE  /\ Bootable(x)
         /\ \A b \in Banks \ {x} : Bootable(b) =>
              Manifest(x) > Manifest(b) \/ (Manifest(x) = Manifest(b) /\ x = 0)
<1>1. PICK a \in ReadsAs(0), b \in ReadsAs(1) :
        order = IF a >= b THEN <<0, 1>> ELSE <<1, 0>>
  BY DEF Orders
<1>2. Bootable(x) /\ x \in Banks
  BY <1>1 DEF Chosen, Banks
<1>3. SUFFICES ASSUME NEW y \in Banks \ {x}, Bootable(y)
               PROVE  Manifest(x) > Manifest(y) \/ (Manifest(x) = Manifest(y) /\ x = 0)
  BY <1>2
<1>4. {order[1], order[2]} = Banks
  BY <1>1 DEF Banks
<1>5. Bootable(order[1]) /\ x = order[1] /\ y = order[2]
  BY <1>2, <1>3, <1>4 DEF Chosen, Banks
<1>6. \A c \in Banks : Bootable(c) => Manifest(c) \in Nat /\ ReadsAs(c) = {Manifest(c)}
  BY ValuesAssumption DEF Bootable, ManifestOk, ReadsAs
<1>7. a = Manifest(0) /\ b = Manifest(1) /\ a \in Nat /\ b \in Nat
  BY <1>1, <1>2, <1>3, <1>6 DEF Banks
<1> QED
  BY <1>1, <1>5, <1>7

\* What the ROM says of the images depends on the flash alone.
LEMMA SameFlash ==
  ASSUME UNCHANGED <<memory, min_version>>
  PROVE  /\ Orders' = Orders
         /\ \A b : Bootable(b)' = Bootable(b)
         /\ \A b : Manifest(b)' = Manifest(b)
<1>1. \A b : Manifest(b)' = Manifest(b)
  BY DEF Manifest
<1>2. \A b : Bootable(b)' = Bootable(b)
  BY DEF Bootable, ManifestOk, Manifest
<1>3. ReadsAs(0)' = ReadsAs(0) /\ ReadsAs(1)' = ReadsAs(1)
  BY DEF ReadsAs, Manifest
<1>4. Orders' = Orders
  BY <1>3 DEF Orders
<1> QED
  BY <1>1, <1>2, <1>4

\* Nothing is claimed of the choice before the order is read.
LEMMA NotChoosing ==
  ASSUME pc' \notin {"first", "second", "boot", "run"}
  PROVE  Choice'
BY DEF Choice, NewestRuns

LEMMA SameChoice ==
  ASSUME Choice, UNCHANGED <<memory, romVars>>
  PROVE  Choice'
<1>1. UNCHANGED <<pc, order, running, min_version>>
  BY DEF romVars
<1> QED
  BY <1>1, SameFlash DEF Choice, NewestRuns

LEMMA ChoiceStep ==
  ASSUME Choice, [Next]_vars
  PROVE  Choice'
<1>1. CASE Init1 \/ ReadStraps
  BY <1>1, NotChoosing DEF Init1, ReadStraps, Go
<1>2. CASE CallBootstrap \/ RunBootstrap
  BY <1>2, NotChoosing DEF CallBootstrap, RunBootstrap, romVars
<1>3. CASE TryBoot
  <2>1. pc' \in {"first", "trap", "shutdown"} /\ min_version' = min_version
    BY <1>3 DEF TryBoot, Go
  <2>2. CASE pc' = "first"
    <3>1. order' \in Orders /\ memory' = memory
      BY <1>3, <2>2 DEF TryBoot, bootstrapVars
    <3> QED
      BY <2>1, <2>2, <3>1, SameFlash DEF Choice, NewestRuns
  <2> QED
    BY <2>1, <2>2, NotChoosing
<1>4. CASE TryFirst
  <2>1. pc = "first" /\ UNCHANGED <<memory, order, min_version>>
    BY <1>4 DEF TryFirst, bootstrapVars
  <2>2. IF Bootable(order[1]) THEN pc' \in {"boot", "trap"} ELSE pc' \in {"second", "trap"}
    BY <1>4 DEF TryFirst, Go
  <2> QED
    BY <2>1, <2>2, SameFlash DEF Choice, NewestRuns
<1>5. CASE TrySecond
  <2>1. pc = "second" /\ UNCHANGED <<memory, order, min_version>>
    BY <1>5 DEF TrySecond, bootstrapVars
  <2>2. IF Bootable(order[2]) THEN pc' \in {"boot", "trap"} ELSE pc' \in {"shutdown", "trap"}
    BY <1>5 DEF TrySecond, Go
  <2> QED
    BY <2>1, <2>2, SameFlash DEF Choice, NewestRuns
<1>6. CASE Boot
  <2>1. pc = "boot" /\ UNCHANGED <<memory, order, min_version>> /\ running' = Chosen
    BY <1>6 DEF Boot, bootstrapVars
  <2>2. pc' \in {"run", "trap"}
    BY <1>6 DEF Boot, Go
  <2>3. /\ Bootable(Chosen)
        /\ \A b \in Banks \ {Chosen} : Bootable(b) =>
             Manifest(Chosen) > Manifest(b) \/ (Manifest(Chosen) = Manifest(b) /\ Chosen = 0)
    BY <2>1, OrderPutsNewestFirst DEF Choice
  <2> QED
    BY <2>1, <2>2, <2>3, SameFlash DEF Choice, NewestRuns
<1>7. CASE ResetByHost \/ ResetByDevice \/ ResetByFault \/ WakeUp
  BY <1>7, NotChoosing DEF ResetByHost, ResetByDevice, ResetByFault, WakeUp, Restart
<1>8. CASE HostNext /\ UNCHANGED romVars
  <2>1. memory' = memory
    BY <1>8 DEF HostNext, Straps, Send, Sends, Glitch, SendReset, Poll
  <2> QED
    BY <1>8, <2>1, SameChoice
<1>9. CASE UNCHANGED vars
  BY <1>9, SameChoice DEF vars, bootstrapVars
<1> QED
  BY <1>1, <1>2, <1>3, <1>4, <1>5, <1>6, <1>7, <1>8, <1>9 DEF Next, RomNext

\* Whatever bootstrap, resets and faults have left in the two slots, what runs
\* has verified and no newer image verifies (boot_policy_manifests_get(),
\* rom_try_boot(), rom_boot()).
THEOREM RunsNewest == Spec => []NewestRuns
<1>1. Init => Choice
  BY DEF Init, Choice, NewestRuns
<1>2. Choice /\ [Next]_vars => Choice'
  BY ChoiceStep
<1>3. Choice => NewestRuns
  BY DEF Choice
<1> QED
  BY <1>1, <1>2, <1>3, PTL DEF Spec
-----------------------------------------------------------------------------
\* The counters, one operation after another.
Op(ops, i, v) ==
  CASE ops[i].op = "init" -> [v EXCEPT ![ops[i].counter] = 1]
    [] ops[i].op \in {"increment", "bump"} -> [v EXCEPT ![ops[i].counter] = @ + 1]
    [] ops[i].op = "check" -> v
At(ops, i) == [c \in Counters |-> Value(ops, i, c)]
Operation ==
  [op : {"init", "increment", "check", "bump"}, counter : Counters, step : Nat]

LEMMA ValueAtStart ==
  ASSUME NEW ops, NEW c, counters[c] \in Nat
  PROVE  Value(ops, 1, c) = counters[c]
<1> DEFINE starts == {j \in 1 .. 1 - 1 : ops[j].op = "init" /\ ops[j].counter = c}
           since == {j \in 1 .. 1 - 1 : Counts(ops, j, c) /\ \A k \in starts : k < j}
<1>1. starts = {} /\ since = {}
  BY SMT
<1>2. Cardinality({}) = 0
  BY FS_EmptySet
<1> QED
  BY <1>1, <1>2 DEF Value

\* What the operations before the i-th have done to a counter.
Starts(ops, i, c) == {j \in 1 .. i - 1 : ops[j].op = "init" /\ ops[j].counter = c}
Since(ops, i, c) == {j \in 1 .. i - 1 : Counts(ops, j, c) /\ \A k \in Starts(ops, i, c) : k < j}

LEMMA ValueIs ==
  ASSUME NEW ops, NEW i, NEW c
  PROVE  Value(ops, i, c) =
           (IF Starts(ops, i, c) = {} THEN counters[c] ELSE 1) + Cardinality(Since(ops, i, c))
  BY DEF Value, Starts, Since

LEMMA ValueAfter ==
  ASSUME NEW ops, NEW i \in Nat \ {0}, NEW c, counters[c] \in Nat
  PROVE  /\ Value(ops, i, c) \in Nat
         /\ ops[i].counter # c => Value(ops, i + 1, c) = Value(ops, i, c)
         /\ ops[i].counter = c /\ ops[i].op = "init" => Value(ops, i + 1, c) = 1
         /\ ops[i].counter = c /\ ops[i].op \in {"increment", "bump"} =>
              Value(ops, i + 1, c) = Value(ops, i, c) + 1
         /\ ops[i].op \notin {"init", "increment", "bump"} =>
              Value(ops, i + 1, c) = Value(ops, i, c)
<1> DEFINE S == Starts(ops, i, c)
           T == Since(ops, i, c)
<1>1. i + 1 - 1 = i /\ 1 .. i = (1 .. i - 1) \cup {i} /\ i \notin 1 .. i - 1
  BY SMT
<1>2. Starts(ops, i + 1, c) = IF ops[i].op = "init" /\ ops[i].counter = c THEN S \cup {i} ELSE S
  BY <1>1 DEF Starts
<1>3. IsFiniteSet(T) /\ Cardinality(T) \in Nat /\ i \notin T
  <2>1. T \subseteq 1 .. i - 1
    BY DEF Since
  <2>2. IsFiniteSet(1 .. i - 1)
    BY FS_Interval
  <2> QED
    BY <2>1, <2>2, <1>1, FS_Subset, FS_CardinalityType
<1>4. Cardinality(T \cup {i}) = Cardinality(T) + 1
  BY <1>3, FS_AddElement
<1>5. ops[i].op = "init" /\ ops[i].counter = c => Since(ops, i + 1, c) = {}
  <2>1. SUFFICES ASSUME ops[i].op = "init", ops[i].counter = c, NEW j \in Since(ops, i + 1, c)
                 PROVE  FALSE
    OBVIOUS
  <2>2. i \in Starts(ops, i + 1, c)
    BY <1>2, <2>1
  <2>3. i < j
    BY <2>1, <2>2 DEF Since
  <2>4. j \in 1 .. i
    BY <1>1, <2>1 DEF Since
  <2> QED
    BY <2>3, <2>4
<1>6. ~(ops[i].op = "init" /\ ops[i].counter = c) =>
        Since(ops, i + 1, c) = IF Counts(ops, i, c) THEN T \cup {i} ELSE T
  <2>1. \A k \in S : k < i
    BY DEF Starts
  <2> QED
    BY <1>1, <1>2, <2>1 DEF Since
<1>7. Cardinality({}) = 0
  BY FS_EmptySet
<1>8. Value(ops, i, c) = (IF S = {} THEN counters[c] ELSE 1) + Cardinality(T)
  BY ValueIs
<1>9. Value(ops, i + 1, c) =
        (IF Starts(ops, i + 1, c) = {} THEN counters[c] ELSE 1) + Cardinality(Since(ops, i + 1, c))
  BY ValueIs
<1> HIDE DEF S, T
<1>10. Value(ops, i, c) \in Nat
  BY <1>3, <1>8
<1>11. CASE ops[i].op = "init" /\ ops[i].counter = c
  BY <1>2, <1>5, <1>7, <1>9, <1>10, <1>11
<1>12. CASE ~(ops[i].op = "init" /\ ops[i].counter = c)
  <2>1. Counts(ops, i, c) <=> ops[i].counter = c /\ ops[i].op \in {"increment", "bump"}
    BY DEF Counts
  <2> QED
    BY <1>2, <1>3, <1>4, <1>6, <1>8, <1>9, <1>10, <1>12, <2>1
<1> QED
  BY <1>11, <1>12

LEMMA OneAfterAnother ==
  ASSUME NEW ops, counters \in [Counters -> Nat]
  PROVE  /\ At(ops, 1) = counters
         /\ \A i \in DOMAIN ops : i \in Nat \ {0} /\ ops[i] \in Operation =>
              At(ops, i) \in [Counters -> Nat] /\ At(ops, i + 1) = Op(ops, i, At(ops, i))
<1>1. At(ops, 1) = counters
  <2>1. \A c \in Counters : Value(ops, 1, c) = counters[c]
    BY ValueAtStart
  <2> QED
    BY <2>1 DEF At
<1>2. ASSUME NEW i \in DOMAIN ops, i \in Nat \ {0}, ops[i] \in Operation
      PROVE  At(ops, i) \in [Counters -> Nat] /\ At(ops, i + 1) = Op(ops, i, At(ops, i))
  <2>1. \A c \in Counters :
          /\ Value(ops, i, c) \in Nat
          /\ ops[i].counter # c => Value(ops, i + 1, c) = Value(ops, i, c)
          /\ ops[i].counter = c /\ ops[i].op = "init" => Value(ops, i + 1, c) = 1
          /\ ops[i].counter = c /\ ops[i].op \in {"increment", "bump"} =>
               Value(ops, i + 1, c) = Value(ops, i, c) + 1
          /\ ops[i].op \notin {"init", "increment", "bump"} =>
               Value(ops, i + 1, c) = Value(ops, i, c)
    BY <1>2, ValueAfter
  <2>2. At(ops, i) \in [Counters -> Nat]
    BY <2>1 DEF At
  <2>3. Op(ops, i, At(ops, i)) \in [Counters -> Nat]
    BY <1>2, <2>2 DEF Op, Operation
  <2>4. ASSUME NEW c \in Counters PROVE At(ops, i + 1)[c] = Op(ops, i, At(ops, i))[c]
    BY <1>2, <2>1, <2>2 DEF Op, Operation, At
  <2> QED
    BY <2>2, <2>3, <2>4 DEF At
<1> QED
  BY <1>1, <1>2

\* How a stretch of code leaves the counters: with v[i] before its i-th operation,
\* and no check that fails.
Passes(ops, i, v) ==
  ops[i].op \in {"increment", "check"} => ops[i].step = v[ops[i].counter]

LEMMA StretchGoes ==
  ASSUME NEW ops, NEW next, Go(ops, next), counters \in [Counters -> Nat]
  PROVE  /\ counters' = At(ops, Len(ops) + 1)
         /\ (\A i \in DOMAIN ops : ops[i] \in Operation /\ Passes(ops, i, At(ops, i))) =>
              pc' = next
<1>1. counters' = At(ops, Len(ops) + 1)
  BY DEF Go, At
<1>2. pc' = IF \A i \in DOMAIN ops : ops[i].op \in {"increment", "check"} =>
                                      ops[i].step = Value(ops, i, ops[i].counter)
            THEN next ELSE "trap"
  BY DEF Go
<1>3. ASSUME NEW i \in DOMAIN ops, ops[i] \in Operation, Passes(ops, i, At(ops, i)),
             ops[i].op \in {"increment", "check"}
      PROVE  ops[i].step = Value(ops, i, ops[i].counter)
  BY <1>3 DEF Passes, At, Operation
<1> QED
  BY <1>1, <1>2, <1>3

LEMMA InitCounts ==
  ASSUME Init1, counters = [c \in Counters |-> 0]
  PROVE  /\ pc' \in {"try", "straps"}
         /\ counters' \in [Counters -> 0 .. 10]
         /\ counters'["Main"] = 4 /\ counters'["SecMmio"] = 2
<1> DEFINE ops == << StartCounter("Main") >> \o PrepCall("Main", 1, "Init")
                  \o << Increment("Init", 1), CheckValues, CheckCounters(1), Increment("Init", 2),
                        Increment("Main", 3), Check("Init", 3) >>
<1>1. Go(ops, IF waking THEN "try" ELSE "straps")
  BY DEF Init1
<1>2. /\ Len(ops) = 10 /\ DOMAIN ops = 1 .. 10
      /\ ops[1] = StartCounter("Main") /\ ops[2] = Increment("Main", 1)
      /\ ops[3] = StartCounter("Init") /\ ops[4] = Increment("Main", 2)
      /\ ops[5] = Increment("Init", 1) /\ ops[6] = CheckValues
      /\ ops[7] = Increment("SecMmio", 1) /\ ops[8] = Increment("Init", 2)
      /\ ops[9] = Increment("Main", 3) /\ ops[10] = Check("Init", 3)
  BY DEF PrepCall, CheckCounters
<1> HIDE DEF ops
<1>3. \A i \in 1 .. 10 : ops[i] \in Operation
  BY <1>2 DEF StartCounter, Increment, CheckValues, Check, Operation, Counters
<1>4. At(ops, 1) = counters /\ counters \in [Counters -> Nat]
  BY OneAfterAnother
<1>5. \A i \in 1 .. 10 : At(ops, i + 1) = Op(ops, i, At(ops, i)) /\ At(ops, i) \in [Counters -> Nat]
  BY <1>2, <1>3, <1>4, OneAfterAnother
<1>6. /\ At(ops, 2) = [At(ops, 1) EXCEPT !["Main"] = 1]
      /\ At(ops, 3) = [At(ops, 2) EXCEPT !["Main"] = @ + 1]
      /\ At(ops, 4) = [At(ops, 3) EXCEPT !["Init"] = 1]
      /\ At(ops, 5) = [At(ops, 4) EXCEPT !["Main"] = @ + 1]
      /\ At(ops, 6) = [At(ops, 5) EXCEPT !["Init"] = @ + 1]
      /\ At(ops, 7) = [At(ops, 6) EXCEPT !["SecMmio"] = @ + 1]
      /\ At(ops, 8) = [At(ops, 7) EXCEPT !["SecMmio"] = @ + 1]
      /\ At(ops, 9) = [At(ops, 8) EXCEPT !["Init"] = @ + 1]
      /\ At(ops, 10) = [At(ops, 9) EXCEPT !["Main"] = @ + 1]
      /\ At(ops, 11) = At(ops, 10)
  BY <1>2, <1>5 DEF Op, StartCounter, Increment, CheckValues, Check
<1>7. /\ At(ops, 2)["Main"] = 1 /\ At(ops, 4)["Main"] = 2 /\ At(ops, 5)["Init"] = 1 /\ At(ops, 7)["SecMmio"] = 1
      /\ At(ops, 8)["Init"] = 2 /\ At(ops, 9)["Main"] = 3 /\ At(ops, 10)["Init"] = 3
      /\ At(ops, 11)["Main"] = 4 /\ At(ops, 11)["SecMmio"] = 2 /\ At(ops, 11)["Init"] = 3
      /\ \A c \in Counters \ {"Main", "SecMmio", "Init"} : At(ops, 11)[c] = 0
  BY <1>4, <1>5, <1>6 DEF Counters
<1>8. \A i \in 1 .. 10 : Passes(ops, i, At(ops, i))
  BY <1>2, <1>7 DEF Passes, StartCounter, Increment, CheckValues, Check
<1>9. counters' = At(ops, 11) /\ pc' = IF waking THEN "try" ELSE "straps"
  <2>1. \A i \in DOMAIN ops : ops[i] \in Operation /\ Passes(ops, i, At(ops, i))
    BY <1>2, <1>3, <1>8
  <2>2. counters' = At(ops, Len(ops) + 1) /\ pc' = IF waking THEN "try" ELSE "straps"
    BY <1>1, <1>4, <2>1, StretchGoes
  <2> QED
    BY <1>2, <2>2
<1>10. At(ops, 11) \in [Counters -> Nat]
  BY <1>5, <1>6
<1>11. \A c \in Counters : At(ops, 11)[c] \in 0 .. 10
  BY <1>7
<1> QED
  BY <1>7, <1>9, <1>10, <1>11

\* rom_try_boot() up to the first image.
LEMMA TryBootCounts ==
  ASSUME TryBoot, pc' # "shutdown",
         counters \in [Counters -> 0 .. 10], counters["Main"] = 4, counters["SecMmio"] = 2
  PROVE  /\ pc' = "first" /\ counters' \in [Counters -> 0 .. 10]
         /\ counters'["TryBoot"] = 4 /\ counters'["Verify"] = 1 /\ counters'["SecMmio"] = 2
<1> DEFINE ops == PrepCall("Main", 4, "TryBoot") \o << Increment("TryBoot", 1) >>
                  \o PrepCall("TryBoot", 2, "Verify")
<1>1. Go(ops, "first")
  BY DEF TryBoot
<1>2. /\ Len(ops) = 7 /\ DOMAIN ops = 1 .. 7
      /\ ops[1] = Increment("Main", 4) /\ ops[2] = StartCounter("TryBoot")
      /\ ops[3] = Increment("Main", 5) /\ ops[4] = Increment("TryBoot", 1)
      /\ ops[5] = Increment("TryBoot", 2) /\ ops[6] = StartCounter("Verify")
      /\ ops[7] = Increment("TryBoot", 3)
  BY DEF PrepCall, CheckCounters
<1> HIDE DEF ops
<1>3. \A i \in 1 .. 7 : ops[i] \in Operation
  BY <1>2 DEF StartCounter, Increment, CheckValues, Check, Operation, Counters
<1>4. At(ops, 1) = counters /\ counters \in [Counters -> Nat]
  BY OneAfterAnother
<1>5. \A i \in 1 .. 7 : At(ops, i + 1) = Op(ops, i, At(ops, i)) /\ At(ops, i) \in [Counters -> Nat]
  <2>1. \A i \in 1 .. 7 : i \in DOMAIN ops /\ i \in Nat \ {0} /\ ops[i] \in Operation
    BY <1>2, <1>3
  <2>2. \A i \in DOMAIN ops : i \in Nat \ {0} /\ ops[i] \in Operation =>
          At(ops, i) \in [Counters -> Nat] /\ At(ops, i + 1) = Op(ops, i, At(ops, i))
    BY <1>4, OneAfterAnother
  <2> QED
    BY <2>1, <2>2
<1>6. /\ At(ops, 2) = [At(ops, 1) EXCEPT !["Main"] = @ + 1]
      /\ At(ops, 3) = [At(ops, 2) EXCEPT !["TryBoot"] = 1]
      /\ At(ops, 4) = [At(ops, 3) EXCEPT !["Main"] = @ + 1]
      /\ At(ops, 5) = [At(ops, 4) EXCEPT !["TryBoot"] = @ + 1]
      /\ At(ops, 6) = [At(ops, 5) EXCEPT !["TryBoot"] = @ + 1]
      /\ At(ops, 7) = [At(ops, 6) EXCEPT !["Verify"] = 1]
      /\ At(ops, 8) = [At(ops, 7) EXCEPT !["TryBoot"] = @ + 1]
  BY <1>2, <1>5 DEF Op, StartCounter, Increment, CheckValues, Check
<1>7. /\ At(ops, 1)["Main"] = 4 /\ At(ops, 3)["Main"] = 5 /\ At(ops, 4)["TryBoot"] = 1
      /\ At(ops, 5)["TryBoot"] = 2 /\ At(ops, 7)["TryBoot"] = 3 /\ At(ops, 8)["Main"] = 6
      /\ At(ops, 8)["TryBoot"] = 4 /\ At(ops, 8)["Verify"] = 1
      /\ \A c \in Counters \ {"Main", "TryBoot", "Verify"} : At(ops, 8)[c] = counters[c]
  BY <1>4, <1>5, <1>6 DEF Counters
<1>8. \A i \in 1 .. 7 : Passes(ops, i, At(ops, i))
  BY <1>2, <1>7 DEF Passes, StartCounter, Increment, CheckValues, Check
<1>9. counters' = At(ops, 8) /\ pc' = "first"
  <2>1. \A i \in DOMAIN ops : ops[i] \in Operation /\ Passes(ops, i, At(ops, i))
    BY <1>2, <1>3, <1>8
  <2>2. counters' = At(ops, Len(ops) + 1) /\ pc' = "first"
    BY <1>1, <1>4, <2>1, StretchGoes
  <2> QED
    BY <1>2, <2>2
<1>10. At(ops, 8) \in [Counters -> Nat]
  BY <1>5, <1>6
<1>11. \A c \in Counters : At(ops, 8)[c] \in 0 .. 10
  BY <1>7
<1> QED
  BY <1>7, <1>9, <1>10, <1>11 DEF Counters

\* The first image verifies.
LEMMA FirstBoots ==
  ASSUME TryFirst, Bootable(order[1]),
         counters \in [Counters -> 0 .. 10], counters["TryBoot"] = 4, counters["Verify"] = 1, counters["SecMmio"] = 2
  PROVE  /\ pc' = "boot" /\ counters' \in [Counters -> 0 .. 10]
         /\ counters'["TryBoot"] = 3 /\ counters'["Boot"] = 1 /\ counters'["SecMmio"] = 2
<1> DEFINE ops == (<< Increment("Verify", 1), Increment("Verify", 2) >> \o << Increment("TryBoot", 4) >>)
                  \o << Check("Verify", 3), StartCounter("TryBoot") >>
                  \o PrepCall("TryBoot", 1, "Boot")
<1>1. Go(ops, "boot")
  BY DEF TryFirst, VerifyCounts, Through, Bootable
<1>2. /\ Len(ops) = 8 /\ DOMAIN ops = 1 .. 8
      /\ ops[1] = Increment("Verify", 1) /\ ops[2] = Increment("Verify", 2)
      /\ ops[3] = Increment("TryBoot", 4) /\ ops[4] = Check("Verify", 3)
      /\ ops[5] = StartCounter("TryBoot") /\ ops[6] = Increment("TryBoot", 1)
      /\ ops[7] = StartCounter("Boot") /\ ops[8] = Increment("TryBoot", 2)
  BY DEF PrepCall, CheckCounters
<1> HIDE DEF ops
<1>3. \A i \in 1 .. 8 : ops[i] \in Operation
  BY <1>2 DEF StartCounter, Increment, CheckValues, Check, Operation, Counters
<1>4. At(ops, 1) = counters /\ counters \in [Counters -> Nat]
  BY OneAfterAnother
<1>5. \A i \in 1 .. 8 : At(ops, i + 1) = Op(ops, i, At(ops, i)) /\ At(ops, i) \in [Counters -> Nat]
  <2>1. \A i \in 1 .. 8 : i \in DOMAIN ops /\ i \in Nat \ {0} /\ ops[i] \in Operation
    BY <1>2, <1>3
  <2>2. \A i \in DOMAIN ops : i \in Nat \ {0} /\ ops[i] \in Operation =>
          At(ops, i) \in [Counters -> Nat] /\ At(ops, i + 1) = Op(ops, i, At(ops, i))
    BY <1>4, OneAfterAnother
  <2> QED
    BY <2>1, <2>2
<1>6. /\ At(ops, 2) = [At(ops, 1) EXCEPT !["Verify"] = @ + 1]
      /\ At(ops, 3) = [At(ops, 2) EXCEPT !["Verify"] = @ + 1]
      /\ At(ops, 4) = [At(ops, 3) EXCEPT !["TryBoot"] = @ + 1] /\ At(ops, 5) = At(ops, 4)
      /\ At(ops, 6) = [At(ops, 5) EXCEPT !["TryBoot"] = 1]
      /\ At(ops, 7) = [At(ops, 6) EXCEPT !["TryBoot"] = @ + 1]
      /\ At(ops, 8) = [At(ops, 7) EXCEPT !["Boot"] = 1]
      /\ At(ops, 9) = [At(ops, 8) EXCEPT !["TryBoot"] = @ + 1]
  BY <1>2, <1>5 DEF Op, StartCounter, Increment, CheckValues, Check
<1>7. /\ At(ops, 1)["Verify"] = 1 /\ At(ops, 2)["Verify"] = 2 /\ At(ops, 3)["TryBoot"] = 4
      /\ At(ops, 4)["Verify"] = 3 /\ At(ops, 6)["TryBoot"] = 1 /\ At(ops, 8)["TryBoot"] = 2
      /\ At(ops, 9)["Boot"] = 1 /\ At(ops, 9)["TryBoot"] = 3 /\ At(ops, 9)["Verify"] = 3
      /\ \A c \in Counters \ {"Boot", "TryBoot", "Verify"} : At(ops, 9)[c] = counters[c]
  BY <1>4, <1>5, <1>6 DEF Counters
<1>8. \A i \in 1 .. 8 : Passes(ops, i, At(ops, i))
  BY <1>2, <1>7 DEF Passes, StartCounter, Increment, CheckValues, Check
<1>9. counters' = At(ops, 9) /\ pc' = "boot"
  <2>1. \A i \in DOMAIN ops : ops[i] \in Operation /\ Passes(ops, i, At(ops, i))
    BY <1>2, <1>3, <1>8
  <2>2. counters' = At(ops, Len(ops) + 1) /\ pc' = "boot"
    BY <1>1, <1>4, <2>1, StretchGoes
  <2> QED
    BY <1>2, <2>2
<1>10. At(ops, 9) \in [Counters -> Nat]
  BY <1>5, <1>6
<1>11. \A c \in Counters : At(ops, 9)[c] \in 0 .. 10
  BY <1>7
<1> QED
  BY <1>7, <1>9, <1>10, <1>11 DEF Counters

\* It has a good manifest, and its signature is wrong.
LEMMA FirstFailsLate ==
  ASSUME Go((Through \o << Increment("TryBoot", 4) >>) \o PrepCall("TryBoot", 5, "Verify"), "second"),
         counters \in [Counters -> 0 .. 10], counters["TryBoot"] = 4, counters["Verify"] = 1, counters["SecMmio"] = 2
  PROVE  /\ pc' = "second" /\ counters' \in [Counters -> 0 .. 10]
         /\ counters'["TryBoot"] = 7 /\ counters'["Verify"] = 1 /\ counters'["SecMmio"] = 2
<1> DEFINE ops == (<< Increment("Verify", 1), Increment("Verify", 2) >> \o << Increment("TryBoot", 4) >>)
                  \o PrepCall("TryBoot", 5, "Verify")
<1>1. Go(ops, "second")
  BY DEF Through
<1>2. /\ Len(ops) = 6 /\ DOMAIN ops = 1 .. 6
      /\ ops[1] = Increment("Verify", 1) /\ ops[2] = Increment("Verify", 2)
      /\ ops[3] = Increment("TryBoot", 4) /\ ops[4] = Increment("TryBoot", 5)
      /\ ops[5] = StartCounter("Verify") /\ ops[6] = Increment("TryBoot", 6)
  BY DEF PrepCall, CheckCounters
<1> HIDE DEF ops
<1>3. \A i \in 1 .. 6 : ops[i] \in Operation
  BY <1>2 DEF StartCounter, Increment, CheckValues, Check, Operation, Counters
<1>4. At(ops, 1) = counters /\ counters \in [Counters -> Nat]
  BY OneAfterAnother
<1>5. \A i \in 1 .. 6 : At(ops, i + 1) = Op(ops, i, At(ops, i)) /\ At(ops, i) \in [Counters -> Nat]
  <2>1. \A i \in 1 .. 6 : i \in DOMAIN ops /\ i \in Nat \ {0} /\ ops[i] \in Operation
    BY <1>2, <1>3
  <2>2. \A i \in DOMAIN ops : i \in Nat \ {0} /\ ops[i] \in Operation =>
          At(ops, i) \in [Counters -> Nat] /\ At(ops, i + 1) = Op(ops, i, At(ops, i))
    BY <1>4, OneAfterAnother
  <2> QED
    BY <2>1, <2>2
<1>6. /\ At(ops, 2) = [At(ops, 1) EXCEPT !["Verify"] = @ + 1]
      /\ At(ops, 3) = [At(ops, 2) EXCEPT !["Verify"] = @ + 1]
      /\ At(ops, 4) = [At(ops, 3) EXCEPT !["TryBoot"] = @ + 1]
      /\ At(ops, 5) = [At(ops, 4) EXCEPT !["TryBoot"] = @ + 1]
      /\ At(ops, 6) = [At(ops, 5) EXCEPT !["Verify"] = 1]
      /\ At(ops, 7) = [At(ops, 6) EXCEPT !["TryBoot"] = @ + 1]
  BY <1>2, <1>5 DEF Op, StartCounter, Increment, CheckValues, Check
<1>7. /\ At(ops, 1)["Verify"] = 1 /\ At(ops, 2)["Verify"] = 2 /\ At(ops, 3)["TryBoot"] = 4
      /\ At(ops, 4)["TryBoot"] = 5 /\ At(ops, 6)["TryBoot"] = 6 /\ At(ops, 7)["TryBoot"] = 7
      /\ At(ops, 7)["Verify"] = 1
      /\ \A c \in Counters \ {"TryBoot", "Verify"} : At(ops, 7)[c] = counters[c]
  BY <1>4, <1>5, <1>6 DEF Counters
<1>8. \A i \in 1 .. 6 : Passes(ops, i, At(ops, i))
  BY <1>2, <1>7 DEF Passes, StartCounter, Increment, CheckValues, Check
<1>9. counters' = At(ops, 7) /\ pc' = "second"
  <2>1. \A i \in DOMAIN ops : ops[i] \in Operation /\ Passes(ops, i, At(ops, i))
    BY <1>2, <1>3, <1>8
  <2>2. counters' = At(ops, Len(ops) + 1) /\ pc' = "second"
    BY <1>1, <1>4, <2>1, StretchGoes
  <2> QED
    BY <1>2, <2>2
<1>10. At(ops, 7) \in [Counters -> Nat]
  BY <1>5, <1>6
<1>11. \A c \in Counters : At(ops, 7)[c] \in 0 .. 10
  BY <1>7
<1> QED
  BY <1>7, <1>9, <1>10, <1>11 DEF Counters

\* A key of it is refused.
LEMMA FirstFailsHalfway ==
  ASSUME Go((Halfway \o << Increment("TryBoot", 4) >>) \o PrepCall("TryBoot", 5, "Verify"), "second"),
         counters \in [Counters -> 0 .. 10], counters["TryBoot"] = 4, counters["Verify"] = 1, counters["SecMmio"] = 2
  PROVE  /\ pc' = "second" /\ counters' \in [Counters -> 0 .. 10]
         /\ counters'["TryBoot"] = 7 /\ counters'["Verify"] = 1 /\ counters'["SecMmio"] = 2
<1> DEFINE ops == (<< Increment("Verify", 1) >> \o << Increment("TryBoot", 4) >>)
                  \o PrepCall("TryBoot", 5, "Verify")
<1>1. Go(ops, "second")
  BY DEF Halfway
<1>2. /\ Len(ops) = 5 /\ DOMAIN ops = 1 .. 5
      /\ ops[1] = Increment("Verify", 1)
      /\ ops[2] = Increment("TryBoot", 4) /\ ops[3] = Increment("TryBoot", 5)
      /\ ops[4] = StartCounter("Verify") /\ ops[5] = Increment("TryBoot", 6)
  BY DEF PrepCall, CheckCounters
<1> HIDE DEF ops
<1>3. \A i \in 1 .. 5 : ops[i] \in Operation
  BY <1>2 DEF StartCounter, Increment, CheckValues, Check, Operation, Counters
<1>4. At(ops, 1) = counters /\ counters \in [Counters -> Nat]
  BY OneAfterAnother
<1>5. \A i \in 1 .. 5 : At(ops, i + 1) = Op(ops, i, At(ops, i)) /\ At(ops, i) \in [Counters -> Nat]
  <2>1. \A i \in 1 .. 5 : i \in DOMAIN ops /\ i \in Nat \ {0} /\ ops[i] \in Operation
    BY <1>2, <1>3
  <2>2. \A i \in DOMAIN ops : i \in Nat \ {0} /\ ops[i] \in Operation =>
          At(ops, i) \in [Counters -> Nat] /\ At(ops, i + 1) = Op(ops, i, At(ops, i))
    BY <1>4, OneAfterAnother
  <2> QED
    BY <2>1, <2>2
<1>6. /\ At(ops, 2) = [At(ops, 1) EXCEPT !["Verify"] = @ + 1]
      /\ At(ops, 3) = [At(ops, 2) EXCEPT !["TryBoot"] = @ + 1]
      /\ At(ops, 4) = [At(ops, 3) EXCEPT !["TryBoot"] = @ + 1]
      /\ At(ops, 5) = [At(ops, 4) EXCEPT !["Verify"] = 1]
      /\ At(ops, 6) = [At(ops, 5) EXCEPT !["TryBoot"] = @ + 1]
  BY <1>2, <1>5 DEF Op, StartCounter, Increment, CheckValues, Check
<1>7. /\ At(ops, 1)["Verify"] = 1 /\ At(ops, 2)["TryBoot"] = 4
      /\ At(ops, 3)["TryBoot"] = 5 /\ At(ops, 5)["TryBoot"] = 6 /\ At(ops, 6)["TryBoot"] = 7
      /\ At(ops, 6)["Verify"] = 1
      /\ \A c \in Counters \ {"TryBoot", "Verify"} : At(ops, 6)[c] = counters[c]
  BY <1>4, <1>5, <1>6 DEF Counters
<1>8. \A i \in 1 .. 5 : Passes(ops, i, At(ops, i))
  BY <1>2, <1>7 DEF Passes, StartCounter, Increment, CheckValues, Check
<1>9. counters' = At(ops, 6) /\ pc' = "second"
  <2>1. \A i \in DOMAIN ops : ops[i] \in Operation /\ Passes(ops, i, At(ops, i))
    BY <1>2, <1>3, <1>8
  <2>2. counters' = At(ops, Len(ops) + 1) /\ pc' = "second"
    BY <1>1, <1>4, <2>1, StretchGoes
  <2> QED
    BY <1>2, <2>2
<1>10. At(ops, 6) \in [Counters -> Nat]
  BY <1>5, <1>6
<1>11. \A c \in Counters : At(ops, 6)[c] \in 0 .. 10
  BY <1>7
<1> QED
  BY <1>7, <1>9, <1>10, <1>11 DEF Counters

\* The manifest is refused.
LEMMA FirstFailsEarly ==
  ASSUME Go((<<>> \o << Increment("TryBoot", 4) >>) \o PrepCall("TryBoot", 5, "Verify"), "second"),
         counters \in [Counters -> 0 .. 10], counters["TryBoot"] = 4, counters["Verify"] = 1, counters["SecMmio"] = 2
  PROVE  /\ pc' = "second" /\ counters' \in [Counters -> 0 .. 10]
         /\ counters'["TryBoot"] = 7 /\ counters'["Verify"] = 1 /\ counters'["SecMmio"] = 2
<1> DEFINE ops == (<<>> \o << Increment("TryBoot", 4) >>)
                  \o PrepCall("TryBoot", 5, "Verify")
<1>1. Go(ops, "second")
  OBVIOUS
<1>2. /\ Len(ops) = 4 /\ DOMAIN ops = 1 .. 4
      /\ ops[1] = Increment("TryBoot", 4) /\ ops[2] = Increment("TryBoot", 5)
      /\ ops[3] = StartCounter("Verify") /\ ops[4] = Increment("TryBoot", 6)
  BY DEF PrepCall, CheckCounters
<1> HIDE DEF ops
<1>3. \A i \in 1 .. 4 : ops[i] \in Operation
  BY <1>2 DEF StartCounter, Increment, CheckValues, Check, Operation, Counters
<1>4. At(ops, 1) = counters /\ counters \in [Counters -> Nat]
  BY OneAfterAnother
<1>5. \A i \in 1 .. 4 : At(ops, i + 1) = Op(ops, i, At(ops, i)) /\ At(ops, i) \in [Counters -> Nat]
  <2>1. \A i \in 1 .. 4 : i \in DOMAIN ops /\ i \in Nat \ {0} /\ ops[i] \in Operation
    BY <1>2, <1>3
  <2>2. \A i \in DOMAIN ops : i \in Nat \ {0} /\ ops[i] \in Operation =>
          At(ops, i) \in [Counters -> Nat] /\ At(ops, i + 1) = Op(ops, i, At(ops, i))
    BY <1>4, OneAfterAnother
  <2> QED
    BY <2>1, <2>2
<1>6. /\ At(ops, 2) = [At(ops, 1) EXCEPT !["TryBoot"] = @ + 1]
      /\ At(ops, 3) = [At(ops, 2) EXCEPT !["TryBoot"] = @ + 1]
      /\ At(ops, 4) = [At(ops, 3) EXCEPT !["Verify"] = 1]
      /\ At(ops, 5) = [At(ops, 4) EXCEPT !["TryBoot"] = @ + 1]
  BY <1>2, <1>5 DEF Op, StartCounter, Increment, CheckValues, Check
<1>7. /\ At(ops, 1)["TryBoot"] = 4 /\ At(ops, 2)["TryBoot"] = 5 /\ At(ops, 4)["TryBoot"] = 6
      /\ At(ops, 5)["TryBoot"] = 7 /\ At(ops, 5)["Verify"] = 1
      /\ \A c \in Counters \ {"TryBoot", "Verify"} : At(ops, 5)[c] = counters[c]
  BY <1>4, <1>5, <1>6 DEF Counters
<1>8. \A i \in 1 .. 4 : Passes(ops, i, At(ops, i))
  BY <1>2, <1>7 DEF Passes, StartCounter, Increment, CheckValues, Check
<1>9. counters' = At(ops, 5) /\ pc' = "second"
  <2>1. \A i \in DOMAIN ops : ops[i] \in Operation /\ Passes(ops, i, At(ops, i))
    BY <1>2, <1>3, <1>8
  <2>2. counters' = At(ops, Len(ops) + 1) /\ pc' = "second"
    BY <1>1, <1>4, <2>1, StretchGoes
  <2> QED
    BY <1>2, <2>2
<1>10. At(ops, 5) \in [Counters -> Nat]
  BY <1>5, <1>6
<1>11. \A c \in Counters : At(ops, 5)[c] \in 0 .. 10
  BY <1>7
<1> QED
  BY <1>7, <1>9, <1>10, <1>11 DEF Counters

\* The second image verifies.
LEMMA SecondBoots ==
  ASSUME TrySecond, Bootable(order[2]),
         counters \in [Counters -> 0 .. 10], counters["TryBoot"] = 7, counters["Verify"] = 1, counters["SecMmio"] = 2
  PROVE  /\ pc' = "boot" /\ counters' \in [Counters -> 0 .. 10]
         /\ counters'["TryBoot"] = 10 /\ counters'["Boot"] = 1 /\ counters'["SecMmio"] = 2
<1> DEFINE ops == << Increment("Verify", 1), Increment("Verify", 2) >>
                  \o << Increment("TryBoot", 7), Check("Verify", 3) >>
                  \o PrepCall("TryBoot", 8, "Boot")
<1>1. Go(ops, "boot")
  BY DEF TrySecond, VerifyCounts, Through, Bootable
<1>2. /\ Len(ops) = 7 /\ DOMAIN ops = 1 .. 7
      /\ ops[1] = Increment("Verify", 1) /\ ops[2] = Increment("Verify", 2)
      /\ ops[3] = Increment("TryBoot", 7) /\ ops[4] = Check("Verify", 3)
      /\ ops[5] = Increment("TryBoot", 8) /\ ops[6] = StartCounter("Boot")
      /\ ops[7] = Increment("TryBoot", 9)
  BY DEF PrepCall, CheckCounters
<1> HIDE DEF ops
<1>3. \A i \in 1 .. 7 : ops[i] \in Operation
  BY <1>2 DEF StartCounter, Increment, CheckValues, Check, Operation, Counters
<1>4. At(ops, 1) = counters /\ counters \in [Counters -> Nat]
  BY OneAfterAnother
<1>5. \A i \in 1 .. 7 : At(ops, i + 1) = Op(ops, i, At(ops, i)) /\ At(ops, i) \in [Counters -> Nat]
  <2>1. \A i \in 1 .. 7 : i \in DOMAIN ops /\ i \in Nat \ {0} /\ ops[i] \in Operation
    BY <1>2, <1>3
  <2>2. \A i \in DOMAIN ops : i \in Nat \ {0} /\ ops[i] \in Operation =>
          At(ops, i) \in [Counters -> Nat] /\ At(ops, i + 1) = Op(ops, i, At(ops, i))
    BY <1>4, OneAfterAnother
  <2> QED
    BY <2>1, <2>2
<1>6. /\ At(ops, 2) = [At(ops, 1) EXCEPT !["Verify"] = @ + 1]
      /\ At(ops, 3) = [At(ops, 2) EXCEPT !["Verify"] = @ + 1]
      /\ At(ops, 4) = [At(ops, 3) EXCEPT !["TryBoot"] = @ + 1] /\ At(ops, 5) = At(ops, 4)
      /\ At(ops, 6) = [At(ops, 5) EXCEPT !["TryBoot"] = @ + 1]
      /\ At(ops, 7) = [At(ops, 6) EXCEPT !["Boot"] = 1]
      /\ At(ops, 8) = [At(ops, 7) EXCEPT !["TryBoot"] = @ + 1]
  BY <1>2, <1>5 DEF Op, StartCounter, Increment, CheckValues, Check
<1>7. /\ At(ops, 1)["Verify"] = 1 /\ At(ops, 2)["Verify"] = 2 /\ At(ops, 3)["TryBoot"] = 7
      /\ At(ops, 4)["Verify"] = 3 /\ At(ops, 5)["TryBoot"] = 8 /\ At(ops, 7)["TryBoot"] = 9
      /\ At(ops, 8)["Boot"] = 1 /\ At(ops, 8)["TryBoot"] = 10 /\ At(ops, 8)["Verify"] = 3
      /\ \A c \in Counters \ {"Boot", "TryBoot", "Verify"} : At(ops, 8)[c] = counters[c]
  BY <1>4, <1>5, <1>6 DEF Counters
<1>8. \A i \in 1 .. 7 : Passes(ops, i, At(ops, i))
  BY <1>2, <1>7 DEF Passes, StartCounter, Increment, CheckValues, Check
<1>9. counters' = At(ops, 8) /\ pc' = "boot"
  <2>1. \A i \in DOMAIN ops : ops[i] \in Operation /\ Passes(ops, i, At(ops, i))
    BY <1>2, <1>3, <1>8
  <2>2. counters' = At(ops, Len(ops) + 1) /\ pc' = "boot"
    BY <1>1, <1>4, <2>1, StretchGoes
  <2> QED
    BY <1>2, <2>2
<1>10. At(ops, 8) \in [Counters -> Nat]
  BY <1>5, <1>6
<1>11. \A c \in Counters : At(ops, 8)[c] \in 0 .. 10
  BY <1>7
<1> QED
  BY <1>7, <1>9, <1>10, <1>11 DEF Counters

\* It does not.
LEMMA SecondFailsLate ==
  ASSUME Go(Through, "shutdown"),
         counters \in [Counters -> 0 .. 10], counters["TryBoot"] = 7, counters["Verify"] = 1, counters["SecMmio"] = 2
  PROVE  pc' = "shutdown" /\ counters' \in [Counters -> 0 .. 10]
<1> DEFINE ops == << Increment("Verify", 1), Increment("Verify", 2) >>
<1>1. Go(ops, "shutdown")
  BY DEF Through
<1>2. /\ Len(ops) = 2 /\ DOMAIN ops = 1 .. 2
      /\ ops[1] = Increment("Verify", 1) /\ ops[2] = Increment("Verify", 2)
  BY DEF PrepCall, CheckCounters
<1> HIDE DEF ops
<1>3. \A i \in 1 .. 2 : ops[i] \in Operation
  BY <1>2 DEF StartCounter, Increment, CheckValues, Check, Operation, Counters
<1>4. At(ops, 1) = counters /\ counters \in [Counters -> Nat]
  BY OneAfterAnother
<1>5. \A i \in 1 .. 2 : At(ops, i + 1) = Op(ops, i, At(ops, i)) /\ At(ops, i) \in [Counters -> Nat]
  <2>1. \A i \in 1 .. 2 : i \in DOMAIN ops /\ i \in Nat \ {0} /\ ops[i] \in Operation
    BY <1>2, <1>3
  <2>2. \A i \in DOMAIN ops : i \in Nat \ {0} /\ ops[i] \in Operation =>
          At(ops, i) \in [Counters -> Nat] /\ At(ops, i + 1) = Op(ops, i, At(ops, i))
    BY <1>4, OneAfterAnother
  <2> QED
    BY <2>1, <2>2
<1>6. /\ At(ops, 2) = [At(ops, 1) EXCEPT !["Verify"] = @ + 1]
      /\ At(ops, 3) = [At(ops, 2) EXCEPT !["Verify"] = @ + 1]
  BY <1>2, <1>5 DEF Op, StartCounter, Increment, CheckValues, Check
<1>7. /\ At(ops, 1)["Verify"] = 1 /\ At(ops, 2)["Verify"] = 2 /\ At(ops, 3)["Verify"] = 3
      /\ \A c \in Counters \ {"Verify"} : At(ops, 3)[c] = counters[c]
  BY <1>4, <1>5, <1>6 DEF Counters
<1>8. \A i \in 1 .. 2 : Passes(ops, i, At(ops, i))
  BY <1>2, <1>7 DEF Passes, StartCounter, Increment, CheckValues, Check
<1>9. counters' = At(ops, 3) /\ pc' = "shutdown"
  <2>1. \A i \in DOMAIN ops : ops[i] \in Operation /\ Passes(ops, i, At(ops, i))
    BY <1>2, <1>3, <1>8
  <2>2. counters' = At(ops, Len(ops) + 1) /\ pc' = "shutdown"
    BY <1>1, <1>4, <2>1, StretchGoes
  <2> QED
    BY <1>2, <2>2
<1>10. At(ops, 3) \in [Counters -> Nat]
  BY <1>5, <1>6
<1>11. \A c \in Counters : At(ops, 3)[c] \in 0 .. 10
  BY <1>7
<1> QED
  BY <1>7, <1>9, <1>10, <1>11 DEF Counters

LEMMA SecondFailsHalfway ==
  ASSUME Go(Halfway, "shutdown"), counters \in [Counters -> 0 .. 10], counters["Verify"] = 1
  PROVE  pc' = "shutdown" /\ counters' \in [Counters -> 0 .. 10]
<1> DEFINE ops == << Increment("Verify", 1) >>
<1>1. Go(ops, "shutdown")
  BY DEF Halfway
<1>2. Len(ops) = 1 /\ DOMAIN ops = 1 .. 1 /\ ops[1] = Increment("Verify", 1)
  OBVIOUS
<1> HIDE DEF ops
<1>3. ops[1] \in Operation
  BY <1>2 DEF Increment, Operation, Counters
<1>4. At(ops, 1) = counters /\ counters \in [Counters -> Nat]
  BY OneAfterAnother
<1>5. At(ops, 2) = Op(ops, 1, counters)
  <2>1. 1 \in DOMAIN ops /\ 1 \in Nat \ {0} /\ 1 + 1 = 2
    BY <1>2
  <2> QED
    BY <1>3, <1>4, <2>1, OneAfterAnother
<1>6. At(ops, 2) = [counters EXCEPT !["Verify"] = @ + 1]
  BY <1>2, <1>5 DEF Op, Increment
<1>7. At(ops, 2) \in [Counters -> 0 .. 10]
  BY <1>6 DEF Counters
<1>8. Passes(ops, 1, At(ops, 1))
  BY <1>2, <1>4 DEF Passes, Increment
<1>9. counters' = At(ops, 2) /\ pc' = "shutdown"
  <2>1. \A i \in DOMAIN ops : ops[i] \in Operation /\ Passes(ops, i, At(ops, i))
    BY <1>2, <1>3, <1>8
  <2>2. counters' = At(ops, Len(ops) + 1) /\ pc' = "shutdown"
    BY <1>1, <1>4, <2>1, StretchGoes
  <2> QED
    BY <1>2, <2>2
<1> QED
  BY <1>7, <1>9

LEMMA SecondFailsEarly ==
  ASSUME Go(<<>>, "shutdown"), counters \in [Counters -> 0 .. 10]
  PROVE  pc' = "shutdown" /\ counters' \in [Counters -> 0 .. 10]
<1>1. Go(<<>>, "shutdown")
  OBVIOUS
<1>2. counters \in [Counters -> Nat] /\ Len(<<>>) = 0 /\ DOMAIN <<>> = {}
  OBVIOUS
<1>3. counters' = At(<<>>, 0 + 1) /\ pc' = "shutdown"
  BY <1>1, <1>2, StretchGoes
<1>4. At(<<>>, 1) = counters
  BY <1>2, OneAfterAnother
<1> QED
  BY <1>3, <1>4

\* rom_boot() with the first image.
LEMMA FirstRuns ==
  ASSUME Boot, Bootable(order[1]),
         counters \in [Counters -> 0 .. 10], counters["Boot"] = 1, counters["SecMmio"] = 2, counters["TryBoot"] = 3
  PROVE  pc' = "run" /\ counters' \in [Counters -> 0 .. 10]
<1> DEFINE ops == << Increment("Boot", 1), CheckCounters(2) >> \o PrepCall("Boot", 2, "PreBootCheck")
                  \o [i \in 1 .. 6 |-> Increment("PreBootCheck", i)]
                  \o << CheckCounters(3), Increment("PreBootCheck", 7),
                        Increment("Boot", 4), Check("PreBootCheck", 8), CheckValues, CheckCounters(5),
                        Check("TryBoot", 3), Increment("Boot", 5) >>
<1>1. Go(ops, "run")
  BY DEF Boot, Chosen
<1>2. /\ Len(ops) = 19 /\ DOMAIN ops = 1 .. 19
      /\ ops[1] = Increment("Boot", 1) /\ ops[2] = Increment("SecMmio", 2)
      /\ ops[3] = Increment("Boot", 2) /\ ops[4] = StartCounter("PreBootCheck")
      /\ ops[5] = Increment("Boot", 3) /\ ops[6] = Increment("PreBootCheck", 1)
      /\ ops[7] = Increment("PreBootCheck", 2) /\ ops[8] = Increment("PreBootCheck", 3)
      /\ ops[9] = Increment("PreBootCheck", 4) /\ ops[10] = Increment("PreBootCheck", 5)
      /\ ops[11] = Increment("PreBootCheck", 6) /\ ops[12] = Increment("SecMmio", 3)
      /\ ops[13] = Increment("PreBootCheck", 7) /\ ops[14] = Increment("Boot", 4)
      /\ ops[15] = Check("PreBootCheck", 8) /\ ops[16] = CheckValues
      /\ ops[17] = Increment("SecMmio", 5) /\ ops[18] = Check("TryBoot", 3)
      /\ ops[19] = Increment("Boot", 5)
  BY DEF PrepCall, CheckCounters
<1> HIDE DEF ops
<1>3. \A i \in 1 .. 19 : ops[i] \in Operation
  BY <1>2 DEF StartCounter, Increment, CheckValues, Check, Operation, Counters
<1>4. At(ops, 1) = counters /\ counters \in [Counters -> Nat]
  BY OneAfterAnother
<1>5. \A i \in 1 .. 19 : At(ops, i + 1) = Op(ops, i, At(ops, i)) /\ At(ops, i) \in [Counters -> Nat]
  <2>1. \A i \in 1 .. 19 : i \in DOMAIN ops /\ i \in Nat \ {0} /\ ops[i] \in Operation
    BY <1>2, <1>3
  <2>2. \A i \in DOMAIN ops : i \in Nat \ {0} /\ ops[i] \in Operation =>
          At(ops, i) \in [Counters -> Nat] /\ At(ops, i + 1) = Op(ops, i, At(ops, i))
    BY <1>4, OneAfterAnother
  <2> QED
    BY <2>1, <2>2
<1>6. /\ At(ops, 2) = [At(ops, 1) EXCEPT !["Boot"] = @ + 1]
      /\ At(ops, 3) = [At(ops, 2) EXCEPT !["SecMmio"] = @ + 1]
      /\ At(ops, 4) = [At(ops, 3) EXCEPT !["Boot"] = @ + 1]
      /\ At(ops, 5) = [At(ops, 4) EXCEPT !["PreBootCheck"] = 1]
      /\ At(ops, 6) = [At(ops, 5) EXCEPT !["Boot"] = @ + 1]
      /\ At(ops, 7) = [At(ops, 6) EXCEPT !["PreBootCheck"] = @ + 1]
      /\ At(ops, 8) = [At(ops, 7) EXCEPT !["PreBootCheck"] = @ + 1]
      /\ At(ops, 9) = [At(ops, 8) EXCEPT !["PreBootCheck"] = @ + 1]
      /\ At(ops, 10) = [At(ops, 9) EXCEPT !["PreBootCheck"] = @ + 1]
      /\ At(ops, 11) = [At(ops, 10) EXCEPT !["PreBootCheck"] = @ + 1]
      /\ At(ops, 12) = [At(ops, 11) EXCEPT !["PreBootCheck"] = @ + 1]
      /\ At(ops, 13) = [At(ops, 12) EXCEPT !["SecMmio"] = @ + 1]
      /\ At(ops, 14) = [At(ops, 13) EXCEPT !["PreBootCheck"] = @ + 1]
      /\ At(ops, 15) = [At(ops, 14) EXCEPT !["Boot"] = @ + 1] /\ At(ops, 16) = At(ops, 15)
      /\ At(ops, 17) = [At(ops, 16) EXCEPT !["SecMmio"] = @ + 1]
      /\ At(ops, 18) = [At(ops, 17) EXCEPT !["SecMmio"] = @ + 1] /\ At(ops, 19) = At(ops, 18)
      /\ At(ops, 20) = [At(ops, 19) EXCEPT !["Boot"] = @ + 1]
  <2>1. /\ At(ops, 2) = Op(ops, 1, At(ops, 1)) /\ At(ops, 3) = Op(ops, 2, At(ops, 2))
        /\ At(ops, 4) = Op(ops, 3, At(ops, 3)) /\ At(ops, 5) = Op(ops, 4, At(ops, 4))
        /\ At(ops, 6) = Op(ops, 5, At(ops, 5)) /\ At(ops, 7) = Op(ops, 6, At(ops, 6))
        /\ At(ops, 8) = Op(ops, 7, At(ops, 7)) /\ At(ops, 9) = Op(ops, 8, At(ops, 8))
        /\ At(ops, 10) = Op(ops, 9, At(ops, 9)) /\ At(ops, 11) = Op(ops, 10, At(ops, 10))
        /\ At(ops, 12) = Op(ops, 11, At(ops, 11)) /\ At(ops, 13) = Op(ops, 12, At(ops, 12))
        /\ At(ops, 14) = Op(ops, 13, At(ops, 13)) /\ At(ops, 15) = Op(ops, 14, At(ops, 14))
        /\ At(ops, 16) = Op(ops, 15, At(ops, 15)) /\ At(ops, 17) = Op(ops, 16, At(ops, 16))
        /\ At(ops, 18) = Op(ops, 17, At(ops, 17)) /\ At(ops, 19) = Op(ops, 18, At(ops, 18))
        /\ At(ops, 20) = Op(ops, 19, At(ops, 19))
    BY <1>5
  <2>2. /\ Op(ops, 1, At(ops, 1)) = [At(ops, 1) EXCEPT !["Boot"] = @ + 1]
        /\ Op(ops, 2, At(ops, 2)) = [At(ops, 2) EXCEPT !["SecMmio"] = @ + 1]
        /\ Op(ops, 3, At(ops, 3)) = [At(ops, 3) EXCEPT !["Boot"] = @ + 1]
        /\ Op(ops, 4, At(ops, 4)) = [At(ops, 4) EXCEPT !["PreBootCheck"] = 1]
        /\ Op(ops, 5, At(ops, 5)) = [At(ops, 5) EXCEPT !["Boot"] = @ + 1]
        /\ Op(ops, 6, At(ops, 6)) = [At(ops, 6) EXCEPT !["PreBootCheck"] = @ + 1]
        /\ Op(ops, 7, At(ops, 7)) = [At(ops, 7) EXCEPT !["PreBootCheck"] = @ + 1]
        /\ Op(ops, 8, At(ops, 8)) = [At(ops, 8) EXCEPT !["PreBootCheck"] = @ + 1]
        /\ Op(ops, 9, At(ops, 9)) = [At(ops, 9) EXCEPT !["PreBootCheck"] = @ + 1]
        /\ Op(ops, 10, At(ops, 10)) = [At(ops, 10) EXCEPT !["PreBootCheck"] = @ + 1]
        /\ Op(ops, 11, At(ops, 11)) = [At(ops, 11) EXCEPT !["PreBootCheck"] = @ + 1]
        /\ Op(ops, 12, At(ops, 12)) = [At(ops, 12) EXCEPT !["SecMmio"] = @ + 1]
        /\ Op(ops, 13, At(ops, 13)) = [At(ops, 13) EXCEPT !["PreBootCheck"] = @ + 1]
        /\ Op(ops, 14, At(ops, 14)) = [At(ops, 14) EXCEPT !["Boot"] = @ + 1]
        /\ Op(ops, 15, At(ops, 15)) = At(ops, 15)
        /\ Op(ops, 16, At(ops, 16)) = [At(ops, 16) EXCEPT !["SecMmio"] = @ + 1]
        /\ Op(ops, 17, At(ops, 17)) = [At(ops, 17) EXCEPT !["SecMmio"] = @ + 1]
        /\ Op(ops, 18, At(ops, 18)) = At(ops, 18)
        /\ Op(ops, 19, At(ops, 19)) = [At(ops, 19) EXCEPT !["Boot"] = @ + 1]
    BY <1>2 DEF Op, StartCounter, Increment, CheckValues, Check
  <2> QED
    BY <2>1, <2>2
<1>7. /\ At(ops, 1)["Boot"] = 1 /\ At(ops, 2)["SecMmio"] = 2 /\ At(ops, 3)["Boot"] = 2
      /\ At(ops, 5)["Boot"] = 3 /\ At(ops, 6)["PreBootCheck"] = 1
      /\ At(ops, 7)["PreBootCheck"] = 2 /\ At(ops, 8)["PreBootCheck"] = 3
      /\ At(ops, 9)["PreBootCheck"] = 4 /\ At(ops, 10)["PreBootCheck"] = 5
      /\ At(ops, 11)["PreBootCheck"] = 6 /\ At(ops, 12)["SecMmio"] = 3
      /\ At(ops, 13)["PreBootCheck"] = 7 /\ At(ops, 14)["Boot"] = 4
      /\ At(ops, 15)["PreBootCheck"] = 8 /\ At(ops, 17)["SecMmio"] = 5
      /\ At(ops, 18)["TryBoot"] = 3 /\ At(ops, 19)["Boot"] = 5 /\ At(ops, 20)["Boot"] = 6
      /\ At(ops, 20)["PreBootCheck"] = 8 /\ At(ops, 20)["SecMmio"] = 6
      /\ \A c \in Counters \ {"Boot", "PreBootCheck", "SecMmio"} : At(ops, 20)[c] = counters[c]
  BY <1>4, <1>5, <1>6 DEF Counters
<1>8. \A i \in 1 .. 19 : Passes(ops, i, At(ops, i))
  BY <1>2, <1>7 DEF Passes, StartCounter, Increment, CheckValues, Check
<1>9. counters' = At(ops, 20) /\ pc' = "run"
  <2>1. \A i \in DOMAIN ops : ops[i] \in Operation /\ Passes(ops, i, At(ops, i))
    BY <1>2, <1>3, <1>8
  <2>2. counters' = At(ops, Len(ops) + 1) /\ pc' = "run"
    BY <1>1, <1>4, <2>1, StretchGoes
  <2> QED
    BY <1>2, <2>2
<1>10. At(ops, 20) \in [Counters -> Nat]
  BY <1>5, <1>6
<1>11. \A c \in Counters : At(ops, 20)[c] \in 0 .. 10
  BY <1>7
<1> QED
  BY <1>7, <1>9, <1>10, <1>11 DEF Counters

\* rom_boot() with the second.
LEMMA SecondRuns ==
  ASSUME Boot, ~Bootable(order[1]), order[1] # order[2],
         counters \in [Counters -> 0 .. 10], counters["Boot"] = 1, counters["SecMmio"] = 2, counters["TryBoot"] = 10
  PROVE  pc' = "run" /\ counters' \in [Counters -> 0 .. 10]
<1> DEFINE ops == << Increment("Boot", 1), CheckCounters(2) >> \o PrepCall("Boot", 2, "PreBootCheck")
                  \o [i \in 1 .. 6 |-> Increment("PreBootCheck", i)]
                  \o << CheckCounters(3), Increment("PreBootCheck", 7),
                        Increment("Boot", 4), Check("PreBootCheck", 8), CheckValues, CheckCounters(5),
                        Check("TryBoot", 10), Increment("Boot", 5) >>
<1>1. Go(ops, "run")
  BY DEF Boot, Chosen
<1>2. /\ Len(ops) = 19 /\ DOMAIN ops = 1 .. 19
      /\ ops[1] = Increment("Boot", 1) /\ ops[2] = Increment("SecMmio", 2)
      /\ ops[3] = Increment("Boot", 2) /\ ops[4] = StartCounter("PreBootCheck")
      /\ ops[5] = Increment("Boot", 3) /\ ops[6] = Increment("PreBootCheck", 1)
      /\ ops[7] = Increment("PreBootCheck", 2) /\ ops[8] = Increment("PreBootCheck", 3)
      /\ ops[9] = Increment("PreBootCheck", 4) /\ ops[10] = Increment("PreBootCheck", 5)
      /\ ops[11] = Increment("PreBootCheck", 6) /\ ops[12] = Increment("SecMmio", 3)
      /\ ops[13] = Increment("PreBootCheck", 7) /\ ops[14] = Increment("Boot", 4)
      /\ ops[15] = Check("PreBootCheck", 8) /\ ops[16] = CheckValues
      /\ ops[17] = Increment("SecMmio", 5) /\ ops[18] = Check("TryBoot", 10)
      /\ ops[19] = Increment("Boot", 5)
  BY DEF PrepCall, CheckCounters
<1> HIDE DEF ops
<1>3. \A i \in 1 .. 19 : ops[i] \in Operation
  BY <1>2 DEF StartCounter, Increment, CheckValues, Check, Operation, Counters
<1>4. At(ops, 1) = counters /\ counters \in [Counters -> Nat]
  BY OneAfterAnother
<1>5. \A i \in 1 .. 19 : At(ops, i + 1) = Op(ops, i, At(ops, i)) /\ At(ops, i) \in [Counters -> Nat]
  <2>1. \A i \in 1 .. 19 : i \in DOMAIN ops /\ i \in Nat \ {0} /\ ops[i] \in Operation
    BY <1>2, <1>3
  <2>2. \A i \in DOMAIN ops : i \in Nat \ {0} /\ ops[i] \in Operation =>
          At(ops, i) \in [Counters -> Nat] /\ At(ops, i + 1) = Op(ops, i, At(ops, i))
    BY <1>4, OneAfterAnother
  <2> QED
    BY <2>1, <2>2
<1>6. /\ At(ops, 2) = [At(ops, 1) EXCEPT !["Boot"] = @ + 1]
      /\ At(ops, 3) = [At(ops, 2) EXCEPT !["SecMmio"] = @ + 1]
      /\ At(ops, 4) = [At(ops, 3) EXCEPT !["Boot"] = @ + 1]
      /\ At(ops, 5) = [At(ops, 4) EXCEPT !["PreBootCheck"] = 1]
      /\ At(ops, 6) = [At(ops, 5) EXCEPT !["Boot"] = @ + 1]
      /\ At(ops, 7) = [At(ops, 6) EXCEPT !["PreBootCheck"] = @ + 1]
      /\ At(ops, 8) = [At(ops, 7) EXCEPT !["PreBootCheck"] = @ + 1]
      /\ At(ops, 9) = [At(ops, 8) EXCEPT !["PreBootCheck"] = @ + 1]
      /\ At(ops, 10) = [At(ops, 9) EXCEPT !["PreBootCheck"] = @ + 1]
      /\ At(ops, 11) = [At(ops, 10) EXCEPT !["PreBootCheck"] = @ + 1]
      /\ At(ops, 12) = [At(ops, 11) EXCEPT !["PreBootCheck"] = @ + 1]
      /\ At(ops, 13) = [At(ops, 12) EXCEPT !["SecMmio"] = @ + 1]
      /\ At(ops, 14) = [At(ops, 13) EXCEPT !["PreBootCheck"] = @ + 1]
      /\ At(ops, 15) = [At(ops, 14) EXCEPT !["Boot"] = @ + 1] /\ At(ops, 16) = At(ops, 15)
      /\ At(ops, 17) = [At(ops, 16) EXCEPT !["SecMmio"] = @ + 1]
      /\ At(ops, 18) = [At(ops, 17) EXCEPT !["SecMmio"] = @ + 1] /\ At(ops, 19) = At(ops, 18)
      /\ At(ops, 20) = [At(ops, 19) EXCEPT !["Boot"] = @ + 1]
  <2>1. /\ At(ops, 2) = Op(ops, 1, At(ops, 1)) /\ At(ops, 3) = Op(ops, 2, At(ops, 2))
        /\ At(ops, 4) = Op(ops, 3, At(ops, 3)) /\ At(ops, 5) = Op(ops, 4, At(ops, 4))
        /\ At(ops, 6) = Op(ops, 5, At(ops, 5)) /\ At(ops, 7) = Op(ops, 6, At(ops, 6))
        /\ At(ops, 8) = Op(ops, 7, At(ops, 7)) /\ At(ops, 9) = Op(ops, 8, At(ops, 8))
        /\ At(ops, 10) = Op(ops, 9, At(ops, 9)) /\ At(ops, 11) = Op(ops, 10, At(ops, 10))
        /\ At(ops, 12) = Op(ops, 11, At(ops, 11)) /\ At(ops, 13) = Op(ops, 12, At(ops, 12))
        /\ At(ops, 14) = Op(ops, 13, At(ops, 13)) /\ At(ops, 15) = Op(ops, 14, At(ops, 14))
        /\ At(ops, 16) = Op(ops, 15, At(ops, 15)) /\ At(ops, 17) = Op(ops, 16, At(ops, 16))
        /\ At(ops, 18) = Op(ops, 17, At(ops, 17)) /\ At(ops, 19) = Op(ops, 18, At(ops, 18))
        /\ At(ops, 20) = Op(ops, 19, At(ops, 19))
    BY <1>5
  <2>2. /\ Op(ops, 1, At(ops, 1)) = [At(ops, 1) EXCEPT !["Boot"] = @ + 1]
        /\ Op(ops, 2, At(ops, 2)) = [At(ops, 2) EXCEPT !["SecMmio"] = @ + 1]
        /\ Op(ops, 3, At(ops, 3)) = [At(ops, 3) EXCEPT !["Boot"] = @ + 1]
        /\ Op(ops, 4, At(ops, 4)) = [At(ops, 4) EXCEPT !["PreBootCheck"] = 1]
        /\ Op(ops, 5, At(ops, 5)) = [At(ops, 5) EXCEPT !["Boot"] = @ + 1]
        /\ Op(ops, 6, At(ops, 6)) = [At(ops, 6) EXCEPT !["PreBootCheck"] = @ + 1]
        /\ Op(ops, 7, At(ops, 7)) = [At(ops, 7) EXCEPT !["PreBootCheck"] = @ + 1]
        /\ Op(ops, 8, At(ops, 8)) = [At(ops, 8) EXCEPT !["PreBootCheck"] = @ + 1]
        /\ Op(ops, 9, At(ops, 9)) = [At(ops, 9) EXCEPT !["PreBootCheck"] = @ + 1]
        /\ Op(ops, 10, At(ops, 10)) = [At(ops, 10) EXCEPT !["PreBootCheck"] = @ + 1]
        /\ Op(ops, 11, At(ops, 11)) = [At(ops, 11) EXCEPT !["PreBootCheck"] = @ + 1]
        /\ Op(ops, 12, At(ops, 12)) = [At(ops, 12) EXCEPT !["SecMmio"] = @ + 1]
        /\ Op(ops, 13, At(ops, 13)) = [At(ops, 13) EXCEPT !["PreBootCheck"] = @ + 1]
        /\ Op(ops, 14, At(ops, 14)) = [At(ops, 14) EXCEPT !["Boot"] = @ + 1]
        /\ Op(ops, 15, At(ops, 15)) = At(ops, 15)
        /\ Op(ops, 16, At(ops, 16)) = [At(ops, 16) EXCEPT !["SecMmio"] = @ + 1]
        /\ Op(ops, 17, At(ops, 17)) = [At(ops, 17) EXCEPT !["SecMmio"] = @ + 1]
        /\ Op(ops, 18, At(ops, 18)) = At(ops, 18)
        /\ Op(ops, 19, At(ops, 19)) = [At(ops, 19) EXCEPT !["Boot"] = @ + 1]
    BY <1>2 DEF Op, StartCounter, Increment, CheckValues, Check
  <2> QED
    BY <2>1, <2>2
<1>7. /\ At(ops, 1)["Boot"] = 1 /\ At(ops, 2)["SecMmio"] = 2 /\ At(ops, 3)["Boot"] = 2
      /\ At(ops, 5)["Boot"] = 3 /\ At(ops, 6)["PreBootCheck"] = 1
      /\ At(ops, 7)["PreBootCheck"] = 2 /\ At(ops, 8)["PreBootCheck"] = 3
      /\ At(ops, 9)["PreBootCheck"] = 4 /\ At(ops, 10)["PreBootCheck"] = 5
      /\ At(ops, 11)["PreBootCheck"] = 6 /\ At(ops, 12)["SecMmio"] = 3
      /\ At(ops, 13)["PreBootCheck"] = 7 /\ At(ops, 14)["Boot"] = 4
      /\ At(ops, 15)["PreBootCheck"] = 8 /\ At(ops, 17)["SecMmio"] = 5
      /\ At(ops, 18)["TryBoot"] = 10 /\ At(ops, 19)["Boot"] = 5 /\ At(ops, 20)["Boot"] = 6
      /\ At(ops, 20)["PreBootCheck"] = 8 /\ At(ops, 20)["SecMmio"] = 6
      /\ \A c \in Counters \ {"Boot", "PreBootCheck", "SecMmio"} : At(ops, 20)[c] = counters[c]
  BY <1>4, <1>5, <1>6 DEF Counters
<1>8. \A i \in 1 .. 19 : Passes(ops, i, At(ops, i))
  BY <1>2, <1>7 DEF Passes, StartCounter, Increment, CheckValues, Check
<1>9. counters' = At(ops, 20) /\ pc' = "run"
  <2>1. \A i \in DOMAIN ops : ops[i] \in Operation /\ Passes(ops, i, At(ops, i))
    BY <1>2, <1>3, <1>8
  <2>2. counters' = At(ops, Len(ops) + 1) /\ pc' = "run"
    BY <1>1, <1>4, <2>1, StretchGoes
  <2> QED
    BY <1>2, <2>2
<1>10. At(ops, 20) \in [Counters -> Nat]
  BY <1>5, <1>6
<1>11. \A c \in Counters : At(ops, 20)[c] \in 0 .. 10
  BY <1>7
<1> QED
  BY <1>7, <1>9, <1>10, <1>11 DEF Counters

\* The counters at each point of rom_main(); at the last, they tell which of the
\* images has verified.
Counting ==
  /\ counters \in [Counters -> 0 .. 10] /\ order \in {<<0, 1>>, <<1, 0>>}
  /\ CountersAgree
  /\ pc = "init" => counters = [c \in Counters |-> 0]
  /\ pc \in {"straps", "bootstrap", "try"} => counters["Main"] = 4 /\ counters["SecMmio"] = 2
  /\ pc = "first" =>
       counters["TryBoot"] = 4 /\ counters["Verify"] = 1 /\ counters["SecMmio"] = 2
  /\ pc = "second" =>
       counters["TryBoot"] = 7 /\ counters["Verify"] = 1 /\ counters["SecMmio"] = 2
  /\ pc = "boot" =>
       /\ counters["Boot"] = 1 /\ counters["SecMmio"] = 2
       /\ counters["TryBoot"] = IF Bootable(order[1]) THEN 3 ELSE 10

LEMMA SameCounting ==
  ASSUME Counting, UNCHANGED <<counters, order>>,
         \/ pc' \in {"run", "shutdown"}
         \/ pc' = pc /\ (pc = "boot" => UNCHANGED <<memory, min_version>>)
         \/ {pc, pc'} \subseteq {"straps", "bootstrap", "try"}
  PROVE  Counting'
<1>1. pc' = "boot" => Bootable(order[1])' = Bootable(order[1])
  BY SameFlash
<1> QED
  BY <1>1 DEF Counting, CountersAgree

LEMMA RestartCounts ==
  ASSUME NEW w, Restart(w)
  PROVE  Counting'
<1>1. [c \in Counters |-> 0] \in [Counters -> 0 .. 10]
  OBVIOUS
<1> QED
  BY <1>1 DEF Restart, Counting, CountersAgree

LEMMA OrdersAre == Orders \subseteq {<<0, 1>>, <<1, 0>>}
  BY DEF Orders

LEMMA CountingStep ==
  ASSUME Counting, Choice, [Next]_vars
  PROVE  Counting'
<1>1. counters \in [Counters -> 0 .. 10] /\ order \in {<<0, 1>>, <<1, 0>>} /\ pc # "trap"
  BY DEF Counting, CountersAgree
<1>2. CASE Init1
  <2>1. pc = "init" /\ order' = order
    BY <1>2 DEF Init1
  <2>2. /\ pc' \in {"try", "straps"} /\ counters' \in [Counters -> 0 .. 10]
        /\ counters'["Main"] = 4 /\ counters'["SecMmio"] = 2
    BY <1>2, <2>1, InitCounts DEF Counting
  <2> QED
    BY <1>1, <2>1, <2>2 DEF Counting, CountersAgree
<1>3. CASE ReadStraps
  BY <1>3, SameCounting DEF ReadStraps
<1>4. CASE CallBootstrap
  BY <1>4, SameCounting DEF CallBootstrap
<1>5. CASE RunBootstrap
  BY <1>5, SameCounting DEF RunBootstrap, romVars
<1>6. CASE TryBoot
  <2>1. pc = "try" /\ counters["Main"] = 4 /\ counters["SecMmio"] = 2
    BY <1>6 DEF TryBoot, Counting
  <2>2. CASE pc' = "shutdown"
    <3>1. UNCHANGED <<counters, order>>
      BY <1>1, <1>6, <2>1, <2>2, TryBootCounts DEF TryBoot, Go
    <3> QED
      BY <2>2, <3>1, SameCounting
  <2>3. CASE pc' # "shutdown"
    <3>1. order' \in {<<0, 1>>, <<1, 0>>}
      BY <1>6, <2>3, OrdersAre DEF TryBoot
    <3>2. /\ pc' = "first" /\ counters' \in [Counters -> 0 .. 10]
          /\ counters'["TryBoot"] = 4 /\ counters'["Verify"] = 1 /\ counters'["SecMmio"] = 2
      BY <1>1, <1>6, <2>1, <2>3, TryBootCounts
    <3> QED
      BY <3>1, <3>2 DEF Counting, CountersAgree
  <2> QED
    BY <2>2, <2>3
<1>7. CASE TryFirst
  <2>1. /\ pc = "first" /\ UNCHANGED <<memory, order, min_version>>
        /\ counters["TryBoot"] = 4 /\ counters["Verify"] = 1 /\ counters["SecMmio"] = 2
    BY <1>7 DEF TryFirst, bootstrapVars, Counting
  <2>2. CASE Bootable(order[1])
    <3>1. /\ pc' = "boot" /\ counters' \in [Counters -> 0 .. 10]
          /\ counters'["TryBoot"] = 3 /\ counters'["Boot"] = 1 /\ counters'["SecMmio"] = 2
      BY <1>1, <1>7, <2>1, <2>2, FirstBoots
    <3>2. Bootable(order[1])'
      BY <2>1, <2>2, SameFlash
    <3> QED
      BY <1>1, <2>1, <3>1, <3>2 DEF Counting, CountersAgree
  <2>3. CASE ~Bootable(order[1])
    <3>1. /\ pc' = "second" /\ counters' \in [Counters -> 0 .. 10]
          /\ counters'["TryBoot"] = 7 /\ counters'["Verify"] = 1 /\ counters'["SecMmio"] = 2
      <4>1. PICK verified \in {<<>>, Halfway, Through} :
              Go((verified \o << Increment("TryBoot", 4) >>) \o PrepCall("TryBoot", 5, "Verify"),
                 "second")
        BY <1>7, <2>3 DEF TryFirst, VerifyCounts
      <4>2. CASE verified = <<>>
        BY <1>1, <2>1, <4>1, <4>2, FirstFailsEarly
      <4>3. CASE verified = Halfway
        BY <1>1, <2>1, <4>1, <4>3, FirstFailsHalfway
      <4>4. CASE verified = Through
        BY <1>1, <2>1, <4>1, <4>4, FirstFailsLate
      <4> QED
        BY <4>1, <4>2, <4>3, <4>4
    <3> QED
      BY <1>1, <2>1, <3>1 DEF Counting, CountersAgree
  <2> QED
    BY <2>2, <2>3
<1>8. CASE TrySecond
  <2>1. /\ pc = "second" /\ UNCHANGED <<memory, order, min_version>> /\ ~Bootable(order[1])
        /\ counters["TryBoot"] = 7 /\ counters["Verify"] = 1 /\ counters["SecMmio"] = 2
    BY <1>8 DEF TrySecond, bootstrapVars, Counting, Choice
  <2>2. CASE Bootable(order[2])
    <3>1. /\ pc' = "boot" /\ counters' \in [Counters -> 0 .. 10]
          /\ counters'["TryBoot"] = 10 /\ counters'["Boot"] = 1 /\ counters'["SecMmio"] = 2
      BY <1>1, <1>8, <2>1, <2>2, SecondBoots
    <3>2. ~Bootable(order[1])'
      BY <2>1, SameFlash
    <3> QED
      BY <1>1, <2>1, <3>1, <3>2 DEF Counting, CountersAgree
  <2>3. CASE ~Bootable(order[2])
    <3>1. pc' = "shutdown" /\ counters' \in [Counters -> 0 .. 10]
      <4>1. PICK verified \in {<<>>, Halfway, Through} : Go(verified, "shutdown")
        BY <1>8, <2>3 DEF TrySecond, VerifyCounts
      <4>2. CASE verified = <<>>
        BY <1>1, <4>1, <4>2, SecondFailsEarly
      <4>3. CASE verified = Halfway
        BY <1>1, <2>1, <4>1, <4>3, SecondFailsHalfway
      <4>4. CASE verified = Through
        BY <1>1, <2>1, <4>1, <4>4, SecondFailsLate
      <4> QED
        BY <4>1, <4>2, <4>3, <4>4
    <3> QED
      BY <1>1, <2>1, <3>1 DEF Counting, CountersAgree
  <2> QED
    BY <2>2, <2>3
<1>9. CASE Boot
  <2>1. /\ pc = "boot" /\ order' = order /\ order[1] # order[2]
        /\ counters["Boot"] = 1 /\ counters["SecMmio"] = 2
        /\ counters["TryBoot"] = IF Bootable(order[1]) THEN 3 ELSE 10
    BY <1>1, <1>9 DEF Boot, Counting
  <2>2. pc' = "run" /\ counters' \in [Counters -> 0 .. 10]
    BY <1>1, <1>9, <2>1, FirstRuns, SecondRuns
  <2> QED
    BY <1>1, <2>1, <2>2 DEF Counting, CountersAgree
<1>10. CASE ResetByHost \/ ResetByDevice \/ ResetByFault \/ WakeUp
  BY <1>10, RestartCounts DEF ResetByHost, ResetByDevice, ResetByFault, WakeUp
<1>11. CASE HostNext /\ UNCHANGED romVars
  <2>1. memory' = memory
    BY <1>11 DEF HostNext, Straps, Send, Sends, Glitch, SendReset, Poll
  <2> QED
    BY <1>11, <2>1, SameCounting DEF romVars
<1>12. CASE UNCHANGED vars
  BY <1>12, SameCounting DEF vars, bootstrapVars, romVars
<1> QED
  BY <1>2, <1>3, <1>4, <1>5, <1>6, <1>7, <1>8, <1>9, <1>10, <1>11, <1>12 DEF Next, RomNext

LEMMA CountingAlways == Spec => [](Counting /\ Choice)
<1>1. Init => Counting /\ Choice
  <2>1. [c \in Counters |-> 0] \in [Counters -> 0 .. 10]
    OBVIOUS
  <2> QED
    BY <2>1 DEF Init, Counting, CountersAgree, Choice, NewestRuns
<1>2. Counting /\ Choice /\ [Next]_vars => (Counting /\ Choice)'
  BY CountingStep, ChoiceStep
<1> QED
  BY <1>1, <1>2, PTL DEF Spec

\* The control flow counters of the ROM agree with every check on every path
\* through it, whatever the flash holds and whatever faults and resets do
\* (cfi.h, sec_mmio.c, rom.c).
THEOREM CountersAlwaysAgree == Spec => []CountersAgree
<1>1. Counting => CountersAgree
  BY DEF Counting
<1> QED
  BY <1>1, CountingAlways, PTL
-----------------------------------------------------------------------------
\* The layout of the flash: pages and sectors divide it.
LEMMA Sizes ==
  /\ ProgPage \in Nat \ {0} /\ FlashPage \in Nat \ {0} /\ BankSize \in Nat \ {0}
  /\ 2 * FlashPage \in Nat \ {0} /\ kMaxAddress \in Nat \ {0}
  /\ kMaxAddress = BankSize + BankSize
  BY SizesAssumption DEF kMaxAddress

LEMMA Division ==
  ASSUME NEW a \in Nat, NEW n \in Nat \ {0}
  PROVE  /\ a = n * (a \div n) + (a % n) /\ a % n \in 0 .. n - 1 /\ a \div n \in Nat
         /\ n * (a \div n) \in Nat
  OBVIOUS

LEMMA Larger ==
  ASSUME NEW n \in Nat, NEW p \in Nat, NEW q \in Nat, p < q
  PROVE  n * p + n <= n * q
<1>1. n * (p + 1) <= n * q
  <2>1. PICK d \in Nat : q = p + 1 + d
    <3>1. q - p - 1 \in Nat /\ q = p + 1 + (q - p - 1)
      OBVIOUS
    <3> QED
      BY <3>1
  <2>2. n * q = n * (p + 1) + n * d /\ n * d \in Nat
    BY <2>1
  <2> QED
    BY <2>2
<1>2. n * (p + 1) = n * p + n
  OBVIOUS
<1> QED
  BY <1>1, <1>2

LEMMA Divides ==
  /\ \E m \in Nat : kMaxAddress = (2 * FlashPage) * m
  /\ \E m \in Nat : kMaxAddress = ProgPage * m
<1> DEFINE S == 2 * FlashPage
           k == BankSize \div S
           p == FlashPage \div ProgPage
<1>1. BankSize = S * k /\ k \in Nat
  <2>1. BankSize = S * (BankSize \div S) + (BankSize % S) /\ BankSize \div S \in Nat
    BY Sizes, Division
  <2>2. BankSize % S = 0 /\ S \in Nat /\ BankSize \in Nat
    BY SizesAssumption, Sizes
  <2> HIDE DEF S
  <2> QED
    BY <2>1, <2>2
<1>2. FlashPage = ProgPage * p /\ p \in Nat
  <2>1. FlashPage = ProgPage * (FlashPage \div ProgPage) + (FlashPage % ProgPage)
        /\ FlashPage \div ProgPage \in Nat
    BY Sizes, Division
  <2>2. FlashPage % ProgPage = 0
    BY SizesAssumption
  <2> QED
    BY <2>1, <2>2, Sizes
<1>3. kMaxAddress = S * k + S * k
  BY <1>1, Sizes
<1> HIDE DEF k, p
<1>4. kMaxAddress = S * (2 * k) /\ 2 * k \in Nat
  BY <1>1, <1>3, Sizes
<1>5. kMaxAddress = ProgPage * (p * (4 * k)) /\ p * (4 * k) \in Nat
  <2>1. S = ProgPage * (2 * p)
    BY <1>2, Sizes
  <2> HIDE DEF S
  <2> QED
    BY <1>1, <1>2, <1>3, <2>1, Sizes
<1> QED
  BY <1>4, <1>5

\* The block of n words around an address.
LEMMA BlockIs ==
  ASSUME NEW n \in Nat \ {0}, NEW a \in Nat, NEW w \in Nat
  PROVE  /\ w \div n = a \div n <=> a - (a % n) <= w /\ w < a - (a % n) + n
         /\ a - (a % n) = n * (a \div n) /\ a - (a % n) \in Nat
<1> DEFINE p == a \div n
           q == w \div n
<1>1. a = n * p + (a % n) /\ a % n \in 0 .. n - 1 /\ p \in Nat /\ n * p \in Nat
  BY Division
<1>2. w = n * q + (w % n) /\ w % n \in 0 .. n - 1 /\ q \in Nat /\ n * q \in Nat
  BY Division
<1> HIDE DEF p, q
<1>3. p < q => n * p + n <= n * q
  BY <1>1, <1>2, Larger
<1>4. q < p => n * q + n <= n * p
  BY <1>1, <1>2, Larger
<1>5. p < q \/ q < p \/ p = q
  BY <1>1, <1>2
<1>6. a - (a % n) = n * p
  BY <1>1
<1>7. q = p <=> n * p <= w /\ w < n * p + n
  BY <1>1, <1>2, <1>3, <1>4, <1>5
<1> QED
  BY <1>1, <1>6, <1>7 DEF p, q

LEMMA BlockFits ==
  ASSUME NEW n \in Nat \ {0}, NEW m \in Nat, NEW a \in Nat, a < n * m
  PROVE  a - (a % n) + n <= n * m
<1> DEFINE p == a \div n
<1>1. a = n * p + (a % n) /\ a % n \in 0 .. n - 1 /\ p \in Nat /\ n * p \in Nat
  BY Division
<1> HIDE DEF p
<1>2. p < m
  <2>1. m < p => n * m + n <= n * p
    BY <1>1, Larger
  <2>2. n * m \in Nat
    OBVIOUS
  <2> QED
    BY <1>1, <2>1, <2>2
<1>3. n * p + n <= n * m
  BY <1>1, <1>2, Larger
<1>4. n * m \in Nat
  OBVIOUS
<1> QED
  BY <1>1, <1>3, <1>4
-----------------------------------------------------------------------------
\* The calls of the flash driver, and the transactions that are in them.
Transactions == [words : SUBSET Words, value : Versions \cup {Erased}]
Calls == {q \in Seq(Transactions) : q # <<>>}
In(calls) == UNION {{calls[i][j] : j \in DOMAIN calls[i]} : i \in DOMAIN calls}
\* What a command changes, and to what.
Changes(c, w) ==
  CASE c.op = "chip_erase" -> TRUE
    [] c.op = "sector_erase" -> w \div (2 * FlashPage) = c.addr \div (2 * FlashPage)
    [] c.op = "page_program" -> \E i \in DOMAIN c.data : Place(c, i) = w
Gets(c) == IF c.op = "page_program" THEN c.data[1] ELSE Erased
CallsOf(c) ==
  CASE c.op = "chip_erase" -> ChipEraseCalls
    [] c.op = "sector_erase" -> SectorEraseCalls(c.addr)
    [] c.op = "page_program" -> PageProgramCalls(c.addr, c.data)

LEMMA CommandKinds ==
  ASSUME NEW c \in Erases \cup Programs
  PROVE  \/ c.op = "chip_erase"
         \/ c.op = "sector_erase" /\ c.addr \in Nat
         \/ /\ c.op = "page_program" /\ c.addr \in Nat
            /\ \E n \in 1 .. ProgPage, v \in Versions : c.data = [i \in 1 .. n |-> v]
<1>1. EraseAddrs \subseteq Nat /\ ProgAddrs \subseteq Nat
  BY HostAssumption
<1>2. CASE c = ChipErase
  BY <1>2 DEF ChipErase
<1>3. CASE \E a \in EraseAddrs : c = SectorErase(a)
  BY <1>1, <1>3 DEF SectorErase
<1>4. CASE \E a \in ProgAddrs, d \in Datas : c = PageProgram(a, d)
  <2>1. PICK a \in ProgAddrs, d \in Datas : c = PageProgram(a, d)
    BY <1>4
  <2>2. c.op = "page_program" /\ c.addr = a /\ c.data = d
    BY <2>1 DEF PageProgram
  <2>3. \E n \in 1 .. ProgPage, v \in Versions : d = [i \in 1 .. n |-> v]
    BY DEF Datas
  <2> QED
    BY <1>1, <2>2, <2>3
<1> QED
  BY <1>2, <1>3, <1>4 DEF Erases, Programs

LEMMA EraseIsCall ==
  ASSUME NEW a \in Nat, NEW n \in Nat \ {0}, a + n <= kMaxAddress
  PROVE  Erase(a, n) \in Calls /\ Erase(a, n) = << [words |-> a .. a + n - 1, value |-> Erased] >>
<1>1. a .. a + n - 1 \subseteq Words
  BY Sizes DEF Words
<1>2. [words |-> a .. a + n - 1, value |-> Erased] \in Transactions
  BY <1>1 DEF Transactions
<1> QED
  BY <1>2 DEF Erase, Calls

LEMMA TwoErases ==
  ASSUME NEW a \in Nat, NEW n \in Nat \ {0}, NEW b, b = a + n, b + n <= kMaxAddress
  PROVE  LET calls == << Erase(a, n), Erase(b, n) >>
         IN  /\ calls \in Seq(Calls) /\ Len(calls) = 2
             /\ In(calls) = { [words |-> a .. a + n - 1, value |-> Erased],
                              [words |-> b .. b + n - 1, value |-> Erased] }
<1>1. /\ Erase(a, n) \in Calls
      /\ Erase(a, n) = << [words |-> a .. a + n - 1, value |-> Erased] >>
  BY EraseIsCall, Sizes
<1>2. /\ Erase(b, n) \in Calls
      /\ Erase(b, n) = << [words |-> b .. b + n - 1, value |-> Erased] >>
  BY EraseIsCall, Sizes
<1>3. \A x, y : In(<< <<x>>, <<y>> >>) = {x, y}
  BY DEF In
<1> QED
  BY <1>1, <1>2, <1>3

LEMMA ChipCalls ==
  /\ ChipEraseCalls \in Seq(Calls) /\ Len(ChipEraseCalls) = 2
  /\ \A t \in In(ChipEraseCalls) : t.value = Erased
  /\ \A w \in Words : \E t \in In(ChipEraseCalls) : w \in t.words
<1> DEFINE x == [words |-> 0 .. 0 + BankSize - 1, value |-> Erased]
           y == [words |-> BankSize .. BankSize + BankSize - 1, value |-> Erased]
<1>1. /\ ChipEraseCalls \in Seq(Calls) /\ Len(ChipEraseCalls) = 2
      /\ In(ChipEraseCalls) = {x, y}
  <2>1. 0 \in Nat /\ BankSize \in Nat \ {0} /\ BankSize = 0 + BankSize
        /\ BankSize + BankSize <= kMaxAddress
    BY Sizes
  <2> QED
    BY <2>1, TwoErases DEF ChipEraseCalls
<1>2. ASSUME NEW w \in Words PROVE w \in x.words \/ w \in y.words
  BY Sizes DEF Words
<1>3. x.value = Erased /\ y.value = Erased
  OBVIOUS
<1> HIDE DEF x, y
<1> QED
  BY <1>1, <1>2, <1>3

LEMMA SectorCalls ==
  ASSUME NEW a \in Nat, a < kMaxAddress
  PROVE  LET calls == SectorEraseCalls(a)
         IN  /\ calls \in Seq(Calls) /\ Len(calls) = 2
             /\ \A t \in In(calls) : /\ t.value = Erased
                                     /\ \A w \in t.words : w \div (2 * FlashPage) = a \div (2 * FlashPage)
             /\ \A w \in Words : w \div (2 * FlashPage) = a \div (2 * FlashPage) =>
                  \E t \in In(calls) : w \in t.words
<1> DEFINE S == 2 * FlashPage
           base == a - (a % S)
<1>1. base \in Nat /\ base + S <= kMaxAddress /\ S \in Nat \ {0} /\ S = FlashPage + FlashPage
      /\ FlashPage \in Nat \ {0} /\ base + FlashPage + FlashPage = base + S
  <2>1. S \in Nat \ {0} /\ S = FlashPage + FlashPage /\ FlashPage \in Nat \ {0}
    BY Sizes
  <2>2. PICK m \in Nat : kMaxAddress = S * m
    BY Divides
  <2> HIDE DEF S
  <2>3. base \in Nat
    BY <2>1, BlockIs
  <2>4. base + S <= kMaxAddress
    BY <2>1, <2>2, BlockFits
  <2> QED
    BY <2>1, <2>3, <2>4
<1>2. \A w \in Nat : w \div S = a \div S <=> base <= w /\ w < base + S
  BY <1>1, BlockIs
<1>3. SectorEraseCalls(a) = << Erase(base, FlashPage), Erase(base + FlashPage, FlashPage) >>
  BY DEF SectorEraseCalls
<1> HIDE DEF base, S
<1>4. /\ SectorEraseCalls(a) \in Seq(Calls) /\ Len(SectorEraseCalls(a)) = 2
      /\ In(SectorEraseCalls(a)) = { [words |-> base .. base + FlashPage - 1, value |-> Erased],
           [words |-> base + FlashPage .. base + FlashPage + FlashPage - 1, value |-> Erased] }
  <2> DEFINE next == base + FlashPage
  <2>1. next = base + FlashPage /\ next + FlashPage <= kMaxAddress
    BY <1>1
  <2> HIDE DEF next
  <2>2. LET calls == << Erase(base, FlashPage), Erase(next, FlashPage) >>
        IN  /\ calls \in Seq(Calls) /\ Len(calls) = 2
            /\ In(calls) = { [words |-> base .. base + FlashPage - 1, value |-> Erased],
                             [words |-> next .. next + FlashPage - 1, value |-> Erased] }
    BY <1>1, <2>1, TwoErases
  <2> QED
    BY <1>3, <2>2 DEF next
<1>5. \A w \in base .. base + FlashPage - 1 : w \in Nat /\ base <= w /\ w < base + S
  BY <1>1
<1>6. \A w \in base + FlashPage .. base + FlashPage + FlashPage - 1 :
        w \in Nat /\ base <= w /\ w < base + S
  BY <1>1
<1>7. \A w \in Nat : base <= w /\ w < base + S =>
        \/ w \in base .. base + FlashPage - 1
        \/ w \in base + FlashPage .. base + FlashPage + FlashPage - 1
  BY <1>1
<1>8. \A t \in In(SectorEraseCalls(a)) : t.value = Erased /\ \A w \in t.words : w \div S = a \div S
  <2>1. ASSUME NEW t \in In(SectorEraseCalls(a)), NEW w \in t.words
        PROVE  t.value = Erased /\ w \div S = a \div S
    <3>1. w \in Nat /\ base <= w /\ w < base + S
      <4>1. \/ t = [words |-> base .. base + FlashPage - 1, value |-> Erased]
            \/ t = [words |-> base + FlashPage .. base + FlashPage + FlashPage - 1, value |-> Erased]
        BY <1>4, <2>1
      <4>2. \/ w \in base .. base + FlashPage - 1
            \/ w \in base + FlashPage .. base + FlashPage + FlashPage - 1
        <5>1. \/ t.words = base .. base + FlashPage - 1
              \/ t.words = base + FlashPage .. base + FlashPage + FlashPage - 1
          BY <4>1
        <5> QED
          BY <2>1, <5>1
      <4> QED
        BY <1>5, <1>6, <4>2
    <3> QED
      BY <1>2, <1>4, <2>1, <3>1
  <2>2. \A t \in In(SectorEraseCalls(a)) : t.value = Erased
    BY <1>4
  <2> QED
    BY <2>1, <2>2
<1>9. \A w \in Words : w \div S = a \div S => \E t \in In(SectorEraseCalls(a)) : w \in t.words
  BY <1>2, <1>4, <1>7, Sizes DEF Words
<1> QED
  BY <1>4, <1>8, <1>9 DEF S

\* The remainder is the only one of its kind.
LEMMA Remainder ==
  ASSUME NEW n \in Nat \ {0}, NEW q \in Nat, NEW r \in 0 .. n - 1, NEW a, a = n * q + r
  PROVE  a % n = r
<1>1. n * q \in Nat /\ a \in Nat
  OBVIOUS
<1>2. a = n * (a \div n) + (a % n) /\ a % n \in 0 .. n - 1 /\ a \div n \in Nat
  BY <1>1, Division
<1>3. a \div n = q
  <2>1. q < a \div n => n * q + n <= n * (a \div n)
    BY <1>2, Larger
  <2>2. a \div n < q => n * (a \div n) + n <= n * q
    BY <1>2, Larger
  <2> DEFINE p == a \div n
  <2>3. n * p \in Nat /\ p \in Nat
    BY <1>2
  <2> HIDE DEF p
  <2>4. ~(q < p) /\ ~(p < q)
    BY <1>1, <1>2, <2>1, <2>2, <2>3 DEF p
  <2> QED
    BY <2>3, <2>4 DEF p
<1> QED
  BY <1>1, <1>2, <1>3

\* bootstrap_page_program(): the i-th word goes to its place, once.
LEMMA Places ==
  ASSUME NEW c, c.addr \in Nat, NEW i \in 1 .. ProgPage
  PROVE  LET r == c.addr % ProgPage
         IN  Place(c, i) = IF i <= ProgPage - r THEN c.addr + i - 1
                           ELSE c.addr - r + (i - (ProgPage - r)) - 1
<1> DEFINE a == c.addr
           r == a % ProgPage
           q == a \div ProgPage
<1>1. ProgPage \in Nat \ {0} /\ a \in Nat
  BY Sizes
<1>2. a = ProgPage * q + r /\ r \in 0 .. ProgPage - 1 /\ q \in Nat /\ ProgPage * q \in Nat
  BY <1>1, Division
<1>3. Place(c, i) = ProgPage * q + ((a + i - 1) % ProgPage)
  BY DEF Place
<1>4. \A k \in Nat, s \in 0 .. ProgPage - 1 : (ProgPage * k + s) % ProgPage = s
  BY <1>1, Remainder
<1>5. ProgPage * (q + 1) = ProgPage * q + ProgPage
  BY <1>1, <1>2
<1> HIDE DEF q, r, a
<1>6. CASE i <= ProgPage - r
  <2>1. a + i - 1 = ProgPage * q + (r + i - 1) /\ r + i - 1 \in 0 .. ProgPage - 1
    BY <1>1, <1>2, <1>6
  <2>2. (a + i - 1) % ProgPage = r + i - 1
    BY <1>2, <1>4, <2>1
  <2> QED
    BY <1>1, <1>2, <1>3, <1>6, <2>2 DEF r, a
<1>7. CASE i > ProgPage - r
  <2>1. /\ a + i - 1 = ProgPage * (q + 1) + (r + i - 1 - ProgPage)
        /\ r + i - 1 - ProgPage \in 0 .. ProgPage - 1 /\ q + 1 \in Nat
    BY <1>1, <1>2, <1>5, <1>7
  <2>2. (a + i - 1) % ProgPage = r + i - 1 - ProgPage
    BY <1>4, <2>1
  <2> QED
    BY <1>1, <1>2, <1>3, <1>7, <2>2 DEF r, a
<1> QED
  BY <1>1, <1>2, <1>6, <1>7 DEF r

LEMMA InCalls ==
  /\ \A x : In(<< x >>) = {x[i] : i \in DOMAIN x}
  /\ \A x, y, t : t \in In(<< x, y >>) <=>
       (\E i \in DOMAIN x : t = x[i]) \/ (\E i \in DOMAIN y : t = y[i])
<1>1. \A x : In(<< x >>) = {x[i] : i \in DOMAIN x}
  BY DEF In
<1>2. ASSUME NEW x, NEW y, NEW t
      PROVE  t \in In(<< x, y >>) <=> (\E i \in DOMAIN x : t = x[i]) \/ (\E i \in DOMAIN y : t = y[i])
  <2> DEFINE calls == << x, y >>
  <2>1. DOMAIN calls = {1, 2} /\ calls[1] = x /\ calls[2] = y
    OBVIOUS
  <2>2. t \in In(calls) <=> \E i \in DOMAIN calls : t \in {calls[i][j] : j \in DOMAIN calls[i]}
    BY DEF In
  <2> HIDE DEF calls
  <2>3. t \in In(calls) <=> t \in {x[j] : j \in DOMAIN x} \/ t \in {y[j] : j \in DOMAIN y}
    BY <2>1, <2>2
  <2> QED
    BY <2>3 DEF calls
<1> QED
  BY <1>1, <1>2

\* The data of a program are n words of one version.
Copies(n, v) == [i \in 1 .. n |-> v]

LEMMA WriteIsCall ==
  ASSUME NEW a \in Nat, NEW n \in Nat \ {0}, a + n <= kMaxAddress, NEW v \in Versions
  PROVE  /\ Write(a, Copies(n, v)) \in Calls /\ DOMAIN Write(a, Copies(n, v)) = 1 .. n
         /\ \A i \in 1 .. n : Write(a, Copies(n, v))[i] = [words |-> {a + i - 1}, value |-> v]
<1> DEFINE d == Copies(n, v)
<1>1. Write(a, d) = [i \in 1 .. n |-> [words |-> {a + i - 1}, value |-> v]]
  BY DEF Write, Copies
<1> HIDE DEF d
<1>2. ASSUME NEW i \in 1 .. n PROVE [words |-> {a + i - 1}, value |-> v] \in Transactions
  <2>1. a + i - 1 \in Words
    BY Sizes DEF Words
  <2> QED
    BY <2>1 DEF Transactions
<1>3. Write(a, d) \in Seq(Transactions) /\ Len(Write(a, d)) = n
  <2>1. Write(a, d) \in [1 .. n -> Transactions]
    BY <1>1, <1>2
  <2> QED
    BY <2>1
<1>4. Write(a, d) # <<>>
  BY <1>3
<1> QED
  BY <1>1, <1>3, <1>4 DEF Calls, d

LEMMA ProgramCalls ==
  ASSUME NEW c, c.op = "page_program", c.addr \in Nat, c.addr < kMaxAddress,
         \E n \in 1 .. ProgPage, v \in Versions : c.data = [i \in 1 .. n |-> v]
  PROVE  LET calls == PageProgramCalls(c.addr, c.data)
         IN  /\ calls \in Seq(Calls) /\ Len(calls) \in 1 .. 2
             /\ \A t \in In(calls) : t.value = Gets(c) /\ \A w \in t.words : Changes(c, w)
             /\ \A w : Changes(c, w) => w \in Words /\ \E t \in In(calls) : w \in t.words
<1>0. PICK n \in 1 .. ProgPage, v \in Versions : c.data = [i \in 1 .. n |-> v]
  OBVIOUS
<1> DEFINE Right(calls) ==
      /\ calls \in Seq(Calls) /\ Len(calls) \in 1 .. 2
      /\ \A t \in In(calls) : t.value = v /\ \E i \in 1 .. n : t.words = {Place(c, i)}
      /\ \A i \in 1 .. n : Place(c, i) \in Words /\ \E t \in In(calls) : Place(c, i) \in t.words
<1> DEFINE a == c.addr
           r == a % ProgPage
           room == ProgPage - r
           base == a - r
<1>1. /\ ProgPage \in Nat \ {0} /\ a \in Nat /\ n \in Nat \ {0} /\ n <= ProgPage
      /\ r \in 0 .. ProgPage - 1 /\ base \in Nat
      /\ base + ProgPage <= kMaxAddress /\ kMaxAddress \in Nat
  <2>1. ProgPage \in Nat \ {0} /\ kMaxAddress \in Nat
    BY Sizes
  <2>2. PICK m \in Nat : kMaxAddress = ProgPage * m
    BY Divides
  <2>3. base + ProgPage <= kMaxAddress
    BY <2>1, <2>2, BlockFits
  <2>4. base \in Nat /\ r \in 0 .. ProgPage - 1
    BY <2>1, BlockIs, Division
  <2> QED
    BY <2>1, <2>3, <2>4
<1>2. \A i \in 1 .. ProgPage : Place(c, i) = IF i <= room THEN a + i - 1 ELSE base + (i - room) - 1
  BY Places
<1>3. PageProgramCalls(a, c.data) =
        IF n <= room THEN << Write(a, c.data) >>
        ELSE << Write(a, SubSeq(c.data, 1, room)), Write(base, SubSeq(c.data, room + 1, n)) >>
  <2>1. Len(c.data) = n
    BY <1>0, <1>1
  <2>2. PageProgramCalls(a, c.data) =
          IF Len(c.data) <= room THEN << Write(a, c.data) >>
          ELSE << Write(a, SubSeq(c.data, 1, room)),
                  Write(base, SubSeq(c.data, room + 1, Len(c.data))) >>
    BY Zenon DEF PageProgramCalls
  <2> HIDE DEF a, r, room, base
  <2> QED
    BY <2>1, <2>2
<1>4. a = base + r /\ room = ProgPage - r
  BY <1>1
<1>5. room \in 1 .. ProgPage
  <2>1. ProgPage \in Nat \ {0} /\ r \in 0 .. ProgPage - 1
    BY <1>1
  <2> HIDE DEF r, a
  <2> QED
    BY <2>1
<1> HIDE DEF a, r, room, base, Right
<1>6. ASSUME NEW i \in 1 .. n PROVE Place(c, i) \in Words
  <2>1. Place(c, i) = IF i <= room THEN a + i - 1 ELSE base + (i - room) - 1
    BY <1>1, <1>2
  <2>2. Place(c, i) \in Nat /\ Place(c, i) < base + ProgPage
    BY <1>1, <1>4, <1>5, <2>1
  <2> QED
    BY <1>1, <2>2 DEF Words
<1>7. ASSUME n <= room PROVE Right(PageProgramCalls(a, c.data))
  <2> DEFINE X == Write(a, c.data)
  <2>1. /\ X \in Calls /\ DOMAIN X = 1 .. n
        /\ \A i \in 1 .. n : X[i] = [words |-> {a + i - 1}, value |-> v]
    <3>1. a \in Nat /\ n \in Nat \ {0} /\ a + n <= kMaxAddress
      BY <1>1, <1>4, <1>7
    <3>2. X = Write(a, Copies(n, v))
      BY <1>0 DEF Copies
    <3>3. /\ Write(a, Copies(n, v)) \in Calls /\ DOMAIN Write(a, Copies(n, v)) = 1 .. n
          /\ \A i \in 1 .. n : Write(a, Copies(n, v))[i] = [words |-> {a + i - 1}, value |-> v]
      BY <3>1, WriteIsCall
    <3> HIDE DEF X
    <3> QED
      BY <3>2, <3>3
  <2> HIDE DEF X
  <2>2. PageProgramCalls(a, c.data) = << X >>
    BY <1>3, <1>7 DEF X
  <2>3. In(<< X >>) = {X[i] : i \in 1 .. n}
    BY <2>1, InCalls
  <2>4. ASSUME NEW i \in 1 .. n PROVE Place(c, i) = a + i - 1
    <3>1. i \in 1 .. ProgPage /\ i <= room
      BY <1>1, <1>5, <1>7
    <3> QED
      BY <1>2, <3>1
  <2>5. << X >> \in Seq(Calls) /\ Len(<< X >>) \in 1 .. 2
    BY <2>1
  <2>6. ASSUME NEW i \in 1 .. n
        PROVE  X[i] \in In(<< X >>) /\ X[i].value = v /\ X[i].words = {Place(c, i)}
    <3>1. X[i] \in In(<< X >>)
      BY <2>3
    <3>2. X[i] = [words |-> {a + i - 1}, value |-> v] /\ Place(c, i) = a + i - 1
      BY <2>1, <2>4
    <3> QED
      BY <3>1, <3>2
  <2>7. ASSUME NEW t \in In(<< X >>)
        PROVE  t.value = v /\ \E i \in 1 .. n : t.words = {Place(c, i)}
    BY <2>3, <2>6
  <2> QED
    BY <1>6, <2>2, <2>5, <2>6, <2>7 DEF Right
<1>8. ASSUME n > room PROVE Right(PageProgramCalls(a, c.data))
  <2> DEFINE d == SubSeq(c.data, 1, room)
             e == SubSeq(c.data, room + 1, n)
             X == Write(a, d)
             Y == Write(base, e)
             k == n - room
  <2>1. d = Copies(room, v) /\ e = Copies(k, v)
    <3> DEFINE f == c.data
    <3>1. f \in Seq(Versions) /\ Len(f) = n /\ \A i \in 1 .. n : f[i] = v
      BY <1>0, <1>1
    <3> HIDE DEF f
    <3>2. SubSeq(f, 1, room) = [i \in 1 .. room |-> v]
      BY <1>1, <1>5, <1>8, <3>1
    <3>3. SubSeq(f, room + 1, n) = [i \in 1 .. n - room |-> v]
      BY <1>1, <1>5, <1>8, <3>1
    <3> QED
      BY <3>2, <3>3 DEF f, Copies
  <2>2. k \in Nat \ {0} /\ room \in Nat \ {0} /\ a + room <= kMaxAddress /\ base + k <= kMaxAddress
    BY <1>1, <1>4, <1>5, <1>8
  <2> HIDE DEF d, e, k
  <2>3. /\ X \in Calls /\ DOMAIN X = 1 .. room
        /\ \A i \in 1 .. room : X[i] = [words |-> {a + i - 1}, value |-> v]
    <3>1. X = Write(a, Copies(room, v))
      BY <2>1
    <3>2. a \in Nat /\ room \in Nat \ {0} /\ a + room <= kMaxAddress
      BY <1>1, <2>2
    <3>3. /\ Write(a, Copies(room, v)) \in Calls /\ DOMAIN Write(a, Copies(room, v)) = 1 .. room
          /\ \A i \in 1 .. room : Write(a, Copies(room, v))[i] = [words |-> {a + i - 1}, value |-> v]
      BY <3>2, WriteIsCall
    <3> HIDE DEF X
    <3> QED
      BY <3>1, <3>3
  <2>4. /\ Y \in Calls /\ DOMAIN Y = 1 .. k
        /\ \A i \in 1 .. k : Y[i] = [words |-> {base + i - 1}, value |-> v]
    <3>1. Y = Write(base, Copies(k, v))
      BY <2>1
    <3>2. base \in Nat /\ k \in Nat \ {0} /\ base + k <= kMaxAddress
      BY <1>1, <2>2
    <3>3. /\ Write(base, Copies(k, v)) \in Calls /\ DOMAIN Write(base, Copies(k, v)) = 1 .. k
          /\ \A i \in 1 .. k : Write(base, Copies(k, v))[i] = [words |-> {base + i - 1}, value |-> v]
      BY <3>2, WriteIsCall
    <3> HIDE DEF Y
    <3> QED
      BY <3>1, <3>3
  <2>5. PageProgramCalls(a, c.data) = << X, Y >>
    BY <1>3, <1>5, <1>1, <1>8 DEF d, e
  <2> HIDE DEF X, Y
  <2>6. \A t : t \in In(<< X, Y >>) <=>
          (\E i \in 1 .. room : t = X[i]) \/ (\E i \in 1 .. k : t = Y[i])
    <3>1. \A t : t \in In(<< X, Y >>) <=>
            (\E i \in DOMAIN X : t = X[i]) \/ (\E i \in DOMAIN Y : t = Y[i])
      BY InCalls
    <3>2. DOMAIN X = 1 .. room /\ DOMAIN Y = 1 .. k
      BY <2>3, <2>4
    <3> QED
      BY <3>1, <3>2
  <2>7. << X, Y >> \in Seq(Calls) /\ Len(<< X, Y >>) \in 1 .. 2
    BY <2>3, <2>4
  <2>8. \A i \in 1 .. room : i \in 1 .. n /\ Place(c, i) = a + i - 1
    BY <1>1, <1>2, <1>5, <1>8
  <2>9. \A i \in 1 .. k : i + room \in 1 .. n /\ Place(c, i + room) = base + i - 1
    <3>1. ASSUME NEW i \in 1 .. k
          PROVE  i + room \in 1 .. n /\ i + room \in 1 .. ProgPage /\ i + room > room
                 /\ i + room - room = i
      BY <1>1, <1>5, <1>8, <2>2 DEF k
    <3> QED
      BY <1>2, <1>5, <2>2, <3>1
  <2>10. \A i \in 1 .. n : i \in 1 .. room \/ (i - room \in 1 .. k /\ Place(c, i) = base + (i - room) - 1)
    <3>1. ASSUME NEW i \in 1 .. n, i \notin 1 .. room
          PROVE  i - room \in 1 .. k /\ i \in 1 .. ProgPage /\ i > room
      BY <1>1, <1>5, <1>8, <2>2, <3>1 DEF k
    <3> QED
      BY <1>2, <1>5, <3>1
  <2>11. ASSUME NEW t \in In(<< X, Y >>)
         PROVE  t.value = v /\ \E i \in 1 .. n : t.words = {Place(c, i)}
    BY <2>3, <2>4, <2>6, <2>8, <2>9
  <2>12. ASSUME NEW i \in 1 .. n PROVE \E t \in In(<< X, Y >>) : Place(c, i) \in t.words
    <3>1. CASE i \in 1 .. room
      <4>1. X[i] \in In(<< X, Y >>)
        BY <2>6, <3>1
      <4>2. X[i].words = {Place(c, i)}
        BY <2>3, <2>8, <3>1
      <4> QED
        BY <4>1, <4>2
    <3>2. CASE i - room \in 1 .. k /\ Place(c, i) = base + (i - room) - 1
      <4>1. Y[i - room] \in In(<< X, Y >>)
        BY <2>6, <3>2
      <4>2. Y[i - room].words = {Place(c, i)}
        BY <2>4, <3>2
      <4> QED
        BY <4>1, <4>2
    <3> QED
      BY <2>10, <3>1, <3>2
  <2> QED
    BY <1>6, <2>5, <2>7, <2>11, <2>12 DEF Right
<1>9. Right(PageProgramCalls(a, c.data))
  BY <1>1, <1>5, <1>7, <1>8
<1>10. Gets(c) = v /\ \A w : Changes(c, w) <=> \E i \in 1 .. n : Place(c, i) = w
  BY <1>0, <1>1 DEF Gets, Changes
<1> DEFINE P == PageProgramCalls(a, c.data)
<1> HIDE DEF P
<1>11. P \in Seq(Calls) /\ Len(P) \in 1 .. 2
  BY <1>9 DEF Right, P
<1>12. ASSUME NEW t \in In(P) PROVE t.value = Gets(c) /\ \A w \in t.words : Changes(c, w)
  <2>1. t.value = v /\ \E i \in 1 .. n : t.words = {Place(c, i)}
    BY <1>9, <1>12 DEF Right, P
  <2> QED
    BY <1>10, <2>1
<1>13. ASSUME NEW w, Changes(c, w) PROVE w \in Words /\ \E t \in In(P) : w \in t.words
  <2>1. \A i \in 1 .. n : Place(c, i) \in Words /\ \E t \in In(P) : Place(c, i) \in t.words
    BY <1>9 DEF Right, P
  <2> QED
    BY <1>10, <1>13, <2>1
<1> QED
  BY <1>11, <1>12, <1>13 DEF a, P

\* What a command is carried out with: its words, all of them, and their value.
InRange(c) == c.op = "chip_erase" \/ c.addr < kMaxAddress

LEMMA CallsAre ==
  ASSUME NEW c \in Erases \cup Programs, InRange(c)
  PROVE  /\ CallsOf(c) \in Seq(Calls) /\ Len(CallsOf(c)) \in 1 .. 2
         /\ \A t \in In(CallsOf(c)) : t.value = Gets(c) /\ \A w \in t.words : Changes(c, w)
         /\ \A w \in Words : Changes(c, w) => \E t \in In(CallsOf(c)) : w \in t.words
<1>1. CASE c.op = "chip_erase"
  BY <1>1, ChipCalls DEF CallsOf, Gets, Changes
<1>2. CASE c.op = "sector_erase" /\ c.addr \in Nat
  <2>1. CallsOf(c) = SectorEraseCalls(c.addr) /\ Gets(c) = Erased /\ c.addr < kMaxAddress
        /\ \A w : Changes(c, w) <=> w \div (2 * FlashPage) = c.addr \div (2 * FlashPage)
    BY <1>2 DEF CallsOf, Gets, Changes, InRange
  <2> QED
    BY <1>2, <2>1, SectorCalls
<1>3. CASE /\ c.op = "page_program" /\ c.addr \in Nat
           /\ \E n \in 1 .. ProgPage, v \in Versions : c.data = [i \in 1 .. n |-> v]
  <2>1. CallsOf(c) = PageProgramCalls(c.addr, c.data) /\ c.addr < kMaxAddress
    BY <1>3 DEF CallsOf, InRange
  <2> QED
    BY <1>3, <2>1, ProgramCalls
<1> QED
  BY <1>1, <1>2, <1>3, CommandKinds

\* What is left of a job when its first transaction, or its first call, is over.
Elements(q) == {q[i] : i \in DOMAIN q}

LEMMA HeadAndTail ==
  ASSUME NEW M, NEW q \in Seq(M), q # <<>>
  PROVE  /\ Head(q) = q[1] /\ Head(q) \in M /\ Tail(q) \in Seq(M)
         /\ Len(q) \in Nat \ {0} /\ Len(Tail(q)) = Len(q) - 1
         /\ \A i \in 1 .. Len(Tail(q)) : Tail(q)[i] = q[i + 1]
  BY HeadTailProperties, EmptySeq

LEMMA ElementsOfTail ==
  ASSUME NEW M, NEW q \in Seq(M), q # <<>>
  PROVE  Elements(q) = {Head(q)} \cup Elements(Tail(q))
<1> DEFINE s == Tail(q)
           h == Head(q)
<1>1. DOMAIN q = 1 .. Len(q) /\ DOMAIN s = 1 .. Len(s) /\ s \in Seq(M) /\ h = q[1]
      /\ Len(q) \in Nat \ {0} /\ Len(s) = Len(q) - 1 /\ \A i \in 1 .. Len(s) : s[i] = q[i + 1]
  <2>1. h = q[1] /\ s \in Seq(M) /\ Len(q) \in Nat \ {0} /\ Len(s) = Len(q) - 1
        /\ \A i \in 1 .. Len(s) : s[i] = q[i + 1]
    BY HeadAndTail
  <2> HIDE DEF s, h
  <2>2. DOMAIN s = 1 .. Len(s)
    BY <2>1
  <2> QED
    BY <2>1, <2>2
<1> HIDE DEF s, h
<1>2. ASSUME NEW i \in DOMAIN q PROVE q[i] = h \/ \E j \in DOMAIN s : q[i] = s[j]
  <2>1. CASE i = 1
    BY <1>1, <2>1
  <2>2. CASE i # 1
    <3>1. i - 1 \in DOMAIN s /\ (i - 1) + 1 = i
      BY <1>1, <2>2
    <3>2. s[i - 1] = q[(i - 1) + 1]
      BY <1>1, <3>1
    <3> QED
      BY <3>1, <3>2
  <2> QED
    BY <2>1, <2>2
<1>3. ASSUME NEW i \in DOMAIN s PROVE \E j \in DOMAIN q : s[i] = q[j]
  <2>1. i + 1 \in DOMAIN q /\ s[i] = q[i + 1]
    BY <1>1
  <2> QED
    BY <2>1
<1>4. 1 \in DOMAIN q
  BY <1>1
<1> QED
  BY <1>1, <1>2, <1>3, <1>4 DEF Elements, s, h

LEMMA InTail ==
  ASSUME NEW q \in Seq(Calls), q # <<>>
  PROVE  In(q) = Elements(Head(q)) \cup In(Tail(q))
<1> DEFINE s == Tail(q)
           h == Head(q)
<1>1. \A c : In(c) = UNION {Elements(x) : x \in Elements(c)}
  BY DEF In, Elements
<1>2. Elements(q) = {h} \cup Elements(s)
  BY ElementsOfTail
<1> HIDE DEF s, h
<1>3. In(q) = UNION {Elements(x) : x \in {h} \cup Elements(s)}
  BY <1>1, <1>2
<1>4. In(s) = UNION {Elements(x) : x \in Elements(s)}
  BY <1>1
<1> QED
  BY <1>3, <1>4 DEF s, h

LEMMA Cons ==
  ASSUME NEW M, NEW x \in M, NEW s \in Seq(M)
  PROVE  /\ << x >> \o s \in Seq(M) /\ << x >> \o s # <<>> /\ Len(<< x >> \o s) = 1 + Len(s)
         /\ Head(<< x >> \o s) = x /\ Tail(<< x >> \o s) = s
<1>1. << x >> \in Seq(M) /\ << x >> # <<>> /\ Len(<< x >>) = 1
      /\ Head(<< x >>) = x /\ Tail(<< x >>) = <<>>
  OBVIOUS
<1> DEFINE q == << x >> \o s
<1>2. q \in Seq(M) /\ Len(q) = 1 + Len(s) /\ Len(s) \in Nat
      /\ \A i \in 1 .. Len(q) : q[i] = IF i = 1 THEN x ELSE s[i - 1]
  <2>1. q \in Seq(M) /\ Len(q) = 1 + Len(s) /\ Len(s) \in Nat
    BY <1>1, ConcatProperties
  <2>2. ASSUME NEW i \in 1 .. Len(q) PROVE q[i] = IF i = 1 THEN x ELSE s[i - 1]
    BY <1>1, <2>1
  <2> QED
    BY <2>1, <2>2
<1> HIDE DEF q
<1>3. q # <<>>
  BY <1>2
<1>4. Head(q) = x
  BY <1>2, <1>3, HeadAndTail
<1>5. Tail(q) = s
  <2>1. Tail(q) \in Seq(M) /\ Len(Tail(q)) = Len(s) /\ Len(s) \in Nat
    BY <1>2, <1>3, HeadAndTail
  <2>2. ASSUME NEW i \in 1 .. Len(s) PROVE Tail(q)[i] = s[i]
    <3>1. Tail(q)[i] = q[i + 1]
      BY <1>2, <1>3, <2>1, HeadAndTail
    <3>2. q[i + 1] = s[(i + 1) - 1] /\ (i + 1) - 1 = i
      BY <1>2
    <3> QED
      BY <3>1, <3>2
  <2> QED
    BY <2>1, <2>2, SeqEqual
<1> QED
  BY <1>2, <1>3, <1>4, <1>5 DEF q

\* The rest of a job without its first transaction.
Rest(q) == IF Len(Head(q)) = 1 THEN Tail(q) ELSE << Tail(Head(q)) >> \o Tail(q)

LEMMA JobGoesOn ==
  ASSUME NEW q \in Seq(Calls), q # <<>>
  PROVE  /\ Head(Head(q)) \in Transactions /\ Head(Head(q)) \in In(q)
         /\ Tail(q) \in Seq(Calls) /\ Len(Tail(q)) < Len(q) /\ In(Tail(q)) \subseteq In(q)
         /\ Rest(q) \in Seq(Calls) /\ Len(Rest(q)) <= Len(q)
         /\ In(q) = In(Rest(q)) \cup {Head(Head(q))}
<1> DEFINE s == Tail(q)
           h == Head(q)
           t == Head(h)
           u == Tail(h)
<1>1. h \in Calls /\ s \in Seq(Calls) /\ Len(q) \in Nat /\ Len(s) = Len(q) - 1
  BY HeadAndTail
<1>2. In(q) = Elements(h) \cup In(s)
  BY InTail
<1> HIDE DEF h, s
<1>3. h \in Seq(Transactions) /\ h # <<>>
  BY <1>1 DEF Calls
<1>4. t \in Transactions /\ u \in Seq(Transactions) /\ Len(h) \in Nat \ {0} /\ Len(u) = Len(h) - 1
  BY <1>3, HeadAndTail
<1>5. Elements(h) = {t} \cup Elements(u)
  BY <1>3, ElementsOfTail
<1> DEFINE r == IF Len(h) = 1 THEN s ELSE << u >> \o s
<1> HIDE DEF t, u
<1>6. r \in Seq(Calls) /\ Len(r) <= Len(q) /\ In(q) = In(r) \cup {t}
  <2>1. CASE Len(h) = 1
    <3>1. Elements(u) = {}
      <4>1. u = <<>>
        BY <1>4, <2>1, EmptySeq
      <4> QED
        BY <4>1 DEF Elements
    <3> QED
      BY <1>1, <1>2, <1>5, <2>1, <3>1
  <2>2. CASE Len(h) # 1
    <3>1. u \in Calls
      <4>1. u # <<>>
        BY <1>4, <2>2
      <4> QED
        BY <1>4, <4>1 DEF Calls
    <3>2. /\ << u >> \o s \in Seq(Calls) /\ << u >> \o s # <<>> /\ Len(<< u >> \o s) = 1 + Len(s)
          /\ Head(<< u >> \o s) = u /\ Tail(<< u >> \o s) = s
      BY <1>1, <3>1, Cons
    <3>3. In(<< u >> \o s) = Elements(u) \cup In(s)
      BY <3>2, InTail
    <3> QED
      BY <1>1, <1>2, <1>5, <2>2, <3>2, <3>3
  <2> QED
    BY <2>1, <2>2
<1>7. r = Rest(q)
  BY DEF Rest, h, s, u
<1> HIDE DEF r
<1>8. t \in Transactions /\ t \in In(q) /\ s \in Seq(Calls) /\ Len(s) < Len(q) /\ In(s) \subseteq In(q)
  <2>1. t \in In(q) /\ In(s) \subseteq In(q)
    BY <1>2, <1>5
  <2>2. Len(s) < Len(q)
    BY <1>1
  <2> QED
    BY <1>1, <1>4, <2>1, <2>2
<1>9. /\ Rest(q) \in Seq(Calls) /\ Len(Rest(q)) <= Len(q) /\ In(q) = In(Rest(q)) \cup {t}
  BY <1>6, <1>7
<1>10. s = Tail(q) /\ t = Head(Head(q))
  BY DEF h, s, t
<1> QED
  BY <1>8, <1>9, <1>10

LEMMA NoJob == In(<<>>) = {} /\ <<>> \in Seq(Calls) /\ Len(<<>>) = 0
  BY DEF In
-----------------------------------------------------------------------------
\* What a step is to bootstrap: one of its handlers, its entry, a reset, a step
\* of the host, or nothing.
Entry == EnterBootstrap /\ state = "off"
Resets ==
  /\ Off
  /\ \/ PinReset
     \/ /\ upset' = (upset \/ session \in {"idle", "wait"})
        /\ UNCHANGED <<session, expect, strap, commands>>
Nothing == UNCHANGED <<memory, device, stale, host>>

LEMMA Steps ==
  ASSUME [Next]_vars
  PROVE  DeviceNext \/ Entry \/ Resets \/ HostNext \/ Nothing
<1>1. CASE Init1 \/ ReadStraps \/ TryFirst \/ TrySecond \/ Boot \/ WakeUp \/ UNCHANGED vars
  BY <1>1 DEF Init1, ReadStraps, TryFirst, TrySecond, Boot, WakeUp, bootstrapVars, vars, Nothing
<1>2. CASE TryBoot
  BY <1>2 DEF TryBoot, bootstrapVars, Nothing
<1>3. CASE CallBootstrap
  BY <1>3 DEF CallBootstrap, bootstrapVars, Nothing, Entry
<1>4. CASE RunBootstrap
  BY <1>4 DEF RunBootstrap
<1>5. CASE ResetByHost
  BY <1>5 DEF ResetByHost, Resets
<1>6. CASE ResetByDevice \/ ResetByFault
  BY <1>6 DEF ResetByDevice, ResetByFault, Resets
<1> QED
  BY <1>1, <1>2, <1>3, <1>4, <1>5, <1>6 DEF Next, RomNext

\* The types of the flash,
FlashTyped == memory \in [Words -> Contents] /\ stale \subseteq Words /\ blank \subseteq Words
\* of the device
DeviceTyped ==
  /\ state \in {"off", "erase", "verify", "program", "shutdown"}
  /\ wel \in BOOLEAN /\ wip \in BOOLEAN /\ failed \in BOOLEAN
  /\ fifo \in Erases \cup Programs \cup Noise \cup {None, [op |-> "reset"]}
  /\ cmd \in Erases \cup Programs \cup {None}
JobTyped == job \in Seq(Calls) /\ Len(job) <= 2
\* and of the host.
HostTyped ==
  /\ session \in {"closed", "strapped", "idle", "wait", "done", "released"}
  /\ expect \in [Words -> Versions \cup {Erased, Unknown}]
  /\ upset \in BOOLEAN /\ strap \in BOOLEAN
  /\ commands \in 0 .. MaxCommands

LEMMA NextTransaction ==
  ASSUME JobTyped, job # <<>>
  PROVE  /\ Transaction \in Transactions /\ Transaction \in In(job)
         /\ Transaction.words \subseteq Words /\ Transaction.value \in Versions \cup {Erased}
<1>1. Transaction \in Transactions /\ Transaction \in In(job)
  BY JobGoesOn DEF Transaction, JobTyped
<1> QED
  BY <1>1 DEF Transactions

LEMMA AdvanceIs ==
  ASSUME JobTyped, job # <<>>, Advance
  PROVE  /\ job' = Rest(job) /\ job' \in Seq(Calls) /\ Len(job') <= 2
         /\ In(job) = In(job') \cup {Transaction}
<1>1. job' = Rest(job)
  BY DEF Advance, Rest
<1>2. /\ Rest(job) \in Seq(Calls) /\ Len(Rest(job)) <= Len(job) /\ Len(job) \in Nat
      /\ Len(Rest(job)) \in Nat
      /\ In(job) = In(Rest(job)) \cup {Transaction}
  BY JobGoesOn DEF Transaction, JobTyped
<1>3. Len(Rest(job)) <= 2
  BY <1>2 DEF JobTyped
<1> QED
  BY <1>1, <1>2, <1>3

\* What a transaction leaves in each word.
LEMMA CarryIs ==
  ASSUME FlashTyped, NEW t \in Transactions, NEW spared, NEW spoilt, Carry(t, spared, spoilt)
  PROVE  /\ memory' \in [Words -> Contents] /\ stale' \subseteq Words
         /\ \A w \in Words :
              /\ w \in spoilt => memory'[w] = Garbage
              /\ w \notin spoilt /\ w \in t.words \ spared =>
                   memory'[w] = IF t.value = Erased \/ memory[w] \in {Erased, t.value}
                                THEN t.value ELSE Garbage
              /\ w \notin spoilt /\ w \notin t.words \ spared => memory'[w] = memory[w]
<1>1. \A w \in Words :
        After(t, w) = (IF t.value = Erased \/ memory[w] \in {Erased, t.value} THEN t.value ELSE Garbage)
        /\ After(t, w) \in Contents
  BY DEF After, Transactions, Contents
<1>2. memory' = [w \in Words |-> IF w \in spoilt THEN Garbage
                                 ELSE IF w \in t.words \ spared THEN After(t, w) ELSE memory[w]]
      /\ stale' = stale \ (t.words \ (spared \cup spoilt))
  BY DEF Carry
<1>3. stale' \subseteq Words
  BY <1>2 DEF FlashTyped
<1>4. \A w \in Words : memory[w] \in Contents /\ Garbage \in Contents
  BY DEF FlashTyped, Contents
<1>5. memory' \in [Words -> Contents]
  BY <1>1, <1>2, <1>4
<1> QED
  BY <1>1, <1>2, <1>3, <1>5

LEMMA OffKeepsTypes ==
  ASSUME FlashTyped, Off
  PROVE  FlashTyped' /\ DeviceTyped' /\ JobTyped'
<1>1. memory' \in [Words -> Contents]
  <2>1. CASE job = <<>>
    BY <2>1 DEF Off, FlashTyped
  <2>2. CASE job # <<>>
    <3>1. PICK spoilt : memory' = [w \in Words |-> IF w \in spoilt THEN Garbage ELSE memory[w]]
      BY <2>2 DEF Off
    <3> QED
      BY <3>1 DEF FlashTyped, Contents
  <2> QED
    BY <2>1, <2>2
<1>2. stale' = {} /\ blank' = {} /\ state' = "off" /\ wel' = FALSE /\ wip' = FALSE
      /\ failed' = FALSE /\ fifo' = None /\ cmd' = None /\ job' = <<>>
  BY DEF Off, StatusClear, Forget
<1>3. FlashTyped'
  BY <1>1, <1>2 DEF FlashTyped
<1>4. DeviceTyped'
  BY <1>2 DEF DeviceTyped
<1>5. JobTyped'
  BY <1>2, NoJob DEF JobTyped
<1> QED
  BY <1>3, <1>4, <1>5

\* A command is taken when it came with WREN, and where it is in range.
LEMMA TakeKeepsTypes ==
  ASSUME FlashTyped, DeviceTyped, JobTyped, NEW calls \in Seq(Calls), Len(calls) <= 2,
         fifo \in Erases \cup Programs, Take(calls), UNCHANGED <<memory, stale>>
  PROVE  FlashTyped' /\ DeviceTyped' /\ JobTyped'
<1>1. FlashTyped'
  BY DEF Take, FlashTyped
<1>2. DeviceTyped'
  BY DEF Take, DeviceTyped
<1>3. JobTyped'
  BY DEF Take, JobTyped
<1> QED
  BY <1>1, <1>2, <1>3

LEMMA SameTypes ==
  ASSUME FlashTyped, DeviceTyped, JobTyped, UNCHANGED <<memory, stale, blank, job>>,
         state' \in {"off", "erase", "verify", "program", "shutdown"},
         wel' \in BOOLEAN, wip' \in BOOLEAN, failed' \in BOOLEAN,
         fifo' \in Erases \cup Programs \cup Noise \cup {None, [op |-> "reset"]},
         cmd' \in Erases \cup Programs \cup {None}
  PROVE  FlashTyped' /\ DeviceTyped' /\ JobTyped'
  BY DEF FlashTyped, DeviceTyped, JobTyped

LEMMA IsCommand ==
  ASSUME DeviceTyped
  PROVE  /\ fifo # None /\ fifo.op \in {"chip_erase", "sector_erase", "page_program"} =>
              fifo \in Erases \cup Programs
         /\ \A c \in Erases \cup Programs :
              c # None /\ c.op \in {"chip_erase", "sector_erase", "page_program"}
<1>1. \A c \in Noise \cup {[op |-> "reset"]} : c.op \in {"other", "overflow", "reset"}
  BY DEF Noise
<1>2. \A c \in Erases \cup Programs :
        c # None /\ c.op \in {"chip_erase", "sector_erase", "page_program"}
  BY CommandsAssumption, CommandKinds
<1> QED
  BY <1>1, <1>2 DEF DeviceTyped

\* bootstrap_handle_program() takes a command that came with WREN and is in range.
LEMMA ProgramTakes ==
  ASSUME DeviceTyped, HandleProgram
  PROVE  \/ Shutdown \/ (~wel /\ Ignore)
         \/ wel /\ fifo.op = "other" /\ Acknowledge
         \/ wel /\ fifo \in Erases \cup Programs /\ InRange(fifo) /\ Take(CallsOf(fifo))
<1>1. CASE fifo.op \in {"overflow", "reset", "other"} \/ ~wel
  BY <1>1 DEF HandleProgram
<1>2. CASE wel /\ fifo.op = "chip_erase"
  BY <1>2, IsCommand DEF HandleProgram, InRange, CallsOf
<1>3. CASE wel /\ fifo.op = "sector_erase"
  <2>1. fifo \in Erases \cup Programs
    BY <1>3, IsCommand DEF HandleProgram
  <2>2. fifo.addr \in Nat
    BY <1>3, <2>1, CommandKinds
  <2>3. CASE fifo.addr < kMaxAddress
    <3>1. ~(fifo.addr >= kMaxAddress)
      BY <2>2, <2>3, Sizes
    <3>2. Take(SectorEraseCalls(fifo.addr))
      BY <1>3, <3>1 DEF HandleProgram
    <3> QED
      BY <1>3, <2>1, <2>3, <3>2 DEF InRange, CallsOf
  <2>4. CASE ~(fifo.addr < kMaxAddress)
    <3>1. fifo.addr >= kMaxAddress
      BY <2>2, <2>4, Sizes
    <3> QED
      BY <1>3, <3>1 DEF HandleProgram
  <2> QED
    BY <2>3, <2>4
<1>4. CASE wel /\ fifo.op = "page_program"
  <2>1. fifo \in Erases \cup Programs
    BY <1>4, IsCommand DEF HandleProgram
  <2>2. fifo.addr \in Nat
    BY <1>4, <2>1, CommandKinds
  <2>3. CASE fifo.addr < kMaxAddress
    <3>1. ~(fifo.addr >= kMaxAddress)
      BY <2>2, <2>3, Sizes
    <3>2. Take(PageProgramCalls(fifo.addr, fifo.data))
      BY <1>4, <3>1 DEF HandleProgram
    <3> QED
      BY <1>4, <2>1, <2>3, <3>2 DEF InRange, CallsOf
  <2>4. CASE ~(fifo.addr < kMaxAddress)
    <3>1. fifo.addr >= kMaxAddress
      BY <2>2, <2>4, Sizes
    <3> QED
      BY <1>4, <3>1 DEF HandleProgram
  <2> QED
    BY <2>3, <2>4
<1>5. \/ fifo.op \in {"overflow", "reset", "other"}
      \/ fifo.op \in {"chip_erase", "sector_erase", "page_program"}
  <2>1. fifo # None
    BY DEF HandleProgram
  <2>2. \A c \in Noise \cup {[op |-> "reset"]} : c.op \in {"other", "overflow", "reset"}
    BY DEF Noise
  <2> QED
    BY <2>1, <2>2, IsCommand DEF DeviceTyped
<1> QED
  BY <1>1, <1>2, <1>3, <1>4, <1>5

LEMMA DeviceKeepsTypes ==
  ASSUME FlashTyped, DeviceTyped, JobTyped, DeviceNext
  PROVE  FlashTyped' /\ DeviceTyped' /\ JobTyped'
<1> USE DEF Shutdown, Ignore, Acknowledge, StatusClear
<1>1. CASE HandleErase
  <2>1. CASE Take(ChipEraseCalls) /\ fifo # None /\ fifo.op \in {"chip_erase", "sector_erase"}
    <3>1. fifo \in Erases \cup Programs
      BY <2>1, IsCommand
    <3>2. UNCHANGED <<memory, stale>>
      BY <1>1 DEF HandleErase
    <3> DEFINE calls == ChipEraseCalls
    <3>3. calls \in Seq(Calls) /\ Len(calls) <= 2 /\ Take(calls)
      BY <2>1, ChipCalls
    <3> HIDE DEF calls
    <3> QED
      BY <3>1, <3>2, <3>3, TakeKeepsTypes
  <2>2. CASE Shutdown \/ Ignore \/ Acknowledge
    BY <1>1, <2>2, SameTypes DEF HandleErase, DeviceTyped
  <2> QED
    BY <1>1, <2>1, <2>2 DEF HandleErase
<1>2. CASE HandleEraseVerify
  <2>1. CASE Shutdown
    BY <1>2, <2>1, SameTypes DEF HandleEraseVerify, DeviceTyped
  <2>2. CASE ~Shutdown
    <3>1. UNCHANGED <<memory, stale, fifo, job, failed>> /\ wel' = FALSE /\ wip' = FALSE
          /\ cmd' = None /\ blank' = {} /\ state' = "program"
      BY <1>2, <2>2 DEF HandleEraseVerify, Forget
    <3> QED
      BY <3>1 DEF FlashTyped, DeviceTyped, JobTyped
  <2> QED
    BY <2>1, <2>2
<1>3. CASE HandleProgram
  <2>1. CASE Shutdown \/ Ignore \/ Acknowledge
    BY <1>3, <2>1, SameTypes DEF HandleProgram, DeviceTyped
  <2>2. CASE fifo \in Erases \cup Programs /\ InRange(fifo) /\ Take(CallsOf(fifo))
    <3>1. CallsOf(fifo) \in Seq(Calls) /\ Len(CallsOf(fifo)) \in 1 .. 2
      BY <2>2, CallsAre
    <3>5. \A n \in 1 .. 2 : n <= 2
      OBVIOUS
    <3>2. UNCHANGED <<memory, stale>>
      BY <1>3 DEF HandleProgram
    <3> DEFINE calls == CallsOf(fifo)
    <3>3. calls \in Seq(Calls) /\ Len(calls) <= 2
      BY <3>1, <3>5, Zenon
    <3>4. Take(calls)
      BY <2>2
    <3> HIDE DEF calls
    <3> QED
      BY <2>2, <3>2, <3>3, <3>4, TakeKeepsTypes
  <2> QED
    BY <1>3, <2>1, <2>2, ProgramTakes
<1>4. CASE Done
  <2>1. FlashTyped'
    BY <1>4, NextTransaction, CarryIs DEF Done, FlashTyped
  <2>2. JobTyped'
    BY <1>4, AdvanceIs DEF Done, JobTyped
  <2>3. DeviceTyped'
    BY <1>4 DEF Done, DeviceTyped
  <2> QED
    BY <2>1, <2>2, <2>3
<1>5. CASE Error
  <2>1. PICK spoilt : Carry(Transaction, Transaction.words, spoilt)
    BY <1>5 DEF Error
  <2>2. FlashTyped'
    BY <1>5, <2>1, NextTransaction, CarryIs DEF Error, FlashTyped
  <2>3. JobTyped'
    <3>1. Tail(job) \in Seq(Calls) /\ Len(Tail(job)) < Len(job) /\ job' = Tail(job)
          /\ Len(job) \in Nat /\ Len(Tail(job)) \in Nat
      BY <1>5, JobGoesOn DEF Error, JobTyped
    <3> QED
      BY <3>1 DEF JobTyped
  <2>4. DeviceTyped'
    BY <1>5 DEF Error, DeviceTyped
  <2> QED
    BY <2>2, <2>3, <2>4
<1>6. CASE WeakErase
  <2>1. PICK spared : Carry(Transaction, spared, {})
    BY <1>6 DEF WeakErase
  <2>2. FlashTyped'
    BY <1>6, <2>1, NextTransaction, CarryIs DEF WeakErase, FlashTyped
  <2>3. JobTyped'
    BY <1>6, AdvanceIs DEF WeakErase, JobTyped
  <2>4. DeviceTyped'
    BY <1>6 DEF WeakErase, DeviceTyped
  <2> QED
    BY <2>2, <2>3, <2>4
<1>7. CASE Return
  <2>1. CASE Shutdown
    BY <1>7, <2>1, SameTypes DEF Return, DeviceTyped
  <2>2. CASE state' = "verify" /\ UNCHANGED <<wel, wip, fifo, cmd, blank, job, failed>>
    BY <1>7, <2>2, SameTypes DEF Return, DeviceTyped
  <2>3. CASE Forget /\ wel' = FALSE /\ wip' = FALSE /\ UNCHANGED <<state, fifo, job, failed>>
    BY <1>7, <2>3 DEF Return, Forget, DeviceTyped, FlashTyped, JobTyped
  <2> QED
    BY <1>7, <2>1, <2>2, <2>3 DEF Return
<1> QED
  BY <1>1, <1>2, <1>3, <1>4, <1>5, <1>6, <1>7 DEF DeviceNext

\* A host takes what a command changes to hold what it gets.
LEMMA BelieveIs ==
  ASSUME NEW c \in Erases \cup Programs
  PROVE  Believe(c) = [w \in Words |-> IF Changes(c, w) THEN Gets(c) ELSE expect[w]]
         /\ Gets(c) \in Versions \cup {Erased}
<1>1. CASE c.op = "chip_erase"
  BY <1>1 DEF Believe, Changes, Gets
<1>2. CASE c.op = "sector_erase"
  BY <1>2 DEF Believe, Changes, Gets
<1>3. CASE c.op = "page_program"
           /\ \E n \in 1 .. ProgPage, v \in Versions : c.data = [i \in 1 .. n |-> v]
  <2>1. PICK n \in 1 .. ProgPage, v \in Versions : c.data = [i \in 1 .. n |-> v]
    BY <1>3
  <2> DEFINE d == c.data
             at(w) == CHOOSE i \in DOMAIN d : Place(c, i) = w
  <2>2. n \in Nat \ {0} /\ 1 \in 1 .. n
    BY Sizes
  <2>3. DOMAIN d = 1 .. n /\ \A i \in 1 .. n : d[i] = v
    BY <2>1
  <2>4. Believe(c) = [w \in Words |-> IF \E i \in DOMAIN d : Place(c, i) = w
                                       THEN d[at(w)] ELSE expect[w]]
    BY <1>3 DEF Believe
  <2>5. \A w : Changes(c, w) <=> \E i \in DOMAIN d : Place(c, i) = w
    BY <1>3 DEF Changes
  <2>6. Gets(c) = d[1]
    BY <1>3 DEF Gets
  <2> HIDE DEF d
  <2>7. ASSUME NEW w, \E i \in DOMAIN d : Place(c, i) = w PROVE at(w) \in DOMAIN d
    BY <2>7
  <2> HIDE DEF at
  <2>8. \A w : Changes(c, w) => d[at(w)] = Gets(c)
    BY <2>2, <2>3, <2>5, <2>6, <2>7
  <2>9. Gets(c) \in Versions
    BY <2>2, <2>3, <2>6
  <2> QED
    BY <2>4, <2>5, <2>8, <2>9
<1> QED
  BY <1>1, <1>2, <1>3, CommandKinds

LEMMA SendsKeepsTypes ==
  ASSUME HostTyped, NEW c \in Erases \cup Programs, Sends(c), upset' \in BOOLEAN
  PROVE  HostTyped'
<1>1. expect' \in [Words -> Versions \cup {Erased, Unknown}]
  BY BelieveIs DEF Sends, HostTyped
<1>2. commands' \in 0 .. MaxCommands
  <2>1. commands \in 0 .. MaxCommands /\ commands < MaxCommands /\ commands' = commands + 1
    BY DEF Sends, HostTyped
  <2> QED
    BY <2>1, HostAssumption
<1> QED
  BY <1>1, <1>2 DEF Sends, HostTyped

LEMMA HostKeepsTypes ==
  ASSUME HostTyped, HostNext
  PROVE  HostTyped'
<1>1. CASE Straps
  <2>1. commands' \in 0 .. MaxCommands
    <3>1. commands \in 0 .. MaxCommands
      BY DEF HostTyped
    <3>2. commands' = commands \/ (commands < MaxCommands /\ commands' = commands + 1)
      BY <1>1 DEF Straps
    <3> QED
      BY <3>1, <3>2, HostAssumption
  <2>2. expect' \in [Words -> Versions \cup {Erased, Unknown}]
    BY <1>1 DEF Straps, HostTyped
  <2> QED
    BY <1>1, <2>1, <2>2 DEF Straps, HostTyped
<1>2. CASE Send
  <2>1. PICK c \in Erases \cup Programs : Sends(c)
    BY <1>2 DEF Send
  <2>2. upset' \in BOOLEAN
    BY <1>2, Zenon DEF Send, HostTyped
  <2> QED
    BY <2>1, <2>2, SendsKeepsTypes
<1>3. CASE Glitch
  <2>1. PICK c \in Erases \cup Programs : Sends(c)
    BY <1>3 DEF Glitch
  <2>2. upset' \in BOOLEAN
    BY <1>3 DEF Glitch
  <2> QED
    BY <2>1, <2>2, SendsKeepsTypes
<1>4. CASE SendReset
  BY <1>4 DEF SendReset, HostTyped
<1>5. CASE Poll
  BY <1>5 DEF Poll, HostTyped
<1> QED
  BY <1>1, <1>2, <1>3, <1>4, <1>5 DEF HostNext

\* What the host does to the device is to upload a command.
LEMMA UploadKeepsTypes ==
  ASSUME FlashTyped, DeviceTyped, JobTyped, HostNext
  PROVE  FlashTyped' /\ DeviceTyped' /\ JobTyped'
<1>1. CASE Straps \/ Poll
  <2>1. UNCHANGED <<memory, device, stale>>
    BY <1>1 DEF Straps, Poll
  <2> QED
    BY <2>1, SameTypes DEF device, DeviceTyped
<1>2. CASE Send
  <2>1. PICK c \in Erases \cup Programs :
          /\ Sends(c)
          /\ \/ fifo' = c /\ wel' = TRUE /\ wip' = TRUE
             \/ UNCHANGED <<fifo, wel, wip>>
    BY <1>2 DEF Send
  <2>2. wel' \in BOOLEAN /\ wip' \in BOOLEAN
    BY <2>1, Zenon DEF DeviceTyped
  <2>3. fifo' \in Erases \cup Programs \cup Noise \cup {None, [op |-> "reset"]}
    BY <2>1, Zenon DEF DeviceTyped
  <2> QED
    BY <2>1, <2>2, <2>3, SameTypes DEF Sends, DeviceTyped
<1>3. CASE Glitch
  <2>1. PICK c \in Erases \cup Programs :
          /\ Sends(c)
          /\ \/ fifo' = c /\ UNCHANGED wel
             \/ fifo' \in Noise /\ wel' = TRUE
    BY <1>3 DEF Glitch
  <2>2. wel' \in BOOLEAN
    BY <2>1, Zenon DEF DeviceTyped
  <2>3. fifo' \in Erases \cup Programs \cup Noise \cup {None, [op |-> "reset"]}
    BY <2>1, Zenon
  <2>4. wip' \in BOOLEAN
    BY <1>3 DEF Glitch
  <2> QED
    BY <2>1, <2>2, <2>3, <2>4, SameTypes DEF Sends, DeviceTyped
<1>4. CASE SendReset
  <2>1. fifo' \in Erases \cup Programs \cup Noise \cup {None, [op |-> "reset"]} /\ wip' \in BOOLEAN
    BY <1>4, Zenon DEF SendReset, DeviceTyped
  <2> QED
    BY <1>4, <2>1, SameTypes DEF SendReset, DeviceTyped
<1> QED
  BY <1>1, <1>2, <1>3, <1>4 DEF HostNext

BootstrapTyped == FlashTyped /\ DeviceTyped /\ JobTyped /\ HostTyped

LEMMA BootstrapStep ==
  ASSUME BootstrapTyped, [Next]_vars
  PROVE  BootstrapTyped'
<1>1. FlashTyped /\ DeviceTyped /\ JobTyped /\ HostTyped
  BY DEF BootstrapTyped
<1>2. CASE DeviceNext
  <2>1. UNCHANGED host
    BY <1>2 DEF DeviceNext, HandleErase, HandleEraseVerify, HandleProgram, Done, Error, WeakErase,
                Return
  <2>2. HostTyped'
    BY <1>1, <2>1 DEF host, HostTyped
  <2> QED
    BY <1>1, <1>2, <2>2, DeviceKeepsTypes DEF BootstrapTyped
<1>3. CASE Entry
  <2>1. /\ memory' = memory /\ stale' \subseteq Words /\ UNCHANGED <<cmd, blank, job, failed, host>>
        /\ state' = "erase" /\ wel' = FALSE /\ wip' = FALSE /\ fifo' = None
    BY <1>3 DEF Entry, EnterBootstrap, StatusClear
  <2> QED
    BY <1>1, <2>1 DEF BootstrapTyped, FlashTyped, DeviceTyped, JobTyped, HostTyped, host
<1>4. CASE Resets
  <2>1. HostTyped'
    BY <1>1, <1>4, Zenon DEF Resets, PinReset, HostTyped
  <2> QED
    BY <1>1, <1>4, <2>1, OffKeepsTypes DEF Resets, BootstrapTyped
<1>5. CASE HostNext
  BY <1>1, <1>5, HostKeepsTypes, UploadKeepsTypes DEF BootstrapTyped
<1>6. CASE Nothing
  BY <1>1, <1>6 DEF Nothing, device, host, BootstrapTyped, FlashTyped, DeviceTyped, JobTyped,
                    HostTyped
<1> QED
  BY <1>2, <1>3, <1>4, <1>5, <1>6, Steps

\* The types of what the ROM keeps beside its counters, and of the faults.
RomTyped ==
  /\ pc \in {"init", "straps", "bootstrap", "try", "first", "second", "boot", "run",
             "shutdown", "trap"}
  /\ waking \in BOOLEAN /\ bootstrap_dis \in BOOLEAN
  /\ running \in Banks \cup {None} /\ min_version \in Versions
  /\ faults \in 0 .. MaxFaults

LEMMA FaultsStep ==
  ASSUME faults \in 0 .. MaxFaults, [Next]_vars
  PROVE  faults' \in 0 .. MaxFaults
<1>1. faults' = faults \/ Fault
  BY DEF Next, RomNext, Init1, ReadStraps, CallBootstrap, EnterBootstrap, RunBootstrap, DeviceNext,
     HandleErase, HandleEraseVerify, HandleProgram, Done, Error, WeakErase, Return, TryBoot,
     TryFirst, TrySecond, Boot, ResetByHost, PinReset, ResetByDevice, ResetByFault, WakeUp,
     HostNext, Straps, Send, Glitch, SendReset, Poll, vars, bootstrapVars
<1> QED
  BY <1>1, HostAssumption DEF Fault

LEMMA RomStep ==
  ASSUME RomTyped, Counting, [Next]_vars
  PROVE  RomTyped'
<1>1. faults' \in 0 .. MaxFaults
  BY FaultsStep DEF RomTyped
<1>2. UNCHANGED <<min_version, bootstrap_dis>>
  BY DEF Next, RomNext, Init1, ReadStraps, CallBootstrap, RunBootstrap, TryBoot, TryFirst, TrySecond,
     Boot, ResetByHost, ResetByDevice, ResetByFault, WakeUp, Restart, vars, romVars
<1>3. CASE Init1 \/ ReadStraps \/ CallBootstrap \/ TryBoot \/ TryFirst \/ TrySecond
  <2>1. UNCHANGED <<waking, running>>
    BY <1>3 DEF Init1, ReadStraps, CallBootstrap, TryBoot, TryFirst, TrySecond
  <2>2. pc' \in {"straps", "bootstrap", "try", "first", "second", "boot", "shutdown", "trap"}
    BY <1>3 DEF Init1, ReadStraps, CallBootstrap, TryBoot, TryFirst, TrySecond, Go
  <2> QED
    BY <1>1, <1>2, <2>1, <2>2 DEF RomTyped
<1>4. CASE Boot
  <2>1. running' = Chosen /\ waking' = waking /\ pc' \in {"run", "trap"}
    BY <1>4 DEF Boot, Go
  <2>2. Chosen \in Banks
    BY DEF Chosen, Banks, Counting
  <2> QED
    BY <1>1, <1>2, <2>1, <2>2 DEF RomTyped
<1>5. CASE \E w \in BOOLEAN : Restart(w)
  BY <1>1, <1>2, <1>5 DEF Restart, RomTyped
<1>6. CASE UNCHANGED romVars
  BY <1>1, <1>6 DEF romVars, RomTyped
<1> QED
  BY <1>3, <1>4, <1>5, <1>6 DEF Next, RomNext, RunBootstrap, ResetByHost, ResetByDevice,
     ResetByFault, WakeUp, vars

LEMMA TypedAlways == Spec => [](BootstrapTyped /\ RomTyped)
<1>1. Init => BootstrapTyped /\ RomTyped
  <2> SUFFICES ASSUME Init PROVE BootstrapTyped /\ RomTyped
    OBVIOUS
  <2>1. memory \in [Words -> Contents]
    <3>1. PICK a \in Versions, b \in Versions :
            memory = [w \in Words |-> IF w < ImageLen THEN a
                        ELSE IF w - BankSize \in 0 .. ImageLen - 1 THEN b ELSE Erased]
      BY DEF Init
    <3> QED
      BY <3>1 DEF Contents
  <2>2. FlashTyped
    BY <2>1 DEF Init, BootstrapInit, FlashTyped
  <2>3. DeviceTyped
    BY DEF Init, BootstrapInit, DeviceTyped
  <2>4. JobTyped
    BY NoJob DEF Init, BootstrapInit, JobTyped
  <2> DEFINE none == 0
  <2>0. none \in 0 .. MaxCommands /\ none \in 0 .. MaxFaults /\ none = 0
    <3>1. MaxCommands \in Nat /\ MaxFaults \in Nat
      BY HostAssumption
    <3> QED
      BY <3>1
  <2> HIDE DEF none
  <2>5. HostTyped
    <3>1. /\ session = "closed" /\ expect = [w \in Words |-> Unknown] /\ upset = FALSE
          /\ strap = FALSE /\ commands = none
      BY <2>0 DEF Init, BootstrapInit
    <3> QED
      BY <2>0, <3>1 DEF HostTyped
  <2>6. RomTyped
    <3>1. /\ pc = "init" /\ waking = FALSE /\ running = None /\ min_version \in Versions
          /\ bootstrap_dis \in BOOLEAN /\ faults = none
      BY <2>0 DEF Init, BootstrapInit
    <3> QED
      BY <2>0, <3>1 DEF RomTyped
  <2> QED
    BY <2>2, <2>3, <2>4, <2>5, <2>6 DEF BootstrapTyped
<1>2. BootstrapTyped /\ RomTyped /\ Counting /\ [Next]_vars => (BootstrapTyped /\ RomTyped)'
  BY BootstrapStep, RomStep
<1> QED
  BY <1>1, <1>2, CountingAlways, PTL DEF Spec

\* Every variable keeps its type; what the flash driver still has to do stays
\* within the flash (bootstrap_chip_erase(), bootstrap_sector_erase(),
\* bootstrap_page_program(), rom_main()).
THEOREM TypeCorrect == Spec => []TypeOK
<1>1. BootstrapTyped /\ RomTyped /\ Counting => TypeOK
  <2> SUFFICES ASSUME BootstrapTyped, RomTyped, Counting PROVE TypeOK
    OBVIOUS
  <2>1. ASSUME NEW i \in DOMAIN job, NEW j \in DOMAIN job[i]
        PROVE  job[i][j].words \subseteq Words /\ job[i][j].value \in Versions \cup {Erased}
    <3>1. job[i] \in Calls
      BY DEF BootstrapTyped, JobTyped
    <3>2. job[i][j] \in Transactions
      BY <3>1 DEF Calls
    <3> QED
      BY <3>2 DEF Transactions
  <2>2. {wel, wip, failed, upset, strap} \subseteq BOOLEAN
    BY Zenon DEF BootstrapTyped, DeviceTyped, HostTyped
  <2>3. TypeOKBootstrap
    BY <2>1, <2>2 DEF TypeOKBootstrap, BootstrapTyped, FlashTyped, DeviceTyped, JobTyped, HostTyped,
                      RomTyped
  <2>4. {waking, bootstrap_dis} \subseteq BOOLEAN
    BY Zenon DEF RomTyped
  <2> QED
    BY <2>3, <2>4 DEF TypeOK, RomTyped, Counting
<1> QED
  BY <1>1, TypedAlways, CountingAlways, PTL
-----------------------------------------------------------------------------
\* There is one command at a time, from its upload to the end of its handler,
\* and the busy bit is set all the while.
Serial ==
  /\ wel => wip
  /\ fifo # None => wip /\ cmd = None
  /\ cmd # None => wip /\ state # "off"
  /\ cmd = None => job = <<>> /\ blank = {} /\ ~failed
  /\ state = "verify" => cmd # None /\ job = <<>> /\ ~failed
  /\ state \in {"off", "shutdown"} => job = <<>>
  /\ state = "off" => fifo = None /\ ~wip
  /\ session = "idle" => ~wip
  /\ state \in {"erase", "verify"} /\ cmd # None => cmd.op # "page_program"

LEMMA DeviceIsSerial ==
  ASSUME BootstrapTyped, Serial, DeviceNext
  PROVE  Serial'
<1>0. DeviceTyped /\ fifo # None /\ fifo.op \in {"chip_erase", "sector_erase"} =>
        fifo \in Erases \cup Programs /\ fifo.op # "page_program"
  BY IsCommand
<1>1. CASE HandleErase
  <2>1. state = "erase" /\ fifo # None /\ session' = session /\ wip /\ cmd = None /\ job = <<>>
        /\ blank = {} /\ ~failed /\ session # "idle"
    BY <1>1, Zenon DEF HandleErase, host, Serial
  <2>2. CASE Take(ChipEraseCalls) /\ fifo.op \in {"chip_erase", "sector_erase"}
    <3>1. cmd' = fifo /\ fifo' = None /\ UNCHANGED <<state, wel, wip, failed>> /\ cmd'.op # "page_program"
      BY <2>2 DEF Take
    <3> QED
      BY <2>1, <3>1, Zenon DEF Serial
  <2>3. CASE Shutdown
    BY <2>1, <2>3, Zenon DEF Shutdown, Serial
  <2>4. CASE Ignore
    BY <2>1, <2>4, Zenon DEF Ignore, Serial
  <2>5. CASE Acknowledge
    BY <2>1, <2>5, Zenon DEF Acknowledge, StatusClear, Serial
  <2> QED
    BY <1>1, <2>2, <2>3, <2>4, <2>5, Zenon DEF HandleErase
<1>2. CASE HandleEraseVerify
  <2>1. state = "verify" /\ session' = session /\ cmd # None /\ fifo = None /\ job = <<>> /\ ~failed
        /\ wip
    BY <1>2, Zenon DEF HandleEraseVerify, host, Serial
  <2>2. CASE Shutdown
    BY <2>1, <2>2, Zenon DEF Shutdown, Serial
  <2>3. CASE ~Shutdown
    <3>1. wel' = FALSE /\ wip' = FALSE /\ state' = "program" /\ cmd' = None /\ blank' = {}
          /\ UNCHANGED <<fifo, job, failed>>
      BY <1>2, <2>3 DEF HandleEraseVerify, StatusClear, Forget
    <3> QED
      BY <2>1, <3>1 DEF Serial
  <2> QED
    BY <2>2, <2>3
<1>3. CASE HandleProgram
  <2>1. state = "program" /\ fifo # None /\ session' = session /\ wip /\ cmd = None /\ job = <<>>
        /\ blank = {} /\ ~failed /\ session # "idle"
    BY <1>3, Zenon DEF HandleProgram, host, Serial
  <2>2. CASE Take(CallsOf(fifo))
    <3>1. cmd' = fifo /\ fifo' = None /\ UNCHANGED <<state, wel, wip, failed>>
      BY <2>2 DEF Take
    <3> QED
      BY <2>1, <3>1 DEF Serial
  <2>3. CASE Shutdown
    BY <2>1, <2>3, Zenon DEF Shutdown, Serial
  <2>4. CASE Ignore
    BY <2>1, <2>4, Zenon DEF Ignore, Serial
  <2>5. CASE Acknowledge
    BY <2>1, <2>5, Zenon DEF Acknowledge, StatusClear, Serial
  <2> QED
    BY <1>3, <2>2, <2>3, <2>4, <2>5, ProgramTakes DEF BootstrapTyped
<1>4. CASE Done \/ Error \/ WeakErase
  <2>1. job # <<>> /\ UNCHANGED <<state, wel, wip, fifo, cmd, blank, session>>
    BY <1>4 DEF Done, Error, WeakErase, host
  <2>2. cmd # None /\ state \notin {"off", "shutdown", "verify"}
    BY <2>1 DEF Serial
  <2> QED
    BY <2>1, <2>2, Zenon DEF Serial
<1>5. CASE Return
  <2>1. state \in {"erase", "program"} /\ session' = session /\ cmd # None /\ fifo = None /\ job = <<>>
        /\ wip
    BY <1>5, Zenon DEF Return, host, Serial
  <2>2. CASE failed /\ Shutdown
    BY <2>1, <2>2, Zenon DEF Shutdown, Serial
  <2>3. CASE ~failed /\ state = "erase" /\ state' = "verify"
             /\ UNCHANGED <<wel, wip, fifo, cmd, blank, job, failed>>
    BY <2>1, <2>3, Zenon DEF Serial
  <2>4. CASE ~failed /\ state = "program" /\ StatusClear /\ Forget /\ UNCHANGED <<state, fifo, job, failed>>
    BY <2>1, <2>4, Zenon DEF Serial, StatusClear, Forget
  <2>5. failed \/ ~failed
    OBVIOUS
  <2> QED
    BY <1>5, <2>2, <2>3, <2>4 DEF Return
<1> QED
  BY <1>1, <1>2, <1>3, <1>4, <1>5 DEF DeviceNext

LEMMA HostIsSerial ==
  ASSUME BootstrapTyped, Serial, HostNext
  PROVE  Serial'
<1>1. CASE Straps
  BY <1>1 DEF Straps, device, Serial
<1>2. CASE Poll
  BY <1>2 DEF Poll, device, Serial
<1>3. CASE Send \/ Glitch
  <2>1. PICK c : Sends(c)
    BY <1>3 DEF Send, Glitch
  <2>2. session = "idle" /\ session' = "wait" /\ UNCHANGED <<state, cmd, blank, job, failed>>
    BY <2>1 DEF Sends
  <2>3. ~wip /\ fifo = None /\ cmd = None
    BY <2>2 DEF Serial
  <2>4. (wip' = TRUE /\ Listening) \/ UNCHANGED <<fifo, wel, wip>>
    BY <1>3 DEF Send, Glitch
  <2>5. CASE wip' = TRUE /\ Listening
    BY <2>2, <2>3, <2>5 DEF Serial, Listening
  <2>6. CASE UNCHANGED <<fifo, wel, wip>>
    BY <2>2, <2>3, <2>6 DEF Serial
  <2> QED
    BY <2>4, <2>5, <2>6
<1>4. CASE SendReset
  <2>1. session = "idle" /\ session' = "done" /\ UNCHANGED <<state, wel, cmd, blank, job, failed>>
    BY <1>4 DEF SendReset
  <2>2. ~wip /\ cmd = None
    BY <2>1 DEF Serial
  <2>3. (wip' = TRUE /\ Listening) \/ UNCHANGED <<fifo, wip>>
    BY <1>4 DEF SendReset
  <2> QED
    BY <2>1, <2>2, <2>3 DEF Serial, Listening
<1> QED
  BY <1>1, <1>2, <1>3, <1>4 DEF HostNext

LEMMA SerialStep ==
  ASSUME BootstrapTyped, Serial, [Next]_vars
  PROVE  Serial'
<1>1. CASE Entry
  <2>1. /\ UNCHANGED <<cmd, blank, job, failed, session>> /\ state = "off"
        /\ state' = "erase" /\ wel' = FALSE /\ wip' = FALSE /\ fifo' = None
    BY <1>1 DEF Entry, EnterBootstrap, StatusClear, host
  <2> QED
    BY <2>1 DEF Serial
<1>2. CASE Resets
  BY <1>2 DEF Resets, Off, StatusClear, Forget, Serial
<1>3. CASE Nothing
  BY <1>3 DEF Nothing, device, host, Serial
<1> QED
  BY <1>1, <1>2, <1>3, DeviceIsSerial, HostIsSerial, Steps
-----------------------------------------------------------------------------
\* What the host takes the memory to be, while its command is on the way, while
\* the first erase is carried out, and while a later command is.
Sees(w) == expect[w] \in {Unknown, memory[w]}
HopesErased == \A w \in Words : expect[w] \in {Unknown, Erased}
SentRight ==
  /\ wel /\ fifo \in Erases \cup Programs
  /\ state = "erase" => fifo.op # "page_program" /\ HopesErased
  /\ state = "program" => \A w \in Words :
       IF Changes(fifo, w)
       THEN expect[w] = Gets(fifo) /\ (fifo.op = "page_program" => memory[w] = Erased)
       ELSE Sees(w)
WorksRight ==
  /\ state \in {"erase", "verify"} => HopesErased
  /\ state = "program" /\ ~failed => \A w \in Words :
       /\ \A t \in In(job) : w \in t.words =>
            t.value = expect[w] /\ (t.value = Erased \/ memory[w] \in {Erased, t.value})
       /\ (\A t \in In(job) : w \notin t.words) => Sees(w)
Waiting ==
  /\ state # "off" /\ (state = "shutdown" => wip)
  /\ fifo # None => SentRight
  /\ cmd # None => WorksRight
  /\ fifo = None /\ cmd = None => state = "program" /\ \A w \in Words : Sees(w)
Resting ==
  /\ \A w \in Words : Sees(w)
  /\ state \in {"off", "erase"} => \A w \in Words : expect[w] = Unknown
Seen ==
  /\ session \in {"closed", "strapped", "released"} => \A w \in Words : expect[w] = Unknown
  /\ session = "idle" => (upset \/ Resting)
  /\ session = "wait" => (upset \/ Waiting)

\* A transaction that is carried out gives its words what the host hopes for.
LEMMA TransactionIsSeen ==
  ASSUME BootstrapTyped, WorksRight, state = "program", ~failed, job # <<>>,
         Carry(Transaction, {}, {}), Advance, UNCHANGED <<state, failed, expect>>
  PROVE  WorksRight'
<1> DEFINE T == Transaction
<1>1. /\ memory' \in [Words -> Contents]
      /\ \A w \in Words :
           /\ w \in T.words => memory'[w] = IF T.value = Erased \/ memory[w] \in {Erased, T.value}
                                            THEN T.value ELSE Garbage
           /\ w \notin T.words => memory'[w] = memory[w]
  BY NextTransaction, CarryIs DEF BootstrapTyped
<1>2. In(job) = In(job') \cup {T}
  BY AdvanceIs DEF BootstrapTyped
<1> HIDE DEF T
<1>3. ASSUME NEW w \in Words
      PROVE  /\ \A t \in In(job') : w \in t.words =>
                  t.value = expect[w] /\ (t.value = Erased \/ memory'[w] \in {Erased, t.value})
             /\ (\A t \in In(job') : w \notin t.words) => expect[w] \in {Unknown, memory'[w]}
  <2>1. /\ \A t \in In(job) : w \in t.words =>
             t.value = expect[w] /\ (t.value = Erased \/ memory[w] \in {Erased, t.value})
        /\ (\A t \in In(job) : w \notin t.words) => expect[w] \in {Unknown, memory[w]}
    BY DEF WorksRight, Sees
  <2>2. CASE w \in T.words
    <3>1. memory'[w] = expect[w]
      BY <1>1, <1>2, <2>1, <2>2
    <3> QED
      BY <1>2, <2>1, <3>1
  <2>3. CASE w \notin T.words
    <3>1. memory'[w] = memory[w]
      BY <1>1, <2>3
    <3> QED
      BY <1>2, <2>1, <2>3, <3>1
  <2> QED
    BY <2>2, <2>3
<1> QED
  BY <1>3 DEF WorksRight, Sees

\* So does a command when it is taken.
LEMMA CommandIsSeen ==
  ASSUME SentRight, state = "program", InRange(fifo), Take(CallsOf(fifo)), UNCHANGED <<memory, expect>>
  PROVE  WorksRight'
<1> DEFINE c == fifo
           calls == CallsOf(c)
<1>1. /\ \A t \in In(calls) : t.value = Gets(c) /\ \A w \in t.words : Changes(c, w)
      /\ \A w \in Words : Changes(c, w) => \E t \in In(calls) : w \in t.words
  BY CallsAre DEF SentRight
<1>2. c.op = "page_program" \/ Gets(c) = Erased
  BY DEF Gets
<1>3. \A w \in Words :
        IF Changes(c, w)
        THEN expect[w] = Gets(c) /\ (c.op = "page_program" => memory[w] = Erased)
        ELSE Sees(w)
  BY DEF SentRight
<1>4. state' = "program" /\ job' = calls
  BY DEF Take
<1> HIDE DEF calls, c
<1>5. ASSUME NEW w \in Words
      PROVE  /\ \A t \in In(calls) : w \in t.words =>
                  t.value = expect[w] /\ (t.value = Erased \/ memory[w] \in {Erased, t.value})
             /\ (\A t \in In(calls) : w \notin t.words) => Sees(w)
  <2>1. ASSUME NEW t \in In(calls), w \in t.words
        PROVE  t.value = expect[w] /\ (t.value = Erased \/ memory[w] \in {Erased, t.value})
    <3>1. Changes(c, w) /\ t.value = Gets(c)
      BY <1>1, <2>1
    <3> QED
      BY <1>2, <1>3, <3>1
  <2>2. ASSUME \A t \in In(calls) : w \notin t.words PROVE Sees(w)
    BY <1>1, <1>3, <2>2
  <2> QED
    BY <2>1, <2>2
<1>6. \A w \in Words : Sees(w)' <=> Sees(w)
  BY DEF Sees
<1> QED
  BY <1>4, <1>5, <1>6 DEF WorksRight

LEMMA StillWaiting ==
  ASSUME Waiting, UNCHANGED <<memory, device, expect>>
  PROVE  Waiting'
<1>1. UNCHANGED <<state, wel, wip, fifo, cmd, job, failed>>
  BY DEF device
<1>2. \A w : Sees(w)' <=> Sees(w)
  BY DEF Sees
<1>3. SentRight' <=> SentRight
  BY <1>1, <1>2 DEF SentRight, HopesErased
<1>4. WorksRight' <=> WorksRight
  BY <1>1, <1>2 DEF WorksRight, HopesErased
<1> QED
  BY <1>1, <1>2, <1>3, <1>4 DEF Waiting

\* The device has no command while the host rests.
LEMMA DeviceRests ==
  ASSUME Serial, session = "idle", DeviceNext
  PROVE  FALSE
<1>1. ~wip /\ fifo = None /\ cmd = None /\ job = <<>> /\ state # "verify"
  BY Zenon DEF Serial
<1> QED
  BY <1>1 DEF DeviceNext, HandleErase, HandleEraseVerify, HandleProgram, Done, Error, WeakErase,
              Return

LEMMA DeviceServes ==
  ASSUME BootstrapTyped, Serial, Waiting, DeviceNext, UNCHANGED host
  PROVE  Waiting'
<1>0. expect' = expect
  BY DEF host
<1>1. CASE HandleErase
  <2>1. state = "erase" /\ fifo # None /\ SentRight /\ wip /\ UNCHANGED memory /\ job = <<>> /\ cmd = None
    BY <1>1, Zenon DEF HandleErase, Waiting, Serial
  <2>2. wel /\ fifo.op \in {"chip_erase", "sector_erase"} /\ HopesErased
    <3>1. wel /\ fifo \in Erases \cup Programs /\ fifo.op # "page_program" /\ HopesErased
      BY <2>1, Zenon DEF SentRight
    <3> QED
      BY <3>1, IsCommand DEF BootstrapTyped
  <2>3. Take(ChipEraseCalls)
    BY <1>1, <2>2 DEF HandleErase
  <2>4. state' = "erase" /\ fifo' = None /\ cmd' = fifo
    BY <2>1, <2>3 DEF Take
  <2>5. HopesErased'
    BY <1>0, <2>2 DEF HopesErased
  <2> QED
    BY <2>1, <2>4, <2>5 DEF Waiting, WorksRight
<1>2. CASE HandleEraseVerify
  <2>1. state = "verify" /\ cmd # None /\ fifo = None /\ wip /\ memory' = memory
    BY <1>2, Zenon DEF HandleEraseVerify, Serial
  <2>2. HopesErased /\ WorksRight
    BY <2>1 DEF Waiting, WorksRight
  <2>3. CASE Shutdown
    BY <2>1, <2>3 DEF Shutdown, Waiting, WorksRight
  <2>4. CASE ~Shutdown
    <3>1. state' = "program" /\ fifo' = fifo /\ cmd' = None /\ AllErased
      BY <1>2, <2>4 DEF HandleEraseVerify, Forget
    <3>2. \A w \in Words : Sees(w)'
      BY <1>0, <2>1, <2>2, <3>1 DEF AllErased, HopesErased, Sees
    <3> QED
      BY <2>1, <3>1, <3>2 DEF Waiting
  <2> QED
    BY <2>3, <2>4
<1>3. CASE HandleProgram
  <2>1. state = "program" /\ fifo # None /\ SentRight /\ wip /\ UNCHANGED memory /\ cmd = None
    BY <1>3, Zenon DEF HandleProgram, Waiting, Serial
  <2>2. wel /\ fifo.op \in {"chip_erase", "sector_erase", "page_program"}
    <3>1. wel /\ fifo \in Erases \cup Programs
      BY <2>1, Zenon DEF SentRight
    <3> QED
      BY <3>1, IsCommand DEF BootstrapTyped
  <2>3. CASE Shutdown
    <3>1. state' = "shutdown" /\ UNCHANGED <<wel, wip, fifo, cmd>>
      BY <2>3 DEF Shutdown
    <3>2. SentRight'
      BY <2>1, <3>1 DEF SentRight
    <3> QED
      BY <2>1, <3>1, <3>2 DEF Waiting
  <2>4. CASE InRange(fifo) /\ Take(CallsOf(fifo))
    <3>1. state' = "program" /\ fifo' = None /\ cmd' = fifo
      BY <2>1, <2>4 DEF Take
    <3>2. WorksRight'
      BY <1>0, <2>1, <2>4, CommandIsSeen
    <3> QED
      BY <2>1, <3>1, <3>2 DEF Waiting
  <2> QED
    BY <1>3, <2>2, <2>3, <2>4, ProgramTakes DEF BootstrapTyped
<1>4. CASE Done \/ Error \/ WeakErase
  <2>1. job # <<>> /\ UNCHANGED <<state, wel, wip, fifo, cmd>>
    BY <1>4 DEF Done, Error, WeakErase
  <2>2. cmd # None /\ fifo = None /\ state \in {"erase", "program"} /\ WorksRight
    BY <2>1 DEF Serial, Waiting, BootstrapTyped, DeviceTyped
  <2>3. CASE state = "erase"
    <3>1. HopesErased'
      BY <1>0, <2>2, <2>3 DEF WorksRight, HopesErased
    <3> QED
      BY <2>1, <2>2, <2>3, <3>1 DEF Waiting, WorksRight
  <2>4. CASE state = "program" /\ failed'
    BY <2>1, <2>2, <2>4 DEF Waiting, WorksRight
  <2>5. CASE state = "program" /\ ~failed'
    <3>1. Done /\ ~failed /\ failed' = failed
      BY <1>4, <2>5 DEF Done, Error, WeakErase
    <3>2. WorksRight'
      BY <1>0, <2>1, <2>2, <2>5, <3>1, TransactionIsSeen DEF Done
    <3> QED
      BY <2>1, <2>2, <2>5, <3>2 DEF Waiting
  <2> QED
    BY <2>2, <2>3, <2>4, <2>5
<1>5. CASE Return
  <2>1. state \in {"erase", "program"} /\ cmd # None /\ fifo = None /\ job = <<>> /\ wip /\ memory' = memory
        /\ WorksRight
    BY <1>5, Zenon DEF Return, Serial, Waiting
  <2>2. CASE failed /\ Shutdown
    <3>1. state' = "shutdown" /\ UNCHANGED <<wip, fifo, cmd>>
      BY <2>2 DEF Shutdown
    <3> QED
      BY <2>1, <3>1 DEF Waiting, WorksRight
  <2>3. CASE ~failed /\ state = "erase" /\ state' = "verify" /\ UNCHANGED <<wip, fifo, cmd>>
    <3>1. HopesErased'
      BY <1>0, <2>1, <2>3 DEF WorksRight, HopesErased
    <3> QED
      BY <2>1, <2>3, <3>1 DEF Waiting, WorksRight
  <2>4. CASE ~failed /\ state = "program" /\ Forget /\ UNCHANGED <<state, fifo>>
    <3>1. \A w \in Words : Sees(w)
      BY <2>1, <2>4, NoJob DEF WorksRight
    <3>2. \A w \in Words : Sees(w)'
      BY <1>0, <2>1, <3>1 DEF Sees
    <3> QED
      BY <2>1, <2>4, <3>2 DEF Waiting, Forget
  <2> QED
    BY <1>5, <2>2, <2>3, <2>4 DEF Return
<1> QED
  BY <1>1, <1>2, <1>3, <1>4, <1>5 DEF DeviceNext

\* What a command of a host that rests is to the device.
LEMMA CommandIsSent ==
  ASSUME BootstrapTyped, Serial, Resting, session = "idle", NEW c \in Erases \cup Programs, Sends(c),
         Listening, fifo' = c, wel' = TRUE, wip' = TRUE
  PROVE  Waiting'
<1>1. /\ UNCHANGED <<memory, state, cmd>> /\ Sensible(c) /\ expect' = Believe(c)
  BY DEF Sends
<1>2. state \notin {"off", "shutdown", "verify"} /\ cmd = None
  BY DEF Serial, Listening
<1>3. c # None
  BY IsCommand DEF BootstrapTyped
<1>4. \A w \in Words : expect'[w] = IF Changes(c, w) THEN Gets(c) ELSE expect[w]
  BY <1>1, BelieveIs
<1>5. c.op = "page_program" =>
        \A w \in Words : Changes(c, w) => expect[w] = Erased
  BY <1>1 DEF Sensible, Changes
<1>6. c.op # "page_program" => Gets(c) = Erased
  BY DEF Gets
<1>7. ASSUME state = "erase" PROVE c.op # "page_program" /\ HopesErased'
  <2>1. \A w \in Words : expect[w] = Unknown
    BY <1>7 DEF Resting
  <2>2. ASSUME c.op = "page_program" PROVE FALSE
    <3>1. c.op = "page_program" /\ \E n \in 1 .. ProgPage, v \in Versions : c.data = [i \in 1 .. n |-> v]
      BY <2>2, CommandKinds
    <3>2. 1 \in DOMAIN c.data
      BY <3>1, Sizes
    <3>3. Place(c, 1) \in Words /\ expect[Place(c, 1)] = Erased
      BY <1>1, <2>2, <3>2 DEF Sensible
    <3> QED
      BY <2>1, <3>3, ValuesAssumption
  <2>3. \A w \in Words : expect'[w] \in {Unknown, Erased}
    BY <1>4, <1>6, <2>1, <2>2
  <2> QED
    BY <2>2, <2>3 DEF HopesErased
<1>8. ASSUME NEW w \in Words
      PROVE  IF Changes(c, w)
             THEN expect'[w] = Gets(c) /\ (c.op = "page_program" => memory'[w] = Erased)
             ELSE expect'[w] \in {Unknown, memory'[w]}
  <2>1. expect[w] \in {Unknown, memory[w]}
    BY DEF Resting, Sees
  <2> QED
    BY <1>1, <1>4, <1>5, <2>1, ValuesAssumption
<1>9. SentRight'
  BY <1>1, <1>7, <1>8 DEF SentRight, Sees
<1> QED
  BY <1>1, <1>2, <1>3, <1>9 DEF Waiting

LEMMA SeenStep ==
  ASSUME BootstrapTyped, Serial, Seen, [Next]_vars
  PROVE  Seen'
<1>1. CASE DeviceNext
  <2>1. UNCHANGED host
    BY <1>1 DEF DeviceNext, HandleErase, HandleEraseVerify, HandleProgram, Done, Error, WeakErase,
                Return
  <2>2. session # "idle"
    BY <1>1, DeviceRests
  <2>3. UNCHANGED <<session, expect, upset>>
    BY <2>1 DEF host
  <2>4. session' = "wait" => (upset' \/ Waiting')
    BY <1>1, <2>1, <2>3, DeviceServes, Zenon DEF Seen
  <2> QED
    BY <2>2, <2>3, <2>4 DEF Seen
<1>2. CASE Entry
  <2>1. memory' = memory /\ UNCHANGED <<session, expect, upset>> /\ state = "off" /\ state' = "erase"
    BY <1>2 DEF Entry, EnterBootstrap, host
  <2>2. session = "wait" => upset
    BY <2>1 DEF Seen, Waiting
  <2>3. session = "idle" /\ ~upset => Resting'
    BY <2>1 DEF Seen, Resting, Sees
  <2> QED
    BY <2>1, <2>2, <2>3 DEF Seen
<1>3. CASE Resets
  <2>1. CASE PinReset
    <3>1. UNCHANGED <<expect, upset>> /\ session' \in {"idle", "closed"}
          /\ \A w \in Words : expect[w] = Unknown
      BY <2>1 DEF PinReset, Seen
    <3>2. \A w \in Words : expect'[w] = Unknown
      BY <3>1
    <3> QED
      BY <3>1, <3>2 DEF Seen, Resting, Sees
  <2>2. CASE upset' = (upset \/ session \in {"idle", "wait"}) /\ UNCHANGED <<session, expect>>
    BY <2>2 DEF Seen
  <2> QED
    BY <1>3, <2>1, <2>2 DEF Resets
<1>4. CASE Straps
  <2>1. session' \in {"strapped", "released"} /\ \A w \in Words : expect'[w] = Unknown
    BY <1>4 DEF Straps, Seen
  <2> QED
    BY <2>1 DEF Seen
<1>5. CASE Send
  <2>1. PICK c \in Erases \cup Programs :
          /\ Sends(c)
          /\ IF Listening
             THEN fifo' = c /\ wel' = TRUE /\ wip' = TRUE /\ UNCHANGED upset
             ELSE upset' = TRUE /\ UNCHANGED <<fifo, wel, wip>>
    BY <1>5 DEF Send
  <2>2. session = "idle" /\ session' = "wait"
    BY <2>1 DEF Sends
  <2>3. CASE upset'
    BY <2>2, <2>3 DEF Seen
  <2>4. CASE ~upset'
    <3>1. Listening /\ fifo' = c /\ wel' = TRUE /\ wip' = TRUE /\ UNCHANGED upset
      BY <2>1, <2>4
    <3>2. Resting
      BY <2>2, <2>4, <3>1, Zenon DEF Seen
    <3>3. Waiting'
      BY <2>1, <2>2, <3>1, <3>2, CommandIsSent
    <3> QED
      BY <2>2, <3>3 DEF Seen
  <2> QED
    BY <2>3, <2>4
<1>6. CASE Glitch
  <2>1. upset' = TRUE /\ session' = "wait"
    BY <1>6 DEF Glitch, Sends
  <2> QED
    BY <2>1 DEF Seen
<1>7. CASE SendReset
  <2>1. session' = "done"
    BY <1>7 DEF SendReset
  <2> QED
    BY <2>1 DEF Seen
<1>8. CASE Poll
  <2>1. session = "wait" /\ ~wip /\ session' = "idle" /\ UNCHANGED <<memory, state, expect, upset>>
    BY <1>8 DEF Poll, device
  <2>2. fifo = None /\ cmd = None
    BY <2>1, Zenon DEF Serial
  <2>3. upset \/ (state = "program" /\ \A w \in Words : Sees(w))
    BY <2>1, <2>2, Zenon DEF Seen, Waiting
  <2>4. \A w : Sees(w)' <=> Sees(w)
    BY <2>1 DEF Sees
  <2>5. upset \/ Resting'
    BY <2>1, <2>3, <2>4 DEF Resting
  <2> QED
    BY <2>1, <2>5 DEF Seen
<1>9. CASE Nothing
  <2>1. UNCHANGED <<memory, device, session, expect, upset>>
    BY <1>9 DEF Nothing, host
  <2>2. Waiting => Waiting'
    BY <2>1, StillWaiting
  <2>3. Resting => Resting'
    BY <2>1 DEF device, Resting, Sees
  <2> QED
    BY <2>1, <2>2, <2>3 DEF Seen
<1> QED
  BY <1>1, <1>2, <1>3, <1>4, <1>5, <1>6, <1>7, <1>8, <1>9, Steps DEF HostNext

LEMMA SeenAlways == Spec => [](Serial /\ Seen)
<1>1. Init => Serial /\ Seen
  <2> SUFFICES ASSUME Init PROVE Serial /\ Seen
    OBVIOUS
  <2>1. /\ state = "off" /\ wel = FALSE /\ wip = FALSE /\ fifo = None /\ cmd = None /\ job = <<>>
        /\ failed = FALSE /\ blank = {} /\ session = "closed" /\ expect = [w \in Words |-> Unknown]
    BY DEF Init, BootstrapInit
  <2> QED
    BY <2>1 DEF Serial, Seen
<1>2. BootstrapTyped /\ Serial /\ Seen /\ [Next]_vars => (Serial /\ Seen)'
  BY SerialStep, SeenStep
<1>3. BootstrapTyped /\ RomTyped => BootstrapTyped
  OBVIOUS
<1> QED
  BY <1>1, <1>2, TypedAlways, PTL DEF Spec

\* When the busy bit is clear in a session without a reset or a glitch, the flash
\* holds what the host takes it to hold: each erase and each program, wrapped at
\* its page and split into two calls of the driver, has changed its own words and
\* all of them (bootstrap_sector_erase(), bootstrap_page_program()).
THEOREM HostAlwaysSees == Spec => []HostSeesMemory
<1>1. Seen => HostSeesMemory
  BY DEF Seen, Resting, Sees, HostSeesMemory
<1> QED
  BY <1>1, SeenAlways, PTL
-----------------------------------------------------------------------------
\* The state of bootstrap as SpiFlash sees it.
Unlocked == state = "program"
Request == IF ~Listening THEN None ELSE IF Accepted(fifo) THEN fifo ELSE cmd
WasBlank ==
  IF ~Listening THEN {}
  ELSE IF Accepted(fifo) THEN {w \in Words : memory[w] = Erased} ELSE blank

\* A command that is at work on an unlocked flash has only its own words left to
\* change, and each of them has what it gets, or is still to get it.
Due(c, w) == Changes(c, w) /\ (c.op = "page_program" => w \in blank)
Working ==
  Unlocked /\ cmd # None =>
    /\ InRange(cmd)
    /\ \A t \in In(job) : t.value = Gets(cmd) /\ \A w \in t.words : Changes(cmd, w)
    /\ failed \/ \A w \in Words : Due(cmd, w) =>
         \/ memory[w] = Gets(cmd)
         \/ /\ cmd.op = "page_program" => memory[w] = Erased
            /\ \E t \in In(job) : w \in t.words

LEMMA TransactionWorks ==
  ASSUME BootstrapTyped, Working, Unlocked, cmd # None, job # <<>>,
         Carry(Transaction, {}, {}), Advance, UNCHANGED <<state, cmd, blank, failed>>
  PROVE  Working'
<1> DEFINE T == Transaction
<1>1. \A w \in Words :
        /\ w \in T.words => memory'[w] = IF T.value = Erased \/ memory[w] \in {Erased, T.value}
                                         THEN T.value ELSE Garbage
        /\ w \notin T.words => memory'[w] = memory[w]
  BY NextTransaction, CarryIs DEF BootstrapTyped
<1>2. In(job) = In(job') \cup {T}
  BY AdvanceIs DEF BootstrapTyped
<1> HIDE DEF T
<1>3. /\ InRange(cmd)
      /\ \A t \in In(job) : t.value = Gets(cmd) /\ \A w \in t.words : Changes(cmd, w)
      /\ failed \/ \A w \in Words : Due(cmd, w) =>
           \/ memory[w] = Gets(cmd)
           \/ /\ cmd.op = "page_program" => memory[w] = Erased
              /\ \E t \in In(job) : w \in t.words
  BY DEF Working
<1>4. T.value = Gets(cmd)
  BY <1>2, <1>3
<1>5. cmd.op = "page_program" \/ Gets(cmd) = Erased
  BY DEF Gets
<1>6. ASSUME ~failed, NEW w \in Words, Due(cmd, w)
      PROVE  \/ memory'[w] = Gets(cmd)
             \/ /\ cmd.op = "page_program" => memory'[w] = Erased
                /\ \E t \in In(job') : w \in t.words
  <2>1. \/ memory[w] = Gets(cmd)
        \/ /\ cmd.op = "page_program" => memory[w] = Erased
           /\ \E t \in In(job) : w \in t.words
    BY <1>3, <1>6
  <2>2. CASE w \in T.words
    <3>1. memory'[w] = Gets(cmd)
      BY <1>1, <1>4, <1>5, <2>1, <2>2
    <3> QED
      BY <3>1
  <2>3. CASE w \notin T.words
    BY <1>1, <1>2, <2>1, <2>3
  <2> QED
    BY <2>2, <2>3
<1>7. \A w : Due(cmd, w)' <=> Due(cmd, w)
  BY DEF Due
<1>8. failed \/ \A w \in Words : Due(cmd, w)' =>
        \/ memory'[w] = Gets(cmd)
        \/ /\ cmd.op = "page_program" => memory'[w] = Erased
           /\ \E t \in In(job') : w \in t.words
  BY <1>6, <1>7
<1> QED
  BY <1>2, <1>3, <1>8 DEF Working

LEMMA CommandWorks ==
  ASSUME BootstrapTyped, fifo \in Erases \cup Programs, InRange(fifo), Take(CallsOf(fifo)), memory' = memory
  PROVE  Working'
<1> DEFINE c == fifo
           calls == CallsOf(c)
<1>1. /\ \A t \in In(calls) : t.value = Gets(c) /\ \A w \in t.words : Changes(c, w)
      /\ \A w \in Words : Changes(c, w) => \E t \in In(calls) : w \in t.words
  BY CallsAre
<1>2. cmd' = c /\ job' = calls /\ blank' = {w \in Words : memory[w] = Erased}
  BY DEF Take
<1>3. InRange(c)
  OBVIOUS
<1> HIDE DEF calls, c
<1>4. ASSUME NEW w \in Words, Due(cmd, w)'
      PROVE  /\ c.op = "page_program" => memory'[w] = Erased
             /\ \E t \in In(calls) : w \in t.words
  BY <1>1, <1>2, <1>4 DEF Due
<1> QED
  BY <1>1, <1>2, <1>3, <1>4 DEF Working

LEMMA NothingWorks ==
  ASSUME \/ state' # "program" \/ cmd' = None
         \/ Working /\ UNCHANGED <<memory, state, cmd, blank, job, failed>>
  PROVE  Working'
<1>1. CASE state' # "program" \/ cmd' = None
  BY <1>1 DEF Working, Unlocked
<1>2. CASE Working /\ UNCHANGED <<memory, state, cmd, blank, job, failed>>
  BY <1>2 DEF Working, Unlocked, Due
<1> QED
  BY <1>1, <1>2

LEMMA WorkingStep ==
  ASSUME BootstrapTyped, Serial, Working, [Next]_vars
  PROVE  Working'
<1>1. CASE HandleErase
  <2>1. state' # "program"
    BY <1>1 DEF HandleErase, Take, Shutdown, Ignore, Acknowledge
  <2> QED
    BY <2>1, NothingWorks
<1>2. CASE HandleEraseVerify
  <2>1. state' # "program" \/ cmd' = None
    BY <1>2 DEF HandleEraseVerify, Shutdown, Forget
  <2> QED
    BY <2>1, NothingWorks
<1>3. CASE HandleProgram
  <2>1. cmd = None /\ memory' = memory
    BY <1>3 DEF HandleProgram, Serial
  <2>2. CASE Shutdown \/ Ignore \/ Acknowledge
    BY <2>1, <2>2, NothingWorks DEF Shutdown, Ignore, Acknowledge
  <2> QED
    BY <1>3, <2>1, <2>2, ProgramTakes, CommandWorks DEF BootstrapTyped
<1>4. CASE Done \/ Error \/ WeakErase
  <2>1. job # <<>> /\ UNCHANGED <<state, cmd, blank>>
    BY <1>4 DEF Done, Error, WeakErase
  <2>2. cmd # None
    BY <2>1 DEF Serial
  <2>3. CASE state # "program"
    BY <2>1, <2>3, NothingWorks
  <2>4. CASE state = "program" /\ Done
    BY <2>1, <2>2, <2>4, TransactionWorks DEF Done, Unlocked
  <2>5. CASE state = "program" /\ Error
    <3>1. job' = Tail(job) /\ failed' = TRUE
      BY <2>5 DEF Error
    <3>2. In(job') \subseteq In(job)
      BY <2>1, <3>1, JobGoesOn DEF BootstrapTyped, JobTyped
    <3>3. InRange(cmd) /\ \A t \in In(job) : t.value = Gets(cmd) /\ \A w \in t.words : Changes(cmd, w)
      BY <2>2, <2>5 DEF Working, Unlocked
    <3> QED
      BY <2>1, <3>1, <3>2, <3>3 DEF Working
  <2> QED
    BY <1>4, <2>3, <2>4, <2>5 DEF WeakErase
<1>5. CASE Return
  <2>1. state' # "program" \/ cmd' = None
    BY <1>5 DEF Return, Shutdown, Forget
  <2> QED
    BY <2>1, NothingWorks
<1>6. CASE Entry \/ Resets
  BY <1>6, NothingWorks DEF Entry, EnterBootstrap, Resets, Off
<1>7. CASE HostNext
  <2>1. UNCHANGED <<memory, state, cmd, blank, job, failed>>
    BY <1>7 DEF HostNext, Straps, Send, Sends, Glitch, SendReset, Poll, device
  <2> QED
    BY <2>1, NothingWorks
<1>8. CASE Nothing
  BY <1>8, NothingWorks DEF Nothing, device
<1> QED
  BY <1>1, <1>2, <1>3, <1>4, <1>5, <1>6, <1>7, <1>8, Steps DEF DeviceNext
-----------------------------------------------------------------------------
\* The steps of SpiFlash, in terms of bootstrap.
LEMMA FlashRests ==
  ASSUME UNCHANGED <<memory, Unlocked, Request, WasBlank>>
  PROVE  [Flash!Next]_(Flash!vars)
  BY DEF Flash!vars, Unlocked, Request, WasBlank

LEMMA FlashBegins ==
  ASSUME Request = None, Request' \in Flash!Command, WasBlank' = {w \in Words : memory[w] = Erased},
         UNCHANGED <<memory, Unlocked>>
  PROVE  [Flash!Next]_(Flash!vars)
<1>1. Flash!Words = Words
  BY DEF Flash!Words, Words
<1>2. Flash!Begin
  BY <1>1 DEF Flash!Begin, Request, WasBlank, Unlocked
<1> QED
  BY <1>2 DEF Flash!Next

\* The words of a command.
LEMMA FootprintIs ==
  ASSUME NEW c \in Erases \cup Programs, NEW w \in Words
  PROVE  w \in Flash!Footprint(c) <=>
           IF Unlocked THEN Changes(c, w) ELSE c.op # "page_program"
<1>1. Flash!Words = Words
  BY DEF Flash!Words, Words
<1>2. CASE c.op = "chip_erase"
  BY <1>1, <1>2 DEF Flash!Footprint, Changes
<1>3. CASE c.op = "sector_erase"
  BY <1>1, <1>3 DEF Flash!Footprint, Flash!Block, Changes, Unlocked
<1>4. CASE c.op = "page_program"
  BY <1>1, <1>4 DEF Flash!Footprint, Flash!Place, Place, Changes, Unlocked
<1> QED
  BY <1>2, <1>3, <1>4, CommandKinds

LEMMA TouchIs ==
  ASSUME Request \in Erases \cup Programs,
         \A w \in Words : memory'[w] = memory[w] \/
           (IF Unlocked THEN Changes(Request, w) ELSE Request.op # "page_program")
  PROVE  Flash!Touch
<1>1. Flash!Words = Words
  BY DEF Flash!Words, Words
<1>2. \A w \in Words \ Flash!Footprint(Request) : memory'[w] = memory[w]
  BY FootprintIs
<1> QED
  BY <1>1, <1>2 DEF Flash!Touch, Request

LEMMA FlashWorks ==
  ASSUME Request \in Erases \cup Programs,
         \A w \in Words : memory'[w] = memory[w] \/
           (IF Unlocked THEN Changes(Request, w) ELSE Request.op # "page_program"),
         UNCHANGED <<Unlocked, Request, WasBlank>>
  PROVE  [Flash!Next]_(Flash!vars)
<1>1. Request # None
  BY CommandsAssumption
<1>2. Flash!Touch
  BY TouchIs
<1>3. Flash!Work
  BY <1>1, <1>2 DEF Flash!Work, Request, Unlocked, WasBlank
<1> QED
  BY <1>3 DEF Flash!Next

LEMMA FlashResets ==
  ASSUME Request' = None, ~Unlocked', WasBlank' = {},
         \/ memory' = memory
         \/ /\ Request \in Erases \cup Programs
            /\ \A w \in Words : memory'[w] = memory[w] \/
                 (IF Unlocked THEN Changes(Request, w) ELSE Request.op # "page_program")
  PROVE  [Flash!Next]_(Flash!vars)
<1>1. memory' = memory => Flash!Touch
  BY DEF Flash!Touch
<1>2. (Request = None /\ memory' = memory) \/ (Request # None /\ Flash!Touch)
  BY <1>1, TouchIs, CommandsAssumption
<1>3. Flash!Reset
  BY <1>2 DEF Flash!Reset, Request, Unlocked, WasBlank
<1> QED
  BY <1>3 DEF Flash!Next

LEMMA FlashIsDone ==
  ASSUME Request \in Erases \cup Programs, Flash!HasEffect(Request), Request' = None,
         WasBlank' = {}, Unlocked' = (Unlocked \/ Request.op # "page_program"), memory' = memory
  PROVE  [Flash!Next]_(Flash!vars)
<1>1. Request # None
  BY CommandsAssumption
<1>2. Flash!Done
  BY <1>1 DEF Flash!Done, Request, Unlocked, WasBlank
<1> QED
  BY <1>2 DEF Flash!Next

LEMMA RequestIs ==
  ASSUME BootstrapTyped, Serial
  PROVE  /\ Listening /\ cmd # None =>
              Request = cmd /\ WasBlank = blank /\ cmd \in Erases \cup Programs /\ fifo = None
         /\ Listening /\ Accepted(fifo) => Request = fifo /\ fifo \in Erases \cup Programs
         /\ cmd = None /\ ~Accepted(fifo) => Request = None /\ WasBlank = {} /\ job = <<>>
         /\ ~Listening => Request = None /\ WasBlank = {} /\ job = <<>>
<1>1. cmd # None => fifo = None /\ ~Accepted(fifo) /\ cmd \in Erases \cup Programs
  BY DEF Serial, Accepted, BootstrapTyped, DeviceTyped
<1>2. Accepted(fifo) => fifo \in Erases \cup Programs
  BY IsCommand DEF Accepted, BootstrapTyped
<1>3. cmd = None => blank = {} /\ job = <<>>
  BY DEF Serial
<1>4. ~Listening => job = <<>>
  BY DEF Serial, Listening
<1> QED
  BY <1>1, <1>2, <1>3, <1>4 DEF Request, WasBlank

\* A transaction, or a fault of it, reaches no word but those of the command.
LEMMA Reached ==
  ASSUME BootstrapTyped, Serial, Working, job # <<>>,
         NEW w \in Words, w \in Transaction.words
  PROVE  /\ Request = cmd /\ cmd \in Erases \cup Programs /\ Listening
         /\ IF Unlocked THEN Changes(Request, w) ELSE Request.op # "page_program"
<1>1. cmd # None /\ state \in {"erase", "program"} /\ Listening
  BY DEF Serial, BootstrapTyped, DeviceTyped, Listening
<1>2. Request = cmd /\ cmd \in Erases \cup Programs
  BY <1>1, RequestIs
<1>3. Unlocked => Changes(cmd, w)
  <2>1. Transaction \in In(job)
    BY NextTransaction DEF BootstrapTyped
  <2> QED
    BY <1>1, <2>1 DEF Working
<1>4. ~Unlocked => cmd.op # "page_program"
  BY <1>1 DEF Serial, Unlocked
<1> QED
  BY <1>1, <1>2, <1>3, <1>4

LEMMA CarryReaches ==
  ASSUME BootstrapTyped, Serial, Working, job # <<>>, NEW spared, NEW spoilt,
         spoilt \in Hit(Transaction.words), Carry(Transaction, spared, spoilt),
         UNCHANGED <<state, wel, fifo, cmd, blank>>
  PROVE  [Flash!Next]_(Flash!vars)
<1>1. spoilt \subseteq Transaction.words
  BY DEF Hit
<1>2. \A w \in Words : memory'[w] = memory[w] \/ w \in Transaction.words
  BY <1>1, NextTransaction, CarryIs DEF BootstrapTyped
<1>3. cmd # None /\ Listening
  BY DEF Serial, Listening
<1>4. Request = cmd /\ cmd \in Erases \cup Programs /\ WasBlank = blank /\ ~Accepted(fifo)
  BY <1>3, RequestIs DEF Accepted
<1>5. Request' = Request /\ WasBlank' = WasBlank /\ Unlocked' = Unlocked
  BY <1>3, <1>4 DEF Request, WasBlank, Unlocked, Accepted, Listening
<1>6. \A w \in Words : memory'[w] = memory[w] \/
        (IF Unlocked THEN Changes(Request, w) ELSE Request.op # "page_program")
  BY <1>2, Reached
<1> QED
  BY <1>4, <1>5, <1>6, FlashWorks

LEMMA StopsListening ==
  ASSUME state' \in {"off", "shutdown"}
  PROVE  Request' = None /\ WasBlank' = {} /\ ~Unlocked'
  BY DEF Request, WasBlank, Unlocked, Listening

\* A command that is taken is the one that was asked for.
LEMMA TakingIsQuiet ==
  ASSUME BootstrapTyped, Serial, state \in {"erase", "program"}, wel, fifo # None,
         fifo.op \in {"chip_erase", "sector_erase", "page_program"},
         NEW calls, Take(calls), memory' = memory
  PROVE  [Flash!Next]_(Flash!vars)
<1>1. Listening /\ Accepted(fifo)
  BY DEF Listening, Accepted
<1>2. Request = fifo /\ WasBlank = {w \in Words : memory[w] = Erased}
  BY <1>1 DEF Request, WasBlank
<1>3. state' = state /\ fifo' = None /\ cmd' = fifo /\ blank' = {w \in Words : memory[w] = Erased}
  BY DEF Take
<1>4. ~Accepted(fifo)' /\ Listening'
  BY <1>1, <1>3 DEF Accepted, Listening
<1>5. UNCHANGED <<Unlocked, Request, WasBlank>>
  BY <1>2, <1>3, <1>4 DEF Request, WasBlank, Unlocked
<1> QED
  BY <1>5, FlashRests

\* Without a command neither the status nor what else is uploaded means anything.
LEMMA NoCommandIsQuiet ==
  ASSUME BootstrapTyped, Serial, cmd = None, ~Accepted(fifo), ~Accepted(fifo)',
         UNCHANGED <<memory, cmd, blank>>, UNCHANGED Unlocked
  PROVE  [Flash!Next]_(Flash!vars)
<1>1. Request = None /\ WasBlank = {} /\ blank = {}
  BY RequestIs DEF Serial
<1>2. Request' = None /\ WasBlank' = {}
  BY <1>1 DEF Request, WasBlank
<1> QED
  BY <1>1, <1>2, FlashRests

LEMMA EraseRefines ==
  ASSUME BootstrapTyped, Serial, HandleErase
  PROVE  [Flash!Next]_(Flash!vars)
<1>1. state = "erase" /\ fifo # None /\ cmd = None /\ memory' = memory /\ blank = {} /\ Listening
  BY Zenon DEF HandleErase, Serial, Listening
<1>2. CASE Shutdown
  <2>1. state' = "shutdown"
    BY <1>2 DEF Shutdown
  <2> QED
    BY <1>1, <2>1, StopsListening, FlashResets
<1>3. CASE Ignore /\ ~wel
  <2>1. fifo' = None /\ UNCHANGED <<state, cmd, blank>>
    BY <1>3 DEF Ignore
  <2> QED
    BY <1>1, <1>3, <2>1, NoCommandIsQuiet DEF Accepted, Unlocked
<1>4. CASE wel /\ fifo.op \in {"chip_erase", "sector_erase"} /\ Take(ChipEraseCalls)
  BY <1>1, <1>4, TakingIsQuiet
<1>5. CASE wel /\ fifo.op \notin {"chip_erase", "sector_erase"} /\ Acknowledge
  <2>1. fifo' = None /\ UNCHANGED <<state, cmd, blank>>
    BY <1>5 DEF Acknowledge
  <2>2. CASE ~Accepted(fifo)
    BY <1>1, <2>1, <2>2, NoCommandIsQuiet DEF Accepted, Unlocked
  <2>3. CASE Accepted(fifo)
    <3>1. Request = fifo /\ fifo \in Erases \cup Programs /\ fifo.op = "page_program"
      BY <1>1, <1>5, <2>3, RequestIs DEF Accepted
    <3>2. Flash!HasEffect(Request)
      BY <1>1, <3>1 DEF Flash!HasEffect
    <3>3. Request' = None /\ WasBlank' = {} /\ ~Unlocked' /\ ~Unlocked
      BY <1>1, <2>1 DEF Request, WasBlank, Unlocked, Accepted
    <3>4. Unlocked' = (Unlocked \/ Request.op # "page_program")
      BY <3>1, <3>3 DEF Unlocked
    <3> QED
      BY <1>1, <3>1, <3>2, <3>3, <3>4, FlashIsDone
  <2> QED
    BY <2>2, <2>3
<1>6. wel \/ ~wel
  OBVIOUS
<1> QED
  BY <1>2, <1>3, <1>4, <1>5, <1>6, Zenon DEF HandleErase

LEMMA VerifyRefines ==
  ASSUME BootstrapTyped, Serial, HandleEraseVerify
  PROVE  [Flash!Next]_(Flash!vars)
<1>1. state = "verify" /\ cmd # None /\ memory' = memory /\ Listening /\ cmd.op # "page_program"
  BY DEF HandleEraseVerify, Serial, Listening
<1>2. Request = cmd /\ cmd \in Erases \cup Programs /\ fifo = None
  BY <1>1, RequestIs
<1>3. CASE Shutdown
  <2>1. state' = "shutdown"
    BY <1>3 DEF Shutdown
  <2> QED
    BY <1>1, <2>1, StopsListening, FlashResets
<1>4. CASE ~Shutdown
  <2>1. state' = "program" /\ fifo' = fifo /\ cmd' = None /\ blank' = {} /\ AllErased
    BY <1>4 DEF HandleEraseVerify, Forget
  <2>2. Flash!HasEffect(Request)
    <3>1. \A w \in Flash!Footprint(cmd) : w \in Words
      BY <1>1, <1>2, CommandKinds DEF Flash!Footprint, Flash!Words, Words
    <3> QED
      BY <1>1, <1>2, <2>1, <3>1 DEF Flash!HasEffect, AllErased
  <2>3. Request' = None /\ WasBlank' = {} /\ Unlocked' /\ ~Unlocked
    BY <1>1, <1>2, <2>1 DEF Request, WasBlank, Unlocked, Accepted
  <2> QED
    BY <1>1, <1>2, <2>2, <2>3, FlashIsDone
<1> QED
  BY <1>3, <1>4

LEMMA ProgramRefines ==
  ASSUME BootstrapTyped, Serial, HandleProgram
  PROVE  [Flash!Next]_(Flash!vars)
<1>1. state = "program" /\ fifo # None /\ cmd = None /\ memory' = memory /\ blank = {} /\ Listening
  BY Zenon DEF HandleProgram, Serial, Listening
<1>2. CASE Shutdown
  <2>1. state' = "shutdown"
    BY <1>2 DEF Shutdown
  <2> QED
    BY <1>1, <2>1, StopsListening, FlashResets
<1>3. CASE \/ ~wel /\ Ignore
           \/ wel /\ fifo.op = "other" /\ Acknowledge
  <2>1. fifo' = None /\ UNCHANGED <<state, cmd, blank>>
    BY <1>3 DEF Acknowledge, Ignore
  <2>2. ~Accepted(fifo)
    BY <1>3 DEF Accepted
  <2> QED
    BY <1>1, <2>1, <2>2, NoCommandIsQuiet DEF Accepted, Unlocked
<1>4. CASE wel /\ fifo \in Erases \cup Programs /\ Take(CallsOf(fifo))
  <2>1. fifo.op \in {"chip_erase", "sector_erase", "page_program"}
    BY <1>4, IsCommand DEF BootstrapTyped
  <2> DEFINE calls == CallsOf(fifo)
  <2>2. Take(calls)
    BY <1>4
  <2> HIDE DEF calls
  <2> QED
    BY <1>1, <1>4, <2>1, <2>2, TakingIsQuiet
<1> QED
  BY <1>2, <1>3, <1>4, ProgramTakes DEF BootstrapTyped

LEMMA ReturnRefines ==
  ASSUME BootstrapTyped, Serial, Working, Return
  PROVE  [Flash!Next]_(Flash!vars)
<1>1. /\ state \in {"erase", "program"} /\ cmd # None /\ job = <<>> /\ memory' = memory /\ Listening
      /\ fifo = None
  BY Zenon DEF Return, Serial, Listening
<1>2. Request = cmd /\ cmd \in Erases \cup Programs /\ WasBlank = blank
  BY <1>1, RequestIs
<1>3. CASE Shutdown
  <2>1. state' = "shutdown"
    BY <1>3 DEF Shutdown
  <2> QED
    BY <1>1, <2>1, StopsListening, FlashResets
<1>4. CASE state = "erase" /\ state' = "verify" /\ UNCHANGED <<fifo, cmd, blank>>
  <2>1. UNCHANGED <<Unlocked, Request, WasBlank>>
    BY <1>1, <1>4 DEF Request, WasBlank, Unlocked, Listening, Accepted
  <2> QED
    BY <1>1, <2>1, FlashRests
<1>5. CASE ~failed /\ state = "program" /\ Forget /\ UNCHANGED <<state, fifo>>
  <2>1. Request' = None /\ WasBlank' = {} /\ Unlocked /\ Unlocked'
    BY <1>1, <1>5 DEF Forget, Request, WasBlank, Unlocked, Accepted
  <2>2. /\ InRange(cmd)
        /\ \A w \in Words : Due(cmd, w) => memory[w] = Gets(cmd)
    BY <1>1, <1>5, <2>1, NoJob DEF Working
  <2>3. Flash!Words = Words
    BY DEF Flash!Words, Words
  <2>4. Flash!HasEffect(cmd)
    <3>1. CASE cmd.op = "chip_erase"
      BY <2>2, <2>3, <3>1 DEF Flash!HasEffect, Flash!Footprint, Due, Changes, Gets
    <3>2. CASE cmd.op = "sector_erase" /\ cmd.addr \in Nat
      <4>1. cmd.addr \in Words
        BY <2>2, <3>2, Sizes DEF InRange, Words
      <4>2. \A w \in Flash!Footprint(cmd) : w \in Words /\ Changes(cmd, w)
        BY <2>1, <2>3, <3>2 DEF Flash!Footprint, Flash!Block, Changes, Unlocked
      <4>3. \A w \in Flash!Footprint(cmd) : memory[w] = Erased
        BY <2>2, <3>2, <4>2 DEF Due, Gets
      <4> QED
        BY <2>3, <3>2, <4>1, <4>3 DEF Flash!HasEffect
    <3>3. CASE /\ cmd.op = "page_program" /\ cmd.addr \in Nat
               /\ \E n \in 1 .. ProgPage, v \in Versions : cmd.data = [i \in 1 .. n |-> v]
      <4>1. cmd.addr \in Words
        BY <2>2, <3>3, Sizes DEF InRange, Words
      <4>2. \A i \in DOMAIN cmd.data : cmd.data[i] = Gets(cmd) /\ Changes(cmd, Place(cmd, i))
        <5>1. PICK n \in 1 .. ProgPage, v \in Versions : cmd.data = [i \in 1 .. n |-> v]
          BY <3>3
        <5>2. 1 \in 1 .. n
          BY Sizes
        <5> QED
          BY <3>3, <5>1, <5>2 DEF Gets, Changes
      <4>3. \A i \in DOMAIN cmd.data : Place(cmd, i) \in blank => memory[Place(cmd, i)] = cmd.data[i]
        <5>1. blank \subseteq Words
          BY DEF BootstrapTyped, FlashTyped
        <5> QED
          BY <2>2, <4>2, <5>1 DEF Due
      <4>4. \A i : Flash!Place(cmd, i) = Place(cmd, i)
        BY DEF Flash!Place, Place
      <4>5. WasBlank = blank
        BY <1>2
      <4> QED
        BY <2>3, <3>3, <4>1, <4>3, <4>4, <4>5 DEF Flash!HasEffect, WasBlank
    <3> QED
      BY <1>2, <3>1, <3>2, <3>3, CommandKinds
  <2>5. Unlocked' = (Unlocked \/ Request.op # "page_program")
    BY <2>1 DEF Unlocked
  <2> QED
    BY <1>1, <1>2, <2>1, <2>4, <2>5, FlashIsDone
<1> QED
  BY <1>3, <1>4, <1>5 DEF Return

LEMMA ResetRefines ==
  ASSUME BootstrapTyped, Serial, Working, Off
  PROVE  [Flash!Next]_(Flash!vars)
<1>1. Request' = None /\ WasBlank' = {} /\ ~Unlocked'
  BY StopsListening DEF Off
<1>2. CASE job = <<>>
  <2>1. memory' = memory
    BY <1>2 DEF Off
  <2> QED
    BY <1>1, <2>1, FlashResets
<1>3. CASE job # <<>>
  <2>1. PICK spoilt \in Hit(Transaction.words) :
          memory' = [w \in Words |-> IF w \in spoilt THEN Garbage ELSE memory[w]]
    BY <1>3 DEF Off
  <2>2. \A w \in Words : memory'[w] = memory[w] \/ w \in Transaction.words
    BY <2>1 DEF Hit
  <2>3. \A w \in Words : memory'[w] = memory[w] \/
          (IF Unlocked THEN Changes(Request, w) ELSE Request.op # "page_program")
    BY <1>3, <2>2, Reached
  <2>4. Request \in Erases \cup Programs
    <3>1. cmd # None /\ Listening
      BY <1>3 DEF Serial, Listening
    <3> QED
      BY <3>1, RequestIs
  <2> QED
    BY <1>1, <2>3, <2>4, FlashResets
<1> QED
  BY <1>2, <1>3

LEMMA IsFlashCommand ==
  ASSUME NEW c \in Erases \cup Programs
  PROVE  c \in Flash!Command
<1>1. CASE c = ChipErase
  BY <1>1 DEF ChipErase, Flash!Command
<1>2. CASE \E a \in EraseAddrs : c = SectorErase(a)
  BY <1>2, HostAssumption DEF SectorErase, Flash!Command
<1>3. CASE \E a \in ProgAddrs, d \in Datas : c = PageProgram(a, d)
  <2>1. PICK a \in ProgAddrs, d \in Datas : c = PageProgram(a, d)
    BY <1>3
  <2>2. d \in Seq(Versions) /\ a \in Nat
    BY HostAssumption, Sizes DEF Datas
  <2> QED
    BY <2>1, <2>2 DEF PageProgram, Flash!Command
<1> QED
  BY <1>1, <1>2, <1>3 DEF Erases, Programs

LEMMA HostRefines ==
  ASSUME BootstrapTyped, Serial, HostNext
  PROVE  [Flash!Next]_(Flash!vars)
<1>1. CASE Straps \/ Poll
  <2>1. UNCHANGED <<memory, device>>
    BY <1>1 DEF Straps, Poll
  <2>2. UNCHANGED <<Unlocked, Request, WasBlank>>
    BY <2>1 DEF device, Unlocked, Request, WasBlank, Listening, Accepted
  <2> QED
    BY <2>1, <2>2, FlashRests
<1>2. ASSUME session = "idle"
      PROVE  fifo = None /\ cmd = None /\ ~wel /\ Request = None /\ WasBlank = {} /\ blank = {}
  <2>1. fifo = None /\ cmd = None /\ ~wel
    BY <1>2, Zenon DEF Serial
  <2>2. ~Accepted(fifo)
    BY <2>1 DEF Accepted
  <2> QED
    BY <2>1, <2>2, RequestIs DEF Serial
<1>3. CASE Send
  <2>1. PICK c \in Erases \cup Programs :
          /\ Sends(c)
          /\ IF Listening THEN fifo' = c /\ wel' = TRUE ELSE UNCHANGED <<fifo, wel>>
    BY <1>3 DEF Send
  <2>2. session = "idle" /\ UNCHANGED <<memory, state, cmd, blank>>
    BY <2>1 DEF Sends
  <2>3. CASE Listening
    <3>1. c # None /\ c.op \in {"chip_erase", "sector_erase", "page_program"}
      BY IsCommand DEF BootstrapTyped
    <3>2. Accepted(fifo)' /\ Listening' /\ fifo' = c
      BY <2>1, <2>2, <2>3, <3>1 DEF Accepted, Listening
    <3>3. Request' = c /\ WasBlank' = {w \in Words : memory[w] = Erased} /\ Unlocked' = Unlocked
      BY <2>2, <3>2 DEF Request, WasBlank, Unlocked
    <3> QED
      BY <1>2, <2>2, <3>3, IsFlashCommand, FlashBegins
  <2>4. CASE ~Listening
    <3>1. UNCHANGED <<Unlocked, Request, WasBlank>>
      BY <2>1, <2>2, <2>4 DEF Request, WasBlank, Unlocked, Listening
    <3> QED
      BY <2>2, <3>1, FlashRests
  <2> QED
    BY <2>3, <2>4
<1>4. CASE Glitch
  <2>1. PICK c \in Erases \cup Programs :
          Sends(c) /\ ((fifo' = c /\ UNCHANGED wel) \/ fifo' \in Noise)
    BY <1>4 DEF Glitch
  <2>2. session = "idle" /\ UNCHANGED <<memory, state, cmd, blank>>
    BY <2>1 DEF Sends
  <2>3. ~Accepted(fifo)'
    <3>1. CASE UNCHANGED wel
      BY <1>2, <2>2, <3>1 DEF Accepted
    <3>2. CASE fifo' \in Noise
      BY <3>2 DEF Accepted, Noise
    <3> QED
      BY <2>1, <3>1, <3>2
  <2>4. ~Accepted(fifo)
    BY <1>2, <2>2 DEF Accepted
  <2> QED
    BY <1>2, <2>2, <2>3, <2>4, NoCommandIsQuiet DEF Unlocked
<1>5. CASE SendReset
  <2>1. session = "idle" /\ UNCHANGED <<memory, state, cmd, blank, wel>>
    BY <1>5 DEF SendReset
  <2>2. ~Accepted(fifo)' /\ ~Accepted(fifo)
    BY <1>2, <2>1 DEF Accepted
  <2> QED
    BY <1>2, <2>1, <2>2, NoCommandIsQuiet DEF Unlocked
<1> QED
  BY <1>1, <1>3, <1>4, <1>5 DEF HostNext

LEMMA RefinementStep ==
  ASSUME BootstrapTyped, Serial, Working, [Next]_vars
  PROVE  [Flash!Next]_(Flash!vars)
<1>1. CASE Done \/ Error \/ WeakErase
  <2>1. job # <<>> /\ UNCHANGED <<state, wel, fifo, cmd, blank>>
    BY <1>1 DEF Done, Error, WeakErase
  <2>2. \E spared, spoilt : spoilt \in Hit(Transaction.words) /\ Carry(Transaction, spared, spoilt)
    BY <1>1 DEF Done, Error, WeakErase, Hit
  <2> QED
    BY <2>1, <2>2, CarryReaches
<1>2. CASE DeviceNext
  BY <1>1, <1>2, EraseRefines, VerifyRefines, ProgramRefines, ReturnRefines DEF DeviceNext
<1>3. CASE Entry
  <2>1. /\ state = "off" /\ state' = "erase" /\ fifo' = None /\ UNCHANGED <<memory, cmd, blank>>
    BY <1>3 DEF Entry, EnterBootstrap
  <2>2. cmd = None /\ fifo = None
    BY <2>1 DEF Serial
  <2>3. ~Accepted(fifo) /\ ~Accepted(fifo)'
    BY <2>1, <2>2 DEF Accepted
  <2> QED
    BY <2>1, <2>2, <2>3, NoCommandIsQuiet DEF Unlocked
<1>4. CASE Resets
  BY <1>4, ResetRefines DEF Resets
<1>5. CASE Nothing
  <2>1. UNCHANGED <<Unlocked, Request, WasBlank>>
    BY <1>5 DEF Nothing, device, Unlocked, Request, WasBlank, Listening, Accepted
  <2> QED
    BY <1>5, <2>1, FlashRests DEF Nothing
<1> QED
  BY <1>2, <1>3, <1>4, <1>5, HostRefines, Steps

\* Bootstrap is the SPI flash of SpiFlash, whatever sizes of erase and program the
\* host sends and whatever faults, glitches and resets meet them
\* (enter_bootstrap(), bootstrap_handle_erase(), bootstrap_handle_program()).
THEOREM PlaysSpiFlash == Spec => ImplementsSpiFlash
<1>1. Init => Flash!Init /\ Working
  <2> SUFFICES ASSUME Init PROVE Flash!Init /\ Working
    OBVIOUS
  <2>1. state = "off" /\ cmd = None
    BY DEF Init, BootstrapInit
  <2> QED
    BY <2>1 DEF Flash!Init, Listening, Working
<1>2. BootstrapTyped /\ Serial /\ Working /\ [Next]_vars => Working' /\ [Flash!Next]_(Flash!vars)
  BY WorkingStep, RefinementStep
<1>3. BootstrapTyped /\ RomTyped => BootstrapTyped
  OBVIOUS
<1>4. Serial /\ Seen => Serial
  OBVIOUS
<1> QED
  BY <1>1, <1>2, TypedAlways, SeenAlways, PTL DEF Spec, ImplementsSpiFlash, Flash!Spec
=============================================================================
