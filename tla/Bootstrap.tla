------------------------------ MODULE Bootstrap ------------------------------
(***************************************************************************)
(* Bootstrap (silicon_creator/lib/bootstrap.c, rom/bootstrap.c): while the   *)
(* straps ask for it, the chip plays a SPI flash that a host programs; with  *)
(* the host of sw/host/opentitanlib/src/spiflash.  Rom adds the rest of the  *)
(* ROM, and what enters and leaves bootstrap.                                *)
(*                                                                          *)
(* A flash word stands for 64 bytes, a program window; wel and wip are the   *)
(* status bits that the SPI hardware sets and only software clears.           *)
(***************************************************************************)
EXTENDS Integers, Sequences, FiniteSets

CONSTANTS
  ProgPage,     \* words in a program page of the SPI flash (256 bytes)
  FlashPage,    \* words in a page of the embedded flash (2 KiB)
  BankSize,     \* words in one of its two banks
  Versions,     \* what the host programs: words of images of these versions
  EraseAddrs, ProgAddrs,   \* addresses that it sends
  Erased, Garbage, Unknown, None,
  MaxCommands,  \* bound on the sessions and commands of the host
  MaxFaults     \* bound on resets, flash errors, weak erases and glitches

ASSUME SizesAssumption ==
  /\ {ProgPage, FlashPage, BankSize} \subseteq Nat \ {0}
  /\ (FlashPage % ProgPage) = 0 /\ (BankSize % (2 * FlashPage)) = 0
ASSUME ValuesAssumption ==
  /\ Versions \subseteq Nat /\ {Erased, Garbage, Unknown, None} \cap Versions = {}
  /\ Erased \notin {Garbage, Unknown, None} /\ Garbage \notin {Unknown, None} /\ Unknown # None
ASSUME HostAssumption ==
  EraseAddrs \cup ProgAddrs \cup {MaxCommands, MaxFaults} \subseteq Nat

kMaxAddress == 2 * BankSize
Words == 0 .. kMaxAddress - 1
Contents == Versions \cup {Erased, Garbage}
Datas == {[i \in 1 .. n |-> v] : n \in 1 .. ProgPage, v \in Versions}  \* of one image
ChipErase == [op |-> "chip_erase"]
SectorErase(addr) == [op |-> "sector_erase", addr |-> addr]
PageProgram(addr, data) == [op |-> "page_program", addr |-> addr, data |-> data]
Erases == {ChipErase} \cup {SectorErase(a) : a \in EraseAddrs}
Programs == {PageProgram(a, d) : a \in ProgAddrs, d \in Datas}
Noise == {[op |-> "other"], [op |-> "overflow"]}
ASSUME CommandsAssumption == None \notin Erases \cup Programs \cup Noise \cup {[op |-> "reset"]}

VARIABLES
  memory,               \* the data partition of the flash
  state,                \* bootstrap_state_t, or "off", or "shutdown"
  wel, wip,             \* FLASH_STATUS
  fifo,                 \* the command that the SPI device has uploaded
  cmd,                  \* the command that is being handled
  blank,                \* history: the words that were erased when cmd was taken
  job, failed,          \* its flash transactions, and whether one has failed
  stale,                \* history: the words that bootstrap has found written
  session,              \* of the host: see Straps, Send and SendReset
  expect,               \* what the host takes the memory to be
  upset,                \* history: the session met a reset or a glitch
  strap, commands, faults

device == <<state, wel, wip, fifo, cmd, blank, job, failed>>
host == <<session, expect, upset, strap, commands>>
bootstrapVars == <<memory, device, stale, host, faults>>
Fault == faults < MaxFaults /\ faults' = faults + 1
-----------------------------------------------------------------------------
\* A command is one or two calls of the flash driver, and a call is a sequence
\* of transactions that an error ends.
Erase(addr, n) == << [words |-> addr .. addr + n - 1, value |-> Erased] >>
Write(addr, data) ==
  [i \in DOMAIN data |-> [words |-> {addr + i - 1}, value |-> data[i]]]
\* bootstrap_chip_erase()
ChipEraseCalls == << Erase(0, BankSize), Erase(BankSize, BankSize) >>
\* [variant] the address is not truncated.
SectorEraseUnaligned(addr) ==
  << Erase(addr, FlashPage), Erase(addr + FlashPage, FlashPage) >>
\* bootstrap_sector_erase(): truncates the address, erases two pages.
SectorEraseCalls(addr) ==
  LET base == addr - (addr % (2 * FlashPage))
  IN  << Erase(base, FlashPage), Erase(base + FlashPage, FlashPage) >>
\* [variant] the second write goes on behind the page.
PageProgramOn(addr, data) == << Write(addr, data) >>
\* bootstrap_page_program(): wraps at the end of the page.
PageProgramCalls(addr, data) ==
  LET room == ProgPage - (addr % ProgPage)
  IN  IF Len(data) <= room
      THEN << Write(addr, data) >>
      ELSE << Write(addr, SubSeq(data, 1, room)),
              Write(addr - (addr % ProgPage), SubSeq(data, room + 1, Len(data))) >>

\* The words that a fault hits: none, one or all of a transaction's.
Hit(words) == {{}, words} \cup {{w} : w \in words}
\* What a word becomes: programming only clears bits.
After(t, w) ==
  IF t.value = Erased \/ memory[w] \in {Erased, t.value} THEN t.value ELSE Garbage
\* A transaction, with the words `spared` and the words `spoilt` by a fault.
Carry(t, spared, spoilt) ==
  /\ memory' = [w \in Words |->
       IF w \in spoilt THEN Garbage
       ELSE IF w \in t.words \ spared THEN After(t, w) ELSE memory[w]]
  /\ stale' = stale \ (t.words \ (spared \cup spoilt))
-----------------------------------------------------------------------------
\* Device.  Every error leads to shutdown_finalize(), and a RESET to
\* rstmgr_reset(): either way the chip resets.
Shutdown == state' = "shutdown" /\ UNCHANGED <<wel, wip, fifo, cmd, blank, job, failed>>
\* spi_device_flash_status_clear()
StatusClear == wel' = FALSE /\ wip' = FALSE
Take(calls) ==
  /\ cmd' = fifo /\ fifo' = None /\ job' = calls /\ UNCHANGED <<state, wel, wip, failed>>
  /\ blank' = {w \in Words : memory[w] = Erased}
Ignore == fifo' = None /\ UNCHANGED <<state, wel, wip, cmd, blank, job, failed>>
Acknowledge == StatusClear /\ fifo' = None /\ UNCHANGED <<state, cmd, blank, job, failed>>
\* The command has been handled.
Forget == cmd' = None /\ blank' = {}

\* [variant] other commands are ignored with the status left as it is.
HandleEraseSilently ==
  /\ state = "erase" /\ fifo # None
  /\ IF fifo.op = "overflow" THEN Shutdown
     ELSE IF wel /\ fifo.op \in {"chip_erase", "sector_erase"} THEN Take(ChipEraseCalls)
     ELSE Ignore
  /\ UNCHANGED <<memory, stale, host, faults>>
\* bootstrap_handle_erase(), up to the flash transactions
HandleErase ==
  /\ state = "erase" /\ fifo # None
  /\ IF fifo.op = "overflow" THEN Shutdown
     ELSE IF ~wel THEN Ignore
     ELSE IF fifo.op \in {"chip_erase", "sector_erase"} THEN Take(ChipEraseCalls)
     ELSE Acknowledge
  /\ UNCHANGED <<memory, stale, host, faults>>

\* [variant] only the first bank is looked at.
FirstBankErased == \A w \in 0 .. BankSize - 1 : memory[w] = Erased
\* bootstrap_erase_verify()
AllErased == \A w \in Words : memory[w] = Erased
\* bootstrap_handle_erase_verify()
HandleEraseVerify ==
  /\ state = "verify"
  /\ IF AllErased
     THEN StatusClear /\ state' = "program" /\ Forget /\ UNCHANGED <<fifo, job, failed>>
     ELSE Shutdown
  /\ UNCHANGED <<memory, stale, host, faults>>

\* bootstrap_handle_program(), up to the flash transactions
HandleProgram ==
  /\ state = "program" /\ fifo # None
  /\ CASE fifo.op \in {"overflow", "reset"} -> Shutdown
       [] fifo.op \notin {"overflow", "reset"} /\ ~wel -> Ignore
       [] fifo.op = "chip_erase" /\ wel -> Take(ChipEraseCalls)
       [] fifo.op = "sector_erase" /\ wel ->
            IF fifo.addr >= kMaxAddress THEN Shutdown ELSE Take(SectorEraseCalls(fifo.addr))
       [] fifo.op = "page_program" /\ wel ->
            IF fifo.addr >= kMaxAddress THEN Shutdown
            ELSE Take(PageProgramCalls(fifo.addr, fifo.data))
       [] fifo.op = "other" /\ wel -> Acknowledge
  /\ UNCHANGED <<memory, stale, host, faults>>

Transaction == Head(Head(job))
Advance ==
  job' = IF Len(Head(job)) = 1 THEN Tail(job) ELSE <<Tail(Head(job))>> \o Tail(job)
\* The flash controller carries out a transaction.
Done ==
  /\ job # <<>> /\ Carry(Transaction, {}, {}) /\ Advance
  /\ UNCHANGED <<state, wel, wip, fifo, cmd, blank, failed, host, faults>>
\* It reports an error: the rest of the call is dropped, the next call is made.
Error ==
  /\ job # <<>> /\ Fault
  /\ \E spoilt \in Hit(Transaction.words) : Carry(Transaction, Transaction.words, spoilt)
  /\ job' = Tail(job) /\ failed' = TRUE
  /\ UNCHANGED <<state, wel, wip, fifo, cmd, blank, host>>
\* It reports no error, but some words of the first erase are not erased.
WeakErase ==
  /\ job # <<>> /\ state = "erase" /\ Fault
  /\ \E spared \in Hit(Transaction.words) : Carry(Transaction, spared, {})
  /\ Advance
  /\ UNCHANGED <<state, wel, wip, fifo, cmd, blank, failed, host>>
\* [variant] only the result of the last call counts.
ReturnRegardless ==
  /\ state \in {"erase", "program"} /\ cmd # None /\ job = <<>>
  /\ failed' = FALSE
  /\ IF state = "erase"
     THEN state' = "verify" /\ UNCHANGED <<wel, wip, fifo, cmd, blank, job>>
     ELSE StatusClear /\ Forget /\ UNCHANGED <<state, fifo, job>>
  /\ UNCHANGED <<memory, stale, host, faults>>
\* The handler returns.
Return ==
  /\ state \in {"erase", "program"} /\ cmd # None /\ job = <<>>
  /\ CASE failed -> Shutdown
       [] ~failed /\ state = "erase" ->
            state' = "verify" /\ UNCHANGED <<wel, wip, fifo, cmd, blank, job, failed>>
       [] ~failed /\ state = "program" ->
            StatusClear /\ Forget /\ UNCHANGED <<state, fifo, job, failed>>
  /\ UNCHANGED <<memory, stale, host, faults>>

\* enter_bootstrap()
EnterBootstrap ==
  /\ state' = "erase" /\ StatusClear /\ fifo' = None
  /\ stale' = {w \in Words : memory[w] # Erased}
  /\ UNCHANGED <<cmd, blank, job, failed, memory, host, faults>>
\* A reset of the chip, in the middle of a transaction or not.
Off ==
  /\ state' = "off" /\ StatusClear /\ fifo' = None /\ Forget
  /\ job' = <<>> /\ failed' = FALSE
  /\ IF job = <<>> THEN memory' = memory
     ELSE \E spoilt \in Hit(Transaction.words) :
            memory' = [w \in Words |-> IF w \in spoilt THEN Garbage ELSE memory[w]]
  /\ stale' = {}
-----------------------------------------------------------------------------
\* Host: a programmer that programs a word only when it takes it to be erased.
Listening == state \notin {"off", "shutdown"}
Straps == \* do_update(): the straps, and then a reset
  \/ /\ session = "closed" /\ session' = "strapped" /\ strap' = TRUE
     /\ commands < MaxCommands /\ commands' = commands + 1
     /\ UNCHANGED <<memory, device, stale, expect, upset, faults>>
  \/ /\ session \in {"idle", "wait", "done"} /\ session' = "released" /\ strap' = FALSE
     /\ expect' = [w \in Words |-> Unknown] /\ upset' = FALSE
     /\ UNCHANGED <<memory, device, stale, commands, faults>>
\* The reset that the host makes when it has changed the straps.
PinReset ==
  /\ session \in {"strapped", "released"}
  /\ session' = IF session = "strapped" THEN "idle" ELSE "closed"
  /\ UNCHANGED <<expect, upset, strap, commands, faults>>
Place(c, i) ==
  ProgPage * (c.addr \div ProgPage) + ((c.addr + i - 1) % ProgPage)
Believe(c) ==
  CASE c.op = "chip_erase" -> [w \in Words |-> Erased]
    [] c.op = "sector_erase" ->
         [w \in Words |-> IF w \div (2 * FlashPage) = c.addr \div (2 * FlashPage)
                          THEN Erased ELSE expect[w]]
    [] c.op = "page_program" ->
         [w \in Words |-> IF \E i \in DOMAIN c.data : Place(c, i) = w
                          THEN c.data[CHOOSE i \in DOMAIN c.data : Place(c, i) = w]
                          ELSE expect[w]]
Sensible(c) ==
  c.op = "page_program" =>
    \A i \in DOMAIN c.data : Place(c, i) \in Words /\ expect[Place(c, i)] = Erased
Sends(c) ==
  /\ session = "idle" /\ commands < MaxCommands /\ commands' = commands + 1
  /\ Sensible(c) /\ expect' = Believe(c) /\ session' = "wait"
  /\ UNCHANGED <<strap, memory, stale, state, cmd, blank, job, failed>>
\* WREN, the command, and then the host polls WIP.
Send ==
  /\ \E c \in Erases \cup Programs :
       /\ Sends(c)
       /\ IF Listening
          THEN fifo' = c /\ wel' = TRUE /\ wip' = TRUE /\ UNCHANGED upset
          ELSE upset' = TRUE /\ UNCHANGED <<fifo, wel, wip>>
  /\ UNCHANGED faults
\* WREN is lost, or the device makes something else of the command.
Glitch ==
  /\ Fault /\ Listening /\ upset' = TRUE
  /\ \E c \in Erases \cup Programs :
       /\ Sends(c)
       /\ \/ fifo' = c /\ UNCHANGED wel
          \/ fifo' \in Noise /\ wel' = TRUE
  /\ wip' = TRUE
\* SpiFlash::chip_reset(): no WREN before it, nothing waits for it.
SendReset ==
  /\ session = "idle" /\ session' = "done"
  /\ IF Listening THEN fifo' = [op |-> "reset"] /\ wip' = TRUE ELSE UNCHANGED <<fifo, wip>>
  /\ UNCHANGED <<memory, state, wel, cmd, blank, job, failed, stale, expect, upset, strap,
                 commands, faults>>
Poll ==
  /\ session = "wait" /\ ~wip /\ session' = "idle"
  /\ UNCHANGED <<memory, device, stale, expect, upset, strap, commands, faults>>

BootstrapInit ==
  /\ state = "off" /\ wel = FALSE /\ wip = FALSE /\ fifo = None /\ cmd = None
  /\ job = <<>> /\ failed = FALSE /\ stale = {} /\ blank = {}
  /\ session = "closed" /\ expect = [w \in Words |-> Unknown] /\ upset = FALSE
  /\ strap = FALSE /\ commands = 0 /\ faults = 0
DeviceNext ==
  \/ HandleErase \/ HandleEraseVerify \/ HandleProgram
  \/ Done \/ Error \/ WeakErase \/ Return
HostNext == Straps \/ Send \/ Glitch \/ SendReset \/ Poll
-----------------------------------------------------------------------------
TypeOKBootstrap ==
  /\ memory \in [Words -> Contents] /\ stale \cup blank \subseteq Words
  /\ state \in {"off", "erase", "verify", "program", "shutdown"}
  /\ {wel, wip, failed, upset, strap} \subseteq BOOLEAN
  /\ fifo \in Erases \cup Programs \cup Noise \cup {None, [op |-> "reset"]}
  /\ cmd \in Erases \cup Programs \cup {None}
  /\ Len(job) <= 2
  /\ \A i \in DOMAIN job : \A j \in DOMAIN job[i] :
       job[i][j].words \subseteq Words /\ job[i][j].value \in Versions \cup {Erased}
  /\ session \in {"closed", "strapped", "idle", "wait", "done", "released"}
  /\ expect \in [Words -> Versions \cup {Erased, Unknown}]
  /\ commands \in 0 .. MaxCommands /\ faults \in 0 .. MaxFaults

\* What the flash held before bootstrap was entered never lives on beside what
\* is programmed: the first erase, of whatever size, takes all of it, and is
\* verified (enter_bootstrap(): the states of bootstrap_state_t).
NothingSurvives == state = "program" => stale = {}

\* When the busy bit is clear, the memory is what the host takes it to be,
\* unless the session has met a reset or a glitch: every erase and program has
\* touched its own words only, with the wrapping of a SPI flash.
HostSeesMemory ==
  session = "idle" /\ ~upset =>
    \A w \in Words : expect[w] \in {Unknown, memory[w]}

\* A command that came with WREN is acknowledged, whatever it is, or the chip
\* resets: the host never polls for ever.
BusyClears == (wip /\ wel) ~> ~wip

\* Bootstrap plays the SPI flash of SpiFlash.
Accepted(c) == c # None /\ wel /\ c.op \in {"chip_erase", "sector_erase", "page_program"}
Flash == INSTANCE SpiFlash WITH
  Size <- kMaxAddress, ProgramPage <- ProgPage, Sector <- 2 * FlashPage,
  Values <- Versions, memory <- memory, unlocked <- state = "program",
  request <- IF ~Listening THEN None ELSE IF Accepted(fifo) THEN fifo ELSE cmd,
  blank <- IF ~Listening THEN {}
           ELSE IF Accepted(fifo) THEN {w \in Words : memory[w] = Erased} ELSE blank
ImplementsSpiFlash == Flash!Spec
=============================================================================
