------------------------------ MODULE SpiFlash ------------------------------
(***************************************************************************)
(* What bootstrap promises of the SPI flash it emulates                     *)
(* (rom/doc/bootstrap.md, with lib/bootstrap.c and rom/bootstrap.c): it is   *)
(* locked until an erase, of whatever size, has erased all of it, and again *)
(* after every reset.  Programming a locked flash does nothing.  A command  *)
(* touches only the words it names, and has had its whole effect when it is *)
(* done, where programming has its effect on the words that were erased; one *)
(* that is cut short leaves these words in any state, and one with an address *)
(* behind the end is never done: the chip resets.                            *)
(***************************************************************************)
EXTENDS Integers, Sequences

CONSTANTS
  Size,        \* words in the flash
  ProgramPage, \* words that PAGE_PROGRAM wraps round in
  Sector,      \* words in a sector
  Values,      \* what a word can be programmed to
  Erased, None

Words == 0 .. Size - 1
Command ==
  [op : {"chip_erase"}] \cup [op : {"sector_erase"}, addr : Nat]
  \cup [op : {"page_program"}, addr : Nat, data : Seq(Values)]

VARIABLES
  memory, unlocked, request,
  blank        \* the words that were erased when the request began
vars == <<memory, unlocked, request, blank>>

\* The words of a command, and what they get.
Block(addr, n) == {w \in Words : w \div n = addr \div n}
Place(cmd, i) ==
  ProgramPage * (cmd.addr \div ProgramPage) + ((cmd.addr + i - 1) % ProgramPage)
Footprint(cmd) ==
  CASE cmd.op = "chip_erase" -> Words
    [] cmd.op = "sector_erase" -> IF unlocked THEN Block(cmd.addr, Sector) ELSE Words
    [] cmd.op = "page_program" ->
         IF unlocked THEN {Place(cmd, i) : i \in DOMAIN cmd.data} ELSE {}
HasEffect(cmd) ==
  /\ unlocked /\ cmd.op # "chip_erase" => cmd.addr \in Words
  /\ IF cmd.op = "page_program"
     THEN unlocked => \A i \in DOMAIN cmd.data :
            Place(cmd, i) \in blank => memory[Place(cmd, i)] = cmd.data[i]
     ELSE \A w \in Footprint(cmd) : memory[w] = Erased

Init == ~unlocked /\ request = None /\ blank = {}

Begin ==
  /\ request = None /\ request' \in Command /\ blank' = {w \in Words : memory[w] = Erased}
  /\ UNCHANGED <<memory, unlocked>>
Touch == \A w \in Words \ Footprint(request) : memory'[w] = memory[w]
Work == request # None /\ Touch /\ UNCHANGED <<unlocked, request, blank>>
Done ==
  /\ request # None /\ request' = None /\ blank' = {}
  /\ HasEffect(request)
  /\ unlocked' = (unlocked \/ request.op # "page_program")
  /\ UNCHANGED memory
Reset ==
  /\ request' = None /\ unlocked' = FALSE /\ blank' = {}
  /\ IF request = None THEN UNCHANGED memory ELSE Touch

Next == Begin \/ Work \/ Done \/ Reset
Spec == Init /\ [][Next]_vars
=============================================================================
