------------------------------ MODULE BootData ------------------------------
(***************************************************************************)
(* The boot data storage of sw/device/silicon_creator/lib/boot_data.c: two  *)
(* flash info pages used as append-only logs of boot_data_t entries.  A     *)
(* write appends an entry with the next counter (erasing the other page     *)
(* when the active one is full) and then invalidates the entry it replaces. *)
(*                                                                          *)
(* The CPU is single threaded, so what interleaves with these functions is  *)
(* failure: each flash transaction is a step of its own, and power may be   *)
(* lost or the controller may report an error at every one of them, leaving *)
(* the words of the transaction programmed, untouched or unreadable.        *)
(***************************************************************************)
EXTENDS Integers

CONSTANTS
  EntriesPerPage,    \* kBootDataEntriesPerPage, 16 on the chip
  Settings,          \* the fields of boot_data_t that no function here reads
  DefaultSettings,   \* their values in the default boot data
  LcStates,          \* life cycle states a device may be in
  DefaultInProdEn,   \* OTP CREATOR_SW_CFG_DEFAULT_BOOT_DATA_IN_PROD_EN
  Erased,            \* flash words that read kFlashCtrlErasedWord
  Zeros,             \* flash words programmed to kBootDataInvalidEntry
  Garbage,           \* flash words a transaction left half done
  None,              \* no address, no record
  MaxCounter,        \* bound: no write starts at this counter
  MaxFaults          \* bound on power losses and flash errors

kBootDataDefaultCounterVal == 5
Pages == {0, 1}
Index == 0 .. EntriesPerPage - 1
Addr == Pages \X Index
BootSlots == {"A", "B"}

\* A boot_data_t without its digest and is_valid.  Version 1 had no
\* primary_bl0_slot: the word was padding.
Content == [version : {1, 2}, counter : Nat,
            slot : BootSlots \cup {"unset"}, settings : Settings]

\* An entry in flash, by program transaction: the digest, is_valid (skipped
\* when the entry is written), bytes 40-63 (identifier to primary_bl0_slot)
\* and bytes 64-127, which lie in the next 64-byte program window.  A unit is
\* the record it was programmed from.
Unit == Content \cup {Erased, Garbage}
Entry == [digest : Unit, is_valid : {Erased, Zeros, Garbage},
          head : Unit, tail : Unit]
EmptyEntry ==
  [digest |-> Erased, is_valid |-> Erased, head |-> Erased, tail |-> Erased]
ScrambledEntry ==
  [digest |-> Garbage, is_valid |-> Garbage, head |-> Garbage, tail |-> Garbage]
Written(c) == [digest |-> c, is_valid |-> Erased, head |-> c, tail |-> c]

ASSUME ConstantsAssumption ==
  /\ EntriesPerPage \in Nat \ {0}
  /\ DefaultSettings \in Settings
  /\ LcStates \subseteq {"Test", "Dev", "Prod", "ProdEnd", "Rma"}
  /\ DefaultInProdEn \in BOOLEAN
  /\ MaxCounter \in Nat /\ MaxFaults \in Nat
ASSUME MarksAssumption ==
  /\ Erased \notin Content /\ Garbage \notin Content /\ Zeros \notin Content
  /\ None \notin Content /\ None \notin Addr
  /\ Erased # Garbage /\ Erased # Zeros /\ Garbage # Zeros

VARIABLES
  flash,     \* the two pages, Addr -> Entry
  lc,        \* life cycle state
  pc,        \* next flash transaction, "idle" in the caller, "off" in reset
  ram,       \* the caller's boot_data_t
  new,       \* new_entry of the boot_data_write() in progress
  target,    \* where it goes
  old,       \* the entry it replaces (active_page.page, last_valid_index)
  result,    \* how the caller's last call ended
  faults     \* faults so far, at most MaxFaults

vars == <<flash, lc, pc, ram, new, target, old, result, faults>>
-----------------------------------------------------------------------------
IsEmpty(e) == e = EmptyEntry

\* boot_data_check(): the digest covers is_valid and everything behind it.
BootDataCheck(e) ==
  /\ e.digest \notin {Erased, Garbage}
  /\ e.is_valid = Erased
  /\ e.head = e.digest /\ e.tail = e.digest

\* The searches, over the contents f of the two pages.  The forward search
\* stops at the first empty entry of a page; the backward search starts below
\* it and stops at the last valid one.
FirstEmpty(f, a) ==
  /\ IsEmpty(f[a])
  /\ \A j \in 0 .. a[2] - 1 : ~IsEmpty(f[<<a[1], j>>])
InLog(f, a) == \A j \in 0 .. a[2] : ~IsEmpty(f[<<a[1], j>>])
LastValid(f, a) ==
  /\ InLog(f, a) /\ BootDataCheck(f[a])
  /\ \A b \in Addr :
       b[1] = a[1] /\ b[2] > a[2] /\ InLog(f, b) => ~BootDataCheck(f[b])
NoValidEntry(f) == \A a \in Addr : ~LastValid(f, a)

\* The active page is the one whose last valid entry has the greater counter.
\* Equal counters trap: no Active(f, a) holds then, and no call below can end.
Active(f, a) ==
  /\ LastValid(f, a)
  /\ \A b \in Addr : b[1] # a[1] /\ LastValid(f, b)
                       => f[b].head.counter < f[a].head.counter

AsV2(c) == IF c.version = 1 THEN [c EXCEPT !.version = 2, !.slot = "A"] ELSE c

DefaultAllowed == lc \in {"Test", "Dev", "Rma"} \/ DefaultInProdEn
DefaultBootData == [version |-> 2, counter |-> kBootDataDefaultCounterVal,
                    slot |-> "A", settings |-> DefaultSettings]

\* The record boot_data_read() returns, None where it returns
\* kErrorBootDataNotFound (or traps).
Stored ==
  IF \E a \in Addr : Active(flash, a)
  THEN AsV2(flash[CHOOSE a \in Addr : Active(flash, a)].head)
  ELSE IF NoValidEntry(flash) /\ DefaultAllowed THEN DefaultBootData ELSE None
-----------------------------------------------------------------------------
\* A fresh part, or one whose boot data an older ROM_EXT wrote as version 1.
Init ==
  /\ \/ flash = [a \in Addr |-> EmptyEntry]
     \/ \E s \in Settings :
          flash = [a \in Addr |->
            IF a = <<0, 0>>
            THEN Written([version |-> 1, slot |-> "unset", settings |-> s,
                          counter |-> kBootDataDefaultCounterVal + 1])
            ELSE EmptyEntry]
  /\ lc \in LcStates
  /\ pc = "off" /\ ram = None /\ result = "none" /\ faults = 0
  /\ new = None /\ target = None /\ old = None

PowerOn ==
  /\ pc = "off" /\ pc' = "boot"
  /\ UNCHANGED <<flash, lc, ram, new, target, old, result, faults>>

\* boot_data_read(), by the boot stages and again by their handlers.
BootDataRead ==
  /\ pc \in {"boot", "idle"} /\ Stored # None
  /\ pc' = "idle" /\ ram' = Stored /\ result' = "read"
  /\ UNCHANGED <<flash, lc, new, target, old, faults>>

\* kErrorBootDataNotFound at boot: ROM shuts down.
BootDataNotFound ==
  /\ pc = "boot" /\ NoValidEntry(flash) /\ ~DefaultAllowed
  /\ pc' = "off"
  /\ UNCHANGED <<flash, lc, ram, new, target, old, result, faults>>

\* boot_data_write(): the caller changes its copy, the active page is found
\* and the place of the new entry follows.
\* [variant] the index behind the last valid entry is taken for the first empty.
AppendBehindLast(a) ==
  /\ a[2] + 1 \in Index /\ target' = <<a[1], a[2] + 1>> /\ pc' = "digest"
Append(a) ==
  \E k \in Addr : /\ k[1] = a[1] /\ FirstEmpty(flash, k)
                  /\ target' = k /\ pc' = "digest"
\* [variants] the full page itself is erased; the page after it, unwrapped.
SwitchPageInPlace(a) ==
  /\ \A k \in Addr : k[1] = a[1] => ~IsEmpty(flash[k])
  /\ target' = <<a[1], 0>> /\ pc' = "erase"
SwitchPageUnwrapped(a) ==
  /\ \A k \in Addr : k[1] = a[1] => ~IsEmpty(flash[k])
  /\ target' = <<a[1] + 1, 0>> /\ pc' = "erase"
SwitchPage(a) ==
  /\ \A k \in Addr : k[1] = a[1] => ~IsEmpty(flash[k])
  /\ target' = <<1 - a[1], 0>> /\ pc' = "erase"
\* [variant] the counter of the caller's copy is incremented.
ReplaceEntryFromCopy ==
  \E a \in Addr :
    /\ Active(flash, a) /\ flash[a].head.counter < MaxCounter
    /\ new' = [ram' EXCEPT !.counter = ram.counter + 1]
    /\ Append(a) \/ SwitchPage(a)
    /\ old' = a
ReplaceEntry ==
  \E a \in Addr :
    /\ Active(flash, a) /\ flash[a].head.counter < MaxCounter
    /\ new' = [ram' EXCEPT !.counter = flash[a].head.counter + 1]
    /\ Append(a) \/ SwitchPage(a)
    /\ old' = a
FirstEntry ==
  /\ NoValidEntry(flash)
  /\ new' = [ram' EXCEPT !.counter = kBootDataDefaultCounterVal + 1]
  /\ target' = <<0, 0>> /\ old' = None /\ pc' = "erase"
BootDataWrite ==
  /\ pc = "idle" /\ result # "read_error"
  /\ \E slot \in BootSlots, s \in Settings :
       ram' = [ram EXCEPT !.slot = slot, !.settings = s]
  /\ ReplaceEntry \/ FirstEntry
  /\ UNCHANGED <<flash, lc, result, faults>>

Return(status) ==
  /\ pc' = "idle" /\ result' = status
  /\ new' = None /\ target' = None /\ old' = None
  /\ UNCHANGED ram

\* boot_data_entry_write_impl(): erase, program the digest, then the rest in
\* two windows.  Programming only clears bits, so a word that is not erased
\* does not take its new value.
Erase ==
  /\ pc = "erase" /\ pc' = "digest"
  /\ flash' = [a \in Addr |-> IF a[1] = target[1] THEN EmptyEntry ELSE flash[a]]
  /\ UNCHANGED <<lc, ram, new, target, old, result, faults>>

Programmed(word) == IF word = Erased THEN new ELSE Garbage
ProgramDigest(word) ==
  pc = "digest" /\ flash' = [flash EXCEPT ![target] = [@ EXCEPT !.digest = word]]
ProgramHead(word) ==
  pc = "head" /\ flash' = [flash EXCEPT ![target] = [@ EXCEPT !.head = word]]
ProgramTail(word) ==
  pc = "tail" /\ flash' = [flash EXCEPT ![target] = [@ EXCEPT !.tail = word]]
Program ==
  /\ \/ ProgramDigest(Programmed(flash[target].digest)) /\ pc' = "head"
     \/ ProgramHead(Programmed(flash[target].head)) /\ pc' = "tail"
     \/ ProgramTail(Programmed(flash[target].tail)) /\ pc' = "check"
  /\ UNCHANGED <<lc, ram, new, target, old, result, faults>>

\* [variant] the written entry is not compared.
CheckEntryBlind ==
  /\ pc = "check"
  /\ \/ old = None /\ Return("written")
     \/ old # None /\ pc' = "invalidate" /\ UNCHANGED <<ram, new, target, old, result>>
  /\ UNCHANGED <<flash, lc, faults>>

\* The entry is read back and compared before the old one is touched.
CheckEntry ==
  /\ pc = "check"
  /\ \/ /\ flash[target] # Written(new)
        /\ Return("error")
     \/ /\ flash[target] = Written(new) /\ old = None
        /\ Return("written")
     \/ /\ flash[target] = Written(new) /\ old # None
        /\ pc' = "invalidate" /\ UNCHANGED <<ram, new, target, old, result>>
  /\ UNCHANGED <<flash, lc, faults>>

InvalidateWord(word) ==
  pc = "invalidate" /\ flash' = [flash EXCEPT ![old].is_valid = word]
Invalidate ==
  /\ InvalidateWord(Zeros)
  /\ Return("written")
  /\ UNCHANGED <<lc, faults>>

\* The caller is done: it hands over to the next stage, or resets the chip.
Reset ==
  /\ pc' = "off" /\ ram' = None /\ result' = "none"
  /\ new' = None /\ target' = None /\ old' = None
  /\ UNCHANGED lc
Reboot == pc = "idle" /\ Reset /\ UNCHANGED <<flash, faults>>
-----------------------------------------------------------------------------
\* What a page erase that was cut can leave of an entry: all of it, all but
\* the zeros of is_valid, nothing that reads as written, or nothing.
PartlyErased(e, how) ==
  CASE how = "kept" \/ IsEmpty(e) -> e
    [] how = "revived" /\ ~IsEmpty(e) -> [e EXCEPT !.is_valid = Erased]
    [] how = "scrambled" /\ ~IsEmpty(e) -> ScrambledEntry
    [] how = "erased" /\ ~IsEmpty(e) -> EmptyEntry
CutErase ==
  /\ pc = "erase"
  /\ \E how \in [Index -> {"kept", "revived", "scrambled", "erased"}] :
       flash' = [a \in Addr |-> IF a[1] = target[1]
                                THEN PartlyErased(flash[a], how[a[2]])
                                ELSE flash[a]]

\* What the transaction of this step leaves when it does not complete.
CutTransaction ==
  \/ UNCHANGED flash
  \/ CutErase
  \/ \E word \in {Garbage, new} :
       ProgramDigest(word) \/ ProgramHead(word) \/ ProgramTail(word)
  \/ \E word \in {Garbage, Zeros} : InvalidateWord(word)

Fault == faults < MaxFaults /\ faults' = faults + 1

PowerLoss == pc # "off" /\ Fault /\ CutTransaction /\ Reset

\* wait_for_done() sees the error bit: the write returns it at once.
TransactionError ==
  /\ pc \in {"erase", "digest", "head", "tail", "check", "invalidate"}
  /\ Fault /\ CutTransaction /\ Return("error")
  /\ UNCHANGED lc

\* A program transaction that reports success and did not take.
WeakProgram ==
  /\ Fault
  /\ \/ ProgramDigest(Garbage) /\ pc' = "head"
     \/ ProgramHead(Garbage) /\ pc' = "tail"
     \/ ProgramTail(Garbage) /\ pc' = "check"
  /\ UNCHANGED <<lc, ram, new, target, old, result>>

\* A read transaction of boot_data_write()'s search fails.
SearchError ==
  /\ pc = "idle" /\ result # "read_error" /\ Fault
  /\ \E slot \in BootSlots, s \in Settings :
       ram' = [ram EXCEPT !.slot = slot, !.settings = s]
  /\ result' = "error"
  /\ UNCHANGED <<flash, lc, pc, new, target, old>>

\* A read transaction of boot_data_read() fails.  The caller's buffer is
\* untouched or already holds the last valid entry of page 0, as stored.
ReadError ==
  /\ Fault
  /\ \/ pc = "boot" /\ pc' = "off" /\ UNCHANGED <<ram, result>>
     \/ /\ pc = "idle" /\ pc' = "idle" /\ result' = "read_error"
        /\ \/ UNCHANGED ram
           \/ \E i \in Index :
                LastValid(flash, <<0, i>>) /\ ram' = flash[<<0, i>>].head
  /\ UNCHANGED <<flash, lc, new, target, old>>
-----------------------------------------------------------------------------
Firmware == \/ PowerOn \/ BootDataRead \/ BootDataNotFound \/ Erase
            \/ Program \/ CheckEntry \/ Invalidate
Next == \/ Firmware \/ BootDataWrite \/ Reboot \/ PowerLoss
        \/ TransactionError \/ WeakProgram \/ SearchError \/ ReadError

Spec == Init /\ [][Next]_vars
\* The CPU keeps running; callers need not call, and faults need not happen.
FairSpec == Spec /\ WF_vars(Firmware)
-----------------------------------------------------------------------------
TypeOK ==
  /\ flash \in [Addr -> Entry]
  /\ lc \in LcStates
  /\ pc \in {"off", "boot", "idle", "erase", "digest", "head", "tail",
             "check", "invalidate"}
  /\ ram \in Content \cup {None} /\ new \in Content \cup {None}
  /\ target \in Addr \cup {None} /\ old \in Addr \cup {None}
  /\ result \in {"none", "read", "written", "error", "read_error"}
  /\ faults \in 0 .. MaxFaults

\* boot_data.c:417 "Counters cannot be equal if we have two valid entries":
\* the HARDENED_CHECK_LT behind it would trap at every boot from then on.
\* Holds over every crash, also for entries a cut erase brings back to life.
PagesNeverTie ==
  \A a, b \in Addr :
    a[1] # b[1] /\ LastValid(flash, a) /\ LastValid(flash, b)
      => flash[a].head.counter # flash[b].head.counter

\* Flash words are programmed only while they are erased: the index the search
\* picked is really free, whatever earlier writes that failed left behind.
ProgramsErasedWords ==
  /\ pc = "digest" => IsEmpty(flash[target])
  /\ pc = "head" => flash[target].head = Erased
  /\ pc \in {"head", "tail"} => flash[target].tail = Erased

\* What callers rely on: the two pages behave as one atomic durable record.
Writing == pc \in {"erase", "digest", "head", "tail", "check", "invalidate"}
Store == INSTANCE BootDataStore WITH
  stored <- Stored, request <- IF Writing THEN new ELSE None, copy <- ram
Atomic == Store!Spec

\* A device that got its boot data once gets it at every later boot, whatever
\* the finitely many faults since then did to the flash.
EventuallyBoots == [](pc = "idle" => [](pc = "off" => <>(pc = "idle")))
=============================================================================
