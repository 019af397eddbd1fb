------------------------ MODULE BootDataAtomicProof ------------------------
(***************************************************************************)
(* The two pages implement BootDataStore: whatever is interrupted, a read   *)
(* returns the record before the write or the record of the write, and an   *)
(* acknowledged write has taken effect.                                     *)
(***************************************************************************)
EXTENDS BootDataProof

\* Stored over the contents f of the pages in life cycle state l.
DefaultIn(l) == IF l \in {"Test", "Dev", "Rma"} \/ DefaultInProdEn
                THEN DefaultBootData ELSE None
StoredIn(f, l) ==
  IF \E a \in Addr : Active(f, a)
  THEN AsV2(f[CHOOSE a \in Addr : Active(f, a)].head)
  ELSE IF NoValidEntry(f) THEN DefaultIn(l) ELSE None

LEMMA StoredIsStoredIn ==
  Stored = StoredIn(flash, lc) /\ Stored' = StoredIn(flash', lc')
<1>1. Stored = StoredIn(flash, lc)
  BY DEF Stored, StoredIn, DefaultIn, DefaultAllowed
<1>2. Stored' = StoredIn(flash', lc')
  BY DEF Stored, StoredIn, DefaultIn, DefaultAllowed
<1>. QED BY <1>1, <1>2

\* A read returns the current entry.
LEMMA StoredOfCurrent ==
  ASSUME NEW f \in [Addr -> Entry], NEW c \in Addr, Current(f, c), NEW l
  PROVE  StoredIn(f, l) = AsV2(f[c].digest)
<1>1. Active(f, c) /\ \A a \in Addr : Active(f, a) => a = c
  BY CurrentIsFound
<1>2. c = CHOOSE a \in Addr : Active(f, a)
  BY <1>1
<1>3. f[c].head = f[c].digest
  BY DEF Current, BootDataCheck
<1>. QED BY <1>1, <1>2, <1>3 DEF StoredIn

\* With no intact entry it returns the default, where that is allowed.
LEMMA StoredOfNone ==
  ASSUME NEW f \in [Addr -> Entry], NoneIntact(f), NEW l
  PROVE  StoredIn(f, l) = DefaultIn(l)
  BY NoneIsFound DEF StoredIn

\* While the replaced entry stays current, reads return the same record.
LEMMA SameOldSameStored ==
  ASSUME NEW f \in [Addr -> Entry], NEW g \in [Addr -> Entry], NEW l,
         OldCurrent(f), OldCurrent(g), old \in Addr => g[old] = f[old]
  PROVE  StoredIn(g, l) = StoredIn(f, l)
<1>1. CASE old = None
  BY <1>1, StoredOfNone, MarksAssumption DEF OldCurrent
<1>2. CASE old \in Addr
  <2>1. Current(f, old) /\ Current(g, old)
    BY <1>2, MarksAssumption DEF OldCurrent
  <2>. QED BY <1>2, <2>1, StoredOfCurrent
<1>. QED BY <1>1, <1>2 DEF OldCurrent

\* Once the new entry is current, reads return the record of the write.
LEMMA WrittenIsStored ==
  ASSUME NEW f \in [Addr -> Entry], NEW l, new \in Content, new.version = 2,
         target \in Addr, f[target] = Written(new), Current(f, target)
  PROVE  StoredIn(f, l) = new
<1>1. f[target].digest = new
  BY DEF Written
<1>2. AsV2(new) = new
  BY DEF AsV2
<1>. QED BY <1>1, <1>2, StoredOfCurrent

\* What a read returns after each kind of flash transaction.
LEMMA EraseStored ==
  ASSUME Inv, Erase \/ CutErase
  PROVE  StoredIn(flash', lc) = StoredIn(flash, lc)
<1>1. flash \in [Addr -> Entry] /\ OldCurrent(flash)
  BY DEF Inv, TypeOK, Erasing, Erase, CutErase
<1>2. CASE CutErase
  BY <1>1, <1>2, CutEraseStep, SameOldSameStored
<1>3. CASE Erase
  <2>1. /\ flash' \in [Addr -> Entry]
        /\ \A a \in Addr : a[1] # target[1] => flash'[a] = flash[a]
        /\ \A a \in Addr : a[1] = target[1] => flash'[a] = EmptyEntry
    BY <1>1, <1>3, EntryFacts DEF Erase
  <2>2. OldCurrent(flash') /\ (old \in Addr => flash'[old] = flash[old])
    BY <1>3, <2>1, EntryFacts, EraseStep DEF Erase
  <2>. QED BY <1>1, <2>1, <2>2, SameOldSameStored
<1>. QED BY <1>2, <1>3

LEMMA ProgramStored ==
  ASSUME Inv, NEW w \in Word
  PROVE  /\ ProgramDigest(w) => StoredIn(flash', lc) = StoredIn(flash, lc)
         /\ ProgramHead(w) => StoredIn(flash', lc) = StoredIn(flash, lc)
         /\ ProgramTail(w) => StoredIn(flash', lc) \in {StoredIn(flash, lc), new}
<1>1. flash \in [Addr -> Entry]
  BY DEF Inv, TypeOK
<1>2. ASSUME ProgramDigest(w) PROVE StoredIn(flash', lc) = StoredIn(flash, lc)
  <2>1. OldCurrent(flash)
    BY <1>2 DEF Inv, Digesting, ProgramDigest
  <2>. QED BY <1>1, <1>2, <2>1, DigestStep, SameOldSameStored
<1>3. ASSUME ProgramHead(w) PROVE StoredIn(flash', lc) = StoredIn(flash, lc)
  <2>1. OldCurrent(flash)
    BY <1>3 DEF Inv, Heading, ProgramHead
  <2>. QED BY <1>1, <1>3, <2>1, HeadStep, SameOldSameStored
<1>4. ASSUME ProgramTail(w) PROVE StoredIn(flash', lc) \in {StoredIn(flash, lc), new}
  <2>1. /\ OldCurrent(flash) /\ target \in Addr
        /\ new \in Content /\ new.version = 2
    BY <1>4 DEF Inv, Tailing, BusyTypes, Writing, ProgramTail
  <2>2. /\ flash' \in [Addr -> Entry]
        /\ IF flash'[target] = Written(new) THEN Current(flash', target)
                                            ELSE OldCurrent(flash')
        /\ old \in Addr => flash'[old] = flash[old]
    BY <1>4, TailStep
  <2>3. CASE flash'[target] = Written(new)
    BY <2>1, <2>2, <2>3, WrittenIsStored
  <2>4. CASE flash'[target] # Written(new)
    BY <1>1, <2>1, <2>2, <2>4, SameOldSameStored
  <2>. QED BY <2>3, <2>4
<1>. QED BY <1>2, <1>3, <1>4

LEMMA InvalidateStored ==
  ASSUME Inv, NEW w \in {Zeros, Garbage}, InvalidateWord(w)
  PROVE  StoredIn(flash, lc) = new /\ StoredIn(flash', lc) = new
<1>1. /\ flash \in [Addr -> Entry] /\ new \in Content /\ new.version = 2
      /\ flash[target] = Written(new)
  BY DEF Inv, TypeOK, BusyTypes, Writing, Invalidating, InvalidateWord
<1>. QED BY <1>1, InvalidateStep, WrittenIsStored

LEMMA CutStored ==
  ASSUME Inv, CutTransaction
  PROVE  StoredIn(flash', lc) = StoredIn(flash, lc) \/ (Writing /\ StoredIn(flash', lc) = new)
<1>1. CASE UNCHANGED flash
  BY <1>1
<1>2. CASE CutErase
  BY <1>2, EraseStored
<1>3. ASSUME NEW w \in {Garbage, new}, ProgramDigest(w) \/ ProgramHead(w) \/ ProgramTail(w)
      PROVE  StoredIn(flash', lc) = StoredIn(flash, lc)
             \/ (Writing /\ StoredIn(flash', lc) = new)
  <2>1. w \in Word /\ (ProgramTail(w) => Writing)
    BY DEF Word, ProgramTail, Writing
  <2>. QED BY <1>3, <2>1, ProgramStored
<1>4. ASSUME NEW w \in {Garbage, Zeros}, InvalidateWord(w)
      PROVE  StoredIn(flash', lc) = StoredIn(flash, lc)
  BY <1>4, InvalidateStored
<1>. QED BY <1>1, <1>2, <1>3, <1>4 DEF CutTransaction
-----------------------------------------------------------------------------
\* Past the boot stages there is a record to read.
Booted == pc \notin {"off", "boot"} => Stored # None

\* The request of the abstract record.
Request == IF Writing THEN new ELSE None

LEMMA RequestFacts ==
  /\ Request = (IF Writing THEN new ELSE None)
  /\ Request' = (IF pc' \in {"erase", "digest", "head", "tail", "check", "invalidate"}
                 THEN new' ELSE None)
  BY DEF Request, Writing

\* Steps of the storage that change nothing the caller can observe.
LEMMA Stutters ==
  ASSUME StoredIn(flash', lc') = StoredIn(flash, lc), Request' = Request,
         ram' = ram, result' = result
  PROVE  UNCHANGED Store!vars
<1>1. Stored' = Stored
  BY StoredIsStoredIn
<1>. QED BY <1>1 DEF Store!vars, Request

\* boot_data_write() begins: the new record carries the next counter.
LEMMA WriteBegins ==
  ASSUME Inv, Booted, BootDataWrite
  PROVE  Store!BeginWrite /\ Stored' = Stored
<1>1. /\ flash \in [Addr -> Entry] /\ flash' = flash /\ lc' = lc /\ pc = "idle"
      /\ result' = result /\ Sound(flash) /\ ram \in Content
  BY DEF Inv, TypeOK, Quiet, Copy, BootDataWrite
<1>2. Stored' = Stored /\ Stored = StoredIn(flash, lc) /\ Stored # None
  BY <1>1, StoredIsStoredIn DEF Booted
<1>3. ram' \in Content
  BY <1>1 DEF BootDataWrite, Content
<1>4. ASSUME NEW a \in Addr, Active(flash, a),
             new' = [ram' EXCEPT !.counter = flash[a].head.counter + 1],
             Append(a) \/ SwitchPage(a)
      PROVE  /\ new' = [ram' EXCEPT !.counter = Stored.counter + 1]
             /\ pc' \in {"digest", "erase"}
  <2>1. Current(flash, a)
    BY <1>1, <1>4, CurrentIsFound, NoneIsFound DEF Sound
  <2>2. flash[a].digest \in Content /\ flash[a].head = flash[a].digest
    BY <1>1, <2>1, CheckIsIntact DEF Current, Intact
  <2>3. Stored = AsV2(flash[a].digest)
    BY <1>1, <1>2, <2>1, StoredOfCurrent
  <2>4. ASSUME NEW x \in Content PROVE AsV2(x).counter = x.counter
    BY DEF AsV2, Content
  <2>5. Stored.counter = flash[a].head.counter
    BY <2>2, <2>3, <2>4
  <2>. QED BY <1>4, <2>5 DEF Append, SwitchPage
<1>5. ASSUME FirstEntry
      PROVE  /\ new' = [ram' EXCEPT !.counter = Stored.counter + 1]
             /\ pc' \in {"digest", "erase"}
  <2>1. NoneIntact(flash)
    BY <1>1, <1>5, CurrentIsFound DEF Sound, FirstEntry
  <2>2. Stored = DefaultBootData
    BY <1>1, <1>2, <2>1, StoredOfNone DEF DefaultIn
  <2>. QED BY <1>5, <2>2 DEF FirstEntry, DefaultBootData
<1>6. /\ new' = [ram' EXCEPT !.counter = Stored.counter + 1]
      /\ pc' \in {"digest", "erase"}
  BY <1>4, <1>5 DEF BootDataWrite, ReplaceEntry
<1>7. Request = None /\ Request' = new'
  BY <1>1, <1>6, RequestFacts DEF Writing
<1>. QED BY <1>1, <1>2, <1>3, <1>6, <1>7 DEF Store!BeginWrite, Request

LEMMA WritingFacts ==
  ASSUME Inv, Writing
  PROVE  Request = new /\ new \in Content /\ Request # None
  BY MarksAssumption DEF Inv, BusyTypes, Request

\* A step of the storage is a step of the record, or changes nothing of it.
LEMMA StepRefines ==
  ASSUME Inv, Booted, [Next]_vars
  PROVE  [Store!Next]_(Store!vars) /\ Booted'
<1>0. Stored = StoredIn(flash, lc) /\ Stored' = StoredIn(flash', lc')
  BY StoredIsStoredIn
<1>1. CASE UNCHANGED vars
  <2>1. StoredIn(flash', lc') = StoredIn(flash, lc) /\ Request' = Request
    BY <1>1 DEF vars, Request, Writing
  <2>2. UNCHANGED Store!vars
    BY <1>1, <2>1, Stutters DEF vars
  <2>. QED BY <1>0, <1>1, <2>1, <2>2 DEF vars, Booted
<1>2. CASE PowerOn \/ BootDataNotFound
  <2>1. /\ flash' = flash /\ lc' = lc /\ ram' = ram /\ result' = result
        /\ pc \in {"off", "boot"} /\ pc' \in {"off", "boot"}
    BY <1>2 DEF PowerOn, BootDataNotFound
  <2>2. Request' = Request
    BY <2>1, RequestFacts DEF Writing
  <2>. QED BY <2>1, <2>2, Stutters DEF Booted
<1>3. CASE BootDataRead
  <2>1. Request = None /\ Request' = None /\ Stored' = Stored /\ Stored # None
    BY <1>0, <1>3, RequestFacts DEF BootDataRead, Writing
  <2>2. Store!Read
    BY <1>3, <2>1 DEF Store!Read, BootDataRead, Request
  <2>. QED BY <2>1, <2>2 DEF Store!Next, Booted
<1>4. CASE BootDataWrite
  <2>1. Store!BeginWrite /\ Stored' = Stored /\ Stored # None
    BY <1>4, WriteBegins DEF Booted, BootDataWrite
  <2>. QED BY <2>1 DEF Store!Next, Booted
<1>5. CASE Erase
  <2>1. /\ lc' = lc /\ ram' = ram /\ result' = result /\ new' = new
        /\ pc = "erase" /\ pc' = "digest"
    BY <1>5 DEF Erase
  <2>2. StoredIn(flash', lc') = StoredIn(flash, lc) /\ Request' = Request
    BY <1>5, <2>1, EraseStored, RequestFacts DEF Writing
  <2>. QED BY <1>0, <2>1, <2>2, Stutters DEF Booted
<1>6. ASSUME NEW w \in Word, ProgramDigest(w) \/ ProgramHead(w) \/ ProgramTail(w),
             pc' \in {"head", "tail", "check"}, UNCHANGED <<lc, ram, new, result>>
      PROVE  [Store!Next]_(Store!vars) /\ Booted'
  <2>1. Writing /\ pc \notin {"off", "boot"} /\ Request' = new
    BY <1>6, RequestFacts DEF ProgramDigest, ProgramHead, ProgramTail, Writing
  <2>2. Request = new /\ new # None
    BY <2>1, WritingFacts
  <2>3. Stored' \in {Stored, new} /\ Stored # None
    BY <1>0, <1>6, <2>1, ProgramStored DEF Booted
  <2>4. CASE Stored' = Stored
    <3>1. UNCHANGED Store!vars
      BY <1>0, <1>6, <2>1, <2>2, <2>4, Stutters
    <3>. QED BY <2>3, <2>4, <3>1 DEF Booted
  <2>5. CASE Stored' = new /\ Stored # new
    <3>1. Store!Commit
      BY <1>6, <2>1, <2>2, <2>5 DEF Store!Commit, Request
    <3>. QED BY <2>2, <2>5, <3>1 DEF Store!Next, Booted
  <2>. QED BY <2>3, <2>4, <2>5
<1>7. CASE Program
  <2>1. \A x : Programmed(x) \in Word
    BY DEF Programmed, Word
  <2>. QED BY <1>6, <1>7, <2>1 DEF Program
<1>8. CASE WeakProgram
  BY <1>6, <1>8 DEF WeakProgram, Word
<1>9. CASE CheckEntry
  <2>1. /\ pc = "check" /\ flash' = flash /\ lc' = lc /\ ram' = ram
        /\ Writing /\ Stored' = Stored /\ Stored # None
    BY <1>0, <1>9 DEF CheckEntry, Return, Writing, Booted
  <2>2. Request = new /\ new \in Content /\ new # None
    BY <2>1, WritingFacts
  <2>3. CASE Return("error")
    <3>1. Store!ReturnError
      BY <2>1, <2>2, <2>3, RequestFacts DEF Store!ReturnError, Request, Return
    <3>. QED BY <2>1, <3>1 DEF Store!Next, Booted
  <2>4. flash[target] = Written(new) => Stored = new
    BY <1>0, <2>1, WrittenIsStored DEF Inv, TypeOK, BusyTypes, Checking
  <2>5. CASE flash[target] = Written(new) /\ Return("written")
    <3>1. Store!ReturnOk
      BY <2>1, <2>2, <2>4, <2>5, RequestFacts DEF Store!ReturnOk, Request, Return
    <3>. QED BY <2>1, <3>1 DEF Store!Next, Booted
  <2>6. CASE pc' = "invalidate" /\ UNCHANGED <<ram, new, target, old, result>>
    <3>1. Request' = Request
      BY <2>1, <2>6, RequestFacts
    <3>2. UNCHANGED Store!vars
      BY <1>0, <2>1, <2>6, <3>1, Stutters
    <3>. QED BY <2>1, <3>2 DEF Booted
  <2>. QED BY <1>9, <2>3, <2>5, <2>6 DEF CheckEntry
<1>10. CASE Invalidate
  <2>1. InvalidateWord(Zeros) /\ Return("written") /\ lc' = lc /\ Writing
    BY <1>10 DEF Invalidate, InvalidateWord, Writing
  <2>2. Request = new /\ new \in Content /\ new # None
    BY <2>1, WritingFacts
  <2>3. Stored = new /\ Stored' = new
    BY <1>0, <2>1, InvalidateStored
  <2>4. Store!ReturnOk
    BY <2>1, <2>2, <2>3, RequestFacts DEF Store!ReturnOk, Request, Return
  <2>. QED BY <2>2, <2>3, <2>4 DEF Store!Next, Booted
<1>11. CASE Reboot
  <2>1. Stored' = Stored /\ Request' = None /\ Reset
    BY <1>0, <1>11, RequestFacts DEF Reboot, Reset
  <2>2. Store!Reset
    BY <2>1 DEF Store!Reset, Request, Reset
  <2>. QED BY <2>1, <2>2 DEF Store!Next, Booted, Reset
<1>12. CASE PowerLoss
  <2>1. CutTransaction /\ Reset /\ lc' = lc
    BY <1>12 DEF PowerLoss, Reset
  <2>2. Stored' = Stored \/ (Writing /\ Stored' = new)
    BY <1>0, <2>1, CutStored
  <2>3. Request' = None
    BY <2>1, RequestFacts DEF Reset
  <2>4. Writing => Request = new /\ new # None
    BY WritingFacts
  <2>5. Store!Reset
    BY <2>1, <2>2, <2>3, <2>4 DEF Store!Reset, Request, Reset
  <2>. QED BY <2>1, <2>5 DEF Store!Next, Booted, Reset
<1>13. CASE TransactionError
  <2>1. CutTransaction /\ Return("error") /\ lc' = lc /\ Writing /\ Stored # None
    BY <1>13 DEF TransactionError, Writing, Booted
  <2>2. Stored' = Stored \/ Stored' = new
    BY <1>0, <2>1, CutStored
  <2>3. Request = new /\ new # None /\ Request' = None
    BY <2>1, WritingFacts, RequestFacts DEF Return
  <2>4. Store!ReturnError
    BY <2>1, <2>2, <2>3 DEF Store!ReturnError, Request, Return
  <2>. QED BY <2>1, <2>2, <2>3, <2>4 DEF Store!Next, Booted
<1>14. CASE SearchError
  <2>1. /\ flash' = flash /\ lc' = lc /\ pc = "idle" /\ pc' = "idle"
        /\ result' = "error" /\ ram \in Content
    BY <1>14 DEF SearchError, Inv, Copy
  <2>2. ram' \in Content
    BY <1>14, <2>1 DEF SearchError, Content
  <2>3. Request = None /\ Request' = None /\ Stored' = Stored
    BY <1>0, <2>1, RequestFacts DEF Writing
  <2>4. Store!WriteRejected
    BY <2>1, <2>2, <2>3 DEF Store!WriteRejected, Request
  <2>. QED BY <2>1, <2>3, <2>4 DEF Store!Next, Booted
<1>15. CASE ReadError
  <2>1. flash' = flash /\ lc' = lc /\ Stored' = Stored
    BY <1>0, <1>15 DEF ReadError
  <2>2. CASE pc = "boot" /\ pc' = "off" /\ UNCHANGED <<ram, result>>
    <3>1. Request' = Request
      BY <2>2, RequestFacts DEF Writing
    <3>. QED BY <2>1, <2>2, <3>1, Stutters DEF Booted
  <2>3. CASE pc = "idle" /\ pc' = "idle" /\ result' = "read_error"
    <3>1. Request = None /\ Request' = None
      BY <2>3, RequestFacts DEF Writing
    <3>2. Inv'
      BY NextInv
    <3>3. ram' \in Content \cup {None}
      BY <3>2 DEF Inv, TypeOK
    <3>4. Store!ReadFails
      BY <2>1, <2>3, <3>1, <3>3 DEF Store!ReadFails, Request
    <3>. QED BY <2>1, <2>3, <3>4 DEF Store!Next, Booted
  <2>. QED BY <1>15, <2>2, <2>3 DEF ReadError
<1>. QED BY <1>1, <1>2, <1>3, <1>4, <1>5, <1>7, <1>8, <1>9, <1>10, <1>11, <1>12, <1>13,
            <1>14, <1>15 DEF Next, Firmware

\* boot_data_read() and boot_data_write() over the two flash pages behave as
\* one atomic durable record, under every power loss and flash error modelled.
THEOREM AtomicRecord == Spec => Atomic
<1>1. Init => Store!Init /\ Booted
  <2> SUFFICES ASSUME Init PROVE Store!Init /\ Booted
    OBVIOUS
  <2>1. Stored \in Content \cup {None}
    BY InitInv, StoredIsContent
  <2>. QED BY <2>1 DEF Store!Init, Booted, Init, Writing
<1>2. Inv /\ Booted /\ [Next]_vars => [Store!Next]_(Store!vars) /\ Booted'
  BY StepRefines
<1>. QED BY <1>1, <1>2, InvAlways, PTL DEF Spec, Atomic, Store!Spec
=============================================================================
