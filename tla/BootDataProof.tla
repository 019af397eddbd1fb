--------------------------- MODULE BootDataProof ---------------------------
(***************************************************************************)
(* Proofs about BootData for every number of entries per page, every set of *)
(* settings and every number of faults.  The inductive invariant Inv says   *)
(* which entry is the current one at every point of a write, crash or error *)
(* included, and what it may never be confused with.                        *)
(***************************************************************************)
EXTENDS BootData, TLAPS

\* An entry whose content and digest agree, whatever its is_valid word: one
\* that is valid, was invalidated, or can be revived by a cut page erase.
Intact(e) == e.digest \in Content /\ e.head = e.digest /\ e.tail = e.digest

NoneIntact(f) == \A a \in Addr : ~Intact(f[a])

\* c is the entry every search finds: it is valid and below the first empty
\* entry, everything else that is intact is older, what follows it in its page
\* was torn or is free, and the free entries of the page are its last ones.
Current(f, c) ==
  /\ BootDataCheck(f[c])
  /\ InLog(f, c)
  /\ \A b \in Addr : b # c /\ Intact(f[b]) => f[b].digest.counter < f[c].digest.counter
  /\ \A b \in Addr : b[1] = c[1] /\ b[2] > c[2] => ~Intact(f[b])
  /\ \A b, d \in Addr : b[1] = c[1] /\ d[1] = c[1] /\ b[2] < d[2] /\ IsEmpty(f[b])
                          => IsEmpty(f[d])

Sound(f) == NoneIntact(f) \/ \E c \in Addr : Current(f, c)

\* What the write in progress replaces is still current, and the place it
\* writes to is the first free one of its page.
OldCurrent(f) ==
  \/ old = None /\ NoneIntact(f) /\ new.counter = kBootDataDefaultCounterVal + 1
  \/ /\ old \in Addr /\ Current(f, old)
     /\ new.counter = f[old].digest.counter + 1
Placed(f) ==
  /\ \A b \in Addr : b[1] = target[1] /\ b[2] > target[2] => IsEmpty(f[b])
  /\ \A b \in Addr : b[1] = target[1] /\ b[2] < target[2] => ~IsEmpty(f[b])
  /\ old \in Addr => /\ target[1] = old[1] => old[2] < target[2]
                     /\ target[1] # old[1] => target[2] = 0
  /\ old = None => target[2] = 0
\* The words of the new entry programmed so far.
InFlight(e, d, h, t) ==
  e = [digest |-> d, is_valid |-> Erased, head |-> h, tail |-> t]
Word == {new, Garbage}

Quiet ==
  pc \in {"off", "boot", "idle"} =>
    /\ Sound(flash)
    /\ new = None /\ target = None /\ old = None
BusyTypes ==
  Writing => /\ new \in Content /\ new.version = 2
             /\ target \in Addr /\ old \in Addr \cup {None}
Erasing ==
  pc = "erase" => /\ OldCurrent(flash) /\ target[2] = 0
                  /\ old \in Addr => target[1] # old[1]
Digesting ==
  pc = "digest" => OldCurrent(flash) /\ Placed(flash) /\ IsEmpty(flash[target])
Heading ==
  pc = "head" => /\ OldCurrent(flash) /\ Placed(flash)
                 /\ \E d \in Word : InFlight(flash[target], d, Erased, Erased)
Tailing ==
  pc = "tail" => /\ OldCurrent(flash) /\ Placed(flash)
                 /\ \E d, h \in Word : InFlight(flash[target], d, h, Erased)
Checking ==
  pc = "check" =>
    /\ \E d, h, t \in Word : InFlight(flash[target], d, h, t)
    /\ IF flash[target] = Written(new) THEN Current(flash, target) ELSE OldCurrent(flash)
    /\ old # target
    /\ old \in Addr => flash[old].digest \in Content
Invalidating ==
  pc = "invalidate" => /\ flash[target] = Written(new) /\ Current(flash, target)
                       /\ old \in Addr /\ old # target
                       /\ flash[old].digest \in Content
Copy ==
  /\ pc \in {"off", "boot"} => ram = None
  /\ pc \notin {"off", "boot"} => ram \in Content
  /\ ((pc = "idle" /\ result # "read_error") \/ Writing) => ram.version = 2

Inv ==
  /\ TypeOK /\ Quiet /\ BusyTypes /\ Erasing /\ Digesting /\ Heading
  /\ Tailing /\ Checking /\ Invalidating /\ Copy
-----------------------------------------------------------------------------
\* An entry boot_data_check() accepts is intact.
LEMMA CheckIsIntact ==
  ASSUME NEW e \in Entry, BootDataCheck(e)
  PROVE  Intact(e) /\ ~IsEmpty(e)
  BY MarksAssumption DEF BootDataCheck, Intact, IsEmpty, Entry, Unit, EmptyEntry

\* Addresses are equal when page and index are.
LEMMA AddrEqual ==
  ASSUME NEW a \in Addr, NEW b \in Addr, a[1] = b[1], a[2] = b[2]
  PROVE  a = b
  BY DEF Addr

LEMMA AddrFacts ==
  /\ \A a \in Addr : a[1] \in Pages /\ a[2] \in Index /\ a[2] \in Nat /\ a = <<a[1], a[2]>>
  /\ \A p \in Pages : <<p, 0>> \in Addr
  /\ \A a \in Addr : \A j \in 0 .. a[2] : <<a[1], j>> \in Addr
  BY ConstantsAssumption DEF Addr, Index, Pages

\* The searches find the current entry and no other: the two pages never tie.
LEMMA CurrentIsFound ==
  ASSUME NEW f \in [Addr -> Entry], NEW c \in Addr, Current(f, c)
  PROVE  /\ Active(f, c)
         /\ \A a \in Addr : Active(f, a) => a = c
         /\ ~NoValidEntry(f)
<1>0. \A a \in Addr : BootDataCheck(f[a]) => Intact(f[a]) /\ f[a].head = f[a].digest
  BY CheckIsIntact DEF Intact
<1>1. LastValid(f, c)
  BY <1>0 DEF Current, LastValid
<1>2. \A b \in Addr : b # c /\ LastValid(f, b) => f[b].head.counter < f[c].head.counter
  BY <1>0 DEF Current, LastValid
<1>3. Active(f, c)
  BY <1>1, <1>2 DEF Active
<1>4. ASSUME NEW a \in Addr, Active(f, a), a # c PROVE FALSE
  <2>1. LastValid(f, a)
    BY <1>4 DEF Active
  <2>2. CASE a[1] # c[1]
    <3>1. f[c].head.counter < f[a].head.counter
      BY <1>4, <1>1, <2>2 DEF Active
    <3>2. f[a].head.counter < f[c].head.counter
      BY <1>2, <1>4, <2>1
    <3>3. f[a].head.counter \in Nat /\ f[c].head.counter \in Nat
      BY <1>0, <1>1, <2>1 DEF LastValid, Intact, Content
    <3>. QED BY <3>1, <3>2, <3>3
  <2>3. CASE a[1] = c[1] /\ a[2] > c[2]
    BY <2>1, <2>3, <1>0 DEF Current, LastValid
  <2>4. CASE a[1] = c[1] /\ a[2] < c[2]
    BY <2>1, <2>4, <1>1 DEF LastValid
  <2>5. a[2] \in Nat /\ c[2] \in Nat
    BY AddrFacts
  <2>. QED BY <2>2, <2>3, <2>4, <2>5, <1>4, AddrEqual
<1>. QED BY <1>1, <1>3, <1>4 DEF NoValidEntry

\* With no intact entry the searches find none.
LEMMA NoneIsFound ==
  ASSUME NEW f \in [Addr -> Entry], NoneIntact(f)
  PROVE  NoValidEntry(f) /\ \A a \in Addr : ~Active(f, a)
  BY CheckIsIntact DEF NoneIntact, NoValidEntry, LastValid, Active

\* Programming part of a free entry leaves the current entry current.
LEMMA WriteKeepsCurrent ==
  ASSUME NEW f \in [Addr -> Entry], NEW c \in Addr, NEW t \in Addr, NEW e \in Entry,
         Current(f, c), ~Intact(e), ~IsEmpty(e), t # c,
         t[1] = c[1] => t[2] > c[2],
         \A b \in Addr : b[1] = t[1] /\ b[2] < t[2] => ~IsEmpty(f[b])
  PROVE  Current([f EXCEPT ![t] = e], c)
<1> DEFINE g == [f EXCEPT ![t] = e]
<1>0. g[t] = e /\ \A a \in Addr : a # t => g[a] = f[a]
  OBVIOUS
<1>1. BootDataCheck(g[c])
  BY <1>0 DEF Current
<1>2. InLog(g, c)
  BY <1>0, AddrFacts DEF Current, InLog
<1>3. \A b \in Addr : b # c /\ Intact(g[b]) => g[b].digest.counter < g[c].digest.counter
  BY <1>0 DEF Current
<1>4. \A b \in Addr : b[1] = c[1] /\ b[2] > c[2] => ~Intact(g[b])
  BY <1>0 DEF Current
<1>5. ASSUME NEW b \in Addr, NEW d \in Addr, b[1] = c[1], d[1] = c[1], b[2] < d[2],
             IsEmpty(g[b])
      PROVE  IsEmpty(g[d])
  <2>1. b # t /\ IsEmpty(f[b])
    BY <1>0, <1>5
  <2>2. IsEmpty(f[d])
    BY <2>1, <1>5 DEF Current
  <2>3. d # t
    BY <2>1, <1>5
  <2>. QED BY <2>2, <2>3, <1>0
<1>. HIDE DEF g
<1>6. Current(g, c)
  BY <1>1, <1>2, <1>3, <1>4, <1>5 DEF Current
<1>. QED BY <1>6 DEF g

LEMMA WriteKeepsNone ==
  ASSUME NEW f \in [Addr -> Entry], NEW t \in Addr, NEW e \in Entry,
         NoneIntact(f), ~Intact(e)
  PROVE  NoneIntact([f EXCEPT ![t] = e])
  BY DEF NoneIntact

\* An entry programmed completely, with a counter above all others, is the
\* current one from then on.
LEMMA WriteMakesCurrent ==
  ASSUME NEW f \in [Addr -> Entry], NEW t \in Addr, NEW n \in Content,
         \A b \in Addr : b # t /\ Intact(f[b]) => f[b].digest.counter < n.counter,
         \A b \in Addr : b[1] = t[1] /\ b[2] > t[2] => IsEmpty(f[b]),
         \A b \in Addr : b[1] = t[1] /\ b[2] < t[2] => ~IsEmpty(f[b])
  PROVE  Current([f EXCEPT ![t] = Written(n)], t)
<1> DEFINE g == [f EXCEPT ![t] = Written(n)]
<1>0. g[t] = Written(n) /\ \A a \in Addr : a # t => g[a] = f[a]
  OBVIOUS
<1>1. /\ Written(n) \in Entry /\ Written(n).digest = n
      /\ BootDataCheck(Written(n)) /\ ~IsEmpty(Written(n))
  BY MarksAssumption DEF Written, Entry, Unit, BootDataCheck, IsEmpty, EmptyEntry
<1>2. \A e : IsEmpty(e) => ~Intact(e)
  BY MarksAssumption DEF IsEmpty, EmptyEntry, Intact
<1>3. InLog(g, t)
  <2>1. ASSUME NEW j \in 0 .. t[2] PROVE ~IsEmpty(g[<<t[1], j>>])
    <3>1. <<t[1], j>> \in Addr /\ t[2] \in Nat /\ t = <<t[1], t[2]>>
      BY AddrFacts
    <3>2. CASE j = t[2]
      BY <3>1, <3>2, <1>0, <1>1
    <3>3. CASE j < t[2]
      <4>1. <<t[1], j>> # t
        BY <3>1, <3>3
      <4>. QED BY <3>1, <3>3, <4>1, <1>0
    <3>. QED BY <3>1, <3>2, <3>3
  <2>. QED BY <2>1 DEF InLog
<1>4. \A b \in Addr : b # t /\ Intact(g[b]) => g[b].digest.counter < g[t].digest.counter
  BY <1>0, <1>1
<1>5. \A b \in Addr : b[1] = t[1] /\ b[2] > t[2] => ~Intact(g[b])
  <2>1. \A b \in Addr : b[2] > t[2] => b # t
    BY AddrFacts
  <2>. QED BY <2>1, <1>0, <1>2
<1>6. ASSUME NEW b \in Addr, NEW d \in Addr, b[1] = t[1], d[1] = t[1], b[2] < d[2],
             IsEmpty(g[b])
      PROVE  IsEmpty(g[d])
  <2>1. b # t /\ IsEmpty(f[b])
    BY <1>0, <1>1, <1>6
  <2>2. b[2] \in Nat /\ t[2] \in Nat /\ d[2] \in Nat
    BY AddrFacts
  <2>3. b[2] > t[2]
    BY <2>1, <2>2, <1>6, AddrEqual
  <2>. QED BY <2>2, <2>3, <1>6, <1>0
<1>. HIDE DEF g
<1>7. Current(g, t)
  BY <1>0, <1>1, <1>3, <1>4, <1>5, <1>6 DEF Current
<1>. QED BY <1>7 DEF g

\* Erasing the other page, completely or not, leaves the current entry current.
LEMMA EraseKeepsCurrent ==
  ASSUME NEW f \in [Addr -> Entry], NEW g \in [Addr -> Entry], NEW c \in Addr,
         Current(f, c),
         \A a \in Addr : a[1] = c[1] => g[a] = f[a],
         \A a \in Addr : Intact(g[a]) => Intact(f[a]) /\ g[a].digest = f[a].digest
  PROVE  Current(g, c)
<1>1. BootDataCheck(g[c]) /\ g[c] = f[c]
  BY DEF Current
<1>2. InLog(g, c)
  <2>1. \A j \in 0 .. c[2] : <<c[1], j>> \in Addr /\ <<c[1], j>>[1] = c[1]
    BY AddrFacts
  <2>. QED BY <2>1 DEF Current, InLog
<1>. QED BY <1>1, <1>2 DEF Current

\* Invalidating another entry leaves the current entry current.
LEMMA InvalidateKeepsCurrent ==
  ASSUME NEW f \in [Addr -> Entry], NEW c \in Addr, NEW o \in Addr,
         NEW w \in {Zeros, Garbage},
         Current(f, c), o # c, f[o].digest \in Content
  PROVE  Current([f EXCEPT ![o].is_valid = w], c)
<1> DEFINE g == [f EXCEPT ![o].is_valid = w]
<1>0. g[o] = [f[o] EXCEPT !.is_valid = w] /\ \A a \in Addr : a # o => g[a] = f[a]
  OBVIOUS
<1>1. f[o] \in Entry
  OBVIOUS
<1>2. ~IsEmpty(g[o]) /\ ~IsEmpty(f[o])
  BY <1>0, <1>1, MarksAssumption DEF IsEmpty, EmptyEntry, Entry
<1>3. (Intact(g[o]) => Intact(f[o])) /\ g[o].digest = f[o].digest
  BY <1>0, <1>1 DEF Intact, Entry
<1>4. InLog(g, c)
  BY <1>0, <1>2, AddrFacts DEF Current, InLog
<1>5. \A b \in Addr : (Intact(g[b]) => Intact(f[b])) /\ (IsEmpty(g[b]) <=> IsEmpty(f[b]))
                        /\ g[b].digest = f[b].digest
  BY <1>0, <1>2, <1>3
<1>6. g[c] = f[c]
  BY <1>0
<1>. HIDE DEF g
<1>7. Current(g, c)
  BY <1>4, <1>5, <1>6 DEF Current
<1>. QED BY <1>7 DEF g
-----------------------------------------------------------------------------
\* Facts about entries.
LEMMA EntryFacts ==
  /\ EmptyEntry \in Entry /\ ScrambledEntry \in Entry
  /\ \A e : IsEmpty(e) => ~Intact(e)
  /\ ~Intact(ScrambledEntry) /\ ~Intact(EmptyEntry)
  /\ \A n \in Content : Written(n) \in Entry /\ Written(n).digest = n
                        /\ Intact(Written(n)) /\ ~IsEmpty(Written(n))
  BY MarksAssumption
  DEF EmptyEntry, ScrambledEntry, Entry, Unit, IsEmpty, Intact, Written

\* What is in flight is intact only once every word of it is the new record.
LEMMA InFlightFacts ==
  ASSUME NEW n \in Content, NEW d \in {n, Garbage, Erased},
         NEW h \in {n, Garbage, Erased}, NEW t \in {n, Garbage, Erased},
         NEW e, InFlight(e, d, h, t)
  PROVE  /\ e \in Entry
         /\ e # Written(n) => ~Intact(e)
         /\ d # Erased => ~IsEmpty(e)
         /\ e = Written(n) <=> d = n /\ h = n /\ t = n
  BY MarksAssumption DEF InFlight, Entry, Unit, Intact, Written, IsEmpty, EmptyEntry

LEMMA OldCurrentIsSound ==
  ASSUME NEW f, OldCurrent(f)
  PROVE  Sound(f)
  BY DEF OldCurrent, Sound

LEMMA InitInv == Init => Inv
<1> SUFFICES ASSUME Init PROVE Inv
  OBVIOUS
<1> USE DEF Init
<1>1. ASSUME NEW s \in Settings
      PROVE  [version |-> 1, slot |-> "unset", settings |-> s,
              counter |-> kBootDataDefaultCounterVal + 1] \in Content
  BY DEF Content, kBootDataDefaultCounterVal
<1>2. CASE flash = [a \in Addr |-> EmptyEntry]
  <2>1. flash \in [Addr -> Entry] /\ NoneIntact(flash)
    BY <1>2, EntryFacts DEF NoneIntact
  <2>2. TypeOK
    BY <2>1, ConstantsAssumption DEF TypeOK
  <2>. QED BY <2>1, <2>2 DEF Inv, Quiet, Sound, BusyTypes, Writing, Erasing, Digesting,
                             Heading, Tailing, Checking, Invalidating, Copy
<1>3. CASE \E s \in Settings :
          flash = [a \in Addr |->
            IF a = <<0, 0>>
            THEN Written([version |-> 1, slot |-> "unset", settings |-> s,
                          counter |-> kBootDataDefaultCounterVal + 1])
            ELSE EmptyEntry]
  <2> PICK s \in Settings :
          flash = [a \in Addr |->
            IF a = <<0, 0>>
            THEN Written([version |-> 1, slot |-> "unset", settings |-> s,
                          counter |-> kBootDataDefaultCounterVal + 1])
            ELSE EmptyEntry]
    BY <1>3
  <2> DEFINE n == [version |-> 1, slot |-> "unset", settings |-> s,
                   counter |-> kBootDataDefaultCounterVal + 1]
             e0 == [a \in Addr |-> EmptyEntry]
             z == <<0, 0>>
  <2>1. n \in Content /\ z \in Addr /\ z[1] = 0 /\ z[2] = 0
    BY <1>1, AddrFacts DEF Pages
  <2>2. flash = [e0 EXCEPT ![z] = Written(n)] /\ e0 \in [Addr -> Entry]
    BY EntryFacts
  <2>3. \A b \in Addr : IsEmpty(e0[b]) /\ ~Intact(e0[b])
    BY EntryFacts DEF IsEmpty
  <2>4. \A b \in Addr : ~(b[2] < z[2])
    BY <2>1, AddrFacts
  <2> HIDE DEF n, e0, z
  <2>5. Current(flash, z)
    <3>1. /\ \A b \in Addr : b # z /\ Intact(e0[b]) => e0[b].digest.counter < n.counter
          /\ \A b \in Addr : b[1] = z[1] /\ b[2] > z[2] => IsEmpty(e0[b])
          /\ \A b \in Addr : b[1] = z[1] /\ b[2] < z[2] => ~IsEmpty(e0[b])
      BY <2>3, <2>4
    <3>2. Current([e0 EXCEPT ![z] = Written(n)], z)
      BY <3>1, <2>1, <2>2, WriteMakesCurrent
    <3>. QED BY <3>2, <2>2
  <2>6. flash \in [Addr -> Entry]
    BY <2>1, <2>2, EntryFacts
  <2>7. TypeOK
    BY <2>6, ConstantsAssumption DEF TypeOK
  <2>. QED BY <2>1, <2>5, <2>7 DEF Inv, Quiet, Sound, BusyTypes, Writing, Erasing, Digesting,
                             Heading, Tailing, Checking, Invalidating, Copy
<1>. QED BY <1>2, <1>3
-----------------------------------------------------------------------------
\* Until the last word is programmed the write has changed nothing yet.
LEMMA ProgramKeepsOld ==
  ASSUME NEW f \in [Addr -> Entry], NEW e \in Entry, ~Intact(e), ~IsEmpty(e),
         target \in Addr, old \in Addr \cup {None}, OldCurrent(f), Placed(f)
  PROVE  /\ OldCurrent([f EXCEPT ![target] = e])
         /\ Placed([f EXCEPT ![target] = e])
         /\ target # old
         /\ old \in Addr => [f EXCEPT ![target] = e][old] = f[old]
<1> DEFINE g == [f EXCEPT ![target] = e]
<1>0. g[target] = e /\ \A a \in Addr : a # target => g[a] = f[a]
  OBVIOUS
<1>1. target # old
  BY MarksAssumption, AddrFacts DEF Placed
<1>2. Placed(g)
  <2>1. \A b \in Addr : b[2] > target[2] \/ b[2] < target[2] => b # target
    BY AddrFacts
  <2>. QED BY <2>1, <1>0 DEF Placed
<1>3. CASE old = None
  <2>1. NoneIntact(f) /\ new.counter = kBootDataDefaultCounterVal + 1
    BY <1>3, MarksAssumption DEF OldCurrent
  <2>2. NoneIntact(g)
    BY <2>1, WriteKeepsNone
  <2>. QED BY <1>1, <1>2, <1>3, <2>1, <2>2, MarksAssumption DEF OldCurrent
<1>4. CASE old \in Addr
  <2>1. Current(f, old) /\ new.counter = f[old].digest.counter + 1
    BY <1>4, MarksAssumption DEF OldCurrent
  <2>2. target[1] = old[1] => target[2] > old[2]
    BY <1>4, AddrFacts DEF Placed
  <2>3. \A b \in Addr : b[1] = target[1] /\ b[2] < target[2] => ~IsEmpty(f[b])
    BY DEF Placed
  <2>4. Current(g, old)
    BY <1>1, <1>4, <2>1, <2>2, <2>3, WriteKeepsCurrent
  <2>. HIDE DEF g
  <2>5. OldCurrent(g)
    BY <1>0, <1>1, <1>4, <2>1, <2>4 DEF OldCurrent
  <2>6. g[old] = f[old]
    BY <1>0, <1>1, <1>4
  <2>. QED BY <2>5, <2>6, <1>1, <1>2 DEF g
<1>. QED BY <1>3, <1>4

\* With the last word the new entry becomes the current one.
LEMMA ProgramCommits ==
  ASSUME NEW f \in [Addr -> Entry], new \in Content,
         target \in Addr, old \in Addr \cup {None}, OldCurrent(f), Placed(f)
  PROVE  Current([f EXCEPT ![target] = Written(new)], target)
<1>1. ASSUME NEW b \in Addr, Intact(f[b]) PROVE f[b].digest.counter < new.counter
  <2>1. CASE old = None
    BY <1>1, <2>1, MarksAssumption DEF OldCurrent, NoneIntact
  <2>2. CASE old \in Addr
    <3>1. Current(f, old) /\ new.counter = f[old].digest.counter + 1
      BY <2>2, MarksAssumption DEF OldCurrent
    <3>2. Intact(f[old])
      BY <2>2, <3>1, CheckIsIntact DEF Current
    <3>3. f[old].digest.counter \in Nat /\ f[b].digest.counter \in Nat
      BY <1>1, <3>2 DEF Intact, Content
    <3>4. b # old => f[b].digest.counter < f[old].digest.counter
      BY <1>1, <3>1 DEF Current
    <3>. QED BY <3>1, <3>3, <3>4
  <2>. QED BY <2>1, <2>2
<1>2. /\ \A b \in Addr : b[1] = target[1] /\ b[2] > target[2] => IsEmpty(f[b])
      /\ \A b \in Addr : b[1] = target[1] /\ b[2] < target[2] => ~IsEmpty(f[b])
  BY DEF Placed
<1>. QED BY <1>1, <1>2, WriteMakesCurrent

\* The state after a program transaction, whether it took or not.
LEMMA DigestStep ==
  ASSUME Inv, NEW w \in Word, ProgramDigest(w)
  PROVE  /\ flash' \in [Addr -> Entry] /\ OldCurrent(flash') /\ Placed(flash')
         /\ InFlight(flash'[target], w, Erased, Erased)
         /\ old \in Addr => flash'[old] = flash[old]
<1>1. /\ flash \in [Addr -> Entry] /\ target \in Addr /\ new \in Content
      /\ old \in Addr \cup {None}
      /\ OldCurrent(flash) /\ Placed(flash)
      /\ InFlight(flash[target], Erased, Erased, Erased)
  BY DEF Inv, TypeOK, BusyTypes, Writing, Digesting, ProgramDigest, IsEmpty, EmptyEntry,
         InFlight
<1> DEFINE e == [digest |-> w, is_valid |-> Erased, head |-> Erased, tail |-> Erased]
<1>2. flash' = [flash EXCEPT ![target] = e]
  <2>1. [flash[target] EXCEPT !.digest = w] = e
    BY <1>1 DEF InFlight
  <2>. QED BY <2>1 DEF ProgramDigest
<1>3. InFlight(e, w, Erased, Erased)
  BY DEF InFlight
<1>4. w \in {new, Garbage, Erased} /\ w # Erased
  BY <1>1, MarksAssumption DEF Word
<1>5. Erased # new
  BY <1>1, MarksAssumption
<1> HIDE DEF e
<1>6. e \in Entry /\ ~Intact(e) /\ ~IsEmpty(e)
  BY <1>1, <1>3, <1>4, <1>5, InFlightFacts
<1>. QED BY <1>1, <1>2, <1>3, <1>6, ProgramKeepsOld

LEMMA HeadStep ==
  ASSUME Inv, NEW w \in Word, ProgramHead(w)
  PROVE  /\ flash' \in [Addr -> Entry] /\ OldCurrent(flash') /\ Placed(flash')
         /\ \E d \in Word : InFlight(flash'[target], d, w, Erased)
         /\ old \in Addr => flash'[old] = flash[old]
<1>1. /\ flash \in [Addr -> Entry] /\ target \in Addr /\ new \in Content
      /\ old \in Addr \cup {None}
      /\ OldCurrent(flash) /\ Placed(flash)
      /\ \E d \in Word : InFlight(flash[target], d, Erased, Erased)
  BY DEF Inv, TypeOK, BusyTypes, Writing, Heading, ProgramHead
<1> PICK d \in Word : InFlight(flash[target], d, Erased, Erased)
  BY <1>1
<1> DEFINE e == [digest |-> d, is_valid |-> Erased, head |-> w, tail |-> Erased]
<1>2. flash' = [flash EXCEPT ![target] = e]
  <2>1. [flash[target] EXCEPT !.head = w] = e
    BY <1>1 DEF InFlight
  <2>. QED BY <2>1 DEF ProgramHead
<1>3. InFlight(e, d, w, Erased)
  BY DEF InFlight
<1>4. w \in {new, Garbage, Erased} /\ d \in {new, Garbage, Erased} /\ d # Erased
  BY <1>1, MarksAssumption DEF Word
<1>5. Erased # new
  BY <1>1, MarksAssumption
<1> HIDE DEF e
<1>6. e \in Entry /\ ~Intact(e) /\ ~IsEmpty(e)
  BY <1>1, <1>3, <1>4, <1>5, InFlightFacts
<1>. QED BY <1>1, <1>2, <1>3, <1>6, ProgramKeepsOld

LEMMA TailStep ==
  ASSUME Inv, NEW w \in Word, ProgramTail(w)
  PROVE  /\ flash' \in [Addr -> Entry]
         /\ \E d, h \in Word : InFlight(flash'[target], d, h, w)
         /\ IF flash'[target] = Written(new) THEN Current(flash', target)
                                             ELSE OldCurrent(flash')
         /\ old # target
         /\ old \in Addr => flash'[old] = flash[old] /\ flash'[old].digest \in Content
<1>1. /\ flash \in [Addr -> Entry] /\ target \in Addr /\ new \in Content
      /\ old \in Addr \cup {None}
      /\ OldCurrent(flash) /\ Placed(flash)
      /\ \E d, h \in Word : InFlight(flash[target], d, h, Erased)
  BY DEF Inv, TypeOK, BusyTypes, Writing, Tailing, ProgramTail
<1> PICK d \in Word, h \in Word : InFlight(flash[target], d, h, Erased)
  BY <1>1
<1> DEFINE e == [digest |-> d, is_valid |-> Erased, head |-> h, tail |-> w]
<1>2. flash' = [flash EXCEPT ![target] = e]
  <2>1. [flash[target] EXCEPT !.tail = w] = e
    BY <1>1 DEF InFlight
  <2>. QED BY <2>1 DEF ProgramTail
<1>3. InFlight(e, d, h, w)
  BY DEF InFlight
<1>4. /\ w \in {new, Garbage, Erased} /\ h \in {new, Garbage, Erased}
      /\ d \in {new, Garbage, Erased} /\ d # Erased
  BY <1>1, MarksAssumption DEF Word
<1> HIDE DEF e
<1>5. e \in Entry /\ ~IsEmpty(e) /\ (e # Written(new) => ~Intact(e))
  BY <1>1, <1>3, <1>4, InFlightFacts
<1>6. flash' \in [Addr -> Entry] /\ flash'[target] = e
  BY <1>1, <1>2, <1>5
<1>7. target # old
  BY <1>1, MarksAssumption, AddrFacts DEF Placed
<1>8. old \in Addr => flash'[old] = flash[old] /\ flash'[old].digest \in Content
  BY <1>1, <1>2, <1>7, MarksAssumption, CheckIsIntact DEF OldCurrent, Current, Intact
<1>9. e = Written(new) => Current(flash', target)
  BY <1>1, <1>2, ProgramCommits
<1>10. e # Written(new) => OldCurrent(flash')
  BY <1>1, <1>2, <1>5, ProgramKeepsOld
<1>. QED BY <1>3, <1>6, <1>7, <1>8, <1>9, <1>10

\* The state after an attempt to invalidate the old entry.
LEMMA InvalidateStep ==
  ASSUME Inv, NEW w \in {Zeros, Garbage}, InvalidateWord(w)
  PROVE  /\ flash' \in [Addr -> Entry] /\ target \in Addr
         /\ Current(flash, target) /\ Current(flash', target)
         /\ flash'[target] = flash[target]
<1>1. /\ flash \in [Addr -> Entry] /\ target \in Addr /\ Current(flash, target)
      /\ old \in Addr /\ old # target /\ flash[old].digest \in Content
      /\ flash' = [flash EXCEPT ![old].is_valid = w]
  BY DEF Inv, TypeOK, BusyTypes, Writing, Invalidating, InvalidateWord
<1>2. flash' \in [Addr -> Entry]
  BY <1>1 DEF Entry
<1>. QED BY <1>1, <1>2, InvalidateKeepsCurrent

\* A page erase, whatever it leaves, does not touch the current entry.
LEMMA EraseStep ==
  ASSUME Inv, pc = "erase", flash' \in [Addr -> Entry],
         \A a \in Addr : a[1] # target[1] => flash'[a] = flash[a],
         \A a \in Addr : Intact(flash'[a]) => Intact(flash[a]) /\ flash'[a].digest = flash[a].digest
  PROVE  OldCurrent(flash') /\ (old \in Addr => flash'[old] = flash[old])
<1>1. /\ flash \in [Addr -> Entry] /\ OldCurrent(flash)
      /\ old \in Addr => target[1] # old[1]
  BY DEF Inv, TypeOK, Erasing
<1>2. CASE old = None
  BY <1>1, <1>2, MarksAssumption DEF OldCurrent, NoneIntact
<1>3. CASE old \in Addr
  <2>1. Current(flash, old) /\ new.counter = flash[old].digest.counter + 1
    BY <1>1, <1>3, MarksAssumption DEF OldCurrent
  <2>2. \A a \in Addr : a[1] = old[1] => flash'[a] = flash[a]
    BY <1>1, <1>3
  <2>3. Current(flash', old)
    BY <1>1, <1>3, <2>1, <2>2, EraseKeepsCurrent
  <2>. QED BY <1>3, <2>1, <2>2, <2>3 DEF OldCurrent
<1>. QED BY <1>1, <1>2, <1>3 DEF OldCurrent

LEMMA CutEraseStep ==
  ASSUME Inv, CutErase
  PROVE  /\ flash' \in [Addr -> Entry] /\ OldCurrent(flash')
         /\ old \in Addr => flash'[old] = flash[old]
<1>1. flash \in [Addr -> Entry] /\ pc = "erase"
  BY DEF Inv, TypeOK, CutErase
<1> PICK how \in [Index -> {"kept", "revived", "scrambled", "erased"}] :
       flash' = [a \in Addr |-> IF a[1] = target[1]
                                THEN PartlyErased(flash[a], how[a[2]])
                                ELSE flash[a]]
  BY DEF CutErase
<1>2. ASSUME NEW e \in Entry, NEW x \in {"kept", "revived", "scrambled", "erased"}
      PROVE  /\ PartlyErased(e, x) \in Entry
             /\ Intact(PartlyErased(e, x)) => Intact(e) /\ PartlyErased(e, x).digest = e.digest
  <2>1. CASE IsEmpty(e) \/ x = "kept"
    BY <2>1 DEF PartlyErased
  <2>2. CASE ~IsEmpty(e) /\ x = "revived"
    <3>1. PartlyErased(e, x) = [e EXCEPT !.is_valid = Erased]
      BY <2>2 DEF PartlyErased
    <3>. QED BY <3>1 DEF Entry, Intact
  <2>3. CASE ~IsEmpty(e) /\ x = "scrambled"
    BY <2>3, EntryFacts DEF PartlyErased
  <2>4. CASE ~IsEmpty(e) /\ x = "erased"
    BY <2>4, EntryFacts DEF PartlyErased
  <2>. QED BY <2>1, <2>2, <2>3, <2>4
<1>3. \A a \in Addr : how[a[2]] \in {"kept", "revived", "scrambled", "erased"}
  BY AddrFacts
<1>4. flash' \in [Addr -> Entry]
  BY <1>1, <1>2, <1>3
<1>5. \A a \in Addr : a[1] # target[1] => flash'[a] = flash[a]
  OBVIOUS
<1>6. \A a \in Addr : Intact(flash'[a]) => Intact(flash[a]) /\ flash'[a].digest = flash[a].digest
  BY <1>1, <1>2, <1>3
<1>. QED BY <1>1, <1>4, <1>5, <1>6, EraseStep

\* After any cut transaction there is a current entry, or still none at all.
LEMMA CutIsSound ==
  ASSUME Inv, CutTransaction
  PROVE  flash' \in [Addr -> Entry] /\ Sound(flash')
<1>1. CASE UNCHANGED flash
  <2>1. CASE pc \in {"off", "boot", "idle"}
    BY <1>1, <2>1 DEF Inv, TypeOK, Quiet
  <2>2. CASE pc \in {"erase", "digest", "head", "tail"}
    <3>1. OldCurrent(flash)
      BY <2>2 DEF Inv, Erasing, Digesting, Heading, Tailing
    <3>2. Sound(flash)
      BY <3>1, OldCurrentIsSound
    <3>. QED BY <1>1, <3>2 DEF Inv, TypeOK
  <2>3. CASE pc \in {"check", "invalidate"}
    <3>1. target \in Addr /\ (Current(flash, target) \/ OldCurrent(flash))
      BY <2>3 DEF Inv, Checking, Invalidating, BusyTypes, Writing
    <3>2. Sound(flash)
      BY <3>1, OldCurrentIsSound DEF Sound
    <3>. QED BY <1>1, <3>2 DEF Inv, TypeOK
  <2>. QED BY <2>1, <2>2, <2>3 DEF Inv, TypeOK
<1>2. CASE CutErase
  BY <1>2, CutEraseStep, OldCurrentIsSound
<1>3. ASSUME NEW w \in {Garbage, new}, ProgramDigest(w)
      PROVE  flash' \in [Addr -> Entry] /\ Sound(flash')
  BY <1>3, DigestStep, OldCurrentIsSound DEF Word
<1>4. ASSUME NEW w \in {Garbage, new}, ProgramHead(w)
      PROVE  flash' \in [Addr -> Entry] /\ Sound(flash')
  BY <1>4, HeadStep, OldCurrentIsSound DEF Word
<1>5. ASSUME NEW w \in {Garbage, new}, ProgramTail(w)
      PROVE  flash' \in [Addr -> Entry] /\ Sound(flash')
  <2>1. target \in Addr
    BY <1>5 DEF Inv, BusyTypes, Writing, ProgramTail
  <2>2. flash' \in [Addr -> Entry] /\ (Current(flash', target) \/ OldCurrent(flash'))
    BY <1>5, TailStep DEF Word
  <2>. QED BY <2>1, <2>2, OldCurrentIsSound DEF Sound
<1>6. ASSUME NEW w \in {Garbage, Zeros}, InvalidateWord(w)
      PROVE  flash' \in [Addr -> Entry] /\ Sound(flash')
  BY <1>6, InvalidateStep DEF Sound
<1>. QED BY <1>1, <1>2, <1>3, <1>4, <1>5, <1>6 DEF CutTransaction

\* Back in the caller, or in reset, nothing of the write is left.
LEMMA QuietInv ==
  ASSUME flash' \in [Addr -> Entry], Sound(flash'), lc' \in LcStates,
         pc' \in {"off", "boot", "idle"}, faults' \in 0 .. MaxFaults,
         new' = None, target' = None, old' = None,
         result' \in {"none", "read", "written", "error", "read_error"},
         pc' \in {"off", "boot"} => ram' = None,
         pc' = "idle" => ram' \in Content,
         pc' = "idle" /\ result' # "read_error" => ram'.version = 2
  PROVE  Inv'
<1>1. TypeOK'
  BY DEF TypeOK
<1>2. Quiet'
  BY DEF Quiet
<1>. QED BY <1>1, <1>2 DEF Inv, BusyTypes, Writing, Erasing, Digesting, Heading, Tailing,
                           Checking, Invalidating, Copy

LEMMA StoredIsContent ==
  ASSUME Inv
  PROVE  /\ Stored \in Content \cup {None}
         /\ Stored # None => Stored.version = 2
<1>1. flash \in [Addr -> Entry]
  BY DEF Inv, TypeOK
<1>2. ASSUME NEW x \in Content
      PROVE  AsV2(x) \in Content /\ AsV2(x).version = 2
  BY DEF AsV2, Content, BootSlots
<1>3. DefaultBootData \in Content /\ DefaultBootData.version = 2
  BY ConstantsAssumption DEF DefaultBootData, Content, kBootDataDefaultCounterVal, BootSlots
<1>4. CASE \E a \in Addr : Active(flash, a)
  <2> DEFINE a == CHOOSE x \in Addr : Active(flash, x)
  <2>1. a \in Addr /\ Active(flash, a)
    BY <1>4
  <2>2. flash[a] \in Entry
    BY <1>1, <2>1
  <2> HIDE DEF a
  <2>3. flash[a].head \in Content
    BY <2>1, <2>2, CheckIsIntact DEF Active, LastValid, Intact
  <2>. QED BY <1>2, <1>4, <2>3 DEF Stored, a
<1>5. CASE ~\E a \in Addr : Active(flash, a)
  BY <1>3, <1>5 DEF Stored
<1>. QED BY <1>4, <1>5

LEMMA BootDataWriteInv ==
  ASSUME Inv, BootDataWrite
  PROVE  Inv'
<1>1. /\ flash \in [Addr -> Entry] /\ flash' = flash /\ lc' = lc /\ lc \in LcStates
      /\ pc = "idle" /\ Sound(flash) /\ ram \in Content /\ ram.version = 2
      /\ result' = result /\ result \in {"none", "read", "written", "error", "read_error"}
      /\ faults' = faults /\ faults \in 0 .. MaxFaults
  BY DEF Inv, TypeOK, Quiet, Copy, BootDataWrite
<1>2. ram' \in Content /\ ram'.version = 2
  BY <1>1 DEF BootDataWrite, Content
<1>3. ASSUME NEW n \in Nat
      PROVE  /\ [ram' EXCEPT !.counter = n] \in Content
             /\ [ram' EXCEPT !.counter = n].counter = n
             /\ [ram' EXCEPT !.counter = n].version = 2
  BY <1>2 DEF Content
<1>4. ASSUME NEW a \in Addr, Active(flash, a),
             new' = [ram' EXCEPT !.counter = flash[a].head.counter + 1],
             Append(a) \/ SwitchPage(a), old' = a
      PROVE  Inv'
  <2>1. Current(flash, a)
    BY <1>1, <1>4, CurrentIsFound, NoneIsFound DEF Sound
  <2>2. flash[a].digest \in Content /\ flash[a].head = flash[a].digest /\ ~IsEmpty(flash[a])
    BY <1>1, <2>1, CheckIsIntact DEF Current, Intact
  <2>3. flash[a].head.counter + 1 \in Nat
    BY <2>2 DEF Content
  <2>4. /\ new' \in Content /\ new'.version = 2
        /\ new'.counter = flash[a].digest.counter + 1
    BY <1>3, <1>4, <2>2, <2>3
  <2>5. OldCurrent(flash)'
    BY <1>1, <1>4, <2>1, <2>4 DEF OldCurrent
  <2>6. CASE Append(a)
    <3> PICK k \in Addr : /\ k[1] = a[1] /\ FirstEmpty(flash, k)
                          /\ target' = k /\ pc' = "digest"
      BY <2>6 DEF Append
    <3>1. \A b \in Addr : b[1] = k[1] /\ b[2] > k[2] => IsEmpty(flash[b])
      BY <2>1, AddrFacts DEF Current, FirstEmpty
    <3>2. ASSUME NEW b \in Addr, b[1] = k[1], b[2] < k[2]
          PROVE  ~IsEmpty(flash[b])
      <4>1. b[2] \in 0 .. k[2] - 1 /\ b = <<k[1], b[2]>>
        BY <3>2, AddrFacts
      <4>. QED BY <4>1 DEF FirstEmpty
    <3>3. a[2] < k[2]
      <4>1. ~(k[2] \in 0 .. a[2])
        <5>1. k = <<a[1], k[2]>> /\ IsEmpty(flash[k])
          BY AddrFacts DEF FirstEmpty
        <5>. QED BY <5>1, <2>1 DEF Current, InLog
      <4>. QED BY <4>1, AddrFacts
    <3>4. Placed(flash)'
      BY <1>1, <1>4, <3>1, <3>2, <3>3, MarksAssumption DEF Placed
    <3>5. IsEmpty(flash[target])'
      BY <1>1 DEF FirstEmpty
    <3>6. TypeOK'
      BY <1>1, <1>2, <1>4, <2>4 DEF TypeOK
    <3>. QED BY <1>2, <1>4, <2>4, <2>5, <3>4, <3>5, <3>6
             DEF Inv, Quiet, BusyTypes, Writing, Erasing, Digesting, Heading, Tailing,
                 Checking, Invalidating, Copy
  <2>7. CASE SwitchPage(a)
    <3>1. /\ target' = <<1 - a[1], 0>> /\ pc' = "erase"
          /\ <<1 - a[1], 0>> \in Addr /\ 1 - a[1] # a[1]
      BY <2>7, AddrFacts DEF SwitchPage, Pages
    <3>2. target'[2] = 0 /\ target'[1] # old'[1]
      BY <1>4, <3>1
    <3>3. TypeOK'
      BY <1>1, <1>2, <1>4, <2>4, <3>1 DEF TypeOK
    <3>. QED BY <1>2, <1>4, <2>4, <2>5, <3>1, <3>2, <3>3
             DEF Inv, Quiet, BusyTypes, Writing, Erasing, Digesting, Heading, Tailing,
                 Checking, Invalidating, Copy
  <2>. QED BY <1>4, <2>6, <2>7
<1>5. CASE FirstEntry
  <2>1. NoneIntact(flash)
    BY <1>1, <1>5, CurrentIsFound DEF Sound, FirstEntry
  <2>2. kBootDataDefaultCounterVal + 1 \in Nat
    BY DEF kBootDataDefaultCounterVal
  <2>3. /\ new' \in Content /\ new'.version = 2
        /\ new'.counter = kBootDataDefaultCounterVal + 1
    BY <1>3, <1>5, <2>2 DEF FirstEntry
  <2>4. /\ target' = <<0, 0>> /\ <<0, 0>> \in Addr /\ old' = None /\ pc' = "erase"
    BY <1>5, AddrFacts DEF FirstEntry, Pages
  <2>5. OldCurrent(flash)'
    BY <1>1, <2>1, <2>3, <2>4 DEF OldCurrent
  <2>6. TypeOK'
    BY <1>1, <1>2, <2>3, <2>4 DEF TypeOK
  <2>7. target'[2] = 0
    BY <2>4
  <2>. QED BY <1>2, <2>3, <2>4, <2>5, <2>6, <2>7, MarksAssumption
           DEF Inv, Quiet, BusyTypes, Writing, Erasing, Digesting, Heading, Tailing,
               Checking, Invalidating, Copy
<1>. QED BY <1>4, <1>5 DEF BootDataWrite, ReplaceEntry

LEMMA NextInv == Inv /\ [Next]_vars => Inv'
<1> SUFFICES ASSUME Inv, [Next]_vars PROVE Inv'
  OBVIOUS
<1>0. /\ flash \in [Addr -> Entry] /\ lc \in LcStates
      /\ result \in {"none", "read", "written", "error", "read_error"}
      /\ faults \in 0 .. MaxFaults
  BY DEF Inv, TypeOK
<1>1. ASSUME Fault PROVE faults' \in 0 .. MaxFaults
  BY <1>0, <1>1, ConstantsAssumption DEF Fault
<1>2. CASE UNCHANGED vars
  BY <1>2 DEF Inv, vars, TypeOK, Quiet, BusyTypes, Writing, Erasing, Digesting, Heading,
              Tailing, Checking, Invalidating, Copy, OldCurrent, Placed, InFlight, Word,
              Written
<1>3. CASE PowerOn
  <2>1. Sound(flash) /\ new = None /\ target = None /\ old = None /\ ram = None
    BY <1>3 DEF Inv, Quiet, Copy, PowerOn
  <2>. QED BY <1>0, <1>3, <2>1, QuietInv DEF PowerOn
<1>4. CASE BootDataRead
  <2>1. Sound(flash) /\ new = None /\ target = None /\ old = None
    BY <1>4 DEF Inv, Quiet, BootDataRead
  <2>2. Stored \in Content /\ Stored.version = 2
    BY <1>4, StoredIsContent DEF BootDataRead
  <2>. QED BY <1>0, <1>4, <2>1, <2>2, QuietInv DEF BootDataRead
<1>5. CASE BootDataNotFound
  <2>1. Sound(flash) /\ new = None /\ target = None /\ old = None /\ ram = None
    BY <1>5 DEF Inv, Quiet, Copy, BootDataNotFound
  <2>. QED BY <1>0, <1>5, <2>1, QuietInv DEF BootDataNotFound
<1>6. CASE BootDataWrite
  BY <1>6, BootDataWriteInv
<1>7. CASE Erase
  <2>1. /\ pc = "erase" /\ pc' = "digest" /\ target \in Addr /\ old \in Addr \cup {None}
        /\ new \in Content /\ new.version = 2 /\ target[2] = 0
        /\ ram \in Content /\ ram.version = 2
        /\ OldCurrent(flash)
        /\ old \in Addr => target[1] # old[1]
    BY <1>7 DEF Inv, Erase, BusyTypes, Writing, Copy, Erasing
  <2>2. /\ flash' \in [Addr -> Entry]
        /\ \A a \in Addr : a[1] # target[1] => flash'[a] = flash[a]
        /\ \A a \in Addr : a[1] = target[1] => flash'[a] = EmptyEntry
    BY <1>0, <1>7, EntryFacts DEF Erase
  <2>3. OldCurrent(flash')
    BY <2>1, <2>2, EntryFacts, EraseStep
  <2>4. UNCHANGED <<lc, ram, new, target, old, result, faults>>
    BY <1>7 DEF Erase
  <2>5. OldCurrent(flash)'
    BY <2>3, <2>4 DEF OldCurrent
  <2>6. Placed(flash)' /\ IsEmpty(flash[target])'
    <3>1. \A b \in Addr : ~(b[2] < target[2])
      BY <2>1, AddrFacts
    <3>2. \A b \in Addr : b[1] = target[1] => IsEmpty(flash'[b])
      BY <2>2 DEF IsEmpty
    <3>3. Placed(flash')
      BY <2>1, <3>1, <3>2, MarksAssumption DEF Placed
    <3>. QED BY <2>1, <2>4, <3>2, <3>3 DEF Placed
  <2>7. TypeOK'
    BY <1>0, <2>1, <2>2, <2>4 DEF TypeOK
  <2>. QED BY <2>1, <2>4, <2>5, <2>6, <2>7
           DEF Inv, Quiet, BusyTypes, Writing, Erasing, Digesting, Heading, Tailing,
               Checking, Invalidating, Copy
<1>8. ASSUME NEW w \in Word, ProgramDigest(w), pc' = "head", faults' \in 0 .. MaxFaults,
             UNCHANGED <<lc, ram, new, target, old, result>>
      PROVE  Inv'
  <2>1. /\ target \in Addr /\ old \in Addr \cup {None}
        /\ new \in Content /\ new.version = 2 /\ ram \in Content /\ ram.version = 2
    BY <1>8 DEF Inv, ProgramDigest, BusyTypes, Writing, Copy
  <2>2. /\ flash' \in [Addr -> Entry] /\ OldCurrent(flash') /\ Placed(flash')
        /\ InFlight(flash'[target], w, Erased, Erased)
    BY <1>8, DigestStep
  <2>3. (OldCurrent(flash) /\ Placed(flash))'
    BY <1>8, <2>2 DEF OldCurrent, Placed
  <2>4. (\E d \in Word : InFlight(flash[target], d, Erased, Erased))'
    BY <1>8, <2>2 DEF Word, InFlight
  <2>5. TypeOK'
    BY <1>0, <1>8, <2>1, <2>2 DEF TypeOK
  <2>. QED BY <1>8, <2>1, <2>3, <2>4, <2>5
           DEF Inv, Quiet, BusyTypes, Writing, Erasing, Digesting, Heading, Tailing,
               Checking, Invalidating, Copy
<1>9. ASSUME NEW w \in Word, ProgramHead(w), pc' = "tail", faults' \in 0 .. MaxFaults,
             UNCHANGED <<lc, ram, new, target, old, result>>
      PROVE  Inv'
  <2>1. /\ target \in Addr /\ old \in Addr \cup {None}
        /\ new \in Content /\ new.version = 2 /\ ram \in Content /\ ram.version = 2
    BY <1>9 DEF Inv, ProgramHead, BusyTypes, Writing, Copy
  <2>2. /\ flash' \in [Addr -> Entry] /\ OldCurrent(flash') /\ Placed(flash')
        /\ \E d \in Word : InFlight(flash'[target], d, w, Erased)
    BY <1>9, HeadStep
  <2>3. (OldCurrent(flash) /\ Placed(flash))'
    BY <1>9, <2>2 DEF OldCurrent, Placed
  <2>4. (\E d, h \in Word : InFlight(flash[target], d, h, Erased))'
    BY <1>9, <2>2 DEF Word, InFlight
  <2>5. TypeOK'
    BY <1>0, <1>9, <2>1, <2>2 DEF TypeOK
  <2>. QED BY <1>9, <2>1, <2>3, <2>4, <2>5
           DEF Inv, Quiet, BusyTypes, Writing, Erasing, Digesting, Heading, Tailing,
               Checking, Invalidating, Copy
<1>10. ASSUME NEW w \in Word, ProgramTail(w), pc' = "check", faults' \in 0 .. MaxFaults,
              UNCHANGED <<lc, ram, new, target, old, result>>
       PROVE  Inv'
  <2>1. /\ target \in Addr /\ old \in Addr \cup {None}
        /\ new \in Content /\ new.version = 2 /\ ram \in Content /\ ram.version = 2
    BY <1>10 DEF Inv, ProgramTail, BusyTypes, Writing, Copy
  <2>2. /\ flash' \in [Addr -> Entry]
        /\ \E d, h \in Word : InFlight(flash'[target], d, h, w)
        /\ IF flash'[target] = Written(new) THEN Current(flash', target)
                                            ELSE OldCurrent(flash')
        /\ old # target
        /\ old \in Addr => flash'[old].digest \in Content
    BY <1>10, TailStep
  <2>3. OldCurrent(flash') => OldCurrent(flash)'
    BY <1>10 DEF OldCurrent
  <2>4. (\E d, h, t \in Word : InFlight(flash[target], d, h, t))'
    BY <1>10, <2>2 DEF Word, InFlight
  <2>5. TypeOK'
    BY <1>0, <1>10, <2>1, <2>2 DEF TypeOK
  <2>6. Checking'
    BY <1>10, <2>2, <2>3, <2>4 DEF Checking, Written
  <2>. QED BY <1>10, <2>1, <2>5, <2>6
           DEF Inv, Quiet, BusyTypes, Writing, Erasing, Digesting, Heading, Tailing,
               Invalidating, Copy
<1>11. \A x : Programmed(x) \in Word
  BY DEF Programmed, Word
<1>12. CASE Program
  BY <1>0, <1>8, <1>9, <1>10, <1>11, <1>12 DEF Program
<1>13. CASE WeakProgram
  BY <1>1, <1>8, <1>9, <1>10, <1>13 DEF WeakProgram, Word
<1>14. CASE CheckEntry
  <2>1. /\ pc = "check" /\ flash' = flash /\ lc' = lc /\ faults' = faults
        /\ target \in Addr /\ old \in Addr \cup {None} /\ old # target
        /\ new \in Content /\ new.version = 2 /\ ram \in Content /\ ram.version = 2
        /\ IF flash[target] = Written(new) THEN Current(flash, target) ELSE OldCurrent(flash)
        /\ old \in Addr => flash[old].digest \in Content
    BY <1>14 DEF Inv, CheckEntry, BusyTypes, Writing, Copy, Checking
  <2>2. Sound(flash)
    BY <2>1, OldCurrentIsSound DEF Sound
  <2>3. ASSUME NEW status \in {"error", "written"}, Return(status) PROVE Inv'
    BY <1>0, <2>1, <2>2, <2>3, QuietInv DEF Return
  <2>4. ASSUME flash[target] = Written(new), old # None, pc' = "invalidate",
               UNCHANGED <<ram, new, target, old, result>>
        PROVE  Inv'
    <3>1. TypeOK'
      BY <1>0, <2>1, <2>4 DEF TypeOK
    <3>2. Invalidating'
      BY <2>1, <2>4 DEF Invalidating, Written
    <3>. QED BY <2>1, <2>4, <3>1, <3>2
             DEF Inv, Quiet, BusyTypes, Writing, Erasing, Digesting, Heading, Tailing,
                 Checking, Copy
  <2>. QED BY <1>14, <2>3, <2>4 DEF CheckEntry
<1>15. CASE Invalidate
  <2>1. flash' \in [Addr -> Entry] /\ target \in Addr /\ Current(flash', target)
    BY <1>15, InvalidateStep DEF Invalidate
  <2>2. ram \in Content /\ ram.version = 2
    BY <1>15 DEF Inv, Copy, Writing, Invalidate, InvalidateWord
  <2>. QED BY <1>0, <1>15, <2>1, <2>2, QuietInv DEF Invalidate, Return, Sound
<1>16. CASE Reboot
  <2>1. Sound(flash)
    BY <1>16 DEF Inv, Quiet, Reboot
  <2>. QED BY <1>0, <1>16, <2>1, QuietInv DEF Reboot, Reset
<1>17. CASE PowerLoss
  <2>1. flash' \in [Addr -> Entry] /\ Sound(flash')
    BY <1>17, CutIsSound DEF PowerLoss
  <2>. QED BY <1>0, <1>1, <1>17, <2>1, QuietInv DEF PowerLoss, Reset
<1>18. CASE TransactionError
  <2>1. flash' \in [Addr -> Entry] /\ Sound(flash')
    BY <1>18, CutIsSound DEF TransactionError
  <2>2. ram \in Content
    BY <1>18 DEF Inv, Copy, Writing, TransactionError
  <2>3. ram.version = 2
    BY <1>18 DEF Inv, Copy, Writing, TransactionError
  <2>. QED BY <1>0, <1>1, <1>18, <2>1, <2>2, <2>3, QuietInv DEF TransactionError, Return
<1>19. CASE SearchError
  <2>1. /\ Sound(flash) /\ new = None /\ target = None /\ old = None
        /\ ram \in Content /\ ram.version = 2
    BY <1>19 DEF Inv, Quiet, Copy, SearchError
  <2>2. ram' \in Content /\ ram'.version = 2
    BY <1>19, <2>1 DEF SearchError, Content
  <2>. QED BY <1>0, <1>1, <1>19, <2>1, <2>2, QuietInv DEF SearchError
<1>20. CASE ReadError
  <2>1. Sound(flash) /\ new = None /\ target = None /\ old = None
    BY <1>20 DEF Inv, Quiet, ReadError
  <2>2. CASE pc = "boot" /\ pc' = "off" /\ UNCHANGED <<ram, result>>
    <3>1. ram = None
      BY <2>2 DEF Inv, Copy
    <3>. QED BY <1>0, <1>1, <1>20, <2>1, <2>2, <3>1, QuietInv DEF ReadError
  <2>3. CASE pc = "idle" /\ pc' = "idle" /\ result' = "read_error"
    <3>1. ram \in Content
      BY <2>3 DEF Inv, Copy
    <3>2. \A a \in Addr : LastValid(flash, a) => flash[a].head \in Content
      BY <1>0, CheckIsIntact DEF LastValid, Intact
    <3>3. \A i \in Index : <<0, i>> \in Addr
      BY DEF Addr, Pages
    <3>4. ram' \in Content
      BY <1>20, <2>3, <3>1, <3>2, <3>3 DEF ReadError
    <3>. QED BY <1>0, <1>1, <1>20, <2>1, <2>3, <3>4, QuietInv DEF ReadError
  <2>. QED BY <1>20, <2>2, <2>3 DEF ReadError
<1>. QED BY <1>2, <1>3, <1>4, <1>5, <1>6, <1>7, <1>12, <1>13, <1>14, <1>15, <1>16, <1>17,
            <1>18, <1>19, <1>20 DEF Next, Firmware
-----------------------------------------------------------------------------
THEOREM InvAlways == Spec => []Inv
<1>1. Init => Inv
  BY InitInv
<1>2. Inv /\ [Next]_vars => Inv'
  BY NextInv
<1>. QED BY <1>1, <1>2, PTL DEF Spec

\* Type correctness: every state the storage reaches is well formed.
THEOREM TypeCorrect == Spec => []TypeOK
<1>1. Inv => TypeOK
  BY DEF Inv
<1>. QED BY <1>1, InvAlways, PTL

\* Whatever was interrupted, there is a current entry or there never was one.
LEMMA InvIsSound ==
  ASSUME Inv
  PROVE  Sound(flash) /\ flash \in [Addr -> Entry]
<1>1. CASE pc \in {"off", "boot", "idle"}
  BY <1>1 DEF Inv, TypeOK, Quiet
<1>2. CASE pc \in {"erase", "digest", "head", "tail"}
  BY <1>2, OldCurrentIsSound DEF Inv, TypeOK, Erasing, Digesting, Heading, Tailing
<1>3. CASE pc \in {"check", "invalidate"}
  <2>1. target \in Addr /\ (Current(flash, target) \/ OldCurrent(flash))
    BY <1>3 DEF Inv, Checking, Invalidating, BusyTypes, Writing
  <2>. QED BY <2>1, OldCurrentIsSound DEF Sound, Inv, TypeOK
<1>. QED BY <1>1, <1>2, <1>3 DEF Inv, TypeOK

\* The last valid entries of the two pages never have the same counter, so the
\* hardened check of boot_data_page_info_update_impl() (boot_data.c:419) never
\* traps, and a search always finds the one current entry.
THEOREM NoCounterTie == Spec => []PagesNeverTie
<1>1. ASSUME Inv PROVE PagesNeverTie
  <2>1. Sound(flash) /\ flash \in [Addr -> Entry]
    BY <1>1, InvIsSound
  <2> SUFFICES ASSUME NEW a \in Addr, NEW b \in Addr, a[1] # b[1],
                      LastValid(flash, a), LastValid(flash, b)
               PROVE  flash[a].head.counter # flash[b].head.counter
    BY DEF PagesNeverTie
  <2>2. Intact(flash[a]) /\ Intact(flash[b])
    BY <2>1, CheckIsIntact DEF LastValid
  <2>3. PICK c \in Addr : Current(flash, c)
    BY <2>1, <2>2 DEF Sound, NoneIntact
  <2>4. Active(flash, c)
    BY <2>1, <2>3, CurrentIsFound
  <2>5. ASSUME NEW x \in Addr, x[1] # c[1], LastValid(flash, x)
        PROVE  flash[x].head.counter < flash[c].head.counter
    BY <2>4, <2>5 DEF Active
  <2>6. ASSUME NEW x \in Addr, x[1] = c[1], LastValid(flash, x)
        PROVE  x = c
    <3>1. LastValid(flash, c)
      BY <2>4 DEF Active
    <3>2. ~(x[2] > c[2]) /\ ~(c[2] > x[2])
      BY <2>6, <3>1 DEF LastValid
    <3>3. x[2] \in Nat /\ c[2] \in Nat
      BY AddrFacts
    <3>. QED BY <2>6, <3>2, <3>3, AddrEqual
  <2>7. a[1] \in {0, 1} /\ b[1] \in {0, 1} /\ c[1] \in {0, 1}
    BY AddrFacts DEF Pages
  <2>8. a = c \/ b = c
    BY <2>6, <2>7
  <2>9. flash[a].head.counter \in Nat /\ flash[b].head.counter \in Nat
    BY <2>2 DEF Intact, Content
  <2>. QED BY <2>5, <2>8, <2>9
<1>. QED BY <1>1, InvAlways, PTL

\* Every flash word is programmed at most once after the erase of its page.
THEOREM ProgramsOnce == Spec => []ProgramsErasedWords
<1>1. ASSUME Inv PROVE ProgramsErasedWords
  <2>1. ASSUME pc = "digest" PROVE IsEmpty(flash[target])
    BY <1>1, <2>1 DEF Inv, Digesting
  <2>2. ASSUME pc = "head" PROVE flash[target].head = Erased /\ flash[target].tail = Erased
    <3>1. PICK d \in Word : InFlight(flash[target], d, Erased, Erased)
      BY <1>1, <2>2 DEF Inv, Heading
    <3>. QED BY <3>1 DEF InFlight
  <2>3. ASSUME pc = "tail" PROVE flash[target].tail = Erased
    <3>1. PICK d \in Word, h \in Word : InFlight(flash[target], d, h, Erased)
      BY <1>1, <2>3 DEF Inv, Tailing
    <3>. QED BY <3>1 DEF InFlight
  <2>. QED BY <2>1, <2>2, <2>3 DEF ProgramsErasedWords
<1>. QED BY <1>1, InvAlways, PTL
=============================================================================
