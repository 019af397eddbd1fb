------------------------------ MODULE DiceProof ------------------------------
(***************************************************************************)
(* Proofs about Dice for every size of page and certificates, all            *)
(* measurements and every number of power losses and flash errors.           *)
(***************************************************************************)
EXTENDS Dice, TLAPS

CdiPart(u) == \E k \in Keys, s \in Sizes, i \in Words : u = Part(Cert(k, s), i)
\* What a word of a page can hold: the UDS certificate keeps its place.
Laid(mem, w) == mem[w] \in Markers \/ mem[w] = Part(Uds, w + 1) \/ (w > 0 /\ CdiPart(mem[w]))
Tidy(mem) == mem \in [Words -> Units] /\ \A w \in Words : Laid(mem, w)

\* The walk through a page: where its certificates are.
At0(mem) == SizeAt(mem, 0)
At1(mem) == At0(mem) + SizeAt(mem, At0(mem))
HasUds(mem) == At0(mem) \in {1, UdsSize}
HasCdi0(mem) ==
  /\ HasUds(mem) /\ Matches(mem, At0(mem), Cdi0Key)
  /\ SizeAt(mem, At0(mem)) \in Sizes
HasCdi1(mem) == Matches(mem, At1(mem), Cdi1Key) /\ SizeAt(mem, At1(mem)) \in Sizes
Chain(mem) == HasCdi0(mem) /\ HasCdi1(mem)

\* The program transactions so far have copied the first windows.
Copied == \A w \in Words : page[w] = IF w \div Window < window THEN buffer[w] ELSE Erased

Types ==
  /\ Tidy(page) /\ Tidy(buffer) /\ \A w \in Words : buffer[w] # Torn
  /\ dirty \in {"false", "true", "yes"} /\ offset \in 0 .. Window * Windows
  /\ pc \in {"read", "silicon", "creator", "owner", "boot", "program", "run",
             "shutdown", "trap"}
  /\ window \in 0 .. Windows /\ rom_ext \in Measurements /\ owner \in Measurements
  /\ provisioned \in BOOLEAN /\ cut \in BOOLEAN /\ fresh \in BOOLEAN
  /\ faults \in 0 .. MaxFaults
  /\ pc \in {"read", "silicon", "creator", "owner", "boot"} => window = 0
  /\ pc = "program" => window < Windows

\* How far the buffer is right at each point of a boot, and that it is the page
\* while it is clean.
Progress ==
  /\ pc = "read" => dirty = "false"
  /\ pc = "silicon" => (dirty = "true" /\ buffer = Blank) \/ (dirty = "false" /\ buffer = page)
  /\ pc \in {"creator", "owner", "boot"} => dirty = "yes" \/ buffer = page
  /\ pc = "creator" => HasUds(buffer) /\ offset = At0(buffer)
  /\ pc = "owner" => HasCdi0(buffer) /\ offset = At1(buffer)
  /\ pc \in {"boot", "program"} => Chain(buffer)
  /\ pc = "program" => Copied
  /\ pc = "run" => Chain(page)
Inv == Types /\ Progress
-----------------------------------------------------------------------------
\* A word of the page belongs to one of its windows.
LEMMA WindowOfWord ==
  \A w \in Words : w \div Window \in 0 .. Windows - 1
BY SizesAssumption DEF Words

LEMMA SizesFit ==
  /\ Window * Windows \in Nat /\ UdsSize \in Nat /\ UdsSize >= 2
  /\ \A s \in Sizes : s \in Nat /\ s >= 2
  /\ \A u \in {1, UdsSize}, s, t \in Sizes : u + s + t <= Window * Windows
  /\ \E s \in Sizes : s \in Nat
<1>1. /\ Window * Windows \in Nat /\ UdsSize \in Nat /\ UdsSize >= 2
      /\ \A s \in Sizes : s \in Nat
      /\ \A s, t \in Sizes : s >= 2 /\ UdsSize + s + t <= Window * Windows
      /\ Sizes # {}
  BY SizesAssumption
<1> QED
  BY <1>1

LEMMA PlacesFit ==
  /\ 0 \in Words /\ UdsSize \in Words
  /\ \A i \in 1 .. UdsSize : i \in Words
  /\ \A s \in Sizes : \A i \in 1 .. s : i \in Words
<1>1. PICK s \in Sizes : s \in Nat
  BY SizesFit
<1>2. UdsSize + s + s <= Window * Windows /\ s >= 2
  BY <1>1, SizesFit
<1>3. 0 \in Words /\ UdsSize \in Words /\ \A i \in 1 .. UdsSize : i \in Words
  BY <1>1, <1>2, SizesFit DEF Words
<1>4. \A t \in Sizes : t \in Nat /\ UdsSize + t + t <= Window * Windows
  BY SizesFit
<1>5. \A t \in Sizes : \A i \in 1 .. t : i \in Words
  BY <1>4, SizesFit DEF Words
<1> QED
  BY <1>3, <1>5

LEMMA PartFields ==
  \A k, s, i : /\ Part(Cert(k, s), i).cert = Cert(k, s) /\ Part(Cert(k, s), i).part = i
               /\ Cert(k, s).key = k /\ Cert(k, s).size = s
BY DEF Part, Cert

LEMMA CdiPartIsUnit ==
  \A k \in Keys, s \in Sizes, i \in Words :
    /\ Part(Cert(k, s), i) \in Units \ Markers
    /\ CdiPart(Part(Cert(k, s), i))
BY WordsAssumption DEF CdiPart, Parts, Units

LEMMA UdsPartIsUnit ==
  \A i \in 1 .. UdsSize : Part(Uds, i) \in Units \ Markers
BY WordsAssumption, PlacesFit DEF Parts, Units, Uds, Keys

LEMMA KeysAreKeys ==
  rom_ext \in Measurements /\ owner \in Measurements => Cdi0Key \in Keys /\ Cdi1Key \in Keys
BY DEF Cdi0Key, Cdi1Key, Keys

LEMMA MarkersDiffer == Erased \in Markers /\ Blob \in Markers /\ Torn \in Markers
                       /\ Erased # Torn /\ Blob # Torn /\ Erased # Blob
BY WordsAssumption DEF Markers

LEMMA BlankIsTidy == Tidy(Blank) /\ \A w \in Words : Blank[w] # Torn
BY MarkersDiffer DEF Blank, Tidy, Laid, Units
-----------------------------------------------------------------------------
\* What the certificate functions find depends on two words.
LEMMA SameWords ==
  ASSUME NEW m, NEW n, NEW w, w \in Words => n[w] = m[w],
         w + 1 \in Words => n[w + 1] = m[w + 1], w \in Words
  PROVE  /\ SizeAt(n, w) = SizeAt(m, w)
         /\ \A k : Matches(n, w, k) <=> Matches(m, w, k)
BY DEF SizeAt, Matches, IsPart

\* A header behind the start of the page is one of a CDI certificate.
LEMMA CdiSize ==
  ASSUME NEW m, Tidy(m), NEW w \in Words, w > 0, NEW k, Matches(m, w, k)
  PROVE  SizeAt(m, w) \in Sizes
<1>1. m[w] \notin Markers /\ m[w].part = 1 /\ SizeAt(m, w) = m[w].cert.size
  BY DEF Matches, IsPart, SizeAt
<1>2. m[w] # Part(Uds, w + 1)
  BY <1>1, PartFields DEF Uds, Words
<1>3. CdiPart(m[w])
  BY <1>1, <1>2 DEF Tidy, Laid
<1> QED
  BY <1>1, <1>3, PartFields DEF CdiPart

\* At the start of the page is the UDS certificate, a marker or nothing.
LEMMA UdsSizeOrBlob ==
  ASSUME NEW m, Tidy(m), SizeAt(m, 0) # 0
  PROVE  HasUds(m)
<1>1. Laid(m, 0)
  BY PlacesFit DEF Tidy
<1>2. CASE IsPart(m, 0, 1)
  <2>1. m[0] = Part(Uds, 1)
    BY <1>1, <1>2 DEF Laid, IsPart
  <2> QED
    BY <1>2, <2>1, PartFields DEF SizeAt, HasUds, At0, Uds
<1>3. CASE ~IsPart(m, 0, 1)
  BY <1>3 DEF SizeAt, HasUds, At0
<1> QED
  BY <1>2, <1>3

\* The walk through a page stays what it is when words behind it change.
LEMMA SameWalk ==
  ASSUME NEW m, NEW n, NEW w \in 1 .. Window * Windows, \A x \in 0 .. w - 1 : n[x] = m[x],
         HasUds(m)
  PROVE  /\ HasUds(n) /\ At0(n) = At0(m)
         /\ HasCdi0(m) /\ At1(m) <= w => HasCdi0(n) /\ At1(n) = At1(m)
<1>1. At0(n) = At0(m)
  BY PlacesFit DEF At0, SizeAt, IsPart
<1>2. ASSUME HasCdi0(m), At1(m) <= w PROVE HasCdi0(n) /\ At1(n) = At1(m)
  <2>1. PICK a \in {1, UdsSize}, s \in Sizes :
          a = At0(m) /\ s = SizeAt(m, a) /\ Matches(m, a, Cdi0Key) /\ At1(m) = a + s
    BY <1>2 DEF HasCdi0, HasUds, At1
  <2>2. a \in Nat /\ s \in Nat /\ s >= 2 /\ a + s <= w
    BY <1>2, <2>1, SizesFit
  <2>3. a \in 0 .. w - 1 /\ a + 1 \in 0 .. w - 1
    BY <2>2
  <2>4. n[a] = m[a] /\ n[a + 1] = m[a + 1] /\ a \in Words
    BY <2>1, <2>3, PlacesFit DEF Matches, IsPart
  <2>5. SizeAt(n, a) = SizeAt(m, a) /\ (Matches(n, a, Cdi0Key) <=> Matches(m, a, Cdi0Key))
    BY <2>4, SameWords
  <2> QED
    BY <1>1, <1>2, <2>1, <2>5 DEF HasCdi0, HasUds, At1
<1> QED
  BY <1>1, <1>2 DEF HasUds

\* A renewed certificate stands where it was put, with all before it as it was.
LEMMA Renewed ==
  ASSUME NEW m, Tidy(m), \A x \in Words : m[x] # Torn,
         NEW w \in Words, w > 0, NEW k \in Keys, NEW s \in Sizes, w + s <= Window * Windows,
         NEW n, n = EraseFrom(With(m, w, Cert(k, s)), w + s)
  PROVE  /\ Tidy(n) /\ \A x \in Words : n[x] # Torn
         /\ \A x \in 0 .. w - 1 : n[x] = m[x]
         /\ Matches(n, w, k) /\ SizeAt(n, w) = s
<1>1. s \in Nat /\ s >= 2 /\ w \in Nat /\ Window * Windows \in Nat
  BY SizesFit DEF Words
<1>2. \A x \in Words : n[x] = IF x >= w + s THEN Erased
                              ELSE IF x >= w THEN Part(Cert(k, s), x - w + 1) ELSE m[x]
  BY <1>1, PartFields DEF EraseFrom, With, Words
<1>3. \A x \in Words : x >= w /\ x < w + s =>
        /\ n[x] = Part(Cert(k, s), x - w + 1)
        /\ n[x] \in Units \ Markers /\ CdiPart(n[x])
  <2> SUFFICES ASSUME NEW x \in Words, x >= w, x < w + s
               PROVE  /\ n[x] = Part(Cert(k, s), x - w + 1)
                      /\ n[x] \in Units \ Markers /\ CdiPart(n[x])
    OBVIOUS
  <2>1. x - w + 1 \in 1 .. s
    BY <1>1 DEF Words
  <2>2. x - w + 1 \in Words
    BY <2>1, PlacesFit
  <2>3. n[x] = Part(Cert(k, s), x - w + 1)
    BY <1>1, <1>2 DEF Words
  <2> QED
    BY <2>2, <2>3, CdiPartIsUnit
<1>4. \A x \in Words : Laid(n, x) /\ n[x] \in Units /\ n[x] # Torn
  <2> SUFFICES ASSUME NEW x \in Words PROVE Laid(n, x) /\ n[x] \in Units /\ n[x] # Torn
    OBVIOUS
  <2>1. CASE x >= w + s
    BY <1>2, <2>1, MarkersDiffer DEF Laid, Units
  <2>2. CASE x >= w /\ ~(x >= w + s)
    <3>1. x \in Int /\ x > 0 /\ x < w + s
      BY <1>1, <2>2 DEF Words
    <3> QED
      BY <1>3, <2>2, <3>1, MarkersDiffer DEF Laid
  <2>3. CASE ~(x >= w) /\ ~(x >= w + s)
    BY <1>2, <2>3 DEF Laid, Tidy
  <2> QED
    BY <1>1, <2>1, <2>2, <2>3 DEF Words
<1>5. Tidy(n)
  <2>1. n = [x \in Words |-> n[x]]
    BY DEF EraseFrom
  <2> QED
    BY <1>4, <2>1 DEF Tidy
<1>6. \A x \in 0 .. w - 1 : n[x] = m[x]
  BY <1>1, <1>2 DEF Words
<1>7. w + 1 \in Words
  BY <1>1 DEF Words
<1>8. n[w] = Part(Cert(k, s), 1) /\ n[w + 1] = Part(Cert(k, s), 2)
      /\ n[w] \notin Markers /\ n[w + 1] \notin Markers
  BY <1>1, <1>3, <1>7
<1>9. Matches(n, w, k) /\ SizeAt(n, w) = s
  BY <1>7, <1>8, PartFields DEF Matches, SizeAt, IsPart
<1> QED
  BY <1>4, <1>5, <1>6, <1>9
-----------------------------------------------------------------------------
\* The state functions of the invariant at the next state, while the images stay.
LEMMA Primed ==
  ASSUME UNCHANGED <<rom_ext, owner>>, NEW n
  PROVE  /\ buffer' = n =>
              /\ (HasUds(n) => HasUds(buffer)') /\ At0(buffer)' = At0(n)
              /\ (HasCdi0(n) => HasCdi0(buffer)') /\ At1(buffer)' = At1(n)
              /\ (Chain(n) => Chain(buffer)') /\ (Tidy(n) => Tidy(buffer)')
         /\ page' = n => (Chain(n) => Chain(page)')
<1>1. Cdi0Key' = Cdi0Key /\ Cdi1Key' = Cdi1Key
  BY DEF Cdi0Key, Cdi1Key
<1>2. ASSUME buffer' = n
      PROVE  /\ (HasUds(n) => HasUds(buffer)') /\ At0(buffer)' = At0(n)
             /\ (HasCdi0(n) => HasCdi0(buffer)') /\ At1(buffer)' = At1(n)
             /\ (Chain(n) => Chain(buffer)') /\ (Tidy(n) => Tidy(buffer)')
  <2>1. At0(buffer)' = At0(n) /\ At1(buffer)' = At1(n)
    BY <1>2 DEF At0, At1, SizeAt, IsPart
  <2>2. HasUds(n) => HasUds(buffer)'
    BY <2>1 DEF HasUds
  <2>3. HasCdi0(n) => HasCdi0(buffer)'
    BY <1>1, <1>2, <2>1, <2>2 DEF HasCdi0, Matches, IsPart, SizeAt
  <2>4. HasCdi1(n) => HasCdi1(buffer)'
    BY <1>1, <1>2, <2>1 DEF HasCdi1, Matches, IsPart, SizeAt
  <2>5. Tidy(n) => Tidy(buffer)'
    BY <1>2 DEF Tidy, Laid
  <2> QED
    BY <2>1, <2>2, <2>3, <2>4, <2>5 DEF Chain
<1>3. ASSUME page' = n PROVE Chain(n) => Chain(page)'
  <2>1. At0(page)' = At0(n) /\ At1(page)' = At1(n)
    BY <1>3 DEF At0, At1, SizeAt, IsPart
  <2>2. HasUds(n) => HasUds(page)'
    BY <2>1 DEF HasUds
  <2>3. HasCdi0(n) => HasCdi0(page)'
    BY <1>1, <1>3, <2>1, <2>2 DEF HasCdi0, Matches, IsPart, SizeAt
  <2>4. HasCdi1(n) => HasCdi1(page)'
    BY <1>1, <1>3, <2>1 DEF HasCdi1, Matches, IsPart, SizeAt
  <2> QED
    BY <2>3, <2>4 DEF Chain
<1> QED
  BY <1>2, <1>3

\* The buffer and its flags are typed by what Silicon and Attest leave.
LEMMA BufferTypes ==
  ASSUME Types, Tidy(buffer)', \A w \in Words : buffer'[w] # Torn,
         dirty' \in {"false", "true", "yes"}, offset' \in 0 .. Window * Windows,
         pc' \in {"creator", "owner", "boot", "shutdown", "trap"}, window = 0,
         fresh' \in BOOLEAN, UNCHANGED <<page, window, rom_ext, owner, provisioned, cut, faults>>
  PROVE  Types'
<1>1. Tidy(page)'
  BY DEF Types, Tidy, Laid
<1> QED
  BY <1>1 DEF Types

LEMMA SiliconStep ==
  ASSUME Inv, Silicon
  PROVE  Inv'
<1>1. /\ Tidy(buffer) /\ \A w \in Words : buffer[w] # Torn
      /\ UNCHANGED <<page, window, rom_ext, owner, provisioned, cut, faults>>
      /\ fresh' \in BOOLEAN /\ pc = "silicon" /\ window = 0
      /\ dirty \in {"false", "true", "yes"} /\ offset \in 0 .. Window * Windows
  BY DEF Inv, Types, Silicon
<1>2. CASE TagMissing(buffer, 0)
  <2>1. pc' = "trap" /\ UNCHANGED <<buffer, dirty, offset>>
    BY <1>2 DEF Silicon
  <2>2. Types'
    BY <1>1, <2>1, BufferTypes, Primed DEF Inv
  <2> QED
    BY <2>1, <2>2 DEF Inv, Progress
<1>3. CASE ~TagMissing(buffer, 0) /\ SizeAt(buffer, 0) = 0
  <2>1. /\ pc' = "creator" /\ dirty' = "yes" /\ offset' = 1
        /\ buffer' = [buffer EXCEPT ![0] = Blob]
    BY <1>3 DEF Silicon
  <2> DEFINE n == [buffer EXCEPT ![0] = Blob]
  <2>2. buffer \in [Words -> Units] /\ 0 \in Words /\ Blob \in Units
    BY <1>1, PlacesFit, MarkersDiffer DEF Tidy, Units
  <2>3. n \in [Words -> Units] /\ \A w \in Words : n[w] = IF w = 0 THEN Blob ELSE buffer[w]
    BY <2>2
  <2>4. Tidy(n) /\ \A w \in Words : n[w] # Torn
    BY <1>1, <2>3, MarkersDiffer DEF Tidy, Laid
  <2>5. At0(n) = 1 /\ HasUds(n)
    BY <2>2, <2>3, MarkersDiffer DEF At0, SizeAt, IsPart, HasUds
  <2>6. Tidy(buffer)' /\ HasUds(buffer)' /\ At0(buffer)' = 1
    BY <1>1, <2>1, <2>4, <2>5, Primed
  <2>7. 1 \in 0 .. Window * Windows
    BY PlacesFit, SizesFit DEF Words
  <2>8. Types'
    BY <1>1, <2>1, <2>4, <2>6, <2>7, BufferTypes DEF Inv
  <2> QED
    BY <2>1, <2>6, <2>8 DEF Inv, Progress
<1>4. CASE ~TagMissing(buffer, 0) /\ SizeAt(buffer, 0) # 0
  <2>1. pc' = "creator" /\ offset' = SizeAt(buffer, 0) /\ UNCHANGED <<buffer, dirty>>
    BY <1>4 DEF Silicon
  <2>2. HasUds(buffer) /\ offset' = At0(buffer)
    BY <1>1, <1>4, <2>1, UdsSizeOrBlob DEF At0
  <2>3. buffer # Blank
    BY <1>4, MarkersDiffer, PlacesFit DEF SizeAt, IsPart, Blank
  <2>4. buffer' = page'
    BY <1>1, <2>1, <2>3 DEF Inv, Progress
  <2>5. Tidy(buffer)' /\ HasUds(buffer)' /\ At0(buffer)' = At0(buffer)
    BY <1>1, <2>1, <2>2, Primed
  <2>6. offset' \in 0 .. Window * Windows
    BY <2>2, SizesFit, PlacesFit DEF HasUds, Words
  <2>7. Types'
    BY <1>1, <2>1, <2>5, <2>6, BufferTypes DEF Inv
  <2> QED
    BY <2>1, <2>2, <2>4, <2>5, <2>7 DEF Inv, Progress
<1> QED
  BY <1>2, <1>3, <1>4

\* The certificates that the ROM_EXT attests the ROM_EXT and the owner with.
LEMMA CreatorStep ==
  ASSUME Inv, Creator
  PROVE  Inv'
<1>1. /\ Tidy(buffer) /\ \A w \in Words : buffer[w] # Torn
      /\ UNCHANGED <<page, window, rom_ext, owner, provisioned, cut, faults>>
      /\ fresh' \in BOOLEAN /\ pc = "creator" /\ window = 0
      /\ HasUds(buffer) /\ offset = At0(buffer)
      /\ dirty \in {"false", "true", "yes"} /\ offset \in 0 .. Window * Windows
      /\ dirty = "yes" \/ buffer = page
  BY DEF Inv, Types, Progress, Creator, Attest
<1>2. /\ offset \in {1, UdsSize} /\ offset > 0 /\ offset \in Nat
      /\ Cdi0Key \in Keys
  BY <1>1, SizesFit, KeysAreKeys DEF HasUds, Inv, Types
<1>3. CASE pc' # "owner"
  <2>1. pc' \in {"shutdown", "trap"} /\ UNCHANGED <<buffer, dirty, offset>>
    BY <1>3 DEF Creator, Attest
  <2>2. Types'
    BY <1>1, <2>1, BufferTypes, Primed DEF Inv
  <2> QED
    BY <2>1, <2>2 DEF Inv, Progress
<1>4. CASE pc' = "owner" /\ Matches(buffer, offset, Cdi0Key)
  <2>1. offset' = offset + SizeAt(buffer, offset) /\ UNCHANGED <<buffer, dirty>>
    BY <1>4 DEF Creator, Attest, Renew
  <2>2. offset \in Words
    BY <1>4 DEF Matches, IsPart
  <2>3. SizeAt(buffer, offset) \in Sizes
    BY <1>1, <1>2, <1>4, <2>2, CdiSize
  <2>4. HasCdi0(buffer) /\ offset' = At1(buffer)
    BY <1>1, <1>4, <2>1, <2>3 DEF HasCdi0, At1
  <2>5. Tidy(buffer)' /\ HasCdi0(buffer)' /\ At1(buffer)' = At1(buffer)
    BY <1>1, <2>1, <2>4, Primed
  <2>6. offset' \in 0 .. Window * Windows
    <3>1. PICK s \in Sizes : s = SizeAt(buffer, offset)
      BY <2>3
    <3>2. s \in Nat /\ Window * Windows \in Nat /\ offset + s <= Window * Windows
      BY <1>2, SizesFit
    <3>3. offset' = offset + s
      BY <2>1, <3>1
    <3> QED
      BY <1>2, <3>2, <3>3
  <2>7. Types'
    BY <1>1, <1>4, <2>1, <2>5, <2>6, BufferTypes DEF Inv
  <2> QED
    BY <1>1, <1>4, <2>1, <2>4, <2>5, <2>7 DEF Inv, Progress
<1>5. CASE pc' = "owner" /\ ~Matches(buffer, offset, Cdi0Key)
  <2>1. PICK s \in Sizes :
          /\ buffer' = EraseFrom(With(buffer, offset, Cert(Cdi0Key, s)), offset + s)
          /\ dirty' = "yes" /\ offset' = offset + s
    BY <1>5 DEF Creator, Attest, Renew
  <2>2. s \in Nat /\ s >= 2 /\ offset + s <= Window * Windows /\ Window * Windows \in Nat
    BY <1>2, SizesFit
  <2>3. offset \in Words /\ offset \in 1 .. Window * Windows
    BY <1>2, <2>2 DEF Words
  <2> DEFINE n == EraseFrom(With(buffer, offset, Cert(Cdi0Key, s)), offset + s)
  <2>4. /\ Tidy(n) /\ \A x \in Words : n[x] # Torn
        /\ \A x \in 0 .. offset - 1 : n[x] = buffer[x]
        /\ Matches(n, offset, Cdi0Key) /\ SizeAt(n, offset) = s
    BY <1>1, <1>2, <2>2, <2>3, Renewed
  <2>5. buffer' = n
    BY <2>1
  <2> HIDE DEF n
  <2>6. HasUds(n) /\ At0(n) = offset
    BY <1>1, <2>3, <2>4, SameWalk
  <2>7. HasCdi0(n) /\ At1(n) = offset'
    BY <2>1, <2>4, <2>6 DEF HasCdi0, At1
  <2>8. Tidy(buffer)' /\ HasCdi0(buffer)' /\ At1(buffer)' = offset'
    BY <1>1, <2>4, <2>5, <2>7, Primed
  <2>9. Types'
    BY <1>1, <1>5, <2>1, <2>2, <2>3, <2>4, <2>5, <2>8, BufferTypes DEF Inv
  <2> QED
    BY <1>5, <2>1, <2>8, <2>9 DEF Inv, Progress
<1> QED
  BY <1>3, <1>4, <1>5

LEMMA OwnerStep ==
  ASSUME Inv, Owner
  PROVE  Inv'
<1>1. /\ Tidy(buffer) /\ \A w \in Words : buffer[w] # Torn
      /\ UNCHANGED <<page, window, rom_ext, owner, provisioned, cut, faults>>
      /\ fresh' \in BOOLEAN /\ pc = "owner" /\ window = 0
      /\ HasCdi0(buffer) /\ offset = At1(buffer)
      /\ dirty \in {"false", "true", "yes"} /\ offset \in 0 .. Window * Windows
      /\ dirty = "yes" \/ buffer = page
  BY DEF Inv, Types, Progress, Owner, Attest
<1>2. /\ offset > 0 /\ offset \in Nat /\ HasUds(buffer) /\ Cdi1Key \in Keys
      /\ \A t \in Sizes : offset + t <= Window * Windows
  <2>1. PICK u \in {1, UdsSize}, s \in Sizes : offset = u + s
    BY <1>1 DEF HasCdi0, HasUds, At1
  <2>2. \A t \in Sizes : u + s + t <= Window * Windows
    BY <2>1, SizesFit
  <2> QED
    BY <1>1, <2>1, <2>2, SizesFit, KeysAreKeys DEF HasCdi0, Inv, Types
<1>3. CASE pc' # "boot"
  <2>1. pc' \in {"shutdown", "trap"} /\ UNCHANGED <<buffer, dirty, offset>>
    BY <1>3 DEF Owner, Attest
  <2>2. Types'
    BY <1>1, <2>1, BufferTypes, Primed DEF Inv
  <2> QED
    BY <2>1, <2>2 DEF Inv, Progress
<1>4. CASE pc' = "boot" /\ Matches(buffer, offset, Cdi1Key)
  <2>1. offset' = offset + SizeAt(buffer, offset) /\ UNCHANGED <<buffer, dirty>>
    BY <1>4 DEF Owner, Attest, Renew
  <2>2. offset \in Words
    BY <1>4 DEF Matches, IsPart
  <2>3. SizeAt(buffer, offset) \in Sizes
    BY <1>1, <1>2, <1>4, <2>2, CdiSize
  <2>4. Chain(buffer)
    BY <1>1, <1>4, <2>3 DEF Chain, HasCdi1
  <2>5. Tidy(buffer)' /\ Chain(buffer)'
    BY <1>1, <2>1, <2>4, Primed
  <2>6. offset' \in 0 .. Window * Windows
    <3>1. PICK s \in Sizes : s = SizeAt(buffer, offset)
      BY <2>3
    <3>2. s \in Nat /\ Window * Windows \in Nat /\ offset + s <= Window * Windows
      BY <1>2, SizesFit
    <3>3. offset' = offset + s
      BY <2>1, <3>1
    <3> QED
      BY <1>2, <3>2, <3>3
  <2>7. Types'
    BY <1>1, <1>4, <2>1, <2>5, <2>6, BufferTypes DEF Inv
  <2> QED
    BY <1>1, <1>4, <2>1, <2>5, <2>7 DEF Inv, Progress
<1>5. CASE pc' = "boot" /\ ~Matches(buffer, offset, Cdi1Key)
  <2>1. PICK s \in Sizes :
          /\ buffer' = EraseFrom(With(buffer, offset, Cert(Cdi1Key, s)), offset + s)
          /\ dirty' = "yes" /\ offset' = offset + s
    BY <1>5 DEF Owner, Attest, Renew
  <2>2. s \in Nat /\ s >= 2 /\ offset + s <= Window * Windows /\ Window * Windows \in Nat
    BY <1>2, SizesFit
  <2>3. offset \in Words /\ offset \in 1 .. Window * Windows
    BY <1>2, <2>2 DEF Words
  <2> DEFINE n == EraseFrom(With(buffer, offset, Cert(Cdi1Key, s)), offset + s)
  <2>4. /\ Tidy(n) /\ \A x \in Words : n[x] # Torn
        /\ \A x \in 0 .. offset - 1 : n[x] = buffer[x]
        /\ Matches(n, offset, Cdi1Key) /\ SizeAt(n, offset) = s
    BY <1>1, <1>2, <2>2, <2>3, Renewed
  <2>5. buffer' = n
    BY <2>1
  <2> HIDE DEF n
  <2>6. HasCdi0(n) /\ At1(n) = offset
    BY <1>1, <1>2, <2>3, <2>4, SameWalk
  <2>7. Chain(n)
    BY <2>4, <2>6 DEF Chain, HasCdi1
  <2>8. Tidy(buffer)' /\ Chain(buffer)'
    BY <1>1, <2>4, <2>5, <2>7, Primed
  <2>9. Types'
    BY <1>1, <1>5, <2>1, <2>2, <2>3, <2>4, <2>5, <2>8, BufferTypes DEF Inv
  <2> QED
    BY <1>5, <2>1, <2>8, <2>9 DEF Inv, Progress
<1> QED
  BY <1>3, <1>4, <1>5
-----------------------------------------------------------------------------
\* A start of the ROM_EXT finds its variables cleared.
LEMMA RestartKeepsInv ==
  ASSUME Types, Restart, Tidy(page'), rom_ext' \in Measurements, owner' \in Measurements,
         cut' \in BOOLEAN, faults' \in 0 .. MaxFaults, UNCHANGED provisioned
  PROVE  Inv'
<1>1. Tidy(page)' /\ Tidy(buffer)' /\ \A w \in Words : buffer'[w] # Torn
  BY BlankIsTidy DEF Restart, Tidy, Laid, Blank
<1>2. 0 \in 0 .. Window * Windows /\ 0 \in 0 .. Windows
  BY SizesFit, SizesAssumption
<1> QED
  BY <1>1, <1>2 DEF Inv, Types, Progress, Restart

\* A cut update leaves in each word what was there, what was to be there or a
\* marker.
LEMMA CutWords ==
  ASSUME UpdatedPartly
  PROVE  /\ page' = [w \in Words |-> page'[w]]
         /\ pc = "boot" => \A w \in Words : page'[w] \in {page[w], Erased, Torn}
         /\ pc # "boot" => \A w \in Words : page'[w] \in {page[w], buffer[w], Torn}
<1>1. ASSUME ErasedPartly
      PROVE  /\ page' = [w \in Words |-> page'[w]]
             /\ \A w \in Words : page'[w] \in {page[w], Erased, Torn}
  <2>1. PICK after \in [0 .. Windows - 1 -> {"old", "erased", "torn"}] :
          page' = [w \in Words |-> CASE after[w \div Window] = "old" -> page[w]
                                     [] after[w \div Window] = "erased" -> Erased
                                     [] OTHER -> Torn]
    BY <1>1 DEF ErasedPartly
  <2> QED
    BY <2>1
<1>2. ASSUME ProgrammedPartly
      PROVE  /\ page' = [w \in Words |-> page'[w]]
             /\ \A w \in Words : page'[w] \in {page[w], buffer[w], Torn}
  <2>1. PICK k \in 0 .. Window, torn \in BOOLEAN :
          page' = [w \in Words |->
                     CASE InWindow(w) /\ w % Window < k -> buffer[w]
                       [] InWindow(w) /\ w % Window = k /\ torn -> Torn
                       [] OTHER -> page[w]]
    BY <1>2 DEF ProgrammedPartly
  <2> QED
    BY <2>1
<1> QED
  BY <1>1, <1>2 DEF UpdatedPartly

LEMMA PartlyIsTidy ==
  ASSUME Types, UpdatedPartly
  PROVE  Tidy(page')
<1>1. /\ \A w \in Words : Laid(page, w) /\ page[w] \in Units
      /\ \A w \in Words : Laid(buffer, w) /\ buffer[w] \in Units
      /\ Erased \in Units /\ Torn \in Units /\ Erased \in Markers /\ Torn \in Markers
  BY MarkersDiffer DEF Types, Tidy, Units
<1>2. \A w \in Words : page'[w] \in {page[w], buffer[w], Erased, Torn}
  BY CutWords
<1> QED
  BY <1>1, <1>2, CutWords DEF Tidy, Laid

\* The windows are copied one by one; when the last has been, the page is the
\* buffer.
LEMMA WindowsCopied ==
  ASSUME Inv, ProgramWindow
  PROVE  /\ \A w \in Words : page'[w] = IF w \div Window < window' THEN buffer[w] ELSE Erased
         /\ page' = [w \in Words |-> page'[w]]
         /\ window' = Windows => page' = buffer
<1>1. /\ Tidy(buffer) /\ Copied /\ window \in 0 .. Windows /\ window' = window + 1
  BY DEF Inv, Types, Progress, ProgramWindow
<1>2. \A w \in Words : page'[w] = IF w \div Window = window THEN buffer[w] ELSE page[w]
  BY DEF ProgramWindow, InWindow
<1>3. \A w \in Words : page'[w] = IF w \div Window < window' THEN buffer[w] ELSE Erased
  <2> SUFFICES ASSUME NEW w \in Words
               PROVE  page'[w] = IF w \div Window < window' THEN buffer[w] ELSE Erased
    OBVIOUS
  <2>1. w \div Window \in Int /\ window \in Int
    BY <1>1, WindowOfWord
  <2>2. page[w] = IF w \div Window < window THEN buffer[w] ELSE Erased
    BY <1>1 DEF Copied
  <2> QED
    BY <1>1, <1>2, <2>1, <2>2
<1>4. page' = [w \in Words |-> page'[w]]
  BY DEF ProgramWindow
<1>5. ASSUME window' = Windows PROVE page' = buffer
  <2>1. \A w \in Words : page'[w] = buffer[w]
    BY <1>3, <1>5, WindowOfWord, SizesAssumption
  <2> QED
    BY <1>1, <1>4, <2>1 DEF Tidy
<1> QED
  BY <1>3, <1>4, <1>5

LEMMA ProgramStep ==
  ASSUME Inv, ProgramWindow
  PROVE  Inv'
<1>1. /\ Tidy(page) /\ Tidy(buffer) /\ Chain(buffer) /\ Copied
      /\ window \in 0 .. Windows /\ window < Windows /\ pc = "program"
      /\ UNCHANGED <<buffer, dirty, offset, rom_ext, owner, provisioned, fresh, faults>>
      /\ cut' \in BOOLEAN /\ window' = window + 1
  BY DEF Inv, Types, Progress, ProgramWindow
<1>3. \A w \in Words : page'[w] = IF w \div Window < window' THEN buffer[w] ELSE Erased
  BY WindowsCopied
<1>4. page' = [w \in Words |-> page'[w]]
  BY WindowsCopied
<1>5. Tidy(page)' /\ Tidy(buffer)'
  BY <1>1, <1>3, <1>4, MarkersDiffer DEF Tidy, Laid, Units
<1>6. window' \in 0 .. Windows /\ SizesAssumption
  BY <1>1, SizesAssumption
<1>7. Chain(buffer)'
  BY <1>1, Primed
<1>8. CASE window' = Windows
  <2>1. page' = buffer
    BY <1>8, WindowsCopied
  <2>2. Chain(page)' /\ pc' = "run"
    BY <1>1, <1>8, <2>1, Primed DEF ProgramWindow
  <2> QED
    BY <1>1, <1>5, <1>6, <2>2 DEF Inv, Types, Progress
<1>9. CASE window' # Windows
  <2>1. pc' = "program" /\ window' < Windows
    BY <1>1, <1>6, <1>9, SizesAssumption DEF ProgramWindow
  <2>2. Copied'
    BY <1>3, <1>1 DEF Copied
  <2> QED
    BY <1>1, <1>5, <1>6, <1>7, <2>1, <2>2 DEF Inv, Types, Progress
<1> QED
  BY <1>8, <1>9
-----------------------------------------------------------------------------
\* The factory's page: three certificates in a row.
LEMMA ProvisionedIsTidy ==
  ASSUME NEW r \in Measurements, NEW o \in Measurements, NEW s \in Sizes, NEW t \in Sizes
  PROVE  Tidy(Provisioned(r, o, s, t))
<1> DEFINE p == Provisioned(r, o, s, t)
<1>1. /\ s \in Nat /\ t \in Nat /\ UdsSize \in Nat /\ UdsSize >= 2
      /\ UdsSize + s + t <= Window * Windows /\ <<0, r>> \in Keys /\ <<0, r, o>> \in Keys
  BY SizesFit DEF Keys
<1>2. \A w \in Words : p[w] =
        IF w - (UdsSize + s) \in 0 .. t - 1
        THEN Part(Cert(<<0, r, o>>, t), w - (UdsSize + s) + 1)
        ELSE IF w - UdsSize \in 0 .. s - 1 THEN Part(Cert(<<0, r>>, s), w - UdsSize + 1)
        ELSE IF w - 0 \in 0 .. UdsSize - 1 THEN Part(Uds, w - 0 + 1) ELSE Erased
  BY PartFields DEF Provisioned, With, Blank, Uds
<1>3. p = [w \in Words |-> p[w]]
  BY DEF Provisioned, With
<1>4. ASSUME NEW w \in Words PROVE p[w] \in Units /\ Laid(p, w)
  <2>1. w \in Nat
    BY DEF Words
  <2>2. CASE w - (UdsSize + s) \in 0 .. t - 1
    <3> DEFINE i == w - (UdsSize + s) + 1
    <3>1. i \in 1 .. t /\ w > 0
      BY <1>1, <2>1, <2>2
    <3>2. i \in Words
      BY <3>1, PlacesFit
    <3>3. p[w] = Part(Cert(<<0, r, o>>, t), i)
      BY <1>2, <1>4, <2>2
    <3> QED
      BY <1>1, <3>1, <3>2, <3>3, CdiPartIsUnit DEF Laid
  <2>3. CASE w - (UdsSize + s) \notin 0 .. t - 1 /\ w - UdsSize \in 0 .. s - 1
    <3> DEFINE i == w - UdsSize + 1
    <3>1. i \in 1 .. s /\ w > 0
      BY <1>1, <2>1, <2>3
    <3>2. i \in Words
      BY <3>1, PlacesFit
    <3>3. p[w] = Part(Cert(<<0, r>>, s), i)
      BY <1>2, <1>4, <2>3
    <3> QED
      BY <1>1, <3>1, <3>2, <3>3, CdiPartIsUnit DEF Laid
  <2>4. CASE /\ w - (UdsSize + s) \notin 0 .. t - 1 /\ w - UdsSize \notin 0 .. s - 1
             /\ w - 0 \in 0 .. UdsSize - 1
    <3>1. w + 1 \in 1 .. UdsSize /\ w - 0 + 1 = w + 1
      BY <1>1, <2>1, <2>4
    <3>2. p[w] = Part(Uds, w + 1)
      BY <1>2, <1>4, <2>4, <3>1
    <3> QED
      BY <3>1, <3>2, UdsPartIsUnit DEF Laid
  <2>5. CASE /\ w - (UdsSize + s) \notin 0 .. t - 1 /\ w - UdsSize \notin 0 .. s - 1
             /\ w - 0 \notin 0 .. UdsSize - 1
    <3>1. p[w] = Erased
      BY <1>2, <1>4, <2>5
    <3> QED
      BY <3>1, MarkersDiffer DEF Laid, Units
  <2> QED
    BY <2>2, <2>3, <2>4, <2>5
<1> HIDE DEF p
<1>5. Tidy(p)
  BY <1>3, <1>4 DEF Tidy
<1> QED
  BY <1>5 DEF p

LEMMA InitInv == Init => Inv
<1> SUFFICES ASSUME Init PROVE Inv
  OBVIOUS
<1>1. Tidy(page)
  BY BlankIsTidy, ProvisionedIsTidy DEF Init
<1>2. Tidy(buffer) /\ \A w \in Words : buffer[w] # Torn
  BY BlankIsTidy DEF Init
<1>3. 0 \in 0 .. Window * Windows /\ 0 \in 0 .. Windows /\ 0 \in 0 .. MaxFaults
  BY SizesFit, SizesAssumption, FaultsAssumption
<1>4. cut \in BOOLEAN /\ fresh \in BOOLEAN /\ provisioned \in BOOLEAN
  <2>1. cut = FALSE /\ fresh = FALSE
    BY DEF Init
  <2>2. provisioned \in BOOLEAN
    BY DEF Init
  <2> QED
    BY <2>1, <2>2
<1>5. Types
  BY <1>1, <1>2, <1>3, <1>4, SizesAssumption DEF Init, Types
<1>6. Progress
  BY DEF Init, Progress
<1> QED
  BY <1>5, <1>6 DEF Inv

LEMMA StepInv == Inv /\ [Next]_vars => Inv'
<1> SUFFICES ASSUME Inv, [Next]_vars PROVE Inv'
  OBVIOUS
<1>1. CASE UNCHANGED vars
  <2>1. UNCHANGED <<page, buffer, dirty, offset, pc, window, rom_ext, owner, provisioned,
                    cut, fresh, faults>>
    BY <1>1 DEF vars
  <2>2. Tidy(page)' /\ Tidy(buffer)'
    BY <2>1 DEF Inv, Types, Tidy, Laid
  <2>3. Types'
    BY <2>1, <2>2 DEF Inv, Types
  <2>4. /\ At0(buffer)' = At0(buffer) /\ At1(buffer)' = At1(buffer)
        /\ (HasUds(buffer) => HasUds(buffer)') /\ (HasCdi0(buffer) => HasCdi0(buffer)')
        /\ (Chain(buffer) => Chain(buffer)') /\ (Chain(page) => Chain(page)')
    BY <2>1, Primed
  <2>5. Copied => Copied'
    BY <2>1 DEF Copied
  <2>6. Blank' = Blank
    BY DEF Blank
  <2>7. Progress'
    BY <2>1, <2>4, <2>5, <2>6 DEF Inv, Progress
  <2> QED
    BY <2>3, <2>7 DEF Inv
<1>2. CASE ReadPage
  <2>1. /\ Tidy(page) /\ pc' = "silicon" /\ dirty = "false"
        /\ UNCHANGED <<page, offset, window, rom_ext, owner, provisioned, cut, fresh, faults>>
    BY <1>2 DEF ReadPage, Inv, Types, Progress
  <2>2. \/ buffer' = Blank /\ dirty' = "true"
        \/ /\ buffer' = page /\ dirty' = "false"
           /\ \A w \in Words : page[w] # Torn
    BY <1>2, <2>1 DEF ReadPage
  <2>3. Tidy(buffer)' /\ \A w \in Words : buffer'[w] # Torn
    BY <2>1, <2>2, BlankIsTidy, Primed
  <2>4. Tidy(page)' /\ (buffer' = Blank => buffer' = Blank')
    BY <2>1 DEF Tidy, Laid, Blank
  <2> QED
    BY <1>2, <2>1, <2>2, <2>3, <2>4 DEF Inv, Types, Progress, ReadPage
<1>3. CASE Silicon
  BY <1>3, SiliconStep
<1>4. CASE Creator
  BY <1>4, CreatorStep
<1>5. CASE Owner
  BY <1>5, OwnerStep
<1>6. CASE BootClean
  <2>1. /\ Chain(buffer) /\ buffer = page /\ pc' = "run" /\ Tidy(page)
        /\ UNCHANGED <<page, buffer, dirty, offset, window, rom_ext, owner, provisioned, cut,
                       fresh, faults>>
    BY <1>6 DEF BootClean, Inv, Types, Progress
  <2>2. Chain(page)' /\ Tidy(page)' /\ Tidy(buffer)'
    BY <2>1, Primed DEF Tidy, Laid
  <2> QED
    BY <2>1, <2>2 DEF Inv, Types, Progress
<1>7. CASE ErasePage
  <2>1. /\ Chain(buffer) /\ Tidy(buffer) /\ window = 0 /\ pc' = "program" /\ page' = Blank
        /\ UNCHANGED <<buffer, dirty, offset, window, rom_ext, owner, provisioned, cut, fresh,
                       faults>>
    BY <1>7 DEF ErasePage, Inv, Types, Progress
  <2>2. Tidy(page)' /\ Tidy(buffer)' /\ Chain(buffer)'
    BY <2>1, BlankIsTidy, Primed DEF Tidy, Laid
  <2>3. Copied'
    BY <2>1, WindowOfWord DEF Copied, Blank
  <2>4. 0 < Windows
    BY SizesAssumption
  <2> QED
    BY <2>1, <2>2, <2>3, <2>4 DEF Inv, Types, Progress
<1>8. CASE ProgramWindow
  BY <1>8, ProgramStep
<1>9. CASE Reset
  BY <1>9, RestartKeepsInv DEF Reset, Inv, Types
<1>10. CASE Update
  BY <1>10, RestartKeepsInv DEF Update, Inv, Types
<1>11. CASE PowerLoss
  <2>1. Tidy(page') /\ cut' \in BOOLEAN
    BY <1>11, PartlyIsTidy DEF PowerLoss, Inv, Types
  <2>2. faults' \in 0 .. MaxFaults
    BY <1>11, FaultsAssumption DEF PowerLoss, Fault, Inv, Types
  <2> QED
    BY <1>11, <2>1, <2>2, RestartKeepsInv DEF PowerLoss, Inv, Types
<1>12. CASE FlashError
  <2>1. Tidy(page') /\ cut' \in BOOLEAN
    BY <1>12, PartlyIsTidy DEF FlashError, Inv, Types
  <2>2. faults' \in 0 .. MaxFaults
    BY <1>12, FaultsAssumption DEF FlashError, Fault, Inv, Types
  <2>3. /\ pc' = "shutdown"
        /\ UNCHANGED <<buffer, dirty, offset, window, rom_ext, owner, provisioned, fresh>>
    BY <1>12 DEF FlashError
  <2>4. Tidy(page)' /\ Tidy(buffer)'
    BY <2>1, <2>3 DEF Inv, Types, Tidy, Laid
  <2> QED
    BY <2>1, <2>2, <2>3, <2>4 DEF Inv, Types, Progress
<1> QED
  BY <1>1, <1>2, <1>3, <1>4, <1>5, <1>6, <1>7, <1>8, <1>9, <1>10, <1>11, <1>12 DEF Next, Boot

LEMMA InvAlways == Spec => []Inv
BY InitInv, StepInv, PTL DEF Spec

\* Every variable keeps its type: no certificate is built beyond the page, and
\* the buffer never takes a torn word (rom_ext_buffer_dice_certs_into_ram()).
THEOREM TypeCorrect == Spec => []TypeOK
<1>1. Inv => TypeOK
  BY DEF Inv, Types, TypeOK, Tidy, Laid
<1> QED
  BY <1>1, InvAlways, PTL

\* Through every update of images and every power loss in the middle of writing
\* the page, the owner that runs finds the certificates of the images that were
\* measured (rom_ext_attestation_creator(), rom_ext_attestation_owner(),
\* rom_ext_boot()).
THEOREM ChainIsCurrent == Spec => []CurrentChain
<1>1. Inv => CurrentChain
  <2> SUFFICES ASSUME Inv, pc = "run"
               PROVE  /\ Cdi0At > 0 /\ Matches(page, Cdi0At, Cdi0Key)
                      /\ Matches(page, Cdi1At, Cdi1Key)
    BY DEF CurrentChain
  <2>1. Chain(page)
    BY DEF Inv, Progress
  <2>2. Cdi0At = At0(page) /\ Cdi1At = At1(page)
    BY DEF Cdi0At, Cdi1At, At0, At1
  <2>3. Cdi0At > 0
    BY <2>1, <2>2, SizesFit DEF Chain, HasCdi0, HasUds
  <2> QED
    BY <2>1, <2>2, <2>3 DEF Chain, HasCdi0, HasCdi1
<1> QED
  BY <1>1, InvAlways, PTL
=============================================================================
