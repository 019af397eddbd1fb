-------------------------- MODULE DiceLayoutProof --------------------------
(***************************************************************************)
(* What is around the certificates in the page of Dice: a page is always    *)
(* what is left of one layout of three certificates in a row, since a new    *)
(* layout is only written when the old one has been erased, and from the CDI_0 *)
(* certificate on all of one, unless an update has been cut short since the    *)
(* last that renewed it.                                                     *)
(***************************************************************************)
EXTENDS DiceProof

\* A layout: u words for the UDS certificate, or the empty header, and behind
\* them a CDI_0 certificate for k and a CDI_1 certificate for l.
Places == {1, UdsSize}
First(u, w) == IF u = 1 THEN Blob ELSE Part(Uds, w + 1)
Layout(u, k, s, l, t, w) ==
  IF w < u THEN First(u, w)
  ELSE IF w < u + s THEN Part(Cert(k, s), w - u + 1)
  ELSE IF w < u + s + t THEN Part(Cert(l, t), w - (u + s) + 1)
  ELSE Erased

Remains(mem, u, k, s, l, t) ==
  \A w \in Words : mem[w] \in {Layout(u, k, s, l, t, w), Erased, Torn}
\* The UDS certificate, which is never made anew, need not be whole.
Is(mem, u, k, s, l, t) ==
  /\ Remains(mem, u, k, s, l, t) /\ mem[0] = First(u, 0)
  /\ \A w \in Words : w >= u => mem[w] = Layout(u, k, s, l, t, w)
Rest(mem) == \E u \in Places, k, l \in Keys, s, t \in Sizes : Remains(mem, u, k, s, l, t)
Exact(mem) == \E u \in Places, k, l \in Keys, s, t \in Sizes : Is(mem, u, k, s, l, t)
\* The CDI_0 certificate has been renewed, and nothing is behind it.
Half(mem) ==
  \E u \in Places, s \in Sizes :
    /\ Remains(mem, u, Cdi0Key, s, Cdi0Key, s) /\ mem[0] = First(u, 0)
    /\ \A w \in Words : w >= u =>
         mem[w] = IF w < u + s THEN Layout(u, Cdi0Key, s, Cdi0Key, s, w) ELSE Erased

Remaining ==
  /\ Rest(page)
  /\ pc \in {"silicon", "owner", "boot", "program"} => Rest(buffer)
  /\ pc = "creator" => Rest(buffer) \/ (buffer[0] = Blob /\ ~Matches(buffer, 1, Cdi0Key))
  /\ pc = "run" => page = buffer
Uncut ==
  /\ ~cut =>
       /\ pc # "program" => page = Blank \/ Exact(page)
       /\ pc = "silicon" => buffer = Blank \/ Exact(buffer)
       /\ pc = "creator" => Exact(buffer)
                            \/ (buffer[0] = Blob /\ \A w \in Words : w > 0 => buffer[w] = Erased)
  /\ ~cut \/ fresh =>
       /\ pc = "owner" => Exact(buffer) \/ Half(buffer)
       /\ pc \in {"boot", "program"} => Exact(buffer)
LayoutInv == Inv /\ Remaining /\ Uncut
-----------------------------------------------------------------------------
LEMMA Numbers ==
  /\ Words \subseteq Nat /\ Window * Windows \in Nat
  /\ \A u \in Places : u \in Nat /\ u > 0 /\ u \in Words
  /\ \A s \in Sizes : s \in Nat /\ s >= 2
  /\ \A u \in Places, s, t \in Sizes : u + s + t <= Window * Windows
<1>1. Words \subseteq Nat /\ Window * Windows \in Nat
  BY SizesFit DEF Words
<1>2. \A u \in Places : u \in Nat /\ u > 0 /\ u \in Words
  BY SizesFit, PlacesFit DEF Places
<1>3. /\ \A s \in Sizes : s \in Nat /\ s >= 2
      /\ \A u \in Places, s, t \in Sizes : u + s + t <= Window * Windows
  BY SizesFit DEF Places
<1> QED
  BY <1>1, <1>2, <1>3

\* The words of a layout that the walk through the page looks at.
LEMMA LayoutWords ==
  ASSUME NEW u \in Places, NEW k \in Keys, NEW l \in Keys, NEW s \in Sizes, NEW t \in Sizes
  PROVE  /\ Layout(u, k, s, l, t, 0) = First(u, 0)
         /\ Layout(u, k, s, l, t, u) = Part(Cert(k, s), 1)
         /\ Layout(u, k, s, l, t, u + 1) = Part(Cert(k, s), 2)
         /\ Layout(u, k, s, l, t, u + s) = Part(Cert(l, t), 1)
         /\ Layout(u, k, s, l, t, u + s + 1) = Part(Cert(l, t), 2)
         /\ \A i \in 1 .. s : Layout(u, k, s, l, t, u + i - 1) = Part(Cert(k, s), i)
         /\ \A i \in 1 .. t : Layout(u, k, s, l, t, u + s + i - 1) = Part(Cert(l, t), i)
         /\ \A w \in Words : w >= u + s + t => Layout(u, k, s, l, t, w) = Erased
<1>1. /\ u \in Nat /\ u > 0 /\ s \in Nat /\ s >= 2 /\ t \in Nat /\ t >= 2
      /\ Words \subseteq Nat
  BY Numbers
<1>2. Layout(u, k, s, l, t, 0) = First(u, 0)
  BY <1>1 DEF Layout
<1>3. \A i \in 1 .. s : Layout(u, k, s, l, t, u + i - 1) = Part(Cert(k, s), i)
  <2> SUFFICES ASSUME NEW i \in 1 .. s
               PROVE  Layout(u, k, s, l, t, u + i - 1) = Part(Cert(k, s), i)
    OBVIOUS
  <2>0. i \in Nat /\ i >= 1 /\ i <= s /\ u \in Nat /\ s \in Nat
    BY <1>1
  <2>1. ~(u + i - 1 < u) /\ u + i - 1 < u + s /\ u + i - 1 - u + 1 = i
    BY <2>0
  <2> QED
    BY <2>0, <2>1 DEF Layout
<1>4. \A i \in 1 .. t : Layout(u, k, s, l, t, u + s + i - 1) = Part(Cert(l, t), i)
  <2> SUFFICES ASSUME NEW i \in 1 .. t
               PROVE  Layout(u, k, s, l, t, u + s + i - 1) = Part(Cert(l, t), i)
    OBVIOUS
  <2>0. /\ i \in Nat /\ i >= 1 /\ i <= t
        /\ u \in Nat /\ s \in Nat /\ t \in Nat
    BY <1>1
  <2>1. /\ ~(u + s + i - 1 < u) /\ ~(u + s + i - 1 < u + s) /\ u + s + i - 1 < u + s + t
        /\ u + s + i - 1 - (u + s) + 1 = i
    BY <2>0
  <2> QED
    BY <2>0, <2>1 DEF Layout
<1>5. \A w \in Words : w >= u + s + t => Layout(u, k, s, l, t, w) = Erased
  BY <1>1 DEF Layout
<1>6. /\ u + 1 - 1 = u /\ u + 2 - 1 = u + 1 /\ 1 \in 1 .. s /\ 2 \in 1 .. s
      /\ u + s + 1 - 1 = u + s /\ u + s + 2 - 1 = u + s + 1 /\ 1 \in 1 .. t /\ 2 \in 1 .. t
  BY <1>1
<1> QED
  BY <1>2, <1>3, <1>4, <1>5, <1>6

LEMMA IsRemains ==
  ASSUME NEW mem
  PROVE  Exact(mem) => Rest(mem)
BY DEF Exact, Rest, Is

\* Nothing is left of any layout.
LEMMA BlankIsRest == Rest(Blank)
<1>1. UdsKey \in Keys /\ UdsSize \in Places /\ \E s \in Sizes : s \in Nat
  BY SizesFit DEF Keys, Places
<1> QED
  BY <1>1 DEF Rest, Remains, Blank

\* Where the walk finds a certificate in the rest of a layout, it is the one of
\* the layout.
LEMMA WalkOfRest ==
  ASSUME NEW mem, NEW u \in Places, NEW k \in Keys, NEW l \in Keys, NEW s \in Sizes,
         NEW t \in Sizes, Remains(mem, u, k, s, l, t), HasUds(mem)
  PROVE  /\ At0(mem) = u /\ mem[0] = First(u, 0)
         /\ \A key : Matches(mem, u, key) =>
              mem[u] = Part(Cert(k, s), 1) /\ key = k /\ SizeAt(mem, u) = s
         /\ \A key : Matches(mem, u + s, key) =>
              mem[u + s] = Part(Cert(l, t), 1) /\ key = l /\ SizeAt(mem, u + s) = t
<1>1. 0 \in Words /\ UdsSize >= 2 /\ UdsSize \in Nat
  BY PlacesFit, SizesFit
<1>2. At0(mem) = u /\ mem[0] = First(u, 0)
  <2>1. mem[0] \in {First(u, 0), Erased, Torn}
    BY <1>1, LayoutWords DEF Remains
  <2>2. mem[0] \notin {Erased, Torn}
    BY <1>1, MarkersDiffer DEF HasUds, At0, SizeAt, IsPart
  <2>3. CASE u = 1
    <3>1. mem[0] = First(u, 0)
      BY <2>1, <2>2
    <3>2. mem[0] = Blob
      BY <2>3, <3>1 DEF First
    <3> QED
      BY <2>3, <3>1, <3>2, MarkersDiffer DEF At0, SizeAt, IsPart
  <2>4. CASE u = UdsSize /\ u # 1
    <3>0. mem[0] = First(u, 0)
      BY <2>1, <2>2
    <3>1. mem[0] = Part(Uds, 1) /\ Part(Uds, 1) \notin Markers
      BY <1>1, <2>4, <3>0, UdsPartIsUnit DEF First
    <3> QED
      BY <1>1, <2>4, <3>0, <3>1, PartFields DEF At0, SizeAt, IsPart, Uds
  <2> QED
    BY <2>3, <2>4 DEF Places
<1>3. ASSUME NEW key, Matches(mem, u, key)
      PROVE  mem[u] = Part(Cert(k, s), 1) /\ key = k /\ SizeAt(mem, u) = s
  <2>1. u \in Words /\ u + 1 \in Words /\ mem[u] \notin Markers /\ mem[u + 1] \notin Markers
    BY <1>3 DEF Matches, IsPart
  <2>2. mem[u] = Part(Cert(k, s), 1) /\ mem[u + 1] = Part(Cert(k, s), 2)
    BY <2>1, LayoutWords, MarkersDiffer DEF Remains
  <2> QED
    BY <1>3, <2>2, PartFields DEF Matches, SizeAt, IsPart
<1>4. ASSUME NEW key, Matches(mem, u + s, key)
      PROVE  mem[u + s] = Part(Cert(l, t), 1) /\ key = l /\ SizeAt(mem, u + s) = t
  <2>1. /\ u + s \in Words /\ u + s + 1 \in Words
        /\ mem[u + s] \notin Markers /\ mem[u + s + 1] \notin Markers
    BY <1>4 DEF Matches, IsPart
  <2>2. mem[u + s] = Part(Cert(l, t), 1) /\ mem[u + s + 1] = Part(Cert(l, t), 2)
    BY <2>1, LayoutWords, MarkersDiffer DEF Remains
  <2> QED
    BY <1>4, <2>2, PartFields DEF Matches, SizeAt, IsPart
<1> QED
  BY <1>2, <1>3, <1>4

LEMMA Cdi1OfRest ==
  ASSUME NEW mem, NEW u \in Places, NEW k \in Keys, NEW l \in Keys, NEW s \in Sizes,
         NEW t \in Sizes, Remains(mem, u, k, s, l, t), NEW w, w = u + s,
         NEW key, Matches(mem, w, key)
  PROVE  mem[w] = Part(Cert(l, t), 1) /\ key = l
<1>1. w \in Words /\ w + 1 \in Words /\ mem[w] \notin Markers /\ mem[w + 1] \notin Markers
  BY DEF Matches, IsPart
<1>2. mem[w] = Part(Cert(l, t), 1) /\ mem[w + 1] = Part(Cert(l, t), 2)
  BY <1>1, LayoutWords, MarkersDiffer DEF Remains
<1> QED
  BY <1>2, PartFields DEF Matches, IsPart

\* The words of a buffer in which a certificate has been renewed.
LEMMA RenewedWords ==
  ASSUME NEW mem, NEW w \in Nat, NEW k, NEW s \in Sizes
  PROVE  \A x \in Words : EraseFrom(With(mem, w, Cert(k, s)), w + s)[x] =
           IF x < w THEN mem[x]
           ELSE IF x < w + s THEN Part(Cert(k, s), x - w + 1) ELSE Erased
<1>1. s \in Nat /\ s >= 2 /\ Words \subseteq Nat
  BY Numbers
<1>2. \A x \in Words : x - w \in 0 .. s - 1 <=> x >= w /\ x < w + s
  BY <1>1
<1> QED
  BY <1>1, <1>2, PartFields DEF EraseFrom, With
------------------------------------------------------------------------------
\* A renewed CDI_0 certificate begins a layout of its own.
LEMMA RenewCdi0 ==
  ASSUME NEW mem, NEW u \in Places, NEW s \in Sizes, Cdi0Key \in Keys,
         NEW n, n = EraseFrom(With(mem, u, Cert(Cdi0Key, s)), u + s),
         mem[0] = First(u, 0),
         \A x \in Words : x < u => mem[x] \in {First(u, x), Erased, Torn}
  PROVE  Rest(n) /\ Half(n)
<1>1. /\ u \in Nat /\ u > 0 /\ s \in Nat /\ s >= 2 /\ Words \subseteq Nat
  BY Numbers
<1>2. \A x \in Words : n[x] = IF x < u THEN mem[x]
                              ELSE IF x < u + s THEN Part(Cert(Cdi0Key, s), x - u + 1)
                              ELSE Erased
  <2>1. u \in Nat
    BY <1>1
  <2>2. \A x \in Words : EraseFrom(With(mem, u, Cert(Cdi0Key, s)), u + s)[x] =
          IF x < u THEN mem[x]
          ELSE IF x < u + s THEN Part(Cert(Cdi0Key, s), x - u + 1) ELSE Erased
    BY <2>1, RenewedWords, Zenon
  <2> QED
    BY <2>2, Zenon
<1>3. \A x \in Words : x < u => Layout(u, Cdi0Key, s, Cdi0Key, s, x) = First(u, x)
  BY DEF Layout
<1>4. \A x \in Words : ~(x < u) /\ x < u + s =>
        n[x] = Layout(u, Cdi0Key, s, Cdi0Key, s, x)
  <2> SUFFICES ASSUME NEW x \in Words, ~(x < u), x < u + s
               PROVE  n[x] = Layout(u, Cdi0Key, s, Cdi0Key, s, x)
    OBVIOUS
  <2>1. Layout(u, Cdi0Key, s, Cdi0Key, s, x) = Part(Cert(Cdi0Key, s), x - u + 1)
    BY Zenon DEF Layout
  <2>2. n[x] = Part(Cert(Cdi0Key, s), x - u + 1)
    BY <1>2, Zenon
  <2> QED
    BY <2>1, <2>2
<1>5. \A x \in Words : x < u => x < u + s
  BY <1>1
<1>6. Remains(n, u, Cdi0Key, s, Cdi0Key, s)
  BY <1>2, <1>3, <1>4 DEF Remains
<1>7. n[0] = First(u, 0)
  BY <1>1, <1>2, PlacesFit
<1>8. \A x \in Words : x >= u =>
        n[x] = IF x < u + s THEN Layout(u, Cdi0Key, s, Cdi0Key, s, x) ELSE Erased
  <2>1. \A x \in Words : x >= u => ~(x < u)
    BY <1>1
  <2> QED
    BY <1>2, <1>4, <1>5, <2>1
<1> QED
  BY <1>6, <1>7, <1>8 DEF Rest, Half

Begins(mem, u, k, s, l, t) ==
  /\ mem[0] = First(u, 0)
  /\ \A x \in Words : x >= u /\ x < u + s => mem[x] = Layout(u, k, s, l, t, x)
\* A renewed CDI_1 certificate takes the place of the old one in the layout.
LEMMA RenewCdi1 ==
  ASSUME NEW mem, NEW u \in Places, NEW k \in Keys, NEW l \in Keys, NEW s \in Sizes,
         NEW t \in Sizes, NEW r \in Sizes, Cdi1Key \in Keys,
         NEW n, n = EraseFrom(With(mem, u + s, Cert(Cdi1Key, r)), u + s + r),
         Remains(mem, u, k, s, l, t)
  PROVE  /\ Rest(n)
         /\ Begins(mem, u, k, s, l, t) => Exact(n)
<1>1. /\ u \in Nat /\ u > 0 /\ s \in Nat /\ s >= 2 /\ Words \subseteq Nat /\ u + s \in Nat
      /\ r \in Nat
  BY Numbers
<1>2. \A x \in Words : n[x] = IF x < u + s THEN mem[x]
                              ELSE IF x < u + s + r THEN Part(Cert(Cdi1Key, r), x - (u + s) + 1)
                              ELSE Erased
  <2>1. u + s \in Nat
    BY <1>1
  <2>2. \A x \in Words : EraseFrom(With(mem, u + s, Cert(Cdi1Key, r)), u + s + r)[x] =
          IF x < u + s THEN mem[x]
          ELSE IF x < u + s + r THEN Part(Cert(Cdi1Key, r), x - (u + s) + 1) ELSE Erased
    BY <2>1, RenewedWords, Zenon
  <2> QED
    BY <2>2, Zenon
<1>3. \A x \in Words : x < u + s =>
        Layout(u, k, s, Cdi1Key, r, x) = Layout(u, k, s, l, t, x)
  <2> SUFFICES ASSUME NEW x \in Words, x < u + s
               PROVE  Layout(u, k, s, Cdi1Key, r, x) = Layout(u, k, s, l, t, x)
    OBVIOUS
  <2>1. CASE x < u
    BY <2>1, Zenon DEF Layout
  <2>2. CASE ~(x < u)
    <3>1. Layout(u, k, s, Cdi1Key, r, x) = Part(Cert(k, s), x - u + 1)
      BY <2>2, Zenon DEF Layout
    <3>2. Layout(u, k, s, l, t, x) = Part(Cert(k, s), x - u + 1)
      BY <2>2, Zenon DEF Layout
    <3> QED
      BY <3>1, <3>2
  <2> QED
    BY <2>1, <2>2
<1>4. ASSUME NEW x \in Words, ~(x < u + s)
      PROVE  n[x] = Layout(u, k, s, Cdi1Key, r, x)
  <2>1. ~(x < u) /\ x \in Nat
    BY <1>1, <1>4
  <2>2. Layout(u, k, s, Cdi1Key, r, x) =
          IF x < u + s + r THEN Part(Cert(Cdi1Key, r), x - (u + s) + 1) ELSE Erased
    BY <1>4, <2>1 DEF Layout
  <2> QED
    BY <1>2, <1>4, <2>2
<1>5. Remains(n, u, k, s, Cdi1Key, r)
  BY <1>2, <1>3, <1>4 DEF Remains
<1>6. ASSUME Begins(mem, u, k, s, l, t)
      PROVE  Exact(n)
  <2>1. n[0] = First(u, 0)
    BY <1>1, <1>2, <1>6, PlacesFit DEF Begins
  <2>2. \A w \in Words : w >= u => n[w] = Layout(u, k, s, Cdi1Key, r, w)
    BY <1>2, <1>3, <1>4, <1>6 DEF Begins
  <2> QED
    BY <1>5, <2>1, <2>2 DEF Exact, Is
<1> QED
  BY <1>5, <1>6 DEF Rest
-----------------------------------------------------------------------------
\* The state functions of the invariant at the next state.
LEMMA PrimedLayout ==
  /\ Rest(page)' <=> Rest(page')
  /\ Rest(buffer)' <=> Rest(buffer')
  /\ Exact(page)' <=> Exact(page')
  /\ Exact(buffer)' <=> Exact(buffer')
  /\ Blank' = Blank
  /\ rom_ext' = rom_ext => (Half(buffer') => Half(buffer)')
<1>1. (Rest(page)' <=> Rest(page')) /\ (Rest(buffer)' <=> Rest(buffer'))
  BY DEF Rest, Remains
<1>2. (Exact(page)' <=> Exact(page')) /\ (Exact(buffer)' <=> Exact(buffer'))
  BY DEF Exact, Is, Remains
<1>3. Blank' = Blank
  BY DEF Blank
<1>4. ASSUME rom_ext' = rom_ext, Half(buffer') PROVE Half(buffer)'
  <2>1. Cdi0Key' = Cdi0Key
    BY <1>4 DEF Cdi0Key
  <2> QED
    BY <1>4, <2>1 DEF Half, Remains
<1> QED
  BY <1>1, <1>2, <1>3, <1>4

\* A boot that stops, or goes on, with the page as it was.
LEMMA PageStays ==
  ASSUME LayoutInv, page' = page, cut' = cut, pc # "program"
  PROVE  /\ Rest(page)' /\ (~cut' => page' = Blank' \/ Exact(page)')
         /\ pc' \in {"read", "shutdown", "trap"} => Remaining' /\ Uncut'
<1>1. Rest(page') /\ (~cut' => page' = Blank \/ Exact(page'))
  BY DEF LayoutInv, Remaining, Uncut
<1>2. Rest(page)' /\ (~cut' => page' = Blank' \/ Exact(page)')
  BY <1>1, PrimedLayout
<1>3. pc' \in {"read", "shutdown", "trap"} => Remaining' /\ Uncut'
  BY <1>2 DEF Remaining, Uncut
<1> QED
  BY <1>2, <1>3

LEMMA ReadLayout ==
  ASSUME LayoutInv, ReadPage
  PROVE  Remaining' /\ Uncut'
<1>1. /\ Rest(page) /\ page' = page /\ cut' = cut /\ pc = "read" /\ pc' = "silicon"
      /\ buffer' = Blank \/ buffer' = page
      /\ ~cut => page = Blank \/ Exact(page)
  BY DEF LayoutInv, Remaining, Uncut, ReadPage
<1>2. Rest(buffer') /\ (~cut' => buffer' = Blank \/ Exact(buffer'))
  BY <1>1, BlankIsRest
<1> QED
  BY <1>1, <1>2, PageStays, PrimedLayout DEF Remaining, Uncut

\* The empty header never comes before a CDI_0 certificate of another layout.
LEMMA SiliconLayout ==
  ASSUME LayoutInv, Silicon
  PROVE  Remaining' /\ Uncut'
<1>1. /\ pc = "silicon" /\ page' = page /\ cut' = cut /\ Rest(buffer) /\ Tidy(buffer)
      /\ ~cut => buffer = Blank \/ Exact(buffer)
      /\ UNCHANGED <<rom_ext, owner>>
  BY DEF LayoutInv, Inv, Types, Remaining, Uncut, Silicon
<1>2. CASE pc' # "creator"
  BY <1>1, <1>2, PageStays DEF Silicon
<1>3. CASE pc' = "creator" /\ SizeAt(buffer, 0) # 0
  <2>1. buffer' = buffer
    BY <1>3 DEF Silicon
  <2>2. buffer # Blank
    BY <1>3, MarkersDiffer, PlacesFit DEF SizeAt, IsPart, Blank
  <2> QED
    BY <1>1, <1>3, <2>1, <2>2, PageStays, PrimedLayout DEF Remaining, Uncut
<1>4. CASE pc' = "creator" /\ SizeAt(buffer, 0) = 0
  <2>1. buffer' = [buffer EXCEPT ![0] = Blob] /\ buffer = [w \in Words |-> buffer[w]]
    BY <1>1, <1>4 DEF Silicon, Tidy
  <2>2. 0 \in Words /\ Words \subseteq Nat
    BY PlacesFit, Numbers
  <2>3. buffer'[0] = Blob /\ \A w \in Words : w # 0 => buffer'[w] = buffer[w]
    BY <2>1, <2>2
  <2>4. PICK u \in Places, k \in Keys, l \in Keys, s \in Sizes, t \in Sizes :
          Remains(buffer, u, k, s, l, t)
    BY <1>1 DEF Rest
  <2>5. ASSUME u = 1 PROVE Rest(buffer')
    <3>1. Layout(u, k, s, l, t, 0) = Blob
      BY <2>5, LayoutWords DEF First
    <3>2. Remains(buffer', u, k, s, l, t)
      BY <2>3, <2>4, <3>1 DEF Remains
    <3> QED
      BY <3>2 DEF Rest
  <2>6. ASSUME u = UdsSize PROVE ~Matches(buffer', 1, Cdi0Key)
    <3>1. 1 \in Words => Layout(u, k, s, l, t, 1) = Part(Uds, 2)
      BY <2>6, SizesFit DEF Layout, First
    <3>2. 1 \in Words => buffer'[1] \in {Part(Uds, 2), Erased, Torn}
      BY <2>3, <2>4, <3>1 DEF Remains
    <3>3. ~IsPart(buffer', 1, 1)
      BY <3>2, PartFields, MarkersDiffer DEF IsPart, Uds
    <3> QED
      BY <3>3 DEF Matches
  <2>7. Rest(buffer') \/ ~Matches(buffer', 1, Cdi0Key)
    BY <2>5, <2>6 DEF Places
  <2>8. Exact(buffer) => FALSE
    <3> SUFFICES ASSUME Exact(buffer) PROVE FALSE
      OBVIOUS
    <3>1. PICK a \in Places : buffer[0] = First(a, 0)
      BY DEF Exact, Is
    <3>2. buffer[0] = Blob \/ buffer[0] = Part(Uds, 1)
      BY <3>1 DEF First
    <3>3. Part(Uds, 1) \notin Markers
      BY SizesFit, UdsPartIsUnit
    <3> QED
      BY <1>4, <2>2, <3>2, <3>3, PartFields, SizesFit, MarkersDiffer DEF SizeAt, IsPart, Uds
  <2>9. ~cut => \A w \in Words : w > 0 => buffer'[w] = Erased
    BY <1>1, <2>2, <2>3, <2>8 DEF Blank
  <2>10. Cdi0Key' = Cdi0Key
    BY <1>1 DEF Cdi0Key
  <2>11. ~Matches(buffer', 1, Cdi0Key) => ~Matches(buffer, 1, Cdi0Key)'
    BY <2>10 DEF Matches, IsPart
  <2> QED
    BY <1>1, <1>4, <2>3, <2>7, <2>9, <2>11, PageStays, PrimedLayout DEF Remaining, Uncut
<1> QED
  BY <1>2, <1>3, <1>4

\* The walk through what is left of a layout gets to its CDI_1 certificate.
LEMMA WalkToCdi1 ==
  ASSUME NEW mem, NEW u \in Places, NEW k \in Keys, NEW l \in Keys, NEW s \in Sizes,
         NEW t \in Sizes, Remains(mem, u, k, s, l, t), HasCdi0(mem)
  PROVE  At0(mem) = u /\ k = Cdi0Key /\ At1(mem) = u + s
<1>1. HasUds(mem) /\ Matches(mem, At0(mem), Cdi0Key)
  BY DEF HasCdi0
<1>2. At0(mem) = u
  BY <1>1, WalkOfRest
<1>3. Matches(mem, u, Cdi0Key)
  BY <1>1, <1>2
<1>4. k = Cdi0Key /\ SizeAt(mem, u) = s
  BY <1>1, <1>3, WalkOfRest
<1> QED
  BY <1>2, <1>4 DEF At1

\* Half of a layout begins one and has nothing behind its first certificate.
LEMMA HalfBegins ==
  ASSUME NEW mem, Cdi0Key \in Keys, Half(mem)
  PROVE  \E u \in Places, s \in Sizes :
           /\ Remains(mem, u, Cdi0Key, s, Cdi0Key, s)
           /\ Begins(mem, u, Cdi0Key, s, Cdi0Key, s)
           /\ u + s \in Words => mem[u + s] = Erased
<1>1. PICK u \in Places, s \in Sizes :
        /\ Remains(mem, u, Cdi0Key, s, Cdi0Key, s) /\ mem[0] = First(u, 0)
        /\ \A w \in Words : w >= u =>
             mem[w] = IF w < u + s THEN Layout(u, Cdi0Key, s, Cdi0Key, s, w) ELSE Erased
  BY DEF Half
<1>2. ~(u + s < u + s) /\ u + s >= u
  BY Numbers
<1>3. Begins(mem, u, Cdi0Key, s, Cdi0Key, s)
  BY <1>1 DEF Begins
<1> QED
  BY <1>1, <1>2, <1>3

LEMMA CreatorLayout ==
  ASSUME LayoutInv, Creator
  PROVE  Remaining' /\ Uncut'
<1>1. /\ pc = "creator" /\ page' = page /\ cut' = cut /\ UNCHANGED <<rom_ext, owner>>
      /\ HasUds(buffer) /\ offset = At0(buffer)
      /\ rom_ext \in Measurements /\ owner \in Measurements
      /\ Rest(buffer) \/ (buffer[0] = Blob /\ ~Matches(buffer, 1, Cdi0Key))
      /\ ~cut => \/ Exact(buffer)
                 \/ buffer[0] = Blob /\ \A w \in Words : w > 0 => buffer[w] = Erased
  BY DEF LayoutInv, Inv, Types, Progress, Remaining, Uncut, Creator, Attest
<1>2. /\ offset \in Places /\ Cdi0Key \in Keys /\ 0 \in Words /\ Words \subseteq Nat
      /\ buffer[0] = Blob => offset = 1
  BY <1>1, KeysAreKeys, PlacesFit, Numbers, MarkersDiffer
     DEF HasUds, Places, At0, SizeAt, IsPart
<1>3. CASE pc' # "owner"
  <2>1. pc' \in {"shutdown", "trap"}
    BY <1>3 DEF Creator, Attest
  <2> QED
    BY <1>1, <2>1, PageStays
<1>4. CASE pc' = "owner" /\ Matches(buffer, offset, Cdi0Key)
  <2>1. buffer' = buffer
    BY <1>4 DEF Creator, Attest, Renew
  <2>2. Rest(buffer) /\ ~fresh'
    BY <1>1, <1>2, <1>4 DEF Creator
  <2>3. ~cut => Exact(buffer)
    <3>1. offset \in Words /\ buffer[offset] \notin Markers
      BY <1>4 DEF Matches, IsPart
    <3>2. offset > 0
      BY <1>2, Numbers
    <3> QED
      BY <1>1, <3>1, <3>2, MarkersDiffer
  <2> QED
    BY <1>1, <1>4, <2>1, <2>2, <2>3, PageStays, PrimedLayout DEF Remaining, Uncut
<1>5. CASE pc' = "owner" /\ ~Matches(buffer, offset, Cdi0Key)
  <2>1. PICK s \in Sizes :
          buffer' = EraseFrom(With(buffer, offset, Cert(Cdi0Key, s)), offset + s)
    BY <1>5 DEF Creator, Attest, Renew
  <2>2. ASSUME buffer[0] = Blob
        PROVE  \A x \in Words : x < offset => buffer[x] = First(offset, x)
    <3>1. offset = 1 /\ \A x \in Words : x < 1 => x = 0
      BY <1>2, <2>2
    <3> QED
      BY <2>2, <3>1 DEF First
  <2>3. ASSUME Rest(buffer)
        PROVE  \A x \in Words : x < offset => buffer[x] \in {First(offset, x), Erased, Torn}
    <3>1. PICK u \in Places, k \in Keys, l \in Keys, s1 \in Sizes, t \in Sizes :
            Remains(buffer, u, k, s1, l, t)
      BY <2>3 DEF Rest
    <3>2. u = offset
      BY <1>1, <3>1, WalkOfRest
    <3>3. \A x \in Words : x < u => Layout(u, k, s1, l, t, x) = First(u, x)
      BY DEF Layout
    <3> QED
      BY <3>1, <3>2, <3>3 DEF Remains
  <2>4. buffer[0] = First(offset, 0)
    <3>1. CASE buffer[0] = Blob
      BY <1>2, <3>1 DEF First
    <3>2. CASE Rest(buffer)
      BY <1>1, <3>2, WalkOfRest DEF Rest
    <3> QED
      BY <1>1, <3>1, <3>2
  <2>5. \A x \in Words : x < offset => buffer[x] \in {First(offset, x), Erased, Torn}
    BY <1>1, <2>2, <2>3
  <2>6. Rest(buffer') /\ Half(buffer')
    BY <1>2, <2>1, <2>4, <2>5, RenewCdi0
  <2> QED
    BY <1>1, <1>5, <2>6, PageStays, PrimedLayout DEF Remaining, Uncut
<1> QED
  BY <1>3, <1>4, <1>5

LEMMA OwnerLayout ==
  ASSUME LayoutInv, Owner
  PROVE  Remaining' /\ Uncut'
<1>1. /\ pc = "owner" /\ page' = page /\ cut' = cut /\ UNCHANGED <<rom_ext, owner>>
      /\ HasCdi0(buffer) /\ offset = At1(buffer)
      /\ rom_ext \in Measurements /\ owner \in Measurements
      /\ Rest(buffer) /\ fresh' = fresh
      /\ ~cut \/ fresh => Exact(buffer) \/ Half(buffer)
  BY DEF LayoutInv, Inv, Types, Progress, Remaining, Uncut, Owner, Attest
<1>2. Cdi0Key \in Keys /\ Cdi1Key \in Keys
  BY <1>1, KeysAreKeys
<1>3. CASE pc' # "boot"
  <2>1. pc' \in {"shutdown", "trap"}
    BY <1>3 DEF Owner, Attest
  <2> QED
    BY <1>1, <2>1, PageStays
<1>4. CASE pc' = "boot" /\ Matches(buffer, offset, Cdi1Key)
  <2>1. buffer' = buffer
    BY <1>4 DEF Owner, Attest, Renew
  <2>2. ASSUME Half(buffer) PROVE FALSE
    <3>1. PICK u \in Places, s \in Sizes :
            /\ Remains(buffer, u, Cdi0Key, s, Cdi0Key, s)
            /\ u + s \in Words => buffer[u + s] = Erased
      BY <1>2, <2>2, HalfBegins
    <3>3. offset = u + s
      BY <1>1, <1>2, <3>1, WalkToCdi1
    <3>4. offset \in Words => buffer[offset] = Erased
      BY <3>1, <3>3
    <3> QED
      BY <1>4, <3>4, MarkersDiffer DEF Matches, IsPart
  <2> QED
    BY <1>1, <1>4, <2>1, <2>2, PageStays, PrimedLayout DEF Remaining, Uncut
<1>5. CASE pc' = "boot" /\ ~Matches(buffer, offset, Cdi1Key)
  <2>1. PICK r \in Sizes :
          buffer' = EraseFrom(With(buffer, offset, Cert(Cdi1Key, r)), offset + r)
    BY <1>5 DEF Owner, Attest, Renew
  <2>2. Rest(buffer')
    <3>1. PICK u \in Places, k \in Keys, l \in Keys, s \in Sizes, t \in Sizes :
            Remains(buffer, u, k, s, l, t)
      BY <1>1 DEF Rest
    <3>2. offset = u + s
      BY <1>1, <3>1, WalkToCdi1
    <3> QED
      BY <1>2, <2>1, <3>1, <3>2, RenewCdi1
  <2>3. ASSUME Exact(buffer) PROVE Exact(buffer')
    <3>1. PICK u \in Places, k \in Keys, l \in Keys, s \in Sizes, t \in Sizes :
            Is(buffer, u, k, s, l, t)
      BY <2>3 DEF Exact
    <3>2. Remains(buffer, u, k, s, l, t)
      BY <3>1 DEF Is
    <3>3. offset = u + s
      BY <1>1, <3>2, WalkToCdi1
    <3>4. Begins(buffer, u, k, s, l, t)
      BY <3>1 DEF Is, Begins
    <3>5. buffer' = EraseFrom(With(buffer, u + s, Cert(Cdi1Key, r)), u + s + r)
      BY <2>1, <3>3
    <3> QED
      BY <1>2, <3>2, <3>4, <3>5, RenewCdi1
  <2>4. ASSUME Half(buffer) PROVE Exact(buffer')
    <3>2. PICK u \in Places, s \in Sizes :
            /\ Remains(buffer, u, Cdi0Key, s, Cdi0Key, s)
            /\ Begins(buffer, u, Cdi0Key, s, Cdi0Key, s)
      BY <1>2, <2>4, HalfBegins
    <3>3. offset = u + s
      BY <1>1, <1>2, <3>2, WalkToCdi1
    <3> QED
      BY <1>2, <2>1, <3>2, <3>3, RenewCdi1
  <2> QED
    BY <1>1, <1>5, <2>2, <2>3, <2>4, PageStays, PrimedLayout DEF Remaining, Uncut
<1> QED
  BY <1>3, <1>4, <1>5

LEMMA ProgramLayout ==
  ASSUME LayoutInv, ProgramWindow
  PROVE  Remaining' /\ Uncut'
<1>1. /\ pc = "program" /\ buffer' = buffer /\ fresh' = fresh /\ Rest(buffer)
      /\ ~cut \/ fresh => Exact(buffer)
      /\ pc' # "run" => (cut' <=> cut)
      /\ ~cut' => ~cut \/ fresh
      /\ pc' = IF window' = Windows THEN "run" ELSE pc
  BY DEF LayoutInv, Remaining, Uncut, ProgramWindow
<1>2. /\ \A w \in Words : page'[w] \in {buffer[w], Erased}
      /\ window' = Windows => page' = buffer
  BY WindowsCopied DEF LayoutInv
<1>3. Rest(page')
  BY <1>1, <1>2 DEF Rest, Remains
<1>4. CASE pc' = "run"
  BY <1>1, <1>2, <1>3, <1>4, PrimedLayout DEF Remaining, Uncut
<1>5. CASE pc' = "program"
  BY <1>1, <1>3, <1>5, PrimedLayout DEF Remaining, Uncut
<1> QED
  BY <1>1, <1>4, <1>5

LEMMA CutLayout ==
  ASSUME LayoutInv, Updating, UpdatedPartly, cut' = TRUE, pc' \in {"read", "shutdown"}
  PROVE  Remaining' /\ Uncut'
<1>1. Rest(page')
  <2>1. CASE pc = "boot"
    <3>1. Rest(page) /\ \A w \in Words : page'[w] \in {page[w], Erased, Torn}
      BY <2>1, CutWords DEF LayoutInv, Remaining
    <3> QED
      BY <3>1 DEF Rest, Remains
  <2>2. CASE pc = "program"
    <3>1. Rest(buffer) /\ Copied
      BY <2>2 DEF LayoutInv, Inv, Progress, Remaining
    <3>2. \A w \in Words : page'[w] \in {page[w], buffer[w], Torn}
      BY <2>2, CutWords
    <3>3. \A w \in Words : page'[w] \in {buffer[w], Erased, Torn}
      BY <3>1, <3>2 DEF Copied
    <3> QED
      BY <3>1, <3>3 DEF Rest, Remains
  <2> QED
    BY <2>1, <2>2 DEF Updating
<1> QED
  BY <1>1, PrimedLayout DEF Remaining, Uncut
-----------------------------------------------------------------------------
LEMMA InitLayout == Init => LayoutInv
<1> SUFFICES ASSUME Init PROVE LayoutInv
  OBVIOUS
<1>1. page = Blank \/ Exact(page)
  <2>1. SUFFICES ASSUME NEW r \in Measurements, NEW o \in Measurements, NEW s \in Sizes,
                        NEW t \in Sizes, page = Provisioned(r, o, s, t)
                 PROVE  Exact(page)
    BY DEF Init
  <2>2. /\ <<0, r>> \in Keys /\ <<0, r, o>> \in Keys /\ UdsSize \in Places
        /\ UdsSize \in Nat /\ UdsSize >= 2 /\ s \in Nat /\ t \in Nat /\ Words \subseteq Nat
    BY SizesFit, Numbers DEF Keys, Places
  <2>3. \A w \in Words : page[w] =
          IF w - (UdsSize + s) \in 0 .. t - 1
          THEN Part(Cert(<<0, r, o>>, t), w - (UdsSize + s) + 1)
          ELSE IF w - UdsSize \in 0 .. s - 1 THEN Part(Cert(<<0, r>>, s), w - UdsSize + 1)
          ELSE IF w - 0 \in 0 .. UdsSize - 1 THEN Part(Uds, w - 0 + 1) ELSE Erased
    BY <2>1, PartFields DEF Provisioned, With, Blank, Uds
  <2>4. ASSUME NEW w \in Words
        PROVE  page[w] = Layout(UdsSize, <<0, r>>, s, <<0, r, o>>, t, w)
    <3>1. /\ w - (UdsSize + s) \in 0 .. t - 1 <=> w >= UdsSize + s /\ w < UdsSize + s + t
          /\ w - UdsSize \in 0 .. s - 1 <=> w >= UdsSize /\ w < UdsSize + s
          /\ w - 0 \in 0 .. UdsSize - 1 <=> w < UdsSize
          /\ w - 0 + 1 = w + 1 /\ w \in Nat
      BY <2>2, <2>4
    <3>2. First(UdsSize, w) = Part(Uds, w + 1)
      BY <2>2 DEF First
    <3> QED
      BY <2>2, <2>3, <2>4, <3>1, <3>2 DEF Layout
  <2>5. page[0] = First(UdsSize, 0)
    BY <2>2, <2>4, PlacesFit, LayoutWords
  <2> QED
    BY <2>2, <2>4, <2>5 DEF Exact, Is, Remains
<1>2. Rest(page)
  BY <1>1, BlankIsRest, IsRemains
<1>3. pc = "read"
  BY DEF Init
<1> QED
  BY <1>1, <1>2, <1>3, InitInv DEF LayoutInv, Remaining, Uncut

LEMMA StepLayout == LayoutInv /\ [Next]_vars => LayoutInv'
<1> SUFFICES ASSUME LayoutInv, [Next]_vars PROVE Remaining' /\ Uncut'
  BY StepInv DEF LayoutInv
<1>1. CASE UNCHANGED vars
  <2>1. UNCHANGED <<page, buffer, pc, cut, fresh, rom_ext>>
    BY <1>1 DEF vars
  <2>2. Matches(buffer, 1, Cdi0Key)' <=> Matches(buffer, 1, Cdi0Key)
    BY <2>1 DEF Matches, IsPart, Cdi0Key
  <2> QED
    BY <2>1, <2>2, PrimedLayout DEF LayoutInv, Remaining, Uncut
<1>2. CASE ReadPage
  BY <1>2, ReadLayout
<1>3. CASE Silicon
  BY <1>3, SiliconLayout
<1>4. CASE Creator
  BY <1>4, CreatorLayout
<1>5. CASE Owner
  BY <1>5, OwnerLayout
<1>6. CASE BootClean
  <2>1. buffer = page /\ pc = "boot" /\ pc' = "run" /\ UNCHANGED <<page, buffer, cut>>
    BY <1>6 DEF BootClean, LayoutInv, Inv, Progress
  <2> QED
    BY <2>1, PageStays DEF Remaining, Uncut
<1>7. CASE ErasePage
  <2>1. /\ pc' = "program" /\ page' = Blank /\ UNCHANGED <<buffer, cut, fresh>>
        /\ Rest(buffer) /\ (~cut \/ fresh => Exact(buffer))
    BY <1>7 DEF ErasePage, LayoutInv, Remaining, Uncut
  <2> QED
    BY <2>1, BlankIsRest, PrimedLayout DEF Remaining, Uncut
<1>8. CASE ProgramWindow
  BY <1>8, ProgramLayout
<1>9. CASE Reset \/ Update
  <2>1. pc # "program" /\ pc' = "read" /\ UNCHANGED <<page, cut>>
    BY <1>9 DEF Reset, Update, Restart
  <2> QED
    BY <2>1, PageStays
<1>10. CASE PowerLoss \/ FlashError
  <2>1. pc' \in {"read", "shutdown"}
    BY <1>10 DEF PowerLoss, FlashError, Restart
  <2>2. CASE Updating /\ UpdatedPartly /\ cut' = TRUE
    BY <2>1, <2>2, CutLayout
  <2>3. CASE ~(Updating /\ UpdatedPartly /\ cut' = TRUE)
    <3>1. UNCHANGED <<page, cut>> /\ pc # "program"
      BY <1>10, <2>3 DEF PowerLoss, FlashError, Updating
    <3> QED
      BY <2>1, <3>1, PageStays
  <2> QED
    BY <2>2, <2>3
<1> QED
  BY <1>1, <1>2, <1>3, <1>4, <1>5, <1>6, <1>7, <1>8, <1>9, <1>10 DEF Next, Boot

LEMMA LayoutAlways == Spec => []LayoutInv
BY InitLayout, StepLayout, PTL DEF Spec

\* Renewing a certificate takes what was behind it, and a cut update leaves
\* nothing that a later boot could take for more than one layout: the page ends
\* with the CDI_1 certificate (rom_ext_attestation_creator(),
\* rom_ext_attestation_owner(): the memset() of the rest).
THEOREM TailIsErased == Spec => []NoStaleTail
<1>1. LayoutInv => NoStaleTail
  <2> SUFFICES ASSUME LayoutInv, pc = "run", NEW w \in Words, w >= End
               PROVE  page[w] = Erased
    BY DEF NoStaleTail
  <2>1. Chain(page) /\ Rest(page) /\ page = buffer /\ page[w] # Torn
    BY DEF LayoutInv, Inv, Types, Progress, Remaining
  <2>2. PICK u \in Places, k \in Keys, l \in Keys, s \in Sizes, t \in Sizes :
          Remains(page, u, k, s, l, t)
    BY <2>1 DEF Rest
  <2>3. At0(page) = u /\ At1(page) = u + s /\ HasUds(page)
    BY <2>1, <2>2, WalkToCdi1 DEF Chain, HasCdi0
  <2>4. Matches(page, u + s, Cdi1Key)
    BY <2>1, <2>3 DEF Chain, HasCdi1
  <2>5. SizeAt(page, u + s) = t
    <3>1. page[u + s] = Part(Cert(l, t), 1)
      BY <2>2, <2>4, Cdi1OfRest
    <3> QED
      BY <2>4, <3>1, PartFields DEF Matches, SizeAt, IsPart
  <2>6. End = u + s + t
    BY <2>3, <2>5 DEF End, Cdi1At, Cdi0At, At0, At1
  <2>7. Layout(u, k, s, l, t, w) = Erased
    BY <2>6, LayoutWords
  <2> QED
    BY <2>1, <2>2, <2>7 DEF Remains
<1> QED
  BY <1>1, LayoutAlways, PTL

\* As long as no update has been cut short since the last that renewed the CDI_0
\* certificate, the certificates that the owner finds are complete, whatever the
\* sizes of those that they replaced (rom_ext_boot()).
THEOREM ChainIsWhole == Spec => []WholeUnlessCut
<1>1. LayoutInv => WholeUnlessCut
  <2> SUFFICES ASSUME LayoutInv, pc = "run", ~cut
               PROVE  /\ Whole(page, Cdi0At, page[Cdi0At].cert)
                      /\ page[Cdi0At].cert.key = Cdi0Key
                      /\ Whole(page, Cdi1At, page[Cdi1At].cert)
                      /\ page[Cdi1At].cert.key = Cdi1Key
    BY DEF WholeUnlessCut
  <2>1. Chain(page) /\ (page = Blank \/ Exact(page))
    BY DEF LayoutInv, Inv, Progress, Uncut
  <2>2. page # Blank
    <3>1. At0(page) # 0
      BY <2>1, SizesFit DEF Chain, HasCdi0, HasUds
    <3> QED
      BY <3>1, PlacesFit, MarkersDiffer DEF At0, SizeAt, IsPart, Blank
  <2>3. PICK u \in Places, k \in Keys, l \in Keys, s \in Sizes, t \in Sizes :
          Is(page, u, k, s, l, t)
    BY <2>1, <2>2 DEF Exact
  <2>4. Remains(page, u, k, s, l, t)
    BY <2>3 DEF Is
  <2>5. Cdi0At = u /\ Cdi1At = u + s /\ HasUds(page)
    BY <2>1, <2>4, WalkToCdi1 DEF Chain, HasCdi0, Cdi0At, Cdi1At, At0, At1
  <2>6. Matches(page, u, Cdi0Key) /\ Matches(page, u + s, Cdi1Key)
    BY <2>1, <2>5 DEF Chain, HasCdi0, HasCdi1, Cdi0At, Cdi1At, At0, At1
  <2>7. page[u] = Part(Cert(k, s), 1) /\ k = Cdi0Key
        /\ page[u + s] = Part(Cert(l, t), 1) /\ l = Cdi1Key
    <3>0. HasUds(page)
      BY <2>5
    <3>1. \A key : Matches(page, u, key) =>
            page[u] = Part(Cert(k, s), 1) /\ key = k /\ SizeAt(page, u) = s
      BY <2>4, <3>0, WalkOfRest
    <3>2. page[Cdi1At] = Part(Cert(l, t), 1) /\ Cdi1Key = l
      BY <2>4, <2>5, <2>6, Cdi1OfRest
    <3> QED
      BY <2>5, <2>6, <3>1, <3>2
  <2>8. /\ u \in Nat /\ s \in Nat /\ t \in Nat /\ u + s + t <= Window * Windows
        /\ Window * Windows \in Nat
    BY Numbers
  <2>9. Whole(page, u, Cert(k, s))
    <3>1. \A i \in 1 .. s : u + i - 1 \in Words /\ u + i - 1 >= u
      BY <2>8 DEF Words
    <3> QED
      BY <2>3, <3>1, LayoutWords, PartFields DEF Whole, Is
  <2>10. Whole(page, u + s, Cert(l, t))
    <3>1. \A i \in 1 .. t : u + s + i - 1 \in Words /\ u + s + i - 1 >= u
      BY <2>8 DEF Words
    <3> QED
      BY <2>3, <3>1, LayoutWords, PartFields DEF Whole, Is
  <2> QED
    BY <2>5, <2>7, <2>9, <2>10, PartFields
<1> QED
  BY <1>1, LayoutAlways, PTL
============================================================================
