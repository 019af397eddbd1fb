--------------------------------- MODULE Dice ---------------------------------
(***************************************************************************)
(* The DICE certificates of the ROM_EXT (rom_ext/rom_ext.c, lib/cert/cert.c): *)
(* one flash page holds the UDS certificate, endorsed in the factory, and    *)
(* behind it the CDI_0 and CDI_1 certificates, which the ROM_EXT renews when  *)
(* the key that its own or the owner's measurement leads to has changed.     *)
(* The page is erased and written in windows, power may go at any point.     *)
(*                                                                          *)
(* The page is counted in flash words of 8 bytes.  The first word of a        *)
(* certificate is its ASN.1 header, the second holds its serial number, which *)
(* is the identifier of its key.                                             *)
(***************************************************************************)
EXTENDS Integers

CONSTANTS
  Window,        \* flash words that one transaction programs
  Windows,       \* windows in a page
  UdsSize,       \* flash words in the UDS certificate
  Sizes,         \* and in a CDI certificate: the encoding varies
  Measurements,  \* of ROM_EXT images, and of owner images
  Erased, Torn, Blob,
  MaxFaults      \* bound on power losses and flash errors

Words == 0 .. Window * Windows - 1

ASSUME SizesAssumption ==
  /\ {Window, Windows, UdsSize} \subseteq Nat \ {0} /\ UdsSize >= 2
  /\ Sizes \subseteq Nat /\ Sizes # {}
  /\ \A s, t \in Sizes : s >= 2 /\ UdsSize + s + t <= Window * Windows
ASSUME FaultsAssumption == MaxFaults \in Nat

\* The keys that the key manager derives.  A certificate is for a key.
UdsKey == <<0>>
Keys == {UdsKey} \cup {<<0, r>> : r \in Measurements}
        \cup {<<0, r, o>> : r, o \in Measurements}
Cert(key, size) == [key |-> key, size |-> size]
Part(cert, i) == [cert |-> cert, part |-> i]
Parts == {Part(Cert(k, s), i) : k \in Keys, s \in {UdsSize} \cup Sizes, i \in Words}
Markers == {Erased, Torn, Blob}
Uds == Cert(UdsKey, UdsSize)

ASSUME WordsAssumption ==
  /\ Erased \notin {Torn, Blob} /\ Torn # Blob
  /\ Markers \cap Parts = {}

VARIABLES
  page,      \* kFlashCtrlInfoPageDiceCerts
  buffer,    \* dice_certs_page
  dirty,     \* dice_certs_page_dirty: "false", "true" (1) or kHardenedBoolTrue
  offset,    \* dice_certs_page_offset
  pc,        \* where the boot is
  window,    \* the windows that have been programmed
  rom_ext, owner,      \* the measurements of the images
  provisioned, \* history: the page held the factory's certificates at first
  cut,       \* history: an update of the page was cut short, and none has been
             \* complete since in which the CDI_0 certificate was renewed
  fresh,     \* history: this boot renews the CDI_0 certificate
  faults

vars == <<page, buffer, dirty, offset, pc, window, rom_ext, owner, provisioned, cut,
          fresh, faults>>
Cdi0Key == <<0, rom_ext>>
Cdi1Key == <<0, rom_ext, owner>>
-----------------------------------------------------------------------------
\* cert_x509_asn1_decode_size_header()
IsPart(mem, w, i) == w \in Words /\ mem[w] \notin Markers /\ mem[w].part = i
SizeAt(mem, w) ==
  IF IsPart(mem, w, 1) THEN mem[w].cert.size ELSE IF mem[w] = Blob THEN 1 ELSE 0
\* cert_x509_asn1_check_serial_number(): it insists on the tag of a serial
\* number behind a header, and compares nothing but the serial number.
TagMissing(mem, w) == IsPart(mem, w, 1) /\ ~IsPart(mem, w + 1, 2)
Matches(mem, w, key) ==
  IsPart(mem, w, 1) /\ IsPart(mem, w + 1, 2) /\ mem[w + 1].cert.key = key

\* A certificate at a place in a page: all of it.
Whole(mem, w, cert) == \A i \in 1 .. cert.size : mem[w + i - 1] = Part(cert, i)
With(mem, w, cert) ==
  [x \in Words |-> IF x - w \in 0 .. cert.size - 1 THEN Part(cert, x - w + 1) ELSE mem[x]]
\* memset() of the rest of the page
EraseFrom(mem, w) == [x \in Words |-> IF x >= w THEN Erased ELSE mem[x]]

Blank == [w \in Words |-> Erased]
\* What personalization leaves: the certificates for its own measurements, or
\* none on a part that has not been through it.
Provisioned(r, o, s, t) ==
  With(With(With(Blank, 0, Uds), UdsSize, Cert(<<0, r>>, s)), UdsSize + s, Cert(<<0, r, o>>, t))
Init ==
  /\ rom_ext \in Measurements /\ owner \in Measurements
  /\ provisioned \in BOOLEAN
  /\ page \in IF provisioned
               THEN {Provisioned(r, o, s, t) : r, o \in Measurements, s, t \in Sizes}
               ELSE {Blank}
  /\ buffer = Blank /\ dirty = "false" /\ offset = 0 /\ pc = "read" /\ window = 0
  /\ cut = FALSE /\ fresh = FALSE /\ faults = 0
Fault == faults < MaxFaults /\ faults' = faults + 1
-----------------------------------------------------------------------------
\* rom_ext_buffer_dice_certs_into_ram(): ECC is on, a torn word is an error.
ReadPage ==
  /\ pc = "read" /\ pc' = "silicon"
  /\ IF \E w \in Words : page[w] = Torn
     THEN buffer' = Blank /\ dirty' = "true"
     ELSE buffer' = page /\ UNCHANGED dirty
  /\ UNCHANGED <<page, offset, window, rom_ext, owner, provisioned, cut, fresh, faults>>

\* [variant] no empty header is written for a missing UDS certificate, and the
\* check of the size that follows fails.
SiliconNoBlob ==
  /\ pc = "silicon"
  /\ IF TagMissing(buffer, 0) \/ SizeAt(buffer, 0) = 0
     THEN pc' = "trap" /\ UNCHANGED <<buffer, dirty, offset>>
     ELSE pc' = "creator" /\ offset' = SizeAt(buffer, 0) /\ UNCHANGED <<buffer, dirty>>
  /\ UNCHANGED <<page, window, rom_ext, owner, provisioned, cut, fresh, faults>>
\* rom_ext_attestation_silicon(): a UDS certificate is never made, whatever it
\* finds; a missing one gets an empty header.
Silicon ==
  /\ pc = "silicon"
  /\ IF TagMissing(buffer, 0)
     THEN pc' = "trap" /\ UNCHANGED <<buffer, dirty, offset>>
     ELSE /\ pc' = "creator"
          /\ IF SizeAt(buffer, 0) = 0
             THEN buffer' = [buffer EXCEPT ![0] = Blob] /\ dirty' = "yes" /\ offset' = 1
             ELSE offset' = SizeAt(buffer, 0) /\ UNCHANGED <<buffer, dirty>>
  /\ UNCHANGED <<page, window, rom_ext, owner, provisioned, cut, fresh, faults>>

\* [variant] the rest of the buffer stays.
RenewKeepsTail(key) ==
  IF Matches(buffer, offset, key)
  THEN offset' = offset + SizeAt(buffer, offset) /\ UNCHANGED <<buffer, dirty>>
  ELSE \E s \in Sizes :
         /\ buffer' = With(buffer, offset, Cert(key, s))
         /\ dirty' = "yes" /\ offset' = offset + s
\* [variant] the offset grows by the size of the certificate that was there.
RenewOldSize(key) ==
  IF Matches(buffer, offset, key)
  THEN offset' = offset + SizeAt(buffer, offset) /\ UNCHANGED <<buffer, dirty>>
  ELSE \E s \in Sizes :
         /\ buffer' = EraseFrom(With(buffer, offset, Cert(key, s)), offset + s)
         /\ dirty' = "yes"
         /\ offset' = offset + (IF SizeAt(buffer, offset) = 0 THEN s ELSE SizeAt(buffer, offset))
\* [variant] a renewed certificate does not make the page dirty.
RenewClean(key) ==
  IF Matches(buffer, offset, key)
  THEN offset' = offset + SizeAt(buffer, offset) /\ UNCHANGED <<buffer, dirty>>
  ELSE \E s \in Sizes :
         /\ buffer' = EraseFrom(With(buffer, offset, Cert(key, s)), offset + s)
         /\ offset' = offset + s /\ UNCHANGED dirty
\* A CDI certificate is kept when its serial number is that of the key, and
\* otherwise built anew; what is behind it in the buffer goes.
Renew(key) ==
  IF Matches(buffer, offset, key)
  THEN offset' = offset + SizeAt(buffer, offset) /\ UNCHANGED <<buffer, dirty>>
  ELSE \E s \in Sizes :
         /\ buffer' = EraseFrom(With(buffer, offset, Cert(key, s)), offset + s)
         /\ dirty' = "yes" /\ offset' = offset + s
Attest(at, key, next) ==
  /\ pc = at
  /\ IF offset \notin Words
     THEN pc' = "shutdown" /\ UNCHANGED <<buffer, dirty, offset>>
     ELSE IF TagMissing(buffer, offset)
     THEN pc' = "trap" /\ UNCHANGED <<buffer, dirty, offset>>
     ELSE pc' = next /\ Renew(key)
  /\ UNCHANGED <<page, window, rom_ext, owner, provisioned, cut, faults>>
\* rom_ext_attestation_creator(), rom_ext_attestation_owner()
Creator ==
  /\ Attest("creator", Cdi0Key, "owner")
  /\ fresh' = (pc' = "owner" /\ ~Matches(buffer, offset, Cdi0Key))
Owner == Attest("owner", Cdi1Key, "boot") /\ UNCHANGED fresh

\* rom_ext_boot(): writes the page when it is dirty.
BootClean ==
  /\ pc = "boot" /\ dirty # "yes" /\ pc' = "run"
  /\ UNCHANGED <<page, buffer, dirty, offset, window, rom_ext, owner, provisioned, cut, fresh,
                 faults>>
ErasePage ==
  /\ pc = "boot" /\ dirty = "yes" /\ pc' = "program" /\ page' = Blank
  /\ UNCHANGED <<buffer, dirty, offset, window, rom_ext, owner, provisioned, cut, fresh, faults>>
InWindow(w) == w \div Window = window
\* [variant] one window too many.
ProgramTooMany ==
  /\ pc = "program"
  /\ page' = [w \in Words |-> IF InWindow(w) THEN buffer[w] ELSE page[w]]
  /\ window' = window + 1 /\ pc' = IF window' > Windows THEN "run" ELSE pc
  /\ cut' = (cut /\ ~(fresh /\ pc' = "run"))
  /\ UNCHANGED <<buffer, dirty, offset, rom_ext, owner, provisioned, fresh, faults>>
ProgramWindow ==
  /\ pc = "program"
  /\ page' = [w \in Words |-> IF InWindow(w) THEN buffer[w] ELSE page[w]]
  /\ window' = window + 1 /\ pc' = IF window' = Windows THEN "run" ELSE pc
  /\ cut' = (cut /\ ~(fresh /\ pc' = "run"))
  /\ UNCHANGED <<buffer, dirty, offset, rom_ext, owner, provisioned, fresh, faults>>

\* The static variables of the ROM_EXT at its next start
Restart ==
  /\ buffer' = Blank /\ dirty' = "false" /\ offset' = 0 /\ pc' = "read" /\ window' = 0
  /\ fresh' = FALSE
\* An owner that runs has an image replaced, and the chip resets.  Neither can
\* write the page: flash_ctrl_cert_info_pages_owner_restrict().
Update ==
  /\ pc = "run" /\ Restart
  /\ rom_ext' \in Measurements /\ owner' \in Measurements
  /\ UNCHANGED <<page, provisioned, cut, faults>>
\* shutdown_finalize()
Reset ==
  /\ pc \in {"shutdown", "trap"} /\ Restart
  /\ UNCHANGED <<page, rom_ext, owner, provisioned, cut, faults>>
\* Power is lost, or a transaction fails.  An erase that is cut leaves each
\* window old, erased or torn; a program transaction, which hands its words to
\* the flash in order, leaves some of them written and perhaps the next one torn.
ErasedPartly ==
  \E after \in [0 .. Windows - 1 -> {"old", "erased", "torn"}] :
    page' = [w \in Words |-> CASE after[w \div Window] = "old" -> page[w]
                               [] after[w \div Window] = "erased" -> Erased
                               [] OTHER -> Torn]
ProgrammedPartly ==
  \E n \in 0 .. Window, torn \in BOOLEAN :
    page' = [w \in Words |->
               CASE InWindow(w) /\ w % Window < n -> buffer[w]
                 [] InWindow(w) /\ w % Window = n /\ torn -> Torn
                 [] OTHER -> page[w]]
Updating == pc = "program" \/ (pc = "boot" /\ dirty = "yes")
UpdatedPartly == IF pc = "boot" THEN ErasedPartly ELSE ProgrammedPartly
PowerLoss ==
  /\ Fault /\ Restart
  /\ IF Updating THEN UpdatedPartly /\ cut' = TRUE ELSE UNCHANGED <<page, cut>>
  /\ UNCHANGED <<rom_ext, owner, provisioned>>
\* A read may fail with another error than rd_err.
FlashError ==
  /\ Fault /\ pc' = "shutdown" /\ UNCHANGED fresh
  /\ \/ pc = "read" /\ UNCHANGED <<page, cut>>
     \/ Updating /\ UpdatedPartly /\ cut' = TRUE
  /\ UNCHANGED <<buffer, dirty, offset, window, rom_ext, owner, provisioned>>

Boot ==
  \/ ReadPage \/ Silicon \/ Creator \/ Owner \/ BootClean \/ ErasePage \/ ProgramWindow
  \/ Reset
Next == Boot \/ Update \/ PowerLoss \/ FlashError
Spec == Init /\ [][Next]_vars
FairSpec == Spec /\ WF_vars(Boot)
-----------------------------------------------------------------------------
Units == Markers \cup Parts
TypeOK ==
  /\ page \in [Words -> Units] /\ buffer \in [Words -> Units \ {Torn}]
  /\ dirty \in {"false", "true", "yes"} /\ offset \in 0 .. Window * Windows
  /\ pc \in {"read", "silicon", "creator", "owner", "boot", "program", "run",
             "shutdown", "trap"}
  /\ window \in 0 .. Windows /\ rom_ext \in Measurements /\ owner \in Measurements
  /\ provisioned \in BOOLEAN /\ cut \in BOOLEAN /\ fresh \in BOOLEAN
  /\ faults \in 0 .. MaxFaults

\* Where the CDI certificates are in the page.
Cdi0At == SizeAt(page, 0)
Cdi1At == Cdi0At + SizeAt(page, Cdi0At)
End == Cdi1At + SizeAt(page, Cdi1At)

\* When the owner runs, whatever has happened before, who walks through the
\* page from its start finds certificates that name the keys of the images
\* that have been measured (rom_ext_boot()).
CurrentChain ==
  pc = "run" => Cdi0At > 0 /\ Matches(page, Cdi0At, Cdi0Key) /\ Matches(page, Cdi1At, Cdi1Key)

\* and nothing behind them: no rest of an earlier, longer certificate.
NoStaleTail == pc = "run" => \A w \in Words : w >= End => page[w] = Erased

\* Unless an update of the page has been cut short, these certificates are
\* whole, whatever the sizes of those before them.  An update in which the CDI_0
\* certificate is renewed makes the page whole again: nothing that a cut left
\* behind it is taken over (rom_ext_attestation_creator()).
WholeUnlessCut ==
  pc = "run" /\ ~cut =>
    /\ Whole(page, Cdi0At, page[Cdi0At].cert) /\ page[Cdi0At].cert.key = Cdi0Key
    /\ Whole(page, Cdi1At, page[Cdi1At].cert) /\ page[Cdi1At].cert.key = Cdi1Key

\* Every boot gets to the owner, whatever the faults have left in the page,
\* save one thing: a header without the tag of a serial number behind it, which
\* only a cut update leaves and on which cert_x509_asn1_check_serial_number()
\* traps at this boot and at every later one.
HeaderAlone == \E w \in Words : TagMissing(page, w)
ReachesOwner == pc = "read" ~> (pc = "run" \/ (cut /\ HeaderAlone))

\* rom_ext.c: "The UDS key ID (and cert itself) should never change unless:
\* 1. there is a hardware issue, or 2. the cert has not yet been provisioned."
UdsStays == pc = "run" /\ provisioned => Whole(page, 0, Uds)
=============================================================================
