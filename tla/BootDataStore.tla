--------------------------- MODULE BootDataStore ---------------------------
(***************************************************************************)
(* What lib/boot_data.c promises its callers (rom.c, rom_ext.c): one        *)
(* durable record that is read, and replaced atomically by a record whose   *)
(* counter is one higher.  A write that returns kErrorOk has taken effect,  *)
(* a write that returns an error or is cut by a reset has either taken      *)
(* effect or not, and nothing else ever changes what a read returns.        *)
(***************************************************************************)
EXTENDS Naturals

CONSTANTS Content,   \* the values of boot_data_t, each with a `counter`
          None       \* no record, no call in progress

VARIABLES stored,    \* what boot_data_read() would return, None if it fails
          request,   \* the record a boot_data_write() in progress installs
          copy,      \* the caller's boot_data_t
          result     \* how the caller's last call ended

vars == <<stored, request, copy, result>>

Init ==
  /\ stored \in Content \cup {None}
  /\ request = None /\ copy = None /\ result = "none"

Read ==
  /\ request = None /\ stored # None
  /\ copy' = stored /\ result' = "read"
  /\ UNCHANGED <<stored, request>>

\* A failed read promises nothing about the buffer it was given.
ReadFails ==
  /\ request = None
  /\ copy' \in Content \cup {None} /\ result' = "read_error"
  /\ UNCHANGED <<stored, request>>

BeginWrite ==
  /\ request = None /\ stored # None
  /\ copy' \in Content
  /\ request' = [copy' EXCEPT !.counter = stored.counter + 1]
  /\ UNCHANGED <<stored, result>>

\* The call fails before it has anything to install.
WriteRejected ==
  /\ request = None
  /\ copy' \in Content /\ result' = "error"
  /\ UNCHANGED <<stored, request>>

\* The atomic replacement.
Commit ==
  /\ request # None /\ stored # request
  /\ stored' = request
  /\ UNCHANGED <<request, copy, result>>

ReturnOk ==
  /\ request # None /\ stored = request
  /\ request' = None /\ result' = "written"
  /\ UNCHANGED <<stored, copy>>

ReturnError ==
  /\ request # None
  /\ stored' \in {stored, request}
  /\ request' = None /\ result' = "error"
  /\ UNCHANGED copy

Reset ==
  /\ stored' = stored \/ (request # None /\ stored' = request)
  /\ request' = None /\ copy' = None /\ result' = "none"

Next ==
  \/ Read \/ ReadFails \/ BeginWrite \/ WriteRejected
  \/ Commit \/ ReturnOk \/ ReturnError \/ Reset

Spec == Init /\ [][Next]_vars
=============================================================================
