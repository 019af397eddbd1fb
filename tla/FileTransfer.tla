---------------------------- MODULE FileTransfer ----------------------------
(***************************************************************************)
(* What an upload in rescue mode promises (rom_ext/rescue.c and xmodem.c    *)
(* with the host's xmodem.rs): when the host has the acknowledgement of the *)
(* end of the file, the memory it named holds the file, and no other memory *)
(* has changed.  An upload may fail at any time and leave the memory it     *)
(* named in any state; what is still on the way then may change it later.   *)
(***************************************************************************)
CONSTANTS Targets, Goals, None

VARIABLES
  store,   \* the contents of each target
  upload,  \* the target and the contents it is to get, or None
  status   \* of the upload

vars == <<store, upload, status>>

Init == upload = None /\ status = "idle"

Begin ==
  /\ upload' \in [target : Targets, goal : Goals]
  /\ status' = "busy" /\ UNCHANGED store

\* The host does something else, which stores nothing.
Leave == upload' = None /\ status' = "idle" /\ UNCHANGED store

Progress ==
  /\ status \in {"busy", "failed"}
  /\ \A t \in Targets \ {upload.target} : store'[t] = store[t]
  /\ UNCHANGED <<upload, status>>

Fail ==
  /\ status = "busy" /\ status' = "failed"
  /\ UNCHANGED <<store, upload>>

Complete ==
  /\ status = "busy" /\ status' = "done"
  /\ store[upload.target] = upload.goal
  /\ UNCHANGED <<store, upload>>

Next == Begin \/ Leave \/ Progress \/ Fail \/ Complete
Spec == Init /\ [][Next]_vars
=============================================================================
