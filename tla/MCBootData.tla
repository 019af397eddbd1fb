----------------------------- MODULE MCBootData -----------------------------
(***************************************************************************)
(* Small instances of BootData for TLC.  Two entries per page give a page   *)
(* its first and its last index; MaxCounter lets the log go round both      *)
(* pages, so that an erase meets entries of an earlier round.  One value of *)
(* the settings is enough: records differ by counter and slot.              *)
(***************************************************************************)
EXTENDS BootData

CONSTANT s0
=============================================================================
