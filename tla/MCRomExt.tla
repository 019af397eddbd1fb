------------------------------ MODULE MCRomExt ------------------------------
(***************************************************************************)
(* Small instances of RomExt for TLC.  Boot data starts at counter 5, the   *)
(* default, so MaxCounter - 5 requests can take effect one after another.   *)
(* Three versions give an image that is always good, one that a request     *)
(* makes too old, and one that a second request makes too old.              *)
(***************************************************************************)
EXTENDS RomExt
=============================================================================
