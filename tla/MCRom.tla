------------------------------- MODULE MCRom -------------------------------
(***************************************************************************)
(* A small instance of Rom, with Bootstrap, for TLC.  A bank is one sector   *)
(* of two flash pages, a flash page one program page of two words; an image  *)
(* is two words long.  Sectors are erased at the last address and at one     *)
(* behind the end; pages are programmed at the start of bank B and, wrapping *)
(* round, at the second word of bank A.                                      *)
(***************************************************************************)
EXTENDS Rom
=============================================================================
