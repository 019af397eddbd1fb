----------------------------- MODULE MCRescue -----------------------------
(***************************************************************************)
(* Small instances of Rescue for TLC.  A page is two 1K frames of two units *)
(* each, a slot two pages: the lengths are a frame and a bit, a page, a page *)
(* and a bit, and one that is too long.  Frame numbers are sent modulo 4    *)
(* and wrap round within a slot that is sent in frames of one unit.         *)
(***************************************************************************)
EXTENDS Rescue
=============================================================================
