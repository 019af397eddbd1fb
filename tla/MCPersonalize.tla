----------------------------- MODULE MCPersonalize -----------------------------
(***************************************************************************)
(* Four runs of the host with three faults in or between them: runs that are    *)
(* cut, runs that resume them and are cut again, and one that finds the rest.   *)
(***************************************************************************)
EXTENDS Personalize
=============================================================================
