--------------------------------- MODULE MCDice --------------------------------
(***************************************************************************)
(* A page of four windows of four words, two measurements of each image, and  *)
(* certificates that begin at a window, within one and at the end of one.     *)
(***************************************************************************)
EXTENDS Dice
MCSizes == {4, 5}
MCMeasurements == {1, 2}
=============================================================================
