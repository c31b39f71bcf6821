-------------------------------- MODULE MCUi --------------------------------
(***************************************************************************)
(* Values of the constants of Ui for TLC: a workspace with two collections *)
(* and one with another.                                                   *)
(***************************************************************************)
EXTENDS Ui, TLC

MCExisting == [w \in Workspace |-> IF w = "w1" THEN {1, 2} ELSE {3}]

SlotSymmetry == Permutations(Slots)
=============================================================================
