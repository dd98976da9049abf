------------------------------ MODULE MCSlotKeys ------------------------------
(* The values of the management key are interchangeable.                      *)
EXTENDS SlotKeys, TLC
Symmetry == Permutations(MgmtValues)
=============================================================================
