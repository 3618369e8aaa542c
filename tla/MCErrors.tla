------------------------------ MODULE MCErrors ------------------------------
(* Instances of NonoErrors for TLC.                                        *)
EXTENDS NonoErrors, TLC

CONSTANTS e1, e2

MCUnlisted == {-14}

MCReports == {"", "from the library"}

SlotSymmetry == Permutations(Slots)
=============================================================================
