-------------------------- MODULE MCLegacyLostSave --------------------------
(* LegacyFiles for TLC: two pages edit the draft, and one file is uploaded. *)
EXTENDS LegacyFiles

CONSTANTS s1, o1

MCSlotOf == [o \in Objects |-> s1]
=============================================================================
