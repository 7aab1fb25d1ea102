------------------------------- MODULE MCNewHSM -------------------------------
(* NewHSM over small configurations.                                       *)
EXTENDS NewHSM, TLC

\* Slot IDs around the valid range, a negative one included (HSMConfig.SlotID
\* is a signed int).
MCSlots == {-1, 0, 1}
=============================================================================
