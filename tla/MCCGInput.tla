----------------------------- MODULE MCCGInput ------------------------------
(* TLC instances of CGInput.                                               *)
EXTENDS CGInput

OneEach == [k \in Mods |-> CHOOSE f \in Flags : (f = "Shift") <=> (k = "VK_SHIFT")]
=============================================================================
