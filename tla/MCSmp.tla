-------------------------------- MODULE MCSmp ---------------------------------
(* Three APs in the MADT after the BSP, any of them disabled. *)
EXTENDS Smp

CONSTANTS a1, a2, a3

MCAPs == <<a1, a2, a3>>

=============================================================================
