-------------------------------- MODULE MCAta --------------------------------
(***************************************************************************)
(* A drive of five sectors, the last of them beyond the 28-bit addresses,  *)
(* and a driver that looks at the status twice.                            *)
(***************************************************************************)
EXTENDS Ata

MCSectors == 0 .. 4
=============================================================================
