------------------------------ MODULE MCFirmware ------------------------------
(* Model checking of Firmware: the constants are given by the configurations. *)
EXTENDS Firmware
=============================================================================
