----------------------------- MODULE MCSensors ------------------------------
(* TLC instances of Sensors. *)
EXTENDS Sensors
=============================================================================
