---------------------------- MODULE MCTracedBus ----------------------------
(* The wiring of MCSyncBus, with its telemetry.                              *)
EXTENDS MCSyncBus, TracedBus
=============================================================================
