-------------------------- MODULE MCDanglingIndex --------------------------
(* DanglingIndex on the devices of MCDevices. *)
EXTENDS DanglingIndex, MCDevices

CONSTANTS h1, h2
============================================================================
