--------------------------- MODULE MCSyncDevice ---------------------------
(* Small instances of SyncDevice for TLC. *)
EXTENDS SyncDevice

CONSTANTS d1, d2
=============================================================================
