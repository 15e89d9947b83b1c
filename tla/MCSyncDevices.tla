---------------------------- MODULE MCSyncDevices ----------------------------
(* A small instance of SyncDevices for TLC: two devices, and one record in *)
(* each of two collections.                                                *)
EXTENDS SyncDevices

CONSTANTS d1, d2, c1, c2, i1
=============================================================================
