----------------------------- MODULE MCZoneStore -----------------------------
(* Small instances of ZoneStore for TLC. *)
EXTENDS ZoneStore

CONSTANT a

(* One zone text at the lowest serial: a zone deleted and imported again   *)
(* starts below the serials it had reached.                                *)
LowImport == {[data |-> a, serial |-> 0]}
=============================================================================
