----------------------------- MODULE MCSecondary -----------------------------
(* Small instances of Secondary for TLC. *)
EXTENDS Secondary

CONSTANTS z1, z2, z3

OneZone    == <<z1>>
TwoZones   == <<z1, z2>>
ThreeZones == <<z1, z2, z3>>
=============================================================================
