---------------------------- MODULE ZoneRegister ----------------------------
(***************************************************************************)
(* What the zone store promises its clients: each zone is a register that  *)
(* holds one version.  A change replaces the version by one with a larger  *)
(* SOA serial, in one step; nothing in between can be seen.  Only the      *)
(* version a zone holds is ever acknowledged.  An operation that ends in   *)
(* an error may have happened or not, but never in part.                   *)
(***************************************************************************)
EXTENDS Naturals

CONSTANTS Zones, Data, MaxSerial, None

VARIABLES
  zone,   \* the version each zone holds, None when it does not exist
  acked   \* the versions acknowledged as published so far

Version == [data : Data, serial : 0..MaxSerial]

Init ==
  /\ zone \in [Zones -> Version \cup {None}]
  /\ acked = [z \in Zones |-> {}]

Change(z) ==
  /\ zone[z] # None
  /\ \E v \in Version :
       /\ v.serial > zone[z].serial
       /\ zone' = [zone EXCEPT ![z] = v]
  /\ UNCHANGED acked

Create(z) ==
  /\ zone[z] = None
  /\ \E v \in Version : zone' = [zone EXCEPT ![z] = v]
  /\ UNCHANGED acked

Delete(z) ==
  /\ zone[z] # None
  /\ zone' = [zone EXCEPT ![z] = None]
  /\ UNCHANGED acked

Acknowledge(z) ==
  /\ zone[z] # None
  /\ acked' = [acked EXCEPT ![z] = @ \cup {zone[z]}]
  /\ UNCHANGED zone

Next == \E z \in Zones : Change(z) \/ Create(z) \/ Delete(z) \/ Acknowledge(z)

Spec == Init /\ [][Next]_<<zone, acked>>
=============================================================================
