---------------------------- MODULE MCPromotion ----------------------------
(* Instances of Promotion for TLC. *)
EXTENDS Promotion

CONSTANT z1

OneZone == {z1}

(* The zone is compared and polled, only polled, or neither. *)
OneZoneDeployments ==
  { [compared |-> OneZone, polled |-> OneZone],
    [compared |-> {}, polled |-> OneZone],
    [compared |-> {}, polled |-> {}] }
=============================================================================
