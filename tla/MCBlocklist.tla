----------------------------- MODULE MCBlocklist -----------------------------
(* Small instances of Blocklist for TLC. *)
EXTENDS Blocklist

(* Two configurations that differ in the sources and the allow list. *)
TwoConfigs ==
  {[sources |-> v, allow |-> v, deny |-> 0] : v \in Values}
=============================================================================
