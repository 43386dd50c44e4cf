----------------------------- MODULE MCTelemetry -----------------------------
(* Small instances of Telemetry for TLC. *)
EXTENDS Telemetry

(* A blocklist and the one that replaces it. *)
TwoLists == {{1}, {2}}
OneList  == {1}

(* Two domains in one bucket, and one of them in the next. *)
ThreeQueries == {[domain |-> 1, time |-> 1], [domain |-> 2, time |-> 1],
                 [domain |-> 1, time |-> 2]}
=============================================================================
