--------------------------- MODULE CloudflareConfig ---------------------------
(***************************************************************************)
(* The allowlist of Cloudflare zones of rill-api: the copy in memory that  *)
(* the handlers consult, the file cloudflare-zones.json that a restart     *)
(* loads, and updateCloudflareConfig, which compares the revision under a  *)
(* read lock, validates the zones over the network with no lock held, and  *)
(* then saves the file and sets the copy (internal/api/server.go,          *)
(* internal/cloudflare/config.go).                                         *)
(*                                                                         *)
(* An allowlist is normalised by MakeConfig and its revision is its hash,  *)
(* so a member of Configs stands for both.                                 *)
(***************************************************************************)
EXTENDS Naturals, FiniteSets

CONSTANTS
  Configs,    \* normalised allowlists
  Fallback,   \* the one of the environment, when there is no file
  Handlers,   \* requests served at a time
  MaxFaults,  \* bound on failed writes and restarts
  None

VARIABLES
  file,    \* cloudflare-zones.json, None when there is none
  memory,  \* Server.cloudflareConfig and cloudflareZones
  op,      \* updateCloudflareConfig, for each request
  faults

vars == <<file, memory, op, faults>>

Idle == [pc |-> "idle", expected |-> None, proposed |-> None]

TypeOK ==
  /\ file \in Configs \cup {None}
  /\ memory \in Configs
  /\ op \in [Handlers -> {Idle} \cup
               [pc : {"validate", "save", "set"}, expected : Configs,
                proposed : Configs]]
  /\ faults \in 0..MaxFaults

Init ==
  /\ file = None
  /\ memory = Fallback
  /\ op = [h \in Handlers |-> Idle]
  /\ faults = 0

Fault ==
  /\ faults < MaxFaults
  /\ faults' = faults + 1

-----------------------------------------------------------------------------

(* LoadConfig *)
Loaded(f) == IF f = None THEN Fallback ELSE f

(* The comparison under RLock; the lock is released again. *)
Check(h, expected, proposed) ==
  /\ op[h] = Idle
  /\ expected = memory
  /\ op' = [op EXCEPT ![h] = [pc |-> "validate", expected |-> expected,
                              proposed |-> proposed]]
  /\ UNCHANGED <<file, memory, faults>>

(* ListRecords of every zone proposed; a dry run ends here. *)
Validate(h, accepted) ==
  /\ op[h].pc = "validate"
  /\ op' = [op EXCEPT ![h] = IF accepted THEN [@ EXCEPT !.pc = "save"] ELSE Idle]
  /\ UNCHANGED <<file, memory, faults>>

(* SaveConfig: one rename. *)
Save(h) ==
  /\ op[h].pc = "save"
  /\ file' = op[h].proposed
  /\ op' = [op EXCEPT ![h].pc = "set"]
  /\ UNCHANGED <<memory, faults>>

SaveFails(h) ==
  /\ op[h].pc = "save"
  /\ Fault
  /\ op' = [op EXCEPT ![h] = Idle]
  /\ UNCHANGED <<file, memory>>

(* The assignments under the lock, and the answer. *)
SetMemory(h) ==
  /\ op[h].pc = "set"
  /\ memory' = op[h].proposed
  /\ op' = [op EXCEPT ![h] = Idle]
  /\ UNCHANGED <<file, faults>>

Restart ==
  /\ Fault
  /\ memory' = Loaded(file)
  /\ op' = [h \in Handlers |-> Idle]
  /\ UNCHANGED file

Next ==
  \/ \E h \in Handlers :
       \/ \E expected, proposed \in Configs : Check(h, expected, proposed)
       \/ \E accepted \in BOOLEAN : Validate(h, accepted)
       \/ Save(h) \/ SaveFails(h) \/ SetMemory(h)
  \/ Restart

Spec == Init /\ [][Next]_vars

-----------------------------------------------------------------------------
(* Properties                                                              *)

(* docs/api.md: "Committed changes are revisioned": an update replaces the *)
(* allowlist whose revision it expected, and no other.                     *)
ReplacesExpected ==
  [][\A h \in Handlers :
       op[h].pc = "set" /\ op'[h] = Idle /\ memory' = op[h].proposed =>
         memory \in {op[h].expected, op[h].proposed}]_vars
=============================================================================
