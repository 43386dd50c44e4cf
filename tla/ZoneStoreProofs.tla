--------------------------- MODULE ZoneStoreProofs ---------------------------
(***************************************************************************)
(* Proofs, for any sets of zones, handlers and records and any largest     *)
(* serial, of what the runs of MCZoneStore check on small instances.       *)
(***************************************************************************)
EXTENDS ZoneStore, TLAPS

(* A handler that stands at some step runs an operation. *)
LEMMA RunningType ==
  ASSUME TypeOK, NEW c \in Clients, op[c].pc \in Steps
  PROVE  op[c] \in Operation /\ op[c] # Idle
BY DEF TypeOK, Steps, Idle

(* A handler that is not idle runs an operation. *)
LEMMA NotIdleType ==
  ASSUME TypeOK, NEW c \in Clients, op[c] # Idle
  PROVE  op[c] \in Operation
BY DEF TypeOK

(* Idle is the value of a handler that runs nothing. *)
LEMMA IdleFields == /\ Idle.pc = "idle" /\ Idle.kind = "none"
                    /\ Idle.zone = None /\ Idle \notin Operation
BY DEF Idle, Operation, Steps

(* Moving a running handler to another step keeps it an operation. *)
LEMMA GotoType ==
  ASSUME TypeOK, NEW c \in Clients, op[c] \in Operation, NEW step \in Steps,
         Goto(c, step)
  PROVE  /\ op' \in [Clients -> Operation \cup {Idle}]
         /\ mu' \in Clients \cup {None}
         /\ reply' \in Replies
BY DEF TypeOK, Goto, Operation

LEMMA ReturnType ==
  ASSUME TypeOK, NEW c \in Clients, NEW answer \in Replies, Return(c, answer)
  PROVE  /\ op' \in [Clients -> Operation \cup {Idle}]
         /\ mu' \in Clients \cup {None}
         /\ reply' \in Replies
BY DEF TypeOK, Return

LEMMA LockType ==
  ASSUME TypeOK, NEW c \in Clients, NEW o \in Operation, Lock(c, o)
  PROVE  TypeOK'
BY DEF TypeOK, Lock, Replies, disk

(* The next serial stays within the serials and is larger than the current. *)
LEMMA NextSerialLarger ==
  ASSUME NEW s \in Serials, s < MaxSerial, NEW day \in Days
  PROVE  NextSerial(s, day) \in Serials /\ NextSerial(s, day) > s
BY ConstantsAssumption DEF NextSerial, Serials

(* The operation a change starts with is well formed. *)
LEMMA ChangeOperation ==
  ASSUME TypeOK, NEW c \in Clients, NEW z \in Zones, file[z] # None,
         HasNextSerial(z), NEW kind \in Changes, NEW data \in Data,
         NEW day \in Days
  PROVE  /\ [data |-> data, serial |-> NextSerial(file[z].serial, day)]
              \in Version
         /\ NextSerial(file[z].serial, day) > file[z].serial
         /\ [pc |-> "history", kind |-> kind, zone |-> z, cur |-> file[z],
             new |-> [data |-> data,
                      serial |-> NextSerial(file[z].serial, day)],
             role |-> "primary", roles |-> NoRoles] \in Operation
<1>1. file[z] \in Version /\ file[z].serial \in Serials
  BY DEF TypeOK, Version
<1>2. /\ NextSerial(file[z].serial, day) \in Serials
      /\ NextSerial(file[z].serial, day) > file[z].serial
  BY <1>1, NextSerialLarger DEF HasNextSerial
<1>3. [data |-> data, serial |-> NextSerial(file[z].serial, day)] \in Version
  BY <1>2 DEF Version
<1>4. NoRoles \in Manifest
  BY DEF NoRoles, Manifest
<1>5. QED
  BY <1>1, <1>2, <1>3, <1>4 DEF Operation, Steps, Roles
-----------------------------------------------------------------------------
(* Every request keeps the types. *)
LEMMA RequestType ==
  ASSUME TypeOK, NEW c \in Clients, Request(c)
  PROVE  TypeOK'
<1> USE DEF Roles, Steps, Changes
<1>1. ASSUME NEW z \in Zones, Get(c, z)
      PROVE  TypeOK'
  BY <1>1 DEF TypeOK, Get
<1>2. ASSUME NEW z \in Zones, NEW data \in Data, NEW day \in Days,
             Apply(c, z, data, day)
      PROVE  TypeOK'
  BY <1>2, ChangeOperation, LockType DEF Apply, MayChange, Change
<1>3. ASSUME NEW z \in Zones, NEW target \in history[z], NEW day \in Days,
             Rollback(c, z, target, day)
      PROVE  TypeOK'
  <2>1. target.data \in Data
    BY <1>3 DEF TypeOK, Version
  <2>2. QED
    BY <1>3, <2>1, ChangeOperation, LockType DEF Rollback, MayChange, Change
<1>4. ASSUME NEW z \in Zones, NEW version \in Imports, NEW role \in Roles,
             Create(c, z, version, role)
      PROVE  TypeOK'
  <2>1. version \in Version
    BY ConstantsAssumption
  <2>2. [pc |-> "write", kind |-> "create", zone |-> z, cur |-> None,
         new |-> version, role |-> role, roles |-> roles] \in Operation
    BY <2>1 DEF TypeOK, Operation
  <2>3. QED
    BY <1>4, <2>2, LockType DEF Create
<1>5. ASSUME NEW z \in Zones, Delete(c, z)
      PROVE  TypeOK'
  <2>1. RoleFor(z) \in Roles
    BY DEF RoleFor, TypeOK, Manifest
  <2>2. [pc |-> "history", kind |-> "delete", zone |-> z, cur |-> file[z],
         new |-> None, role |-> RoleFor(z), roles |-> NoRoles] \in Operation
    BY <2>1 DEF TypeOK, Operation, NoRoles, Manifest
  <2>3. QED
    BY <1>5, <2>2, LockType DEF Delete
<1>6. QED
  BY <1>1, <1>2, <1>3, <1>4, <1>5 DEF Request

(* What Coherent says of a handler that stands at some step. *)
LEMMA RunningCoherent ==
  ASSUME TypeOK, Coherent, NEW c \in Clients, op[c].pc \in Steps
  PROVE  HandlerCoherent(c) /\ op[c] \in Operation
BY RunningType DEF Coherent

(* Every step of a running handler keeps the types; that only versions get *)
(* into the history and among the acknowledged ones needs Coherent.        *)
LEMMA HandlerType ==
  ASSUME TypeOK, Coherent, NEW c \in Clients, HandlerStep(c)
  PROVE  TypeOK'
<1> USE DEF Steps, Changes, Replies, At
<1>1. ASSUME NEW o \in Outcomes, SaveHistory(c, o)
      PROVE  TypeOK'
  <2>1. op[c] \in Operation /\ op[c].zone \in Zones /\ op[c].cur \in Version
    BY <1>1, RunningCoherent DEF SaveHistory, Operation, HandlerCoherent
  <2>2. QED
    BY <1>1, <2>1, GotoType, ReturnType DEF SaveHistory, Put, TypeOK
<1>2. ASSUME NEW o \in Outcomes, WriteZone(c, o)
      PROVE  TypeOK'
  <2>1. op[c] \in Operation /\ op[c].zone \in Zones /\ op[c].new \in Version \cup {None}
    BY <1>2, RunningType DEF WriteZone, Operation
  <2>2. QED
    BY <1>2, <2>1, GotoType, ReturnType DEF WriteZone, Put, TypeOK
<1>3. ASSUME NEW o \in Outcomes, RemoveZone(c, o)
      PROVE  TypeOK'
  <2>1. op[c] \in Operation /\ op[c].zone \in Zones
    BY <1>3, RunningType DEF RemoveZone, Operation
  <2>2. QED
    BY <1>3, <2>1, GotoType, ReturnType DEF RemoveZone, Put, TypeOK
<1>4. ASSUME NEW o \in Outcomes, SaveNewRole(c, o)
      PROVE  TypeOK'
  <2>1. /\ op[c] \in Operation /\ op[c].zone \in Zones
        /\ [op[c].roles EXCEPT ![op[c].zone] = op[c].role] \in Manifest
    BY <1>4, RunningType DEF SaveNewRole, Operation, Manifest
  <2>2. op' \in [Clients -> Operation \cup {Idle}]
    BY <1>4, <2>1 DEF SaveNewRole, TypeOK, Operation
  <2>3. QED
    BY <1>4, <2>1, <2>2 DEF SaveNewRole, Overwrite, TypeOK
<1>5. ASSUME NEW o \in Outcomes, DropRole(c, o)
      PROVE  TypeOK'
  <2>1. /\ op[c] \in Operation /\ op[c].zone \in Zones
        /\ [roles EXCEPT ![op[c].zone] = None] \in Manifest
    BY <1>5, RunningType DEF DropRole, Operation, Manifest, TypeOK
  <2>2. op' \in [Clients -> Operation \cup {Idle}]
    BY <1>5, <2>1 DEF DropRole, TypeOK, Operation
  <2>3. QED
    BY <1>5, <2>1, <2>2 DEF DropRole, Overwrite, TypeOK
<1>6. ASSUME NEW o \in Outcomes, Undo(c, o)
      PROVE  TypeOK'
  <2>1. op[c] \in Operation /\ op[c].zone \in Zones /\ op[c].cur \in Version \cup {None}
    BY <1>6, RunningType DEF Undo, Operation
  <2>2. QED
    BY <1>6, <2>1, ReturnType DEF Undo, Put, TypeOK
<1>7. ASSUME NEW o \in Outcomes, RestoreChange(c, o)
      PROVE  TypeOK'
  <2>1. op[c] \in Operation /\ op[c].zone \in Zones /\ op[c].cur \in Version \cup {None}
    BY <1>7, RunningType DEF RestoreChange, Operation
  <2>2. QED
    BY <1>7, <2>1, ReturnType DEF RestoreChange, Put, TypeOK
<1>8. ASSUME NEW o \in Outcomes, RestoreLifecycle(c, o)
      PROVE  TypeOK'
  <2>1. op[c] \in Operation /\ op[c].zone \in Zones /\ op[c].cur \in Version \cup {None}
    BY <1>8, RunningType DEF RestoreLifecycle, Operation
  <2>2. QED
    BY <1>8, <2>1, GotoType DEF RestoreLifecycle, Put, TypeOK
<1>9. ASSUME NEW o \in Outcomes, RestoreRole(c, o)
      PROVE  TypeOK'
  <2> DEFINE prior == IF op[c].kind = "create" THEN None ELSE op[c].role
  <2>1. [op[c].roles EXCEPT ![op[c].zone] = prior] \in Manifest
    BY <1>9, RunningType DEF RestoreRole, Operation, Manifest
  <2>2. QED
    BY <1>9, <2>1, ReturnType DEF RestoreRole, Overwrite, TypeOK
<1>10. ASSUME NEW o \in Outcomes, AppendAudit(c, o)
       PROVE  TypeOK'
  <2>1. op[c] \in Operation /\ op[c].zone \in Zones /\ op[c].new \in Version \cup {None}
    BY <1>10, RunningType DEF AppendAudit, Operation
  <2>2. [zone |-> op[c].zone, revision |-> op[c].new] \in Event
    BY <2>1 DEF Event
  <2>3. audit' \in Event \cup {None}
    BY <1>10, <2>2 DEF AppendAudit, Overwrite, TypeOK
  <2>4. op[c].kind # "delete" => op[c].new \in Version
    BY <1>10, <2>1, RunningCoherent DEF AppendAudit, HandlerCoherent
  <2>5. acked' \in [Zones -> SUBSET Version]
    BY <1>10, <2>1, <2>4 DEF AppendAudit, TypeOK
  <2>6. QED
    BY <1>10, <2>3, <2>5, ReturnType DEF AppendAudit, TypeOK
<1>11. ASSUME LoadRolesFails(c)
       PROVE  TypeOK'
  BY <1>11, ReturnType DEF LoadRolesFails, TypeOK, disk
<1>12. ASSUME VerifyOk(c) \/ VerifyTimeout(c) \/ Notify(c)
       PROVE  TypeOK'
  BY <1>12, RunningType, GotoType DEF VerifyOk, VerifyTimeout, Notify, TypeOK, disk
<1>13. QED
  BY <1>1, <1>2, <1>3, <1>4, <1>5, <1>6, <1>7, <1>8, <1>9, <1>10, <1>11, <1>12
     DEF HandlerStep

(* The first states are well typed. *)
LEMMA InitType == Init => TypeOK
<1> SUFFICES ASSUME Init PROVE TypeOK
  OBVIOUS
<1>1. file \in [Zones -> Version \cup {None}]
  BY ConstantsAssumption DEF Init
<1>2. QED
  BY <1>1 DEF Init, TypeOK, Replies

(* Every step of the system keeps the types. *)
LEMMA NextType == TypeOK /\ Coherent /\ [Next]_vars => TypeOK'
<1> SUFFICES ASSUME TypeOK, Coherent, [Next]_vars PROVE TypeOK'
  OBVIOUS
<1>1. ASSUME NEW c \in Clients, Request(c) \/ HandlerStep(c)
      PROVE  TypeOK'
  BY <1>1, RequestType, HandlerType
<1>2. ASSUME NEW z \in Zones, CoreDNSReload(z)
      PROVE  TypeOK'
  BY <1>2 DEF CoreDNSReload, TypeOK, disk
<1>3. CASE Crash
  BY <1>3 DEF Crash, TypeOK, disk, Replies
<1>4. CASE UNCHANGED vars
  BY <1>4 DEF vars, TypeOK
<1>5. QED
  BY <1>1, <1>2, <1>3, <1>4 DEF Next

-----------------------------------------------------------------------------
(* While one handler runs, all the others are idle. *)
LEMMA OthersIdle ==
  ASSUME TypeOK, Coherent, NEW c \in Clients, mu = c
  PROVE  \A d \in Clients \ {c} : op[d] = Idle
BY DEF Coherent, HandlerCoherent

(* After a handler has returned, nobody runs. *)
LEMMA ReturnCoherent ==
  ASSUME TypeOK, Coherent, NEW c \in Clients, mu = c, NEW answer,
         Return(c, answer), NoAckedVersionLost'
  PROVE  Coherent'
<1>1. \A d \in Clients : op'[d] = Idle
  BY OthersIdle DEF Return, TypeOK
<1>2. QED
  BY <1>1, ConstantsAssumption DEF Return, Coherent

(* After a handler has moved on, only what it did needs to be looked at. *)
LEMMA StepCoherent ==
  ASSUME TypeOK, Coherent, NEW c \in Clients, mu = c, mu' = mu, NEW o,
         op' = [op EXCEPT ![c] = o], o # Idle,
         HandlerCoherent(c)', NoAckedVersionLost'
  PROVE  Coherent'
<1>1. \A d \in Clients \ {c} : op'[d] = Idle
  BY OthersIdle DEF TypeOK
<1>2. op'[c] # Idle
  BY DEF TypeOK
<1>3. QED
  BY <1>1, <1>2 DEF Coherent

(* What Goto does to the handler's record. *)
LEMMA GotoStep ==
  ASSUME TypeOK, NEW c \in Clients, op[c] \in Operation, NEW step \in Steps,
         Goto(c, step)
  PROVE  /\ op' = [op EXCEPT ![c] = [op[c] EXCEPT !.pc = step]]
         /\ [op[c] EXCEPT !.pc = step] # Idle
         /\ mu' = mu
         /\ op'[c].pc = step /\ op'[c].kind = op[c].kind
         /\ op'[c].zone = op[c].zone /\ op'[c].cur = op[c].cur
         /\ op'[c].new = op[c].new
BY DEF Goto, TypeOK, Operation, Steps, Idle

(* Taking the lock for a well-formed operation keeps Coherent. *)
LEMMA LockCoherent ==
  ASSUME TypeOK, Coherent, NEW c \in Clients, NEW o \in Operation, Lock(c, o),
         HandlerCoherent(c)'
  PROVE  Coherent'
<1>1. \A d \in Clients : op[d] = Idle
  BY ConstantsAssumption DEF Lock, Coherent, HandlerCoherent
<1>2. op'[c] = o /\ o # Idle /\ \A d \in Clients \ {c} : op'[d] = Idle
  BY <1>1, IdleFields DEF Lock, TypeOK
<1>3. NoAckedVersionLost'
  BY DEF Lock, Coherent, NoAckedVersionLost, disk
<1>4. QED
  BY <1>2, <1>3 DEF Coherent, Lock

(* Requests keep Coherent. *)
LEMMA RequestCoherent ==
  ASSUME TypeOK, Coherent, NEW c \in Clients, Request(c)
  PROVE  Coherent'
<1> USE DEF Roles, Steps, Changes
<1>1. ASSUME NEW z \in Zones, Get(c, z)
      PROVE  Coherent'
  BY <1>1 DEF Get, Coherent, HandlerCoherent, NoAckedVersionLost
<1>2. ASSUME NEW z \in Zones, NEW kind \in Changes, NEW data \in Data,
             NEW day \in Days, MayChange(c, z), HasNextSerial(z),
             Change(c, z, kind, data, day)
      PROVE  Coherent'
  <2> DEFINE new == [data |-> data, serial |-> NextSerial(file[z].serial, day)]
             o   == [pc |-> "history", kind |-> kind, zone |-> z,
                     cur |-> file[z], new |-> new, role |-> "primary",
                     roles |-> NoRoles]
  <2>1. new \in Version /\ new.serial > file[z].serial /\ o \in Operation
    BY <1>2, ChangeOperation DEF MayChange
  <2>2. Lock(c, o)
    BY <1>2 DEF Change
  <2>3. roles[z] = "primary" /\ file[z] # None
    BY <1>2 DEF MayChange, RoleFor
  <2>4. op'[c] = o /\ mu' = c /\ UNCHANGED <<file, roles, history, acked>>
    BY <2>2 DEF Lock, TypeOK, disk
  <2> HIDE DEF new
  <2>5. HandlerCoherent(c)'
    BY <2>1, <2>3, <2>4, ConstantsAssumption DEF HandlerCoherent
  <2>6. QED
    BY <2>1, <2>2, <2>5, LockCoherent
<1>3. ASSUME NEW z \in Zones, NEW version \in Imports, NEW role \in Roles,
             Create(c, z, version, role)
      PROVE  Coherent'
  <2> DEFINE o == [pc |-> "write", kind |-> "create", zone |-> z, cur |-> None,
                   new |-> version, role |-> role, roles |-> roles]
  <2>1. version \in Version /\ version # None
    BY ConstantsAssumption
  <2>2. o \in Operation
    BY <2>1 DEF TypeOK, Operation
  <2>3. /\ op'[c] = o /\ mu' = c /\ UNCHANGED <<file, roles, history, acked>>
        /\ file[z] = None
    BY <1>3 DEF Create, Lock, TypeOK, disk
  <2>4. acked[z] \subseteq history[z]
    BY <2>3, ConstantsAssumption DEF Coherent, NoAckedVersionLost, TypeOK
  <2>5. HandlerCoherent(c)'
    BY <2>1, <2>3, <2>4 DEF HandlerCoherent
  <2>6. QED
    BY <1>3, <2>2, <2>5, LockCoherent DEF Create
<1>4. ASSUME NEW z \in Zones, Delete(c, z)
      PROVE  Coherent'
  <2> DEFINE o == [pc |-> "history", kind |-> "delete", zone |-> z,
                   cur |-> file[z], new |-> None, role |-> RoleFor(z),
                   roles |-> NoRoles]
  <2>1. o \in Operation
    BY DEF TypeOK, Operation, NoRoles, Manifest, RoleFor
  <2>2. /\ op'[c] = o /\ mu' = c /\ UNCHANGED <<file, roles, history, acked>>
        /\ file[z] # None
    BY <1>4 DEF Delete, Lock, TypeOK, disk
  <2>3. HandlerCoherent(c)'
    BY <2>2 DEF HandlerCoherent
  <2>4. QED
    BY <1>4, <2>1, <2>3, LockCoherent DEF Delete
<1>5. ASSUME NEW z \in Zones, NEW target \in history[z], NEW day \in Days,
             Rollback(c, z, target, day)
      PROVE  Coherent'
  <2>1. target.data \in Data
    BY DEF TypeOK, Version
  <2>2. QED
    BY <1>2, <1>5, <2>1 DEF Rollback
<1>6. QED
  BY <1>1, <1>2, <1>3, <1>4, <1>5 DEF Request, Apply

(* Steps of a running handler keep Coherent. *)
LEMMA HandlerStepCoherent ==
  ASSUME TypeOK, Coherent, NEW c \in Clients, HandlerStep(c)
  PROVE  Coherent'
<1> DEFINE z == op[c].zone
<1> USE DEF Steps, Changes, At
<1>0. op[c].pc \in Steps =>
        /\ op[c] \in Operation /\ z \in Zones
        /\ mu = c /\ HandlerCoherent(c)
  BY RunningCoherent DEF HandlerCoherent, Operation
<1>1. ASSUME NEW o \in Outcomes, SaveHistory(c, o)
      PROVE  Coherent'
  <2> DEFINE step == IF op[c].kind = "delete" THEN "remove" ELSE "write"
  <2>1. NoAckedVersionLost'
    BY <1>0, <1>1 DEF SaveHistory, Put, Coherent, NoAckedVersionLost, TypeOK
  <2>2. CASE o # "ok"
    BY <1>0, <1>1, <2>1, <2>2, ReturnCoherent DEF SaveHistory
  <2>3. CASE o = "ok"
    <3>1. Goto(c, step) /\ step \in Steps
      BY <1>1, <2>3 DEF SaveHistory
    <3>2. history'[z] = history[z] \cup {op[c].cur}
      BY <1>0, <1>1, <2>3 DEF SaveHistory, Put, TypeOK
    <3>3. acked[z] \subseteq history'[z]
      BY <1>0, <1>1, <3>2 DEF SaveHistory, Coherent, NoAckedVersionLost, HandlerCoherent
    <3>4. HandlerCoherent(c)'
      BY <1>0, <1>1, <3>1, <3>2, <3>3, GotoStep DEF SaveHistory, HandlerCoherent
    <3>5. QED
      BY <1>0, <1>1, <2>1, <3>1, <3>4, GotoStep, StepCoherent DEF SaveHistory
  <2>4. QED
    BY <2>2, <2>3
<1>2. ASSUME NEW o \in Outcomes, WriteZone(c, o)
      PROVE  Coherent'
  <2> DEFINE step == IF op[c].kind = "create" THEN "roles" ELSE "verify"
  <2>1. NoAckedVersionLost'
    BY <1>0, <1>2 DEF WriteZone, Put, Coherent, NoAckedVersionLost, TypeOK, HandlerCoherent
  <2>2. CASE o # "ok"
    BY <1>0, <1>2, <2>1, <2>2, ReturnCoherent DEF WriteZone
  <2>3. CASE o = "ok"
    <3>1. Goto(c, step) /\ step \in Steps
      BY <1>2, <2>3 DEF WriteZone
    <3>2. file'[z] = op[c].new
      BY <1>0, <1>2, <2>3 DEF WriteZone, Put, TypeOK
    <3>3. HandlerCoherent(c)'
      BY <1>0, <1>2, <3>1, <3>2, GotoStep DEF WriteZone, HandlerCoherent
    <3>4. QED
      BY <1>0, <1>2, <2>1, <3>1, <3>3, GotoStep, StepCoherent DEF WriteZone
  <2>4. QED
    BY <2>2, <2>3
<1>3. ASSUME NEW o \in Outcomes, RemoveZone(c, o)
      PROVE  Coherent'
  <2>1. NoAckedVersionLost'
    BY <1>0, <1>3 DEF RemoveZone, Put, Coherent, NoAckedVersionLost, TypeOK, HandlerCoherent
  <2>2. CASE o # "ok"
    BY <1>0, <1>3, <2>1, <2>2, ReturnCoherent DEF RemoveZone
  <2>3. CASE o = "ok"
    <3>1. Goto(c, "roles")
      BY <1>3, <2>3 DEF RemoveZone
    <3>2. file'[z] = None
      BY <1>0, <1>3, <2>3 DEF RemoveZone, Put, TypeOK
    <3>3. HandlerCoherent(c)'
      BY <1>0, <1>3, <3>1, <3>2, GotoStep DEF RemoveZone, HandlerCoherent
    <3>4. QED
      BY <1>0, <1>3, <2>1, <3>1, <3>3, GotoStep, StepCoherent DEF RemoveZone
  <2>4. QED
    BY <2>2, <2>3
<1>4. ASSUME NEW o \in Outcomes, SaveNewRole(c, o) \/ DropRole(c, o)
      PROVE  Coherent'
  <2> DEFINE step == IF o = "ok" THEN "verify" ELSE "undo"
  <2>1. NoAckedVersionLost'
    BY <1>4 DEF SaveNewRole, DropRole, Coherent, NoAckedVersionLost
  <2>2. PICK manifest :
          op' = [op EXCEPT ![c].pc = step, ![c].roles = manifest]
    BY <1>4 DEF SaveNewRole, DropRole
  <2> DEFINE r == [op[c] EXCEPT !.pc = step, !.roles = manifest]
  <2>3. op' = [op EXCEPT ![c] = r]
    BY <1>0, <1>4, <2>2 DEF SaveNewRole, DropRole, TypeOK
  <2>4. /\ op[c] \in Operation /\ mu = c /\ mu' = mu /\ r # Idle
        /\ op'[c] = r
    BY <1>0, <1>4, <2>3 DEF SaveNewRole, DropRole, TypeOK, Operation, Idle
  <2>5. /\ op'[c].pc = step /\ op'[c].kind = op[c].kind
        /\ op'[c].zone = z /\ op'[c].cur = op[c].cur
        /\ op'[c].new = op[c].new
    BY <2>4 DEF Operation
  <2>6. UNCHANGED <<file, history, acked>> /\ op[c].kind \in {"create", "delete"}
    BY <1>4 DEF SaveNewRole, DropRole
  <2>7. HandlerCoherent(c)'
    <3>1. op[c].pc = "roles" /\ HandlerCoherent(c)
      BY <1>0, <1>4 DEF SaveNewRole, DropRole
    <3>2. QED
      BY <2>4, <2>5, <2>6, <3>1 DEF HandlerCoherent
  <2>8. QED
    BY <2>1, <2>3, <2>4, <2>7, StepCoherent
<1>5. ASSUME NEW o \in Outcomes, Undo(c, o) \/ RestoreChange(c, o)
      PROVE  Coherent'
  <2>1. NoAckedVersionLost'
    BY <1>0, <1>5 DEF Undo, RestoreChange, Put, Coherent, NoAckedVersionLost, TypeOK, HandlerCoherent
  <2>2. QED
    BY <1>0, <1>5, <2>1, ReturnCoherent DEF Undo, RestoreChange
<1>6. ASSUME NEW o \in Outcomes, RestoreLifecycle(c, o)
      PROVE  Coherent'
  <2>1. NoAckedVersionLost'
    BY <1>0, <1>6 DEF RestoreLifecycle, Put, Coherent, NoAckedVersionLost, TypeOK, HandlerCoherent
  <2>2. Goto(c, "unrole")
    BY <1>6 DEF RestoreLifecycle
  <2>3. file'[z] \in {op[c].cur, op[c].new}
    BY <1>0, <1>6 DEF RestoreLifecycle, Put, TypeOK, HandlerCoherent
  <2>4. HandlerCoherent(c)'
    BY <1>0, <1>6, <2>2, <2>3, GotoStep DEF RestoreLifecycle, HandlerCoherent
  <2>5. QED
    BY <1>0, <1>6, <2>1, <2>2, <2>4, GotoStep, StepCoherent DEF RestoreLifecycle
<1>7. ASSUME NEW o \in Outcomes, RestoreRole(c, o)
      PROVE  Coherent'
  <2>1. NoAckedVersionLost'
    BY <1>7 DEF RestoreRole, Coherent, NoAckedVersionLost
  <2>2. QED
    BY <1>0, <1>7, <2>1, ReturnCoherent DEF RestoreRole
<1>8. ASSUME NEW o \in Outcomes, AppendAudit(c, o)
      PROVE  Coherent'
  <2>1. file[z] = op[c].new
    BY <1>0, <1>8 DEF AppendAudit, HandlerCoherent
  <2>2. NoAckedVersionLost'
    BY <1>0, <1>8, <2>1 DEF AppendAudit, Coherent, NoAckedVersionLost, TypeOK
  <2>3. QED
    BY <1>0, <1>8, <2>2, ReturnCoherent DEF AppendAudit
<1>9. CASE LoadRolesFails(c)
  <2>1. NoAckedVersionLost'
    BY <1>9 DEF LoadRolesFails, Coherent, NoAckedVersionLost, disk
  <2>2. QED
    BY <1>0, <1>9, <2>1, ReturnCoherent DEF LoadRolesFails
<1>10. ASSUME NEW step \in {"notify", "restore", "audit"},
              op[c].pc \in {"verify", "notify"}, Goto(c, step),
              UNCHANGED <<disk, served, seen, acked>>
       PROVE  Coherent'
  <2>1. NoAckedVersionLost'
    BY <1>10 DEF Coherent, NoAckedVersionLost, disk
  <2>2. HandlerCoherent(c)'
    BY <1>0, <1>10, GotoStep DEF HandlerCoherent, disk
  <2>3. QED
    BY <1>0, <1>10, <2>1, <2>2, GotoStep, StepCoherent
<1>11. QED
  BY <1>1, <1>2, <1>3, <1>4, <1>5, <1>6, <1>7, <1>8, <1>9, <1>10
     DEF HandlerStep, VerifyOk, VerifyTimeout, Notify

-----------------------------------------------------------------------------
(* The first states are coherent: nobody runs, nothing is acknowledged. *)
LEMMA InitCoherent == Init => Coherent
BY ConstantsAssumption DEF Init, Coherent, NoAckedVersionLost

(* Every step of the system keeps Coherent. *)
LEMMA NextCoherent == TypeOK /\ Coherent /\ [Next]_vars => Coherent'
<1> SUFFICES ASSUME TypeOK, Coherent, [Next]_vars PROVE Coherent'
  OBVIOUS
<1>1. ASSUME NEW c \in Clients, Request(c) \/ HandlerStep(c)
      PROVE  Coherent'
  BY <1>1, RequestCoherent, HandlerStepCoherent
<1>2. ASSUME NEW z \in Zones, CoreDNSReload(z)
      PROVE  Coherent'
  BY <1>2 DEF CoreDNSReload, Coherent, HandlerCoherent, NoAckedVersionLost, disk
<1>3. CASE Crash
  BY <1>3, ConstantsAssumption DEF Crash, Coherent, NoAckedVersionLost, disk
<1>4. CASE UNCHANGED vars
  BY <1>4 DEF vars, Coherent, HandlerCoherent, NoAckedVersionLost
<1>5. QED
  BY <1>1, <1>2, <1>3, <1>4 DEF Next

(* The state of the store is always well typed (the whole of store.go). *)
THEOREM TypeCorrect == Spec => []TypeOK
<1>1. Init => TypeOK /\ Coherent
  BY InitType, InitCoherent
<1>2. TypeOK /\ Coherent /\ [Next]_vars => (TypeOK /\ Coherent)'
  BY NextType, NextCoherent
<1>3. QED
  BY <1>1, <1>2, PTL DEF Spec

(* Where a handler stands tells what is on disk, at every moment. *)
THEOREM AlwaysCoherent == Spec => []Coherent
<1>1. Init => TypeOK /\ Coherent
  BY InitType, InitCoherent
<1>2. TypeOK /\ Coherent /\ [Next]_vars => (TypeOK /\ Coherent)'
  BY NextType, NextCoherent
<1>3. QED
  BY <1>1, <1>2, PTL DEF Spec

(* No acknowledged version is lost, whatever fails and wherever the        *)
(* process dies.                                                           *)
THEOREM Durable == Spec => []NoAckedVersionLost
<1>1. Coherent => NoAckedVersionLost
  BY DEF Coherent
<1>2. QED
  BY <1>1, AlwaysCoherent, PTL

(* No update is lost: the file a handler is about to replace is the one it *)
(* compared with the client's expected revision.                           *)
THEOREM NoUpdateLost == Spec => []NoLostUpdate
<1>1. TypeOK /\ Coherent => NoLostUpdate
  BY IdleFields DEF Coherent, HandlerCoherent, NoLostUpdate
<1>2. QED
  BY <1>1, TypeCorrect, AlwaysCoherent, PTL

(* The records of a zone that is not classified primary never change. *)
THEOREM PrimariesOnly == Spec => []OnlyPrimariesChange
<1>1. TypeOK /\ Coherent => OnlyPrimariesChange
  BY IdleFields DEF Coherent, HandlerCoherent, OnlyPrimariesChange, Changes
<1>2. QED
  BY <1>1, TypeCorrect, AlwaysCoherent, PTL

-----------------------------------------------------------------------------
(* The steps at which a handler holds a copy of the manifest: a create     *)
(* loads it before its first write, a delete after it removed the file.    *)
HasCopy(c) ==
  \/ op[c].kind = "create"
  \/ op[c].kind = "delete" /\ op[c].pc \in {"undo", "verify", "restore", "unrole",
                                          "notify", "audit"}

(* The copy still says of all other zones what the manifest says. *)
CopyIsCurrent ==
  \A c \in Clients : HasCopy(c) =>
    \A y \in Zones \ {op[c].zone} : op[c].roles[y] = roles[y]

(* A handler that returns leaves nobody with a copy. *)
LEMMA ReturnCopies ==
  ASSUME TypeOK, Coherent, NEW c \in Clients, mu = c, NEW answer,
         Return(c, answer)
  PROVE  CopyIsCurrent'
<1>1. \A d \in Clients : op'[d] = Idle
  BY OthersIdle DEF Return, TypeOK
<1>2. QED
  BY <1>1, IdleFields DEF CopyIsCurrent, HasCopy

(* A handler that moves on without a change of the manifest keeps its copy. *)
LEMMA GotoCopies ==
  ASSUME TypeOK, Coherent, CopyIsCurrent, NEW c \in Clients, mu = c,
         op[c] \in Operation, NEW step \in Steps, Goto(c, step), roles' = roles,
         op[c].kind = "delete" => HasCopy(c) \/ step \in {"remove", "roles"}
  PROVE  CopyIsCurrent'
<1>1. \A d \in Clients \ {c} : op'[d] = Idle
  BY OthersIdle DEF Goto, TypeOK
<1>2. /\ op'[c].zone = op[c].zone /\ op'[c].roles = op[c].roles
      /\ op'[c].kind = op[c].kind /\ op'[c].pc = step
  BY DEF Goto, TypeOK, Operation
<1>3. HasCopy(c)' => HasCopy(c)
  BY <1>2 DEF HasCopy
<1>4. QED
  BY <1>1, <1>2, <1>3, IdleFields DEF CopyIsCurrent, HasCopy

(* A save writes back what the other zones had. *)
LEMMA SaveCopies ==
  ASSUME TypeOK, Coherent, CopyIsCurrent, NEW c \in Clients, NEW o \in Outcomes,
         SaveNewRole(c, o) \/ DropRole(c, o)
  PROVE  /\ CopyIsCurrent'
         /\ \A y \in Zones : roles'[y] # roles[y] => op[c].zone = y
<1>1. op[c] \in Operation /\ mu = c /\ op[c].kind \in {"create", "delete"}
  BY RunningCoherent DEF SaveNewRole, DropRole, At, Steps, HandlerCoherent
<1>2. PICK manifest \in Manifest :
        /\ op' = [op EXCEPT ![c].pc = IF o = "ok" THEN "verify" ELSE "undo",
                            ![c].roles = manifest]
        /\ roles' = Overwrite(roles, manifest, o)
        /\ \A y \in Zones \ {op[c].zone} : manifest[y] = roles[y]
  <2>1. CASE SaveNewRole(c, o)
    <3> DEFINE m == [op[c].roles EXCEPT ![op[c].zone] = op[c].role]
    <3>1. m \in Manifest
      BY <1>1 DEF Operation, Manifest
    <3>2. HasCopy(c)
      BY <2>1 DEF SaveNewRole, At, HasCopy
    <3>3. \A y \in Zones \ {op[c].zone} : m[y] = roles[y]
      BY <1>1, <3>2 DEF CopyIsCurrent, Operation, Manifest
    <3>4. QED
      BY <2>1, <3>1, <3>3 DEF SaveNewRole
  <2>2. CASE DropRole(c, o)
    <3> DEFINE m == [roles EXCEPT ![op[c].zone] = None]
    <3>1. m \in Manifest /\ \A y \in Zones \ {op[c].zone} : m[y] = roles[y]
      BY DEF TypeOK, Manifest
    <3>2. QED
      BY <2>2, <3>1 DEF DropRole
  <2>3. QED
    BY <2>1, <2>2
<1>3. \A y \in Zones \ {op[c].zone} : roles'[y] = roles[y]
  BY <1>2 DEF Overwrite
<1>4. op'[c].zone = op[c].zone /\ op'[c].roles = manifest
  BY <1>1, <1>2 DEF TypeOK, Operation
<1>5. \A d \in Clients \ {c} : op'[d] = Idle
  BY <1>1, <1>2, OthersIdle DEF TypeOK
<1>6. \A y \in Zones \ {op'[c].zone} : op'[c].roles[y] = roles'[y]
  BY <1>2, <1>3, <1>4
<1>7. \A d \in Clients \ {c} : ~HasCopy(d)'
  BY <1>5, IdleFields DEF HasCopy
<1>8. CopyIsCurrent'
  BY <1>6, <1>7 DEF CopyIsCurrent
<1>9. QED
  BY <1>3, <1>8

(* So does the restoration after a verification that failed. *)
LEMMA RestoreCopies ==
  ASSUME TypeOK, Coherent, CopyIsCurrent, NEW c \in Clients, NEW o \in Outcomes,
         RestoreRole(c, o)
  PROVE  \A y \in Zones : roles'[y] # roles[y] => op[c].zone = y
<1> DEFINE prior == IF op[c].kind = "create" THEN None ELSE op[c].role
           m     == [op[c].roles EXCEPT ![op[c].zone] = prior]
<1>1. op[c] \in Operation /\ HasCopy(c)
  BY RunningCoherent DEF RestoreRole, At, Steps, HasCopy
<1>2. \A y \in Zones \ {op[c].zone} : m[y] = roles[y]
  BY <1>1 DEF CopyIsCurrent, Operation, Manifest
<1>3. roles' = Overwrite(roles, m, o)
  BY DEF RestoreRole
<1>4. QED
  BY <1>2, <1>3 DEF Overwrite

(* Every step of a handler keeps its copy current and the other zones'     *)
(* roles as they are.                                                      *)
LEMMA HandlerCopies ==
  ASSUME TypeOK, Coherent, CopyIsCurrent, NEW c \in Clients, HandlerStep(c)
  PROVE  /\ CopyIsCurrent'
         /\ \A y \in Zones : roles'[y] # roles[y] => op[c].zone = y
<1> USE DEF Steps, Changes, At
<1>0. op[c].pc \in Steps => op[c] \in Operation /\ mu = c /\ HandlerCoherent(c)
  BY RunningCoherent DEF HandlerCoherent
<1>1. ASSUME NEW o \in Outcomes,
             SaveHistory(c, o) \/ WriteZone(c, o) \/ RemoveZone(c, o)
      PROVE  CopyIsCurrent' /\ roles' = roles
  <2>1. op[c] \in Operation /\ mu = c /\ roles' = roles /\ HandlerCoherent(c)
    BY <1>0, <1>1 DEF SaveHistory, WriteZone, RemoveZone
  <2>2. CASE o # "ok"
    BY <1>1, <2>1, <2>2, ReturnCopies DEF SaveHistory, WriteZone, RemoveZone
  <2>3. CASE o = "ok"
    <3>1. PICK step \in Steps :
            /\ Goto(c, step)
            /\ op[c].kind = "delete" => step \in {"remove", "roles"}
      BY <1>1, <2>1, <2>3 DEF SaveHistory, WriteZone, RemoveZone, HandlerCoherent
    <3>2. QED
      BY <2>1, <3>1, GotoCopies
  <2>4. QED
    BY <2>1, <2>2, <2>3
<1>2. ASSUME NEW o \in Outcomes, SaveNewRole(c, o) \/ DropRole(c, o)
      PROVE  /\ CopyIsCurrent'
             /\ \A y \in Zones : roles'[y] # roles[y] => op[c].zone = y
  BY <1>2, SaveCopies
<1>3. ASSUME NEW o \in Outcomes,
             Undo(c, o) \/ RestoreChange(c, o) \/ AppendAudit(c, o)
      PROVE  CopyIsCurrent' /\ roles' = roles
  BY <1>0, <1>3, ReturnCopies DEF Undo, RestoreChange, AppendAudit
<1>4. ASSUME NEW o \in Outcomes, RestoreLifecycle(c, o)
      PROVE  CopyIsCurrent' /\ roles' = roles
  <2>1. /\ op[c] \in Operation /\ mu = c /\ roles' = roles
        /\ Goto(c, "unrole") /\ HasCopy(c)
    BY <1>0, <1>4 DEF RestoreLifecycle, HasCopy
  <2>2. QED
    BY <2>1, GotoCopies
<1>5. ASSUME NEW o \in Outcomes, RestoreRole(c, o)
      PROVE  /\ CopyIsCurrent'
             /\ \A y \in Zones : roles'[y] # roles[y] => op[c].zone = y
  <2>1. CopyIsCurrent'
    BY <1>0, <1>5, ReturnCopies DEF RestoreRole
  <2>2. QED
    BY <1>5, <2>1, RestoreCopies
<1>6. CASE LoadRolesFails(c)
  BY <1>0, <1>6, ReturnCopies DEF LoadRolesFails, disk
<1>7. CASE VerifyOk(c) \/ VerifyTimeout(c) \/ Notify(c)
  <2>1. /\ op[c] \in Operation /\ mu = c /\ roles' = roles
        /\ op[c].pc \in {"verify", "notify"}
        /\ \E step \in {"notify", "restore", "audit"} : Goto(c, step)
    BY <1>0, <1>7 DEF VerifyOk, VerifyTimeout, Notify, disk
  <2>2. op[c].kind = "delete" => HasCopy(c)
    BY <2>1 DEF HasCopy
  <2>3. QED
    BY <2>1, <2>2, GotoCopies
<1>8. QED
  BY <1>1, <1>2, <1>3, <1>4, <1>5, <1>6, <1>7 DEF HandlerStep

(* A request that takes the lock starts without a copy or with a fresh one. *)
LEMMA RequestCopies ==
  ASSUME TypeOK, Coherent, CopyIsCurrent, NEW c \in Clients, Request(c)
  PROVE  CopyIsCurrent' /\ roles' = roles
<1>1. ASSUME NEW z \in Zones, Get(c, z)
      PROVE  CopyIsCurrent' /\ roles' = roles
  BY <1>1 DEF Get, CopyIsCurrent, HasCopy
<1>2. ASSUME NEW o, Lock(c, o),
             \/ o.kind \in Changes
             \/ o.kind = "delete" /\ o.pc = "history"
             \/ o.kind = "create" /\ o.roles = roles
      PROVE  CopyIsCurrent' /\ roles' = roles
  <2>1. \A d \in Clients : op[d] = Idle
    BY <1>2, ConstantsAssumption DEF Lock, Coherent, HandlerCoherent
  <2>2. /\ op'[c] = o /\ \A d \in Clients \ {c} : op'[d] = Idle
        /\ roles' = roles
    BY <1>2, <2>1 DEF Lock, TypeOK, disk
  <2>3. QED
    BY <1>2, <2>2, IdleFields DEF CopyIsCurrent, HasCopy, Changes
<1>3. ASSUME NEW z \in Zones, NEW kind \in Changes, NEW data, NEW day,
             Change(c, z, kind, data, day)
      PROVE  CopyIsCurrent' /\ roles' = roles
  BY <1>2, <1>3 DEF Change
<1>4. ASSUME NEW z \in Zones, NEW version, NEW role, Create(c, z, version, role)
      PROVE  CopyIsCurrent' /\ roles' = roles
  BY <1>2, <1>4 DEF Create
<1>5. ASSUME NEW z \in Zones, Delete(c, z)
      PROVE  CopyIsCurrent' /\ roles' = roles
  BY <1>2, <1>5 DEF Delete
<1>6. QED
  BY <1>1, <1>3, <1>4, <1>5 DEF Request, Apply, Rollback, Changes

(* Every step of the system keeps the copies current, and alters the role  *)
(* of no zone but the one that a running handler is about.                 *)
LEMMA NextCopies ==
  ASSUME TypeOK, Coherent, CopyIsCurrent, [Next]_vars
  PROVE  /\ CopyIsCurrent'
         /\ \A y \in Zones :
              roles'[y] # roles[y] => \E c \in Clients : op[c].zone = y
<1>1. ASSUME NEW c \in Clients, Request(c)
      PROVE  CopyIsCurrent' /\ roles' = roles
  BY <1>1, RequestCopies
<1>2. ASSUME NEW c \in Clients, HandlerStep(c)
      PROVE  /\ CopyIsCurrent'
             /\ \A y \in Zones : roles'[y] # roles[y] => op[c].zone = y
  BY <1>2, HandlerCopies
<1>3. ASSUME NEW z \in Zones, CoreDNSReload(z)
      PROVE  CopyIsCurrent' /\ roles' = roles
  BY <1>3 DEF CoreDNSReload, CopyIsCurrent, HasCopy, disk
<1>4. CASE Crash
  <2>1. \A d \in Clients : op'[d] = Idle
    BY <1>4 DEF Crash
  <2>2. QED
    BY <1>4, <2>1, IdleFields DEF Crash, CopyIsCurrent, HasCopy, disk
<1>5. CASE UNCHANGED vars
  BY <1>5 DEF vars, CopyIsCurrent, HasCopy
<1>6. QED
  BY <1>1, <1>2, <1>3, <1>4, <1>5 DEF Next

(* An operation on one zone never alters the role of another, although     *)
(* every save rewrites the whole manifest from a copy (Create, Delete).    *)
THEOREM RolesOfOthersStay == Spec => OtherRolesUntouched
<1>1. Init => CopyIsCurrent
  BY IdleFields DEF Init, CopyIsCurrent, HasCopy
<1>2. TypeOK /\ Coherent /\ CopyIsCurrent /\ [Next]_vars
        => /\ CopyIsCurrent'
           /\ [\A z \in Zones : roles'[z] # roles[z]
                 => \E c \in Clients : op[c].zone = z]_vars
  BY NextCopies
<1>3. QED
  BY <1>1, <1>2, TypeCorrect, AlwaysCoherent, PTL DEF Spec, OtherRolesUntouched

-----------------------------------------------------------------------------
(* The zone store implements the register specification: every step of     *)
(* ZoneStore is, seen through LogicalZone, a step of ZoneRegister or none. *)

Logical == [z \in Zones |-> LogicalZone(z)]

(* The logical zones, spelled out by who runs. *)
LogicalFacts ==
  /\ mu = None => \A z \in Zones : Logical[z] = file[z]
  /\ \A c \in Clients, z \in Zones : mu = c =>
       Logical[z] = IF op[c].zone = z /\ op[c].pc \in Undecided
                    THEN op[c].cur ELSE file[z]

LEMMA LogicalRead == TypeOK /\ Coherent => LogicalFacts
<1> SUFFICES ASSUME TypeOK, Coherent PROVE LogicalFacts
  OBVIOUS
<1>1. ASSUME mu = None, NEW z \in Zones
      PROVE  Logical[z] = file[z]
  <2>1. \A c \in Clients : op[c] = Idle
    BY <1>1, ConstantsAssumption DEF Coherent, HandlerCoherent
  <2>2. Holder(z) = {}
    BY <2>1, IdleFields DEF Holder, Undecided
  <2>3. QED
    BY <2>2 DEF Logical, LogicalZone
<1>2. ASSUME NEW c \in Clients, NEW z \in Zones, mu = c
      PROVE  Logical[z] = IF op[c].zone = z /\ op[c].pc \in Undecided
                          THEN op[c].cur ELSE file[z]
  <2>1. \A d \in Clients \ {c} : op[d] = Idle
    BY <1>2, OthersIdle
  <2>2. CASE op[c].zone = z /\ op[c].pc \in Undecided
    <3>1. Holder(z) = {c}
      BY <2>1, <2>2, IdleFields DEF Holder, Undecided
    <3>2. QED
      BY <2>2, <3>1 DEF Logical, LogicalZone
  <2>3. CASE ~(op[c].zone = z /\ op[c].pc \in Undecided)
    <3>1. Holder(z) = {}
      BY <2>1, <2>3, IdleFields DEF Holder, Undecided
    <3>2. QED
      BY <2>3, <3>1 DEF Logical, LogicalZone
  <2>4. QED
    BY <2>2, <2>3
<1>3. QED
  BY <1>1, <1>2 DEF LogicalFacts

(* A step that leaves the zone it works on as it was, or makes it the new  *)
(* version, is a step of the register.                                     *)
LEMMA Decided ==
  ASSUME TypeOK, Coherent, NEW c \in Clients, op[c] # Idle,
         Logical[op[c].zone] = op[c].cur,
         Logical'[op[c].zone] \in {op[c].cur, op[c].new},
         \A y \in Zones \ {op[c].zone} : Logical'[y] = Logical[y],
         acked' = acked
  PROVE  [Register!Next]_<<Logical, acked>>
<1> DEFINE z == op[c].zone
<1>1. /\ z \in Zones
      /\ op[c].cur \in Version \cup {None}
      /\ op[c].new \in Version \cup {None}
      /\ op[c].kind \in Changes \cup {"create", "delete"}
      /\ HandlerCoherent(c)
  BY NotIdleType DEF Operation, Coherent
<1>2. Logical \in [Zones -> {Logical[y] : y \in Zones}]
  BY DEF Logical
<1>3. DOMAIN Logical = Zones /\ DOMAIN Logical' = Zones
  BY DEF Logical
<1>4. CASE Logical'[z] = op[c].cur
  <2>1. Logical' = Logical
    BY <1>1, <1>3, <1>4 DEF Logical
  <2>2. QED
    BY <2>1
<1>5. CASE Logical'[z] = op[c].new
  <2>1. Logical' = [Logical EXCEPT ![z] = op[c].new]
    BY <1>1, <1>3, <1>5 DEF Logical
  <2>2. CASE op[c].kind \in Changes
    <3>1. op[c].new \in Version /\ op[c].new.serial > op[c].cur.serial
          /\ op[c].cur # None
      BY <1>1, <2>2 DEF HandlerCoherent
    <3>2. Register!Change(z)
      BY <1>1, <2>1, <3>1 DEF Register!Change, Logical, Register!Version, Version, Serials
    <3>3. QED
      BY <1>1, <3>2 DEF Register!Next
  <2>3. CASE op[c].kind = "create"
    <3>1. op[c].new \in Version /\ op[c].cur = None
      BY <1>1, <2>3 DEF HandlerCoherent
    <3>2. Register!Create(z)
      BY <1>1, <2>1, <3>1 DEF Register!Create, Logical, Register!Version, Version, Serials
    <3>3. QED
      BY <1>1, <3>2 DEF Register!Next
  <2>4. CASE op[c].kind = "delete"
    <3>1. op[c].new = None /\ op[c].cur # None
      BY <1>1, <2>4 DEF HandlerCoherent
    <3>2. Register!Delete(z)
      BY <1>1, <2>1, <3>1 DEF Register!Delete, Logical
    <3>3. QED
      BY <1>1, <3>2 DEF Register!Next
  <2>5. QED
    BY <1>1, <2>2, <2>3, <2>4
<1>6. QED
  BY <1>4, <1>5

(* A step of the handler that holds the lock is a step of the register, or *)
(* leaves it alone.                                                        *)
LEMMA HandlerRefines ==
  ASSUME TypeOK, Coherent, TypeOK', Coherent', LogicalFacts, LogicalFacts',
         NEW c \in Clients, HandlerStep(c)
  PROVE  [Register!Next]_<<Logical, acked>>
<1> DEFINE z == op[c].zone
<1> USE DEF At, Changes
<1>1. op[c].pc \in Steps
  BY DEF HandlerStep, SaveHistory, WriteZone, RemoveZone, SaveNewRole, DropRole,
         Undo, RestoreChange, RestoreLifecycle, RestoreRole, AppendAudit,
         LoadRolesFails, VerifyOk, VerifyTimeout, Notify, Steps
<1>2. op[c] \in Operation /\ op[c] # Idle /\ z \in Zones /\ mu = c
      /\ HandlerCoherent(c)
  BY <1>1, RunningType, RunningCoherent DEF Operation, HandlerCoherent
<1>3. \A y \in Zones : Logical[y] = IF z = y /\ op[c].pc \in Undecided
                                    THEN op[c].cur ELSE file[y]
  BY <1>2 DEF LogicalFacts
<1>4. ASSUME NEW step \in Steps, mu' = mu, op'[c].pc = step, op'[c].zone = z,
             op'[c].cur = op[c].cur
      PROVE  \A y \in Zones : Logical'[y] = IF z = y /\ step \in Undecided
                                            THEN op[c].cur ELSE file'[y]
  BY <1>2, <1>4 DEF LogicalFacts
<1>5. ASSUME NEW answer, Return(c, answer)
      PROVE  \A y \in Zones : Logical'[y] = file'[y]
  BY <1>5 DEF LogicalFacts, Return
<1>6. ASSUME NEW step \in Steps, Goto(c, step)
      PROVE  \A y \in Zones : Logical'[y] = IF z = y /\ step \in Undecided
                                            THEN op[c].cur ELSE file'[y]
  BY <1>2, <1>4, <1>6, GotoStep
<1> USE DEF Undecided, Steps
<1>7. ASSUME NEW o \in Outcomes, SaveHistory(c, o)
      PROVE  [Register!Next]_<<Logical, acked>>
  <2>1. Logical[z] = op[c].cur /\ \A y \in Zones : Logical[y] = file[y]
    BY <1>2, <1>3, <1>7 DEF SaveHistory, HandlerCoherent
  <2>2. \A y \in Zones : Logical'[y] = file[y]
    BY <1>5, <1>6, <1>7 DEF SaveHistory
  <2>3. QED
    BY <1>2, <1>7, <2>1, <2>2, Decided DEF SaveHistory
<1>8. ASSUME NEW o \in Outcomes, WriteZone(c, o) \/ RemoveZone(c, o)
      PROVE  [Register!Next]_<<Logical, acked>>
  <2>1. Logical[z] = op[c].cur /\ \A y \in Zones : Logical[y] = file[y]
    BY <1>2, <1>3, <1>8 DEF WriteZone, RemoveZone, HandlerCoherent
  <2>2. /\ file'[z] \in {op[c].cur, op[c].new}
        /\ \A y \in Zones \ {z} : file'[y] = file[y]
    BY <1>2, <1>8 DEF WriteZone, RemoveZone, HandlerCoherent, Put, TypeOK
  <2>3. CASE o # "ok"
    <3>1. \A y \in Zones : Logical'[y] = file'[y]
      BY <1>5, <1>8, <2>3 DEF WriteZone, RemoveZone
    <3>2. QED
      BY <1>2, <1>8, <2>1, <2>2, <3>1, Decided DEF WriteZone, RemoveZone
  <2>4. CASE o = "ok"
    <3>1. \A y \in Zones : Logical'[y] = IF z = y THEN op[c].cur ELSE file'[y]
      BY <1>6, <1>8, <2>4 DEF WriteZone, RemoveZone
    <3>2. QED
      BY <1>2, <1>8, <2>1, <2>2, <3>1, Decided DEF WriteZone, RemoveZone
  <2>5. QED
    BY <2>3, <2>4
<1>9. ASSUME NEW o \in Outcomes, SaveNewRole(c, o) \/ DropRole(c, o)
      PROVE  [Register!Next]_<<Logical, acked>>
  <2> DEFINE step == IF o = "ok" THEN "verify" ELSE "undo"
  <2>1. PICK manifest :
          op' = [op EXCEPT ![c].pc = step, ![c].roles = manifest]
    BY <1>9 DEF SaveNewRole, DropRole
  <2>2. /\ op'[c].pc = step /\ op'[c].zone = z /\ op'[c].cur = op[c].cur
        /\ mu' = mu /\ file' = file /\ acked' = acked
    BY <1>2, <1>9, <2>1 DEF SaveNewRole, DropRole, TypeOK, Operation
  <2>3. \A y \in Zones : Logical'[y] = IF z = y THEN op[c].cur ELSE file[y]
    BY <1>4, <2>2
  <2>4. \A y \in Zones : Logical[y] = IF z = y THEN op[c].cur ELSE file[y]
    BY <1>3, <1>9 DEF SaveNewRole, DropRole
  <2>5. QED
    BY <1>2, <2>2, <2>3, <2>4, Decided
<1>10. ASSUME NEW o \in Outcomes,
              \/ Undo(c, o) \/ RestoreChange(c, o) \/ RestoreRole(c, o)
              \/ LoadRolesFails(c)
       PROVE  [Register!Next]_<<Logical, acked>>
  <2>1. \A y \in Zones : Logical[y] = IF z = y THEN op[c].cur ELSE file[y]
    BY <1>3, <1>10 DEF Undo, RestoreChange, RestoreRole, LoadRolesFails
  <2>2. /\ \A y \in Zones : Logical'[y] = file'[y]
        /\ acked' = acked
    BY <1>5, <1>10 DEF Undo, RestoreChange, RestoreRole, LoadRolesFails
  <2>3. /\ file'[z] \in {op[c].cur, op[c].new}
        /\ \A y \in Zones \ {z} : file'[y] = file[y]
    BY <1>2, <1>10 DEF Undo, RestoreChange, RestoreRole, LoadRolesFails,
                       HandlerCoherent, Put, TypeOK, disk
  <2>4. QED
    BY <1>2, <2>1, <2>2, <2>3, Decided
<1>11. ASSUME NEW o \in Outcomes, RestoreLifecycle(c, o) \/ VerifyTimeout(c)
       PROVE  [Register!Next]_<<Logical, acked>>
  <2>1. \A y \in Zones : Logical[y] = IF z = y THEN op[c].cur ELSE file[y]
    BY <1>3, <1>11 DEF RestoreLifecycle, VerifyTimeout
  <2>2. /\ \A y \in Zones : Logical'[y] = IF z = y THEN op[c].cur ELSE file'[y]
        /\ acked' = acked
    BY <1>6, <1>11 DEF RestoreLifecycle, VerifyTimeout
  <2>3. \A y \in Zones \ {z} : file'[y] = file[y]
    BY <1>2, <1>11 DEF RestoreLifecycle, VerifyTimeout, Put, TypeOK, disk
  <2>4. QED
    BY <1>2, <2>1, <2>2, <2>3, Decided
<1>12. ASSUME VerifyOk(c)
       PROVE  [Register!Next]_<<Logical, acked>>
  <2>1. \A y \in Zones : Logical[y] = IF z = y THEN op[c].cur ELSE file[y]
    BY <1>3, <1>12 DEF VerifyOk
  <2>2. /\ \A y \in Zones : Logical'[y] = file[y]
        /\ acked' = acked
    BY <1>6, <1>12 DEF VerifyOk, disk
  <2>3. file[z] = op[c].new
    BY <1>2, <1>12 DEF VerifyOk, HandlerCoherent
  <2>4. QED
    BY <1>2, <2>1, <2>2, <2>3, Decided
<1>13. ASSUME Notify(c)
       PROVE  [Register!Next]_<<Logical, acked>>
  <2>1. \A y \in Zones : Logical'[y] = Logical[y]
    BY <1>3, <1>6, <1>13 DEF Notify, disk
  <2>2. Logical' = Logical /\ acked' = acked
    BY <1>13, <2>1 DEF Logical, Notify
  <2>3. QED
    BY <2>2
<1>14. ASSUME NEW o \in Outcomes, AppendAudit(c, o)
       PROVE  [Register!Next]_<<Logical, acked>>
  <2>1. \A y \in Zones : Logical'[y] = Logical[y]
    BY <1>3, <1>5, <1>14 DEF AppendAudit
  <2>2. Logical' = Logical
    BY <2>1 DEF Logical
  <2>3. Logical[z] = op[c].new
    BY <1>2, <1>3, <1>14 DEF AppendAudit, HandlerCoherent
  <2>4. CASE acked' = acked
    BY <2>2, <2>4
  <2>5. CASE acked' # acked
    <3>1. op[c].kind # "delete" /\ acked' = [acked EXCEPT ![z] = @ \cup {op[c].new}]
      BY <1>14, <2>5 DEF AppendAudit, TypeOK
    <3>2. op[c].new # None
      BY <1>2, <1>14, <3>1 DEF AppendAudit, HandlerCoherent
    <3>3. Register!Acknowledge(z)
      BY <2>2, <2>3, <3>1, <3>2 DEF Register!Acknowledge, Logical
    <3>4. QED
      BY <1>2, <3>3 DEF Register!Next
  <2>6. QED
    BY <2>4, <2>5
<1>15. \E o : o \in Outcomes
  BY DEF Outcomes
<1>16. QED
  BY <1>7, <1>8, <1>9, <1>10, <1>11, <1>12, <1>13, <1>14, <1>15
     DEF HandlerStep

(* The first states of the store are first states of the register. *)
LEMMA InitRefines == Init => Register!Init
<1> SUFFICES ASSUME Init PROVE Register!Init
  OBVIOUS
<1>1. LogicalFacts
  BY InitType, InitCoherent, LogicalRead
<1>2. \A z \in Zones : Logical[z] = file[z]
  BY <1>1 DEF LogicalFacts, Init
<1>3. \A z \in Zones : file[z] \in Version \cup {None}
  BY InitType DEF TypeOK
<1>4. Logical \in [Zones -> Version \cup {None}]
  BY <1>2, <1>3 DEF Logical
<1>5. QED
  BY <1>4 DEF Register!Init, Logical, Register!Version, Version, Serials, Init

(* Every step of the store is a step of the register or leaves it alone. *)
LEMMA NextRefines ==
  TypeOK /\ Coherent /\ TypeOK' /\ Coherent' /\ LogicalFacts /\ LogicalFacts'
  /\ [Next]_vars => [Register!Next]_<<Logical, acked>>
<1> SUFFICES ASSUME TypeOK, Coherent, TypeOK', Coherent', LogicalFacts,
                    LogicalFacts', [Next]_vars
             PROVE  [Register!Next]_<<Logical, acked>>
  OBVIOUS
<1>1. ASSUME NEW c \in Clients, HandlerStep(c)
      PROVE  [Register!Next]_<<Logical, acked>>
  BY <1>1, HandlerRefines
<1>2. ASSUME NEW c \in Clients, NEW o, Lock(c, o),
             o.pc \in {"history", "write"}
      PROVE  [Register!Next]_<<Logical, acked>>
  <2>1. mu = None /\ mu' = c /\ op'[c].pc \notin Undecided /\ file' = file
        /\ acked' = acked
    BY <1>2 DEF Lock, TypeOK, disk, Undecided
  <2>2. \A y \in Zones : Logical'[y] = Logical[y]
    BY <2>1 DEF LogicalFacts
  <2>3. QED
    BY <2>1, <2>2 DEF Logical
<1>3. ASSUME UNCHANGED <<file, op, acked>>
      PROVE  [Register!Next]_<<Logical, acked>>
  BY <1>3 DEF Logical, LogicalZone, Holder
<1>4. ASSUME NEW c \in Clients, Request(c)
      PROVE  [Register!Next]_<<Logical, acked>>
  BY <1>2, <1>3, <1>4 DEF Request, Get, Apply, Rollback, Change, Create, Delete
<1>5. ASSUME Crash
      PROVE  [Register!Next]_<<Logical, acked>>
  <2>1. PICK c \in Clients : mu = c
    BY <1>5 DEF Crash, TypeOK
  <2>2. \A y \in Zones : Logical'[y] = file[y]
    BY <1>5 DEF LogicalFacts, Crash, disk
  <2>3. \A y \in Zones : Logical[y] = IF op[c].zone = y /\ op[c].pc \in Undecided
                                      THEN op[c].cur ELSE file[y]
    BY <2>1 DEF LogicalFacts
  <2>4. CASE op[c].pc \in Undecided
    <3>1. op[c] # Idle /\ HandlerCoherent(c)
      BY <2>1, <2>4, IdleFields DEF Coherent, Undecided
    <3>2. file[op[c].zone] \in {op[c].cur, op[c].new} /\ op[c].zone \in Zones
      BY <2>4, <3>1, NotIdleType DEF HandlerCoherent, Undecided, Operation
    <3>3. QED
      BY <1>5, <2>2, <2>3, <2>4, <3>1, <3>2, Decided DEF Crash
  <2>5. CASE op[c].pc \notin Undecided
    <3>1. \A y \in Zones : Logical'[y] = Logical[y]
      BY <2>2, <2>3, <2>5
    <3>2. QED
      BY <1>5, <3>1 DEF Logical, Crash
  <2>6. QED
    BY <2>4, <2>5
<1>6. QED
  BY <1>1, <1>3, <1>4, <1>5 DEF Next, vars, CoreDNSReload, disk

(* The store implements an atomic register per zone: each change happens   *)
(* as a whole or not at all and raises the serial, and only the version a  *)
(* zone holds is acknowledged, whatever fails and wherever it crashes.     *)
THEOREM StoreImplementsRegister == Spec => ImplementsRegister
<1>1. TypeOK /\ Coherent => LogicalFacts
  BY LogicalRead
<1>2. Init => Register!Init
  BY InitRefines
<1>3. TypeOK /\ Coherent /\ TypeOK' /\ Coherent' /\ LogicalFacts /\ LogicalFacts'
      /\ [Next]_vars =>
        [Register!Next]_<<[z \in Zones |-> LogicalZone(z)], acked>>
  BY NextRefines DEF Logical
<1>4. QED
  BY <1>1, <1>2, <1>3, TypeCorrect, AlwaysCoherent, PTL
     DEF Spec, ImplementsRegister, Register!Spec
=============================================================================
