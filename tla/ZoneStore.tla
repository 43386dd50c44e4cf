------------------------------ MODULE ZoneStore ------------------------------
(***************************************************************************)
(* The primary zone store of rill-api (internal/zones/store.go): zone      *)
(* files, the role manifest, the history directory and the audit log on    *)
(* disk; the request handlers that change them under the store mutex; and  *)
(* the CoreDNS authority whose answers the handlers wait for.              *)
(*                                                                         *)
(* A zone file is a version: its records (abstracted to a member of Data)  *)
(* and its SOA serial.  A revision is the SHA-256 of the rendered file, so *)
(* two revisions are equal exactly when the versions are, and the model    *)
(* uses the version itself as its revision.                                *)
(*                                                                         *)
(* Every file-system or network call of a handler is a step of its own, so *)
(* lock-free readers, CoreDNS reloads and a crash of the process can fall  *)
(* between any two of them, and every write can fail.                      *)
(***************************************************************************)
EXTENDS Naturals

CONSTANTS
  Zones,      \* zone names the store manages
  Clients,    \* request handlers (one outstanding request each)
  Data,       \* record sets that pass applyChange and validate
  MaxSerial,  \* math.MaxUint32, scaled down
  Days,       \* the YYYYMMDD00 serials the clock may show
  Imports,    \* versions that zone texts bring in from outside
  None        \* an absent file, role, revision or lock holder

Serials  == 0..MaxSerial
Version  == [data : Data, serial : Serials]
Roles    == {"primary", "secondary"}
Manifest == [Zones -> Roles \cup {None}]

ASSUME ConstantsAssumption ==
  /\ MaxSerial \in Nat
  /\ Days \subseteq Serials
  /\ Imports \subseteq Version
  /\ None \notin Version
  /\ None \notin Roles
  /\ None \notin Clients
  /\ None \notin Zones

VARIABLES
  file,     \* <zone>.zone in the zone directory
  roles,    \* .roles.json
  history,  \* history/<zone>/<revision>.zone
  audit,    \* the last event of audit.jsonl
  served,   \* what the CoreDNS authority answers for the zone
  mu,       \* holder of Store.mu
  op,       \* the handler's locals and where it stands
  seen,     \* the revision a client read last: its next expected_revision
  reply,    \* the answer to the operation that ran last
  acked     \* history variable: versions some client was told are published

disk == <<file, roles, history, audit>>
vars == <<file, roles, history, audit, served, mu, op, seen, reply, acked>>

Changes == {"apply", "rollback"}
Steps   == {"history", "write", "remove", "roles", "undo", "verify",
            "restore", "unrole", "notify", "audit"}
Replies == {"none", "published", "restored", "error", "lost"}

(* cur and new are the versions before and after, role the zone's role     *)
(* (the requested one for a create), roles the manifest as loaded.         *)
Operation == [pc : Steps, kind : Changes \cup {"create", "delete"},
              zone : Zones, cur : Version \cup {None},
              new : Version \cup {None}, role : Roles, roles : Manifest]

NoRoles == [z \in Zones |-> None]
(* An audit event names the revision it published; a delete names none. *)
Event == [zone : Zones, revision : Version \cup {None}]
Idle == [pc |-> "idle", kind |-> "none", zone |-> None, cur |-> None,
         new |-> None, role |-> None, roles |-> NoRoles]

TypeOK ==
  /\ file \in [Zones -> Version \cup {None}]
  /\ roles \in Manifest
  /\ history \in [Zones -> SUBSET Version]
  /\ audit \in Event \cup {None}
  /\ served \in [Zones -> Version \cup {None}]
  /\ mu \in Clients \cup {None}
  /\ op \in [Clients -> Operation \cup {Idle}]
  /\ seen \in [Clients -> [Zones -> Version \cup {None}]]
  /\ reply \in Replies
  /\ acked \in [Zones -> SUBSET Version]

(* An installation may start with zone files already in place, classified  *)
(* or not, which CoreDNS has loaded.                                       *)
Init ==
  /\ file \in [Zones -> Imports \cup {None}]
  /\ roles \in Manifest
  /\ \A z \in Zones : file[z] = None => roles[z] = None
  /\ history = [z \in Zones |-> {}]
  /\ audit = None
  /\ served = file
  /\ mu = None
  /\ op = [c \in Clients |-> Idle]
  /\ seen = [c \in Clients |-> [z \in Zones |-> None]]
  /\ reply = "none"
  /\ acked = [z \in Zones |-> {}]

-----------------------------------------------------------------------------
(* Helpers                                                                 *)

(* A definition whose comment calls it faulty is not used by Spec: it is a *)
(* plausible slip in the code, and shows that a property would catch it.   *)

(* An unclassified zone file is read-only (faulty: it is writable). *)
RoleForTrusting(z) == IF roles[z] = None THEN "primary" ELSE roles[z]
RoleFor(z) == IF roles[z] = None THEN "secondary" ELSE roles[z]

(* The next SOA serial on the given day; a serial at the maximum is        *)
(* refused before this is used (faulty: today's, whatever the zone has).   *)
NextSerialOfToday(current, day) == day
NextSerial(current, day) == IF day > current + 1 THEN day ELSE current + 1

(* writeAtomic and appendAudit: success; an error before the rename; or an *)
(* error after it (directory sync, close), when the content is in place.   *)
Outcomes == {"ok", "unwritten", "unsynced"}
Put(f, z, value, o) == IF o = "unwritten" THEN f ELSE [f EXCEPT ![z] = value]
Overwrite(old, new, o) == IF o = "unwritten" THEN old ELSE new

(* os.Remove only succeeds or leaves the file. *)
RemoveOutcomes == {"ok", "unwritten"}

(* Faulty: an operation starts without waiting for the mutex. *)
StartUnlocked(c, operation) ==
  /\ op[c] = Idle
  /\ mu' = c
  /\ op' = [op EXCEPT ![c] = operation]
  /\ reply' = "none"
  /\ UNCHANGED <<disk, served, seen, acked>>

Lock(c, operation) ==
  /\ mu = None
  /\ op[c] = Idle
  /\ mu' = c
  /\ op' = [op EXCEPT ![c] = operation]
  /\ reply' = "none"
  /\ UNCHANGED <<disk, served, seen, acked>>

Goto(c, step) ==
  /\ op' = [op EXCEPT ![c].pc = step]
  /\ UNCHANGED <<mu, reply>>

Return(c, answer) ==
  /\ mu' = None
  /\ op' = [op EXCEPT ![c] = Idle]
  /\ reply' = answer

-----------------------------------------------------------------------------
(* Requests.  One that fails a check of its handler, and a dry run, which  *)
(* stops before the first write, change nothing and are not steps here.    *)

(* Get takes no lock: it may read a version a handler is about to undo. *)
Get(c, z) ==
  /\ op[c] = Idle
  /\ file[z] # None
  /\ seen' = [seen EXCEPT ![c][z] = file[z]]
  /\ UNCHANGED <<file, roles, history, audit, served, mu, op, reply, acked>>

(* The checks Apply and Rollback make under the lock, in their order. *)
MayChange(c, z) ==
  /\ file[z] # None
  /\ RoleFor(z) = "primary"
  /\ seen[c][z] = file[z]

(* nextSerial refuses to go past the largest serial. *)
HasNextSerial(z) == file[z].serial < MaxSerial

Change(c, z, kind, data, day) ==
  Lock(c, [pc |-> "history", kind |-> kind, zone |-> z, cur |-> file[z],
           new |-> [data |-> data, serial |-> NextSerial(file[z].serial, day)],
           role |-> "primary", roles |-> NoRoles])

Apply(c, z, data, day) ==
  /\ MayChange(c, z)
  /\ HasNextSerial(z)
  /\ Change(c, z, "apply", data, day)

(* The target must be another revision, still in the zone's history. *)
Rollback(c, z, target, day) ==
  /\ MayChange(c, z)
  /\ target # file[z]
  /\ target \in history[z]
  /\ HasNextSerial(z)
  /\ Change(c, z, "rollback", target.data, day)

(* The imported text brings its own serial. *)
Create(c, z, version, role) ==
  /\ file[z] = None
  /\ Lock(c, [pc |-> "write", kind |-> "create", zone |-> z, cur |-> None,
              new |-> version, role |-> role, roles |-> roles])

(* Delete checks the revision but not the role. *)
Delete(c, z) ==
  /\ file[z] # None
  /\ seen[c][z] = file[z]
  /\ Lock(c, [pc |-> "history", kind |-> "delete", zone |-> z,
              cur |-> file[z], new |-> None, role |-> RoleFor(z),
              roles |-> NoRoles])

-----------------------------------------------------------------------------
(* Steps of the handler that holds the lock                                *)

At(c, step, kinds) == op[c].pc = step /\ op[c].kind \in kinds

(* Faulty: an error of saveHistory does not stop the operation. *)
SaveHistoryUnchecked(c, o) ==
  LET z == op[c].zone  IN
  /\ At(c, "history", Changes \cup {"delete"})
  /\ history' = Put(history, z, history[z] \cup {op[c].cur}, o)
  /\ Goto(c, IF op[c].kind = "delete" THEN "remove" ELSE "write")
  /\ UNCHANGED <<file, roles, audit, served, seen, acked>>

(* saveHistory keeps a revision that is already there. *)
SaveHistory(c, o) ==
  LET z == op[c].zone  IN
  /\ At(c, "history", Changes \cup {"delete"})
  /\ history' = Put(history, z, history[z] \cup {op[c].cur}, o)
  /\ IF o # "ok" THEN Return(c, "error")
     ELSE Goto(c, IF op[c].kind = "delete" THEN "remove" ELSE "write")
  /\ UNCHANGED <<file, roles, audit, served, seen, acked>>

WriteZone(c, o) ==
  /\ At(c, "write", Changes \cup {"create"})
  /\ file' = Put(file, op[c].zone, op[c].new, o)
  /\ IF o # "ok" THEN Return(c, "error")
     ELSE Goto(c, IF op[c].kind = "create" THEN "roles" ELSE "verify")
  /\ UNCHANGED <<roles, history, audit, served, seen, acked>>

RemoveZone(c, o) ==
  /\ At(c, "remove", {"delete"})
  /\ o \in RemoveOutcomes
  /\ file' = Put(file, op[c].zone, None, o)
  /\ IF o # "ok" THEN Return(c, "error") ELSE Goto(c, "roles")
  /\ UNCHANGED <<roles, history, audit, served, seen, acked>>

(* Create saves the manifest it loaded before it wrote the zone file. *)
SaveNewRole(c, o) ==
  LET manifest == [op[c].roles EXCEPT ![op[c].zone] = op[c].role]  IN
  /\ At(c, "roles", {"create"})
  /\ roles' = Overwrite(roles, manifest, o)
  /\ op' = [op EXCEPT ![c].pc = IF o = "ok" THEN "verify" ELSE "undo",
                      ![c].roles = manifest]
  /\ UNCHANGED <<file, history, audit, served, mu, seen, reply, acked>>

(* Delete loads the manifest after it removed the file; if that fails, the *)
(* file stays removed.                                                     *)
LoadRolesFails(c) ==
  /\ At(c, "roles", {"delete"})
  /\ Return(c, "error")
  /\ UNCHANGED <<disk, served, seen, acked>>

DropRole(c, o) ==
  LET manifest == [roles EXCEPT ![op[c].zone] = None]  IN
  /\ At(c, "roles", {"delete"})
  /\ roles' = Overwrite(roles, manifest, o)
  /\ op' = [op EXCEPT ![c].pc = IF o = "ok" THEN "verify" ELSE "undo",
                      ![c].roles = manifest]
  /\ UNCHANGED <<file, history, audit, served, mu, seen, reply, acked>>

(* The manifest was not saved: put the zone file back as it was. *)
Undo(c, o) ==
  /\ At(c, "undo", {"create", "delete"})
  /\ op[c].kind = "create" => o \in RemoveOutcomes
  /\ file' = Put(file, op[c].zone, op[c].cur, o)
  /\ Return(c, "error")
  /\ UNCHANGED <<roles, history, audit, served, seen, acked>>

(* WaitForSerial accepts the wanted serial, WaitForAbsence no zone at all. *)
Observed(c) ==
  LET answer == served[op[c].zone]  IN
  IF op[c].kind = "delete" THEN answer = None
  ELSE answer # None /\ answer.serial = op[c].new.serial

VerifyOk(c) ==
  /\ At(c, "verify", Changes \cup {"create", "delete"})
  /\ Observed(c)
  /\ Goto(c, "notify")
  /\ UNCHANGED <<disk, served, seen, acked>>

(* The 60 s run out: CoreDNS was slow, or its answers were lost (faulty:   *)
(* the wait has no deadline).                                              *)
NoTimeout(c) == FALSE
VerifyTimeout(c) ==
  /\ At(c, "verify", Changes \cup {"create", "delete"})
  /\ Goto(c, "restore")
  /\ UNCHANGED <<disk, served, seen, acked>>

(* commit writes the prior version back and reports whether that worked. *)
RestoreChange(c, o) ==
  /\ At(c, "restore", Changes)
  /\ file' = Put(file, op[c].zone, op[c].cur, o)
  /\ Return(c, IF o = "ok" THEN "restored" ELSE "error")
  /\ UNCHANGED <<roles, history, audit, served, seen, acked>>

(* Create removes, Delete rewrites the file; both ignore an error and go   *)
(* on to the manifest.                                                     *)
RestoreLifecycle(c, o) ==
  /\ At(c, "restore", {"create", "delete"})
  /\ op[c].kind = "create" => o \in RemoveOutcomes
  /\ file' = Put(file, op[c].zone, op[c].cur, o)
  /\ Goto(c, "unrole")
  /\ UNCHANGED <<roles, history, audit, served, seen, acked>>

RestoreRole(c, o) ==
  LET prior    == IF op[c].kind = "create" THEN None ELSE op[c].role
      manifest == [op[c].roles EXCEPT ![op[c].zone] = prior]  IN
  /\ At(c, "unrole", {"create", "delete"})
  /\ roles' = Overwrite(roles, manifest, o)
  /\ Return(c, "restored")
  /\ UNCHANGED <<file, history, audit, served, seen, acked>>

(* A failed NOTIFY is only a warning in the answer. *)
Notify(c) ==
  /\ At(c, "notify", Changes \cup {"create", "delete"})
  /\ Goto(c, "audit")
  /\ UNCHANGED <<disk, served, seen, acked>>

(* commit turns a failed append into an error; Create and Delete ignore it. *)
AppendAudit(c, o) ==
  LET z  == op[c].zone
      ok == o = "ok" \/ op[c].kind \notin Changes  IN
  /\ At(c, "audit", Changes \cup {"create", "delete"})
  /\ audit' = Overwrite(audit, [zone |-> z, revision |-> op[c].new], o)
  /\ acked' = [acked EXCEPT ![z] =
                 IF ok /\ op[c].kind # "delete" THEN @ \cup {op[c].new} ELSE @]
  /\ Return(c, IF ok THEN "published" ELSE "error")
  /\ UNCHANGED <<file, roles, history, served, seen>>

HandlerStep(c) ==
  \/ \E o \in Outcomes :
       \/ SaveHistory(c, o) \/ WriteZone(c, o) \/ RemoveZone(c, o)
       \/ SaveNewRole(c, o) \/ DropRole(c, o) \/ Undo(c, o)
       \/ RestoreChange(c, o) \/ RestoreLifecycle(c, o) \/ RestoreRole(c, o)
       \/ AppendAudit(c, o)
  \/ LoadRolesFails(c) \/ VerifyOk(c) \/ VerifyTimeout(c) \/ Notify(c)

-----------------------------------------------------------------------------
(* Environment                                                             *)

(* The auto plugin notices a created, changed or removed zone file. *)
CoreDNSReload(z) ==
  /\ served[z] # file[z]
  /\ served' = [served EXCEPT ![z] = file[z]]
  /\ UNCHANGED <<disk, mu, op, seen, reply, acked>>

(* The process dies, or is stopped before the handler is done (main returns *)
(* as soon as ListenAndServe does, while Shutdown still waits for the       *)
(* handlers); the files stay.                                              *)
Crash ==
  /\ mu # None
  /\ mu' = None
  /\ op' = [c \in Clients |-> Idle]
  /\ reply' = "lost"
  /\ UNCHANGED <<disk, served, seen, acked>>

Request(c) ==
  \E z \in Zones :
    \/ Get(c, z)
    \/ \E data \in Data, day \in Days : Apply(c, z, data, day)
    \/ \E target \in history[z], day \in Days : Rollback(c, z, target, day)
    \/ \E version \in Imports, role \in Roles : Create(c, z, version, role)
    \/ Delete(c, z)

Next ==
  \/ \E c \in Clients : Request(c) \/ HandlerStep(c)
  \/ \E z \in Zones : CoreDNSReload(z)
  \/ Crash

Spec == Init /\ [][Next]_vars

(* A handler that holds the lock keeps running: every wait has a timeout. *)
FairSpec == Spec /\ \A c \in Clients : WF_vars(HandlerStep(c))
-----------------------------------------------------------------------------
(* Properties                                                              *)

(* No version a client was told is published is ever lost: it is the zone  *)
(* file, or saveHistory kept it (store.go, commit and Delete save the      *)
(* current version before they replace or remove it), whatever fails and   *)
(* wherever the process dies.                                              *)
NoAckedVersionLost ==
  \A z \in Zones : acked[z] \subseteq history[z] \cup {file[z]}

(* No lost update: up to the step that replaces or removes the zone file,  *)
(* the file is still the version the handler compared with the client's    *)
(* expected revision (Apply, Rollback, Delete).                            *)
NoLostUpdate ==
  \A c \in Clients :
    op[c].pc \in {"history", "write", "remove"} =>
      file[op[c].zone] = op[c].cur

(* An unclassified or secondary zone never has its records changed, even   *)
(* when the manifest and the zone file disagree after a crash or a failed  *)
(* create or delete (roleFor).                                             *)
OnlyPrimariesChange ==
  \A c \in Clients :
    op[c].kind \in Changes => roles[op[c].zone] = "primary"

(* Where a running handler stands tells what is on disk: its zone's file   *)
(* is the version it found or the one it wrote, what it replaces and all   *)
(* acknowledged versions are in the history once saveHistory has returned, *)
(* and it alone holds the mutex.  This is the inductive invariant of the   *)
(* proofs (Apply, Rollback, Create, Delete, commit).                       *)
HandlerCoherent(c) ==
  LET o == op[c]
      z == op[c].zone  IN
  /\ mu = c
  /\ o.pc \in {"history", "write", "remove"} => file[z] = o.cur
  /\ o.pc = "unrole" => file[z] \in {o.cur, o.new}
  /\ o.pc \notin {"history", "write", "remove", "unrole"} => file[z] = o.new
  /\ o.pc # "history" => /\ o.cur \in history[z] \cup {None}
                         /\ acked[z] \subseteq history[z]
  /\ o.kind \in Changes => /\ o.cur # None /\ o.new # None
                           /\ o.new.serial > o.cur.serial
                           /\ roles[z] = "primary"
                           /\ o.pc \notin {"remove", "roles", "undo", "unrole"}
  /\ o.kind = "create" => /\ o.cur = None /\ o.new # None
                          /\ o.pc \notin {"history", "remove"}
  /\ o.kind = "delete" => o.cur # None /\ o.new = None /\ o.pc # "write"

Coherent ==
  /\ NoAckedVersionLost
  /\ \A c \in Clients : IF op[c] = Idle THEN mu # c ELSE HandlerCoherent(c)

(* An operation on one zone never alters the role of another, although     *)
(* every save rewrites the whole manifest from the copy that the handler   *)
(* loaded some steps before (Create, Delete).                              *)
OtherRolesUntouched ==
  [][\A z \in Zones :
       roles'[z] # roles[z] => \E c \in Clients : op[c].zone = z]_vars

(* While an operation is undecided its zone still counts as the old one;   *)
(* otherwise the zone is what its file says.                               *)
Undecided == {"roles", "undo", "verify", "restore", "unrole"}
Holder(z) == {c \in Clients : op[c].zone = z /\ op[c].pc \in Undecided}
LogicalZone(z) ==
  IF Holder(z) = {} THEN file[z] ELSE op[CHOOSE c \in Holder(z) : TRUE].cur

(* The store implements an atomic register per zone: a change happens as a *)
(* whole, with a larger serial, or not at all, and only the version the    *)
(* zone holds is acknowledged (Apply, Rollback, Create, Delete, commit).   *)
Register == INSTANCE ZoneRegister WITH
              zone <- [z \in Zones |-> LogicalZone(z)], acked <- acked
ImplementsRegister == Register!Spec

(* Every request that takes the store mutex gives it back, whatever        *)
(* CoreDNS does (the waits are bounded by verifyCtx).                      *)
EveryRequestEnds ==
  \A c \in Clients : mu = c ~> mu # c

=============================================================================
