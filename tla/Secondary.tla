------------------------------ MODULE Secondary ------------------------------
(***************************************************************************)
(* Zone replication: the rill-secondary daemon (internal/secondary), with  *)
(* its bounded trigger queue, its polling tick and its retry timers, which *)
(* copies the zones of a primary whose changes come from the zone store    *)
(* (ZoneStore) and are announced by NOTIFY datagrams that may be lost.     *)
(*                                                                         *)
(* One goroutine takes zones from the queue and synchronises them, one     *)
(* file or network call per step here; the NOTIFY handlers and the retry   *)
(* timers fill the queue meanwhile.  A zone is its serial and its records. *)
(***************************************************************************)
EXTENDS Naturals, Sequences, FiniteSets

CONSTANTS
  ZoneOrder,   \* the zones of the primary, in sorted order
  Configured,  \* the zones given on the command line
  Discover,    \* -discover-zones
  MaxZones,    \* -max-zones
  Data,        \* record sets of a zone
  Cut,         \* the records of a transfer that was cut short
  MaxSerial,   \* bound on the serials
  MaxFaults,   \* bound on failed calls, restarts and changes taken back
  Restores,    \* the primary may take an unverified change back
  None

Zones == {ZoneOrder[i] : i \in DOMAIN ZoneOrder}
Serials == 0..MaxSerial
Version == [serial : Serials, data : Data]
Records == [serial : Serials, data : Data \cup {Cut}]

ASSUME ConstantsAssumption ==
  /\ ZoneOrder \in Seq(Zones)
  /\ Configured \subseteq Zones /\ Configured # {}
  /\ Discover \in BOOLEAN /\ Restores \in BOOLEAN
  /\ MaxSerial \in Nat \ {0} /\ MaxFaults \in Nat
  /\ MaxZones \in Nat /\ Cardinality(Configured) <= MaxZones
  /\ Cut \notin Data /\ None \notin Records

VARIABLES
  primary,  \* what the primary's authority serves
  pending,  \* the version before a change that is not verified yet
  notices,  \* NOTIFY datagrams under way
  file,     \* the published snapshot of a zone
  known,    \* config.Zones: configured and discovered zones
  queue,    \* the trigger channel
  armed,    \* zones with a running retry timer
  errors,   \* zoneErrors: zones whose last refresh failed
  sync,     \* the syncZone under way
  faults,
  served    \* history variable: everything the primary served

primaryVars == <<primary, pending, served>>
vars == <<primary, pending, notices, file, known, queue, armed, errors, sync,
          faults, served>>

Capacity == 2 * Cardinality(Configured)

Idle == [pc |-> "idle", zone |-> None, current |-> 0, records |-> None]
Syncing == [pc : {"probe", "remove", "transfer", "publish", "inspect"},
            zone : Zones, current : Serials, records : Records \cup {None}]

TypeOK ==
  /\ primary \in [Zones -> Version \cup {None}]
  /\ pending \in [Zones -> Version \cup {None}]
  /\ notices \subseteq Zones
  /\ file \in [Zones -> Records \cup {None}]
  /\ Configured \subseteq known /\ known \subseteq Zones
  /\ queue \in Seq(Zones) /\ Len(queue) <= Capacity
  /\ armed \subseteq errors /\ errors \subseteq Zones
  /\ sync \in Syncing \cup {Idle}
  /\ faults \in 0..MaxFaults
  /\ served \in [Zones -> SUBSET Version]

-----------------------------------------------------------------------------
(* Helpers                                                                 *)

(* A definition whose comment calls it faulty is not used by Spec: it is a *)
(* plausible slip in the code, and shows that a property would catch it.   *)

(* Faulty: the channel takes any number of zones. *)
QueuedUnbounded(q, z) == Append(q, z)
(* queue: a full channel drops the zone. *)
Queued(q, z) == IF Len(q) < Capacity THEN Append(q, z) ELSE q

(* The loops of Run: zones are queued one after the other, in their order. *)
QueuedAll(q, zones) ==
  LET after[i \in 0..Len(ZoneOrder)] ==
        IF i = 0 THEN q
        ELSE IF ZoneOrder[i] \in zones THEN Queued(after[i - 1], ZoneOrder[i])
        ELSE after[i - 1]
  IN  after[Len(ZoneOrder)]

(* readSerial: 0 for a file that is missing or has no SOA. *)
ReadSerial(z) == IF file[z] = None THEN 0 ELSE file[z].serial

(* The zones the daemon knows when it starts: discoverZones adds the ones  *)
(* with a snapshot, and fails if there are too many.                       *)
StartZones ==
  Configured \cup (IF Discover THEN {z \in Zones : file[z] # None} ELSE {})

Fault ==
  /\ faults < MaxFaults
  /\ faults' = faults + 1

Goto(step) ==
  /\ sync' = [sync EXCEPT !.pc = step]
  /\ UNCHANGED <<armed, errors>>

(* Faulty: a success does not clear the error. *)
FinishSticky(failed) ==
  LET z == {sync.zone}  IN
  /\ sync' = Idle
  /\ errors' = IF failed THEN errors \cup z ELSE errors
  /\ armed' = IF failed THEN armed \cup z ELSE armed \ z

(* The end of syncZone: note the error and start the retry timer, or clear *)
(* both.                                                                   *)
Finish(failed) ==
  LET z == {sync.zone}  IN
  /\ sync' = Idle
  /\ errors' = IF failed THEN errors \cup z ELSE errors \ z
  /\ armed' = IF failed THEN armed \cup z ELSE armed \ z

Init ==
  /\ primary \in [Zones -> [serial : {1}, data : Data]]
  /\ pending = [z \in Zones |-> None]
  /\ notices = {}
  /\ file = [z \in Zones |-> primary[z]]
  /\ known = StartZones
  /\ Cardinality(StartZones) <= MaxZones
  /\ queue = QueuedAll(<<>>, StartZones)
  /\ armed = {}
  /\ errors = {}
  /\ sync = Idle
  /\ faults = 0
  /\ served = [z \in Zones |-> {primary[z]}]

-----------------------------------------------------------------------------
(* The primary                                                             *)

(* A change is served under the next serial before it is verified. *)
PrimaryChange(z, data) ==
  LET new == [serial |-> primary[z].serial + 1, data |-> data]  IN
  /\ primary[z] # None
  /\ pending[z] = None
  /\ primary[z].serial < MaxSerial
  /\ primary' = [primary EXCEPT ![z] = new]
  /\ pending' = [pending EXCEPT ![z] = primary[z]]
  /\ served' = [served EXCEPT ![z] = @ \cup {new}]
  /\ UNCHANGED <<notices, file, known, queue, armed, errors, sync, faults>>

(* WaitForSerial saw it: NOTIFY. *)
PrimaryVerified(z) ==
  /\ pending[z] # None
  /\ pending' = [pending EXCEPT ![z] = None]
  /\ notices' = notices \cup {z}
  /\ UNCHANGED <<primary, file, known, queue, armed, errors, sync, faults,
                 served>>

(* The verification timed out: the prior zone is restored, without NOTIFY. *)
PrimaryRestores(z) ==
  /\ Restores
  /\ pending[z] # None
  /\ Fault
  /\ primary' = [primary EXCEPT ![z] = pending[z]]
  /\ pending' = [pending EXCEPT ![z] = None]
  /\ UNCHANGED <<notices, file, known, queue, armed, errors, sync, served>>

PrimaryDeletes(z) ==
  /\ primary[z] # None
  /\ pending[z] = None
  /\ primary' = [primary EXCEPT ![z] = None]
  /\ notices' = notices \cup {z}
  /\ UNCHANGED <<pending, file, known, queue, armed, errors, sync, faults,
                 served>>

NotifyLost(z) ==
  /\ z \in notices
  /\ notices' = notices \ {z}
  /\ UNCHANGED <<primaryVars, file, known, queue, armed, errors, sync, faults>>

-----------------------------------------------------------------------------
(* What fills the queue                                                    *)

(* handleNotify, for a datagram that passes the TSIG and address checks: a *)
(* zone that is not known is added when discovery is on and there is room. *)
HandleNotify(z) ==
  LET accepted == z \in known \/ (Discover /\ Cardinality(known) < MaxZones)  IN
  /\ z \in notices
  /\ notices' = notices \ {z}
  /\ known' = IF accepted THEN known \cup {z} ELSE known
  /\ queue' = IF accepted THEN Queued(queue, z) ELSE queue
  /\ UNCHANGED <<primaryVars, file, armed, errors, sync, faults>>

(* Faulty: the poll leaves out the first zone. *)
TickButFirst ==
  /\ sync = Idle
  /\ queue = <<>>
  /\ queue' = QueuedAll(queue, known \ {ZoneOrder[1]})
  /\ UNCHANGED <<primaryVars, notices, file, known, armed, errors, sync,
                 faults>>

(* Run's select takes the tick while no zone is being synchronised: an     *)
(* hour is enough to work through the queue.                               *)
Tick ==
  /\ sync = Idle
  /\ queue = <<>>
  /\ queue' = QueuedAll(queue, known)
  /\ UNCHANGED <<primaryVars, notices, file, known, armed, errors, sync,
                 faults>>

(* Except in a bad hour, such as when every query runs into its timeout.   *)
LateTick ==
  /\ sync = Idle
  /\ queue # <<>>
  /\ Fault
  /\ queue' = QueuedAll(queue, known)
  /\ UNCHANGED <<primaryVars, notices, file, known, armed, errors, sync>>

RetryFires(z) ==
  /\ z \in armed
  /\ armed' = armed \ {z}
  /\ queue' = Queued(queue, z)
  /\ UNCHANGED <<primaryVars, notices, file, known, errors, sync, faults>>

-----------------------------------------------------------------------------
(* syncZone                                                                *)

TakeZone ==
  /\ sync = Idle
  /\ queue # <<>>
  /\ queue' = Tail(queue)
  /\ sync' = [pc |-> "probe", zone |-> Head(queue),
              current |-> ReadSerial(Head(queue)), records |-> None]
  /\ UNCHANGED <<primaryVars, notices, file, known, armed, errors, faults>>

(* remoteSerial, answered: an authoritative NXDOMAIN means the zone is     *)
(* gone, which is an error unless discovery is on.                         *)
Probe ==
  LET answer == primary[sync.zone]  IN
  /\ sync.pc = "probe"
  /\ \/ answer = None /\ Discover /\ Goto("remove")
     \/ answer = None /\ ~Discover /\ Finish(TRUE)
     \/ answer # None /\ answer.serial # sync.current /\ Goto("transfer")
     \/ answer # None /\ answer.serial = sync.current /\ Goto("inspect")
  /\ UNCHANGED <<primaryVars, notices, file, known, queue, faults>>

Remove ==
  /\ sync.pc = "remove"
  /\ file' = [file EXCEPT ![sync.zone] = None]
  /\ Finish(FALSE)
  /\ UNCHANGED <<primaryVars, notices, known, queue, faults>>

(* An AXFR delivers the zone as it is now, not as it was when it was       *)
(* probed; a zone that is gone by now is refused.                          *)
Transfer ==
  LET zone == primary[sync.zone]  IN
  /\ sync.pc = "transfer"
  /\ IF zone = None THEN Finish(TRUE)
     ELSE /\ sync' = [sync EXCEPT !.pc = "publish", !.records = zone]
          /\ UNCHANGED <<armed, errors>>
  /\ UNCHANGED <<primaryVars, notices, file, known, queue, faults>>

(* The stream ends early without an error. *)
TransferCut ==
  /\ sync.pc = "transfer"
  /\ primary[sync.zone] # None
  /\ Fault
  /\ sync' = [sync EXCEPT
       !.pc = "publish",
       !.records = [serial |-> primary[sync.zone].serial, data |-> Cut]]
  /\ UNCHANGED <<primaryVars, notices, file, known, queue, armed, errors>>

(* Faulty: the closing SOA of the transfer is not looked at. *)
AnySnapshot(records) == TRUE
(* fullSnapshot and the other checks of publish. *)
FullSnapshot(records) == records.data # Cut

Publish ==
  /\ sync.pc = "publish"
  /\ IF FullSnapshot(sync.records)
     THEN /\ file' = [file EXCEPT ![sync.zone] = sync.records]
          /\ Goto("inspect")
     ELSE /\ UNCHANGED file
          /\ Finish(TRUE)
  /\ UNCHANGED <<primaryVars, notices, known, queue, faults>>

(* inspectZone: a file without an SOA, or with serial 0, is an error. *)
Inspect ==
  /\ sync.pc = "inspect"
  /\ Finish(ReadSerial(sync.zone) = 0)
  /\ UNCHANGED <<primaryVars, notices, file, known, queue, faults>>

(* A query, a transfer, a write or a removal fails. *)
SyncFails ==
  /\ sync # Idle
  /\ Fault
  /\ Finish(TRUE)
  /\ UNCHANGED <<primaryVars, notices, file, known, queue>>

(* The daemon restarts with what is on disk. *)
Restart ==
  /\ Fault
  /\ Cardinality(StartZones) <= MaxZones
  /\ known' = StartZones
  /\ queue' = QueuedAll(<<>>, StartZones)
  /\ armed' = {}
  /\ errors' = {}
  /\ sync' = Idle
  /\ UNCHANGED <<primaryVars, notices, file>>

-----------------------------------------------------------------------------
SyncStep == TakeZone \/ Probe \/ Remove \/ Transfer \/ Publish \/ Inspect

Next ==
  \/ \E z \in Zones :
       \/ \E data \in Data : PrimaryChange(z, data)
       \/ PrimaryVerified(z) \/ PrimaryRestores(z) \/ PrimaryDeletes(z)
       \/ NotifyLost(z) \/ HandleNotify(z) \/ RetryFires(z)
  \/ Tick \/ LateTick
  \/ SyncStep \/ TransferCut \/ SyncFails \/ Restart

Spec == Init /\ [][Next]_vars

(* The daemon keeps working through its queue, every call of it having a   *)
(* timeout; the hourly tick and the retry timers keep firing.              *)
FairSpec ==
  /\ Spec
  /\ WF_vars(SyncStep)
  /\ WF_vars(Tick)
  /\ \A z \in Zones : WF_vars(RetryFires(z))

-----------------------------------------------------------------------------
(* Properties                                                              *)

(* A published snapshot is a whole version that the primary served, never  *)
(* part of a transfer, whatever fails on the way (publish).                *)
SnapshotsAreWhole ==
  \A z \in Zones : file[z] # None => file[z] \in served[z]

(* docs/deployment.md: "An hourly SOA poll covers lost NOTIFY messages":   *)
(* once the primary and the faults have come to rest, every zone that the  *)
(* secondary knows is the primary's, and a deleted one is removed.         *)
Replicates ==
  <>[](\A z \in known :
         /\ primary[z] # None => file[z] = primary[z]
         /\ primary[z] = None /\ Discover => file[z] = None)

(* docs/deployment.md: "A zone whose refresh fails is retried": a zone     *)
(* with an error is tried again, by its timer, the poll or a NOTIFY, until *)
(* the error clears (scheduleRetry).                                       *)
ErrorsClear ==
  \A z \in Zones :
    z \in errors ~> z \notin errors \/ (primary[z] = None /\ ~Discover)

(* What the proofs need: the primary's versions and a transfer under way   *)
(* are versions that were served (transfer, publish).                      *)
TransfersAreServed ==
  /\ \A z \in Zones : {primary[z], pending[z]} \subseteq served[z] \cup {None}
  /\ sync.pc = "publish" /\ sync.zone \in Zones =>
       sync.records \in served[sync.zone] \/ sync.records.data = Cut

(* docs/api.md: a version is published with a serial of its own "so        *)
(* secondaries accept" it: a snapshot with the primary's serial is the     *)
(* primary's zone, so that comparing serials is enough (syncZone).         *)
SameSerialSameZone ==
  \A z \in Zones :
    file[z] # None /\ primary[z] # None /\ file[z].serial = primary[z].serial
      => file[z] = primary[z]
=============================================================================
