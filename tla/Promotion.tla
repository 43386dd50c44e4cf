------------------------------ MODULE Promotion ------------------------------
(***************************************************************************)
(* The promotion preflight of a standby (cmd/rill-ha) and what it rests    *)
(* on: the zone status of the active node (cmd/rill-zone-status), the      *)
(* status of the replication daemon (internal/secondary), the differential *)
(* check of the standby (cmd/rill-diff), and the reports made of their     *)
(* status files (internal/refreshstatus, haStatus of internal/api).        *)
(*                                                                         *)
(* A status file holds the age of its last success in ticks of the clock,  *)
(* that of the active node its own age, which nobody looks at.             *)
(* Zones are the zones that come, change and go; others, which do not, are *)
(* there too, so that rill-diff always has a zone to compare and           *)
(* rill-zone-status one to list.  Roles, node names and URLs are           *)
(* configuration, and right.  The blocklist status, which the preflight    *)
(* does not use, is there.                                                 *)
(***************************************************************************)
EXTENDS Naturals, FiniteSets

CONSTANTS
  Zones,        \* the zones of the active node, now or later
  Deployments,  \* the configurations considered: compared and polled, below
  MaxAge,       \* two hours, the limit on the age of a status
  Period,       \* one hour, the period of the jobs
  DiffTime,     \* bound on the time one rill-diff takes
  MaxSerial,    \* bound on the serials
  MaxWrites,    \* bound on the changes of zones
  MaxFaults,    \* bound on failures
  None

ASSUME ConstantsAssumption ==
  /\ IsFiniteSet(Zones)
  /\ Deployments \subseteq [compared : SUBSET Zones, polled : SUBSET Zones]
  /\ MaxAge \in Nat /\ Period \in Nat /\ DiffTime \in Nat
  /\ MaxSerial \in Nat \ {0} /\ MaxWrites \in Nat /\ MaxFaults \in Nat

(* The age beyond which nothing more is told apart; a last success that    *)
(* never was is as old.                                                    *)
Never == MaxAge + 1

(* The same for the time the standby is behind. *)
Behind == MaxAge + DiffTime + 1

VARIABLES
  compared,  \* those of the Zones that are arguments of rill-diff
  polled,    \* those that every poll of the replication daemon reaches
  active,    \* the zones of the active node, None where there is none
  standby,   \* the zone files of the standby
  writes,    \* how often zones were created or changed
  link,      \* the standby reaches the active node
  dead,      \* the jobs that do not run any more
  since,     \* ticks since a job last began
  activeZones,   \* zones.json of the active node
  standbyZones,  \* zones.json of the standby
  errors,        \* zones whose last synchronisation failed
  differential,  \* differential.json of the standby
  diff,      \* the rill-diff under way
  check,     \* the rill-ha under way
  verdict,   \* of the last rill-ha
  lag,       \* history variable: ticks since the standby's zone was the active's
  faults

nodes    == <<compared, polled, active, standby, writes, link, lag>>
jobs     == <<dead, since>>
reports  == <<activeZones, standbyZones, errors, differential>>
vars     == <<nodes, jobs, reports, diff, check, verdict, faults>>

Jobs == {"status", "secondary", "diff"}

(* The jobs whose last success rill-ha looks at. *)
Watched == {"secondary", "diff"}

Version == [serial : 1..MaxSerial, data : 1..MaxWrites]
Ages    == 0..Never
Serials == [Zones -> 0..MaxSerial]

(* Status, of each kind what is used: the zones it lists (serial 0: not    *)
(* listed), whether it is a success, and the age of the last success (of   *)
(* PrimaryStatus: that of the report).                                     *)
PrimaryStatus   == [success : BOOLEAN, age : 0..Behind, zones : Serials]
SecondaryStatus == [age : Ages, zones : Serials]
DiffStatus      == [success : BOOLEAN, age : Ages]

NoZones  == [z \in Zones |-> 0]
NoDiff   == [on |-> FALSE, todo |-> {}, zone |-> None, source |-> None,
             equal |-> TRUE, elapsed |-> 0]
NoCheck  == [on |-> FALSE,
             active |-> [success |-> FALSE, age |-> Behind, zones |-> NoZones]]

TypeOK ==
  /\ compared \subseteq Zones /\ polled \subseteq Zones
  /\ active \in [Zones -> Version \cup {None}]
  /\ standby \in [Zones -> Version \cup {None}]
  /\ writes \in 0..MaxWrites
  /\ link \in BOOLEAN
  /\ dead \subseteq Jobs
  /\ since \in [Jobs -> 0..Period]
  /\ activeZones \in PrimaryStatus \cup {None}
  /\ standbyZones \in SecondaryStatus \cup {None}
  /\ errors \subseteq Zones
  /\ differential \in DiffStatus \cup {None}
  /\ diff \in [on : BOOLEAN, todo : SUBSET compared, zone : Zones \cup {None},
               source : Version \cup {None}, equal : BOOLEAN,
               elapsed : 0..DiffTime]
  /\ check \in [on : BOOLEAN, active : PrimaryStatus]
  /\ verdict \in {"ready", "not ready"}
  /\ lag \in [Zones -> 0..Behind]
  /\ faults \in 0..MaxFaults

Init ==
  /\ \E d \in Deployments : compared = d.compared /\ polled = d.polled
  /\ active = [z \in Zones |-> None] /\ standby = [z \in Zones |-> None]
  /\ writes = 0
  /\ link = TRUE
  /\ dead = {} /\ since = [j \in Jobs |-> 0]
  /\ activeZones = None /\ standbyZones = None /\ errors = {}
  /\ differential = None
  /\ diff = NoDiff
  /\ check = NoCheck /\ verdict = "not ready"
  /\ lag = [z \in Zones |-> 0]
  /\ faults = 0

-----------------------------------------------------------------------------
(* Helpers                                                                 *)

(* A definition whose comment calls it faulty is not used by Spec: it is a *)
(* plausible slip in the code, and shows that a property would catch it.   *)

Fault ==
  /\ faults < MaxFaults
  /\ faults' = faults + 1

Serial(version) == IF version = None THEN 0 ELSE version.serial

SerialsOf(node) == [z \in Zones |-> Serial(node[z])]

(* What the differential check compares, and the serial for other zones. *)
Matches(a, s, z) ==
  IF z \in compared THEN a[z] = s[z] ELSE Serial(a[z]) = Serial(s[z])

LagAfter(a, s) == [z \in Zones |-> IF Matches(a, s, z) THEN 0 ELSE lag[z]]

Older(age) == IF age = Never THEN Never ELSE age + 1

Longer(time) == IF time = Behind THEN Behind ELSE time + 1

Begin(job) ==
  /\ job \notin dead
  /\ since' = [since EXCEPT ![job] = 0]
  /\ dead' = dead

-----------------------------------------------------------------------------
(* The active node                                                         *)

(* A zone created, changed or deleted through the API.  A zone made anew   *)
(* begins with the first serial of the day again.                          *)
Write(z) ==
  /\ writes < MaxWrites
  /\ Serial(active[z]) < MaxSerial
  /\ writes' = writes + 1
  /\ active' = [active EXCEPT ![z] =
                  [serial |-> Serial(@) + 1, data |-> writes + 1]]
  /\ lag' = LagAfter(active', standby)
  /\ UNCHANGED <<compared, polled, standby, link, jobs, reports, diff, check, verdict, faults>>

Delete(z) ==
  /\ active[z] # None
  /\ active' = [active EXCEPT ![z] = None]
  /\ lag' = LagAfter(active', standby)
  /\ UNCHANGED <<compared, polled, standby, writes, link, jobs, reports, diff, check, verdict,
                 faults>>

(* rill-zone-status: the serials of the zone files. *)
ReportZones ==
  /\ Begin("status")
  /\ activeZones' = [success |-> TRUE, age |-> 0, zones |-> SerialsOf(active)]
  /\ UNCHANGED <<nodes, standbyZones, errors, differential, diff, check,
                 verdict, faults>>

(* A zone file cannot be read: only the zones before it are listed. *)
ReportSomeZones(before) ==
  /\ Begin("status")
  /\ Fault
  /\ activeZones' = [success |-> FALSE, age |-> 0,
       zones |-> [z \in Zones |-> IF z \in before THEN Serial(active[z]) ELSE 0]]
  /\ UNCHANGED <<nodes, standbyZones, errors, differential, diff, check, verdict>>

(* The report cannot be written: the earlier one stays. *)
ReportUnwritten ==
  /\ Begin("status")
  /\ Fault
  /\ UNCHANGED <<nodes, reports, diff, check, verdict>>

-----------------------------------------------------------------------------
(* The standby                                                             *)

LastSuccess(status) == IF status = None THEN Never ELSE status.age

(* The end of syncZone: the last success is that of a zone while no other  *)
(* is in error.  A status that cannot be written is only logged.           *)
SyncStatus ==
  \/ /\ standbyZones' = [age |-> IF errors' = {} THEN 0 ELSE LastSuccess(standbyZones),
                         zones |-> SerialsOf(standby')]
     /\ faults' = faults
  \/ standbyZones' = standbyZones /\ Fault

(* The daemon takes over or removes a zone whose serial differs; None is a *)
(* zone that does not change.                                              *)
Sync(z) ==
  /\ Begin("secondary")
  /\ link
  /\ standby' = [y \in Zones |->
                   IF y = z /\ Serial(active[y]) # Serial(standby[y])
                   THEN active[y] ELSE standby[y]]
  /\ errors' = errors \ {z}
  /\ lag' = LagAfter(active, standby')
  /\ SyncStatus
  /\ UNCHANGED <<compared, polled, active, writes, link, activeZones, differential, diff, check,
                 verdict>>

SyncFails(z) ==
  /\ Begin("secondary")
  /\ ~link
  /\ errors' = errors \cup {z}
  /\ standby' = standby
  /\ SyncStatus
  /\ UNCHANGED <<compared, polled, active, writes, link, lag, activeZones, differential, diff,
                 check, verdict>>

-----------------------------------------------------------------------------
(* rill-diff on the standby                                                *)

(* The hourly timer. *)
DiffStart ==
  /\ ~diff.on /\ since["diff"] = Period
  /\ Begin("diff")
  /\ diff' = [NoDiff EXCEPT !.on = TRUE, !.todo = compared]
  /\ UNCHANGED <<nodes, reports, check, verdict, faults>>

(* transfer: the zone of the active node, or the error that ends compare. *)
DiffSource(z) ==
  /\ diff.zone = None /\ z \in diff.todo
  /\ diff' = IF link /\ active[z] # None
             THEN [diff EXCEPT !.zone = z, !.source = active[z]]
             ELSE [diff EXCEPT !.todo = @ \ {z}, !.equal = FALSE]
  /\ UNCHANGED <<nodes, jobs, reports, check, verdict, faults>>

(* loadZone, the records and serials compared, and queries to both nodes,  *)
(* which fail without a link, may be lost or be answered differently.      *)
DiffTarget ==
  LET z == diff.zone  IN
  /\ z # None
  /\ \E agree \in BOOLEAN :
       /\ diff' = [diff EXCEPT !.todo = @ \ {z}, !.zone = None, !.source = None,
                     !.equal = @ /\ agree /\ diff.source = standby[z]]
       /\ agree => link
       /\ IF agree \/ ~link THEN faults' = faults ELSE Fault
  /\ UNCHANGED <<nodes, jobs, reports, check, verdict>>

(* Faulty: the time of the last success is not set. *)
StatusOfBefore(equal) == [success |-> equal, age |-> LastSuccess(differential)]

(* differentialStatus, and main: a failure keeps the last success. *)
DifferentialStatus(equal) ==
  [success |-> equal, age |-> IF equal THEN 0 ELSE LastSuccess(differential)]

DiffEnd ==
  /\ diff.on /\ diff.todo = {}
  /\ differential' = DifferentialStatus(diff.equal)
  /\ diff' = NoDiff
  /\ UNCHANGED <<nodes, jobs, activeZones, standbyZones, errors, check, verdict,
                 faults>>

(* The report or the status cannot be written, or the program is killed. *)
DiffDies ==
  /\ diff.on
  /\ Fault
  /\ diff' = NoDiff
  /\ UNCHANGED <<nodes, jobs, reports, check, verdict>>

-----------------------------------------------------------------------------
(* rill-ha                                                                 *)

(* The status of the active node is read first.  A report that cannot be   *)
(* loaded lists no zone.                                                   *)
ReadActive ==
  /\ ~check.on
  /\ check' = [on |-> TRUE, active |-> IF activeZones = None THEN NoCheck.active
                                      ELSE activeZones]
  /\ UNCHANGED <<nodes, jobs, reports, diff, verdict, faults>>

(* haStatus on the standby (faulty: an old success counts as well). *)
ReplicationHealthyOnce == differential # None /\ differential.success
ReplicationHealthy ==
  differential # None /\ differential.success /\ differential.age <= MaxAge

(* evaluate (faulty: the age of the standby's snapshot is not looked at). *)
SnapshotOfAnyAge == standbyZones # None
SnapshotFresh == standbyZones # None /\ standbyZones.age <= MaxAge

(* Faulty: a zone that only the standby has is no reason. *)
ActiveSerialsMatch(reported) ==
  \A z \in Zones : reported[z] # 0 => standbyZones.zones[z] = reported[z]

SerialsMatch(reported) ==
  /\ \A z \in Zones : reported[z] # 0 => standbyZones.zones[z] = reported[z]
  /\ \A z \in Zones : standbyZones.zones[z] # 0 => reported[z] # 0

(* probePeer: the active node answers its health check. *)
PeerReachable == link

(* haStatus on the standby, its probe of the peer, and evaluate. *)
Evaluate ==
  LET ready == /\ ReplicationHealthy /\ PeerReachable
               /\ SnapshotFresh
               /\ SerialsMatch(check.active.zones)  IN
  /\ check.on
  /\ check' = NoCheck
  /\ verdict' = IF ready THEN "ready" ELSE "not ready"
  /\ UNCHANGED <<nodes, jobs, reports, diff, faults>>

(* A node does not answer in time. *)
ReadFails ==
  /\ check.on
  /\ Fault
  /\ check' = NoCheck
  /\ verdict' = "not ready"
  /\ UNCHANGED <<nodes, jobs, reports, diff>>

-----------------------------------------------------------------------------
(* The environment                                                         *)

Cut ==
  /\ link
  /\ Fault
  /\ link' = FALSE
  /\ UNCHANGED <<compared, polled, active, standby, writes, lag, jobs, reports, diff, check, verdict>>

Heal ==
  /\ ~link
  /\ link' = TRUE
  /\ UNCHANGED <<compared, polled, active, standby, writes, lag, jobs, reports, diff, check, verdict,
                 faults>>

(* A timer or a service that is stopped and not started again. *)
Dies(job) ==
  /\ job \notin dead
  /\ Fault
  /\ dead' = dead \cup {job}
  /\ UNCHANGED <<nodes, since, reports, diff, check, verdict>>

(* A job begins once a period, rill-diff takes at most DiffTime and        *)
(* rill-ha, which gives up after five seconds, no time.                    *)
Tick ==
  /\ \A j \in Jobs \ dead : since[j] < Period
  /\ diff.on => diff.elapsed < DiffTime
  /\ ~check.on
  /\ since' = [j \in Jobs |-> IF j \in dead THEN since[j] ELSE since[j] + 1]
  /\ lag' = [z \in Zones |->
               IF Matches(active, standby, z) THEN 0 ELSE Longer(lag[z])]
  /\ activeZones' = IF activeZones = None THEN None
                    ELSE [activeZones EXCEPT !.age = Longer(@)]
  /\ standbyZones' = IF standbyZones = None THEN None
                     ELSE [standbyZones EXCEPT !.age = Older(@)]
  /\ differential' = IF differential = None THEN None
                     ELSE [differential EXCEPT !.age = Older(@)]
  /\ diff' = IF diff.on THEN [diff EXCEPT !.elapsed = @ + 1] ELSE diff
  /\ UNCHANGED <<compared, polled, active, standby, writes, link, dead, errors,
                 check, verdict, faults>>

DiffStep == DiffStart \/ (\E z \in Zones : DiffSource(z)) \/ DiffTarget \/ DiffEnd

CheckStep == ReadActive \/ Evaluate

Next ==
  \/ \E z \in Zones : Write(z) \/ Delete(z) \/ SyncFails(z)
  \/ \E z \in Zones \cup {None} : Sync(z)
  \/ ReportZones \/ ReportUnwritten \/ \E before \in SUBSET Zones : ReportSomeZones(before)
  \/ DiffStep \/ DiffDies
  \/ CheckStep \/ ReadFails
  \/ Cut \/ Heal
  \/ \E j \in Jobs : Dies(j)
  \/ Tick

Spec == Init /\ [][Next]_vars

(* systemd's timers and the daemon's poll run their jobs again and again,  *)
(* the programs go on, somebody keeps asking, and time passes.  The poll   *)
(* reaches one of the zones that do not change, which are configured; it   *)
(* need not reach a zone that the daemon learned of by a NOTIFY: one whose *)
(* NOTIFY was lost is not known, and a poll of more zones than its channel *)
(* holds drops the last of them (queue, addZone; see Secondary).           *)
FairSpec ==
  /\ Spec
  /\ WF_vars(ReportZones) /\ WF_vars(DiffStep) /\ WF_vars(CheckStep)
  /\ \A z \in Zones \cup {None} : WF_vars(z \in polled \cup {None} /\ Sync(z))
  /\ SF_vars(Tick)

-----------------------------------------------------------------------------
(* Properties                                                              *)

SaysReady == check.on /\ ~check'.on /\ verdict' = "ready"

(* docs/ha.md: "verify matching zone serials and a recent clean            *)
(* differential report".  When rill-ha says that the standby is ready, its *)
(* zones are what the active node served at most two hours, and the time   *)
(* of one rill-diff, ago: records and all, although serials may be used    *)
(* twice and the zones change while they are compared.                     *)
ReadyIsRecent ==
  [][SaysReady => \A z \in compared : lag[z] <= MaxAge + DiffTime]_vars

(* For a zone that rill-diff is not told to compare rill-ha has only the   *)
(* serials.  The standby's was the active node's within the last two hours *)
(* or within the age of the report of the active node, if that is older:   *)
(* rill-ha looks neither at its age nor at its success, and a report that  *)
(* cannot be written, or a job that has stopped, leaves the old one.  A    *)
(* zone that a failed report does not list is excepted; one created or     *)
(* deleted meanwhile is not (evaluate, rill-zone-status, syncZone).        *)
ReadySerialsAreRecent ==
  [][SaysReady =>
       \A z \in Zones \ compared :
         check.active.success \/ check.active.zones[z] # 0 =>
           lag[z] <= MaxAge \/ lag[z] <= check.active.age]_vars

(* Nothing keeps a standby from becoming ready: everything runs, the       *)
(* compared zones exist and do not differ under one serial, and the zones  *)
(* that the poll does not reach are as they should be.                     *)
Settled ==
  /\ link /\ dead = {}
  /\ \A z \in compared : /\ active[z] # None
                         /\ Serial(active[z]) = Serial(standby[z])
                              => active[z] = standby[z]
  /\ \A z \in Zones \ polled : /\ Serial(active[z]) = Serial(standby[z])
                                /\ z \notin errors

(* Once the zones do not change any more and nothing fails, every check    *)
(* says that the standby is ready: no status stays old or failed, and the  *)
(* limits leave room for the periods (differentialStatus, haStatus,        *)
(* evaluate).                                                              *)
EventuallyReady == <>[](Settled => verdict = "ready")

(* A replication daemon or a differential timer that has stopped is        *)
(* noticed, although the files they left say success (haStatus, evaluate). *)
(* The status job of the active node is not among the jobs noticed.        *)
StoppedJobsAreNoticed ==
  <>(dead \cap Watched # {}) => <>[](verdict # "ready")
=============================================================================
