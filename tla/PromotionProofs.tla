--------------------------- MODULE PromotionProofs ---------------------------
(* Proofs about Promotion: how far behind a standby may be that rill-ha    *)
(* calls ready, for every set of zones, every limit and however long       *)
(* rill-diff takes.                                                        *)
EXTENDS Promotion, TLAPS

-----------------------------------------------------------------------------
(* Types                                                                   *)

LEMMA Constants ==
  /\ MaxAge \in Nat /\ Period \in Nat /\ DiffTime \in Nat
  /\ MaxSerial \in Nat /\ MaxSerial > 0 /\ MaxWrites \in Nat /\ MaxFaults \in Nat
BY ConstantsAssumption

LEMMA SerialType ==
  ASSUME NEW v \in Version \cup {None}
  PROVE  Serial(v) \in 0..MaxSerial
BY Constants DEF Serial, Version

LEMMA SerialsType ==
  ASSUME NEW node \in [Zones -> Version \cup {None}]
  PROVE  SerialsOf(node) \in Serials
BY SerialType DEF SerialsOf, Serials

LEMMA AgesType ==
  /\ 0 \in Ages /\ Never \in Ages
  /\ \A age \in Ages : Older(age) \in Ages
  /\ 0 \in 0..Behind /\ \A time \in 0..Behind : Longer(time) \in 0..Behind
BY Constants DEF Ages, Never, Older, Behind, Longer

LEMMA LagType ==
  ASSUME lag \in [Zones -> 0..Behind], NEW a, NEW s
  PROVE  LagAfter(a, s) \in [Zones -> 0..Behind]
BY AgesType DEF LagAfter

LEMMA NothingType ==
  /\ NoDiff \in [on : BOOLEAN, todo : SUBSET compared, zone : Zones \cup {None},
                 source : Version \cup {None}, equal : BOOLEAN,
                 elapsed : 0..DiffTime]
  /\ NoCheck \in [on : BOOLEAN, active : PrimaryStatus]
<1>1. NoZones \in Serials
  BY Constants DEF NoZones, Serials
<1>2. 0 \in 0..DiffTime
  BY Constants
<1>3. Behind \in 0..Behind
  BY Constants DEF Behind
<1>4. QED
  BY <1>1, <1>2, <1>3 DEF NoDiff, NoCheck, PrimaryStatus

LEMMA InitTypeOK == Init => TypeOK
<1> SUFFICES ASSUME Init PROVE TypeOK
  OBVIOUS
<1>1. /\ 0 \in 0..MaxWrites /\ 0 \in 0..Period /\ 0 \in 0..MaxFaults
      /\ 0 \in 0..Behind
  BY Constants, AgesType
<1>2. compared \subseteq Zones /\ polled \subseteq Zones
  BY ConstantsAssumption DEF Init
<1>3. QED
  BY <1>1, <1>2, NothingType DEF Init, TypeOK

LEMMA WriteTypeOK ==
  ASSUME TypeOK, NEW z \in Zones, Write(z)
  PROVE  TypeOK'
<1>0. active[z] \in Version \cup {None} /\ writes \in 0..MaxWrites
  BY DEF TypeOK
<1>1. Serial(active[z]) + 1 \in 1..MaxSerial /\ writes + 1 \in 1..MaxWrites
  <2>1. Serial(active[z]) \in 0..MaxSerial
    BY <1>0, SerialType
  <2>2. Serial(active[z]) < MaxSerial /\ writes < MaxWrites
    BY DEF Write
  <2>3. QED
    BY <1>0, <2>1, <2>2, Constants
<1>2. [serial |-> Serial(active[z]) + 1, data |-> writes + 1] \in Version
  BY <1>1 DEF Version
<1>3. active' \in [Zones -> Version \cup {None}]
  BY <1>2 DEF TypeOK, Write
<1>4. writes' \in 0..MaxWrites
  BY <1>0, <1>1, Constants DEF Write
<1>5. lag' \in [Zones -> 0..Behind]
  BY LagType DEF TypeOK, Write
<1>6. QED
  BY <1>3, <1>4, <1>5 DEF TypeOK, Write, jobs, reports

LEMMA DeleteTypeOK ==
  ASSUME TypeOK, NEW z \in Zones, Delete(z)
  PROVE  TypeOK'
<1>1. active' \in [Zones -> Version \cup {None}]
  BY DEF TypeOK, Delete
<1>2. lag' \in [Zones -> 0..Behind]
  BY LagType DEF TypeOK, Delete
<1>3. QED
  BY <1>1, <1>2 DEF TypeOK, Delete, jobs, reports

LEMMA BeginTypeOK ==
  ASSUME TypeOK, NEW job \in Jobs, Begin(job)
  PROVE  dead' \subseteq Jobs /\ since' \in [Jobs -> 0..Period]
<1>1. dead \subseteq Jobs /\ since \in [Jobs -> 0..Period]
  BY DEF TypeOK
<1>2. 0 \in 0..Period
  BY Constants
<1>3. QED
  BY <1>1, <1>2 DEF Begin

LEMMA FaultTypeOK ==
  ASSUME TypeOK, Fault
  PROVE  faults' \in 0..MaxFaults
<1>1. faults \in 0..MaxFaults
  BY DEF TypeOK
<1>2. QED
  BY <1>1, Constants DEF Fault

LEMMA ReportTypeOK ==
  ASSUME TypeOK, ReportZones \/ ReportUnwritten
           \/ \E before \in SUBSET Zones : ReportSomeZones(before)
  PROVE  TypeOK'
<1>1. CASE ReportZones
  <2>1. activeZones' \in PrimaryStatus
    BY <1>1, SerialsType, AgesType DEF TypeOK, ReportZones, PrimaryStatus
  <2>2. dead' \subseteq Jobs /\ since' \in [Jobs -> 0..Period]
    BY <1>1, BeginTypeOK DEF ReportZones, Jobs
  <2>3. QED
    BY <1>1, <2>1, <2>2 DEF TypeOK, ReportZones, nodes
<1>2. ASSUME NEW before \in SUBSET Zones, ReportSomeZones(before)
      PROVE  TypeOK'
  <2>1. [z \in Zones |-> IF z \in before THEN Serial(active[z]) ELSE 0] \in Serials
    <3>1. active \in [Zones -> Version \cup {None}]
      BY DEF TypeOK
    <3>2. \A z \in Zones : Serial(active[z]) \in 0..MaxSerial
      BY <3>1, SerialType
    <3>3. 0 \in 0..MaxSerial
      BY Constants
    <3>4. QED
      BY <3>2, <3>3 DEF Serials
  <2>2. activeZones' \in PrimaryStatus
    BY <1>2, <2>1, AgesType DEF ReportSomeZones, PrimaryStatus
  <2>3. dead' \subseteq Jobs /\ since' \in [Jobs -> 0..Period]
    BY <1>2, BeginTypeOK DEF ReportSomeZones, Jobs
  <2>4. faults' \in 0..MaxFaults
    BY <1>2, FaultTypeOK DEF ReportSomeZones
  <2>5. QED
    BY <1>2, <2>2, <2>3, <2>4 DEF TypeOK, ReportSomeZones, nodes
<1>3. CASE ReportUnwritten
  <2>1. dead' \subseteq Jobs /\ since' \in [Jobs -> 0..Period]
    BY <1>3, BeginTypeOK DEF ReportUnwritten, Jobs
  <2>2. faults' \in 0..MaxFaults
    BY <1>3, FaultTypeOK DEF ReportUnwritten
  <2>3. QED
    BY <1>3, <2>1, <2>2 DEF TypeOK, ReportUnwritten, nodes, reports
<1>4. QED
  BY <1>1, <1>2, <1>3

LEMMA SyncStatusType ==
  ASSUME TypeOK, standby' \in [Zones -> Version \cup {None}], SyncStatus
  PROVE  standbyZones' \in SecondaryStatus \cup {None} /\ faults' \in 0..MaxFaults
<1>1. LastSuccess(standbyZones) \in Ages
  BY AgesType DEF TypeOK, LastSuccess, SecondaryStatus
<1>2. CASE standbyZones' = standbyZones /\ Fault
  BY <1>2, FaultTypeOK DEF TypeOK
<1>3. CASE /\ standbyZones' = [age |-> IF errors' = {} THEN 0
                                       ELSE LastSuccess(standbyZones),
                               zones |-> SerialsOf(standby')]
           /\ faults' = faults
  <2>1. SerialsOf(standby') \in Serials
    BY SerialsType
  <2>2. QED
    BY <1>1, <1>3, <2>1, AgesType DEF TypeOK, SecondaryStatus
<1>4. QED
  BY <1>2, <1>3 DEF SyncStatus

LEMMA SyncTypeOK ==
  ASSUME TypeOK, NEW z, Sync(z)
  PROVE  TypeOK'
<1>1. standby' \in [Zones -> Version \cup {None}]
  BY DEF TypeOK, Sync
<1>2. standbyZones' \in SecondaryStatus \cup {None} /\ faults' \in 0..MaxFaults
  BY <1>1, SyncStatusType DEF Sync
<1>3. dead' \subseteq Jobs /\ since' \in [Jobs -> 0..Period]
  BY BeginTypeOK DEF Sync, Jobs
<1>4. lag' \in [Zones -> 0..Behind]
  BY LagType DEF TypeOK, Sync
<1>5. QED
  BY <1>1, <1>2, <1>3, <1>4 DEF TypeOK, Sync

LEMMA SyncFailsTypeOK ==
  ASSUME TypeOK, NEW z \in Zones, SyncFails(z)
  PROVE  TypeOK'
<1>1. standby' \in [Zones -> Version \cup {None}]
  BY DEF TypeOK, SyncFails
<1>2. standbyZones' \in SecondaryStatus \cup {None} /\ faults' \in 0..MaxFaults
  BY <1>1, SyncStatusType DEF SyncFails
<1>3. dead' \subseteq Jobs /\ since' \in [Jobs -> 0..Period]
  BY BeginTypeOK DEF SyncFails, Jobs
<1>4. QED
  BY <1>1, <1>2, <1>3 DEF TypeOK, SyncFails

DiffType ==
  [on : BOOLEAN, todo : SUBSET compared, zone : Zones \cup {None},
   source : Version \cup {None}, equal : BOOLEAN, elapsed : 0..DiffTime]

LEMMA DiffStepTypeOK ==
  ASSUME TypeOK, DiffStep \/ DiffDies
  PROVE  TypeOK'
<1>0. /\ diff \in DiffType /\ NoDiff \in DiffType /\ compared \subseteq Zones
      /\ active \in [Zones -> Version \cup {None}]
  BY NothingType DEF TypeOK, DiffType
<1>1. CASE DiffStart
  <2>1. diff' \in DiffType
    BY <1>0, <1>1 DEF DiffStart, DiffType
  <2>2. dead' \subseteq Jobs /\ since' \in [Jobs -> 0..Period]
    BY <1>1, BeginTypeOK DEF DiffStart, Jobs
  <2>3. QED
    BY <1>1, <2>1, <2>2 DEF TypeOK, DiffType, DiffStart, nodes, reports
<1>2. ASSUME NEW z \in Zones, DiffSource(z)
      PROVE  TypeOK'
  <2>1. diff' \in DiffType
    BY <1>0, <1>2 DEF DiffSource, DiffType
  <2>2. QED
    BY <1>2, <2>1 DEF TypeOK, DiffType, DiffSource, nodes, jobs, reports
<1>3. CASE DiffTarget
  <2>1. diff' \in DiffType
    BY <1>0, <1>3 DEF DiffTarget, DiffType
  <2>2. faults' \in 0..MaxFaults
    <3>1. faults' = faults \/ Fault
      BY <1>3 DEF DiffTarget
    <3>2. QED
      BY <3>1, FaultTypeOK DEF TypeOK
  <2>3. QED
    BY <1>3, <2>1, <2>2 DEF TypeOK, DiffType, DiffTarget, nodes, jobs, reports
<1>4. CASE DiffEnd
  <2>1. LastSuccess(differential) \in Ages
    BY AgesType DEF TypeOK, LastSuccess, DiffStatus
  <2>2. differential' \in DiffStatus
    BY <1>0, <1>4, <2>1, AgesType DEF DiffEnd, DifferentialStatus, DiffStatus, DiffType
  <2>3. QED
    BY <1>0, <1>4, <2>2 DEF TypeOK, DiffType, DiffEnd, nodes, jobs
<1>5. CASE DiffDies
  <2>1. faults' \in 0..MaxFaults
    BY <1>5, FaultTypeOK DEF DiffDies
  <2>2. QED
    BY <1>0, <1>5, <2>1 DEF TypeOK, DiffType, DiffDies, nodes, jobs, reports
<1>6. QED
  BY <1>1, <1>2, <1>3, <1>4, <1>5 DEF DiffStep

LEMMA CheckTypeOK ==
  ASSUME TypeOK, CheckStep \/ ReadFails
  PROVE  TypeOK'
<1>0. NoCheck \in [on : BOOLEAN, active : PrimaryStatus]
  BY NothingType
<1>1. CASE ReadActive
  <2>1. check' \in [on : BOOLEAN, active : PrimaryStatus]
    BY <1>0, <1>1 DEF TypeOK, ReadActive
  <2>2. QED
    BY <1>1, <2>1 DEF TypeOK, ReadActive, nodes, jobs, reports
<1>2. CASE Evaluate
  BY <1>0, <1>2 DEF TypeOK, Evaluate, nodes, jobs, reports
<1>3. CASE ReadFails
  <2>1. faults' \in 0..MaxFaults
    BY <1>3, FaultTypeOK DEF ReadFails
  <2>2. QED
    BY <1>0, <1>3, <2>1 DEF TypeOK, ReadFails, nodes, jobs, reports
<1>4. QED
  BY <1>1, <1>2, <1>3 DEF CheckStep

LEMMA EnvironmentTypeOK ==
  ASSUME TypeOK, Cut \/ Heal \/ \E j \in Jobs : Dies(j)
  PROVE  TypeOK'
<1>1. CASE Heal
  BY <1>1 DEF TypeOK, Heal, jobs, reports
<1>2. CASE Cut
  <2>1. faults' \in 0..MaxFaults
    BY <1>2, FaultTypeOK DEF Cut
  <2>2. QED
    BY <1>2, <2>1 DEF TypeOK, Cut, jobs, reports
<1>3. ASSUME NEW j \in Jobs, Dies(j)
      PROVE  TypeOK'
  <2>1. faults' \in 0..MaxFaults
    BY <1>3, FaultTypeOK DEF Dies
  <2>2. QED
    BY <1>3, <2>1 DEF TypeOK, Dies, nodes, reports
<1>4. QED
  BY <1>1, <1>2, <1>3

LEMMA TickTypeOK ==
  ASSUME TypeOK, Tick
  PROVE  TypeOK'
<1>1. since' \in [Jobs -> 0..Period]
  <2>1. since \in [Jobs -> 0..Period]
    BY DEF TypeOK
  <2>2. \A j \in Jobs : j \notin dead => since[j] < Period
    BY DEF Tick
  <2>3. \A j \in Jobs : (IF j \in dead THEN since[j] ELSE since[j] + 1) \in 0..Period
    BY <2>1, <2>2, Constants
  <2>4. QED
    BY <2>3 DEF Tick
<1>2. lag' \in [Zones -> 0..Behind]
  <2>1. lag \in [Zones -> 0..Behind]
    BY DEF TypeOK
  <2>2. QED
    BY <2>1, AgesType DEF Tick
<1>3. standbyZones' \in SecondaryStatus \cup {None}
  <2>1. standbyZones \in SecondaryStatus \cup {None}
    BY DEF TypeOK
  <2>2. standbyZones' = IF standbyZones = None THEN None
                        ELSE [standbyZones EXCEPT !.age = Older(@)]
    BY DEF Tick
  <2>3. QED
    BY <2>1, <2>2, AgesType DEF SecondaryStatus
<1>4. differential' \in DiffStatus \cup {None}
  <2>1. differential \in DiffStatus \cup {None}
    BY DEF TypeOK
  <2>2. differential' = IF differential = None THEN None
                        ELSE [differential EXCEPT !.age = Older(@)]
    BY DEF Tick
  <2>3. QED
    BY <2>1, <2>2, AgesType DEF DiffStatus
<1>5. diff' \in DiffType
  <2>1. diff \in DiffType
    BY DEF TypeOK, DiffType
  <2>2. /\ diff' = IF diff.on THEN [diff EXCEPT !.elapsed = @ + 1] ELSE diff
        /\ diff.on => diff.elapsed < DiffTime
    BY DEF Tick
  <2>3. diff.on => diff.elapsed + 1 \in 0..DiffTime
    BY <2>1, <2>2, Constants DEF DiffType
  <2>4. QED
    BY <2>1, <2>2, <2>3 DEF DiffType
<1>6. activeZones' \in PrimaryStatus \cup {None}
  <2>1. activeZones \in PrimaryStatus \cup {None}
    BY DEF TypeOK
  <2>2. activeZones' = IF activeZones = None THEN None
                       ELSE [activeZones EXCEPT !.age = Longer(@)]
    BY DEF Tick
  <2>3. QED
    BY <2>1, <2>2, AgesType DEF PrimaryStatus
<1>7. QED
  BY <1>1, <1>2, <1>3, <1>4, <1>5, <1>6 DEF TypeOK, DiffType, Tick

LEMMA NextTypeOK == TypeOK /\ [Next]_vars => TypeOK'
<1> SUFFICES ASSUME TypeOK, [Next]_vars
             PROVE  TypeOK'
  OBVIOUS
<1>1. CASE UNCHANGED vars
  BY <1>1 DEF TypeOK, vars, nodes, jobs, reports
<1>2. CASE Next
  BY <1>2, WriteTypeOK, DeleteTypeOK, SyncFailsTypeOK, SyncTypeOK, ReportTypeOK,
     DiffStepTypeOK, CheckTypeOK, EnvironmentTypeOK, TickTypeOK DEF Next
<1>3. QED
  BY <1>1, <1>2

(* Every step of the nodes, the jobs and the preflight keeps the types. *)
THEOREM TypeCorrect == Spec => []TypeOK
BY InitTypeOK, NextTypeOK, PTL DEF Spec

-----------------------------------------------------------------------------
(* How far behind a standby is that is called ready                        *)

(* A zone that is the same on both nodes is not behind. *)
SameIsNotBehind == \A z \in Zones : Matches(active, standby, z) => lag[z] = 0

(* What rill-diff has found equal was equal since it began; what it has    *)
(* fetched and not yet compared was the active node's since it began.      *)
ComparedIsRecent ==
  /\ ~diff.on => diff.zone = None /\ diff.todo = {}
  /\ diff.equal => \A z \in compared \ diff.todo :
                     diff.on => lag[z] <= diff.elapsed
  /\ diff.zone # None =>
       /\ diff.zone \in compared
       /\ standby[diff.zone] = diff.source => lag[diff.zone] <= diff.elapsed

(* A clean report is as old as it says, and the time rill-diff took. *)
ReportIsRecent ==
  ReplicationHealthy => \A z \in compared : lag[z] <= differential.age + DiffTime

RecentInv == TypeOK /\ SameIsNotBehind /\ ComparedIsRecent /\ ReportIsRecent

LEMMA TypeFacts ==
  ASSUME TypeOK
  PROVE  /\ compared \subseteq Zones
         /\ diff.elapsed \in 0..DiffTime /\ diff.todo \subseteq compared
         /\ \A z \in Zones : lag[z] \in Nat
         /\ differential # None =>
              /\ differential.age \in Nat
              /\ differential.age <= MaxAge \/ differential.age = Never
<1>0. Behind \in Nat
  BY Constants DEF Behind
<1>1. lag \in [Zones -> 0..Behind]
  BY DEF TypeOK
<1>2. diff \in DiffType /\ compared \subseteq Zones
  BY DEF TypeOK, DiffType
<1>3. ASSUME differential # None
      PROVE  /\ differential.age \in Nat
             /\ differential.age <= MaxAge \/ differential.age = Never
  <2>1. differential \in DiffStatus
    BY <1>3 DEF TypeOK
  <2>2. differential.age \in 0..MaxAge + 1
    BY <2>1 DEF DiffStatus, Ages, Never
  <2>3. QED
    BY <2>2, Constants DEF Never
<1>4. \A z \in Zones : lag[z] \in Nat
  BY <1>0, <1>1
<1>5. QED
  BY <1>2, <1>3, <1>4 DEF DiffType

LEMMA InitRecentInv == Init => RecentInv
<1> SUFFICES ASSUME Init PROVE RecentInv
  OBVIOUS
<1>1. TypeOK
  BY InitTypeOK
<1>2. SameIsNotBehind
  BY DEF Init, SameIsNotBehind
<1>3. ComparedIsRecent
  BY DEF Init, ComparedIsRecent, NoDiff
<1>4. ReportIsRecent
  BY DEF Init, ReportIsRecent, ReplicationHealthy
<1>5. QED
  BY <1>1, <1>2, <1>3, <1>4 DEF RecentInv

(* A step that leaves rill-diff and its report alone, and makes a zone of  *)
(* the standby either no older or the active node's.                       *)
LEMMA ZonesStep ==
  ASSUME RecentInv, TypeOK', SameIsNotBehind',
         UNCHANGED <<compared, diff, differential>>,
         \A z \in Zones : /\ lag'[z] <= lag[z]
                          /\ standby'[z] = standby[z] \/ lag'[z] = 0
  PROVE  RecentInv'
<1>0. /\ compared \subseteq Zones /\ diff.elapsed \in Nat
      /\ \A z \in Zones : lag[z] \in Nat /\ lag'[z] \in Nat
  <2>1. /\ compared \subseteq Zones /\ diff.elapsed \in 0..DiffTime
        /\ \A z \in Zones : lag[z] \in Nat
    BY TypeFacts DEF RecentInv
  <2>2. Behind \in Nat
    BY Constants DEF Behind
  <2>3. \A z \in Zones : lag'[z] \in Nat
    <3>1. lag' \in [Zones -> 0..Behind]
      BY DEF TypeOK
    <3>2. QED
      BY <2>2, <3>1
  <2>4. QED
    BY <2>1, <2>3, Constants
<1>1. ComparedIsRecent'
  <2>1. ComparedIsRecent
    BY DEF RecentInv
  <2>2. ASSUME diff.equal, NEW z \in compared \ diff.todo, diff.on
        PROVE  lag'[z] <= diff.elapsed
    BY <1>0, <2>1, <2>2 DEF ComparedIsRecent
  <2>3. ASSUME diff.zone # None
        PROVE  /\ diff.zone \in compared
               /\ standby'[diff.zone] = diff.source => lag'[diff.zone] <= diff.elapsed
    <3>1. diff.zone \in compared
      BY <2>1, <2>3 DEF ComparedIsRecent
    <3>2. CASE lag'[diff.zone] = 0
      BY <1>0, <3>1, <3>2
    <3>3. CASE standby'[diff.zone] = standby[diff.zone]
      BY <1>0, <2>1, <2>3, <3>1, <3>3 DEF ComparedIsRecent
    <3>4. QED
      BY <1>0, <3>1, <3>2, <3>3
  <2>4. QED
    BY <2>1, <2>2, <2>3 DEF ComparedIsRecent
<1>2. ReportIsRecent'
  <2>1. ReportIsRecent
    BY DEF RecentInv
  <2>2. ASSUME ReplicationHealthy, NEW z \in compared
        PROVE  lag'[z] <= differential.age + DiffTime
    <3>1. differential.age \in Nat
      BY <2>2, TypeFacts DEF RecentInv, ReplicationHealthy
    <3>2. lag[z] <= differential.age + DiffTime
      BY <2>1, <2>2 DEF ReportIsRecent
    <3>3. QED
      BY <1>0, <3>1, <3>2, Constants
  <2>3. QED
    BY <2>2 DEF ReportIsRecent, ReplicationHealthy
<1>3. QED
  BY <1>1, <1>2 DEF RecentInv

LEMMA LagIsNoLonger ==
  ASSUME TypeOK, NEW a, NEW s, NEW z \in Zones
  PROVE  /\ LagAfter(a, s)[z] <= lag[z]
         /\ Matches(a, s, z) => LagAfter(a, s)[z] = 0
<1>1. lag[z] \in Nat
  BY TypeFacts
<1>2. QED
  BY <1>1 DEF LagAfter

(* Only the environment, and the daemon, change the zones. *)
LEMMA ChangesStep ==
  ASSUME RecentInv, TypeOK',
         lag' = LagAfter(active', standby'), UNCHANGED <<compared, diff, differential>>,
         \A z \in Zones : standby'[z] = standby[z] \/ standby'[z] = active'[z]
  PROVE  RecentInv'
<1>1. TypeOK
  BY DEF RecentInv
<1>2. \A z \in Zones : lag'[z] <= lag[z] /\ (Matches(active', standby', z) => lag'[z] = 0)
  BY <1>1, LagIsNoLonger
<1>3. SameIsNotBehind'
  BY <1>2 DEF SameIsNotBehind, Matches
<1>4. \A z \in Zones : standby'[z] = active'[z] => Matches(active', standby', z)
  BY DEF Matches
<1>5. QED
  BY <1>2, <1>3, <1>4, ZonesStep

LEMMA IdleStep ==
  ASSUME RecentInv, TypeOK',
         UNCHANGED <<compared, active, standby, lag, diff, differential>>
  PROVE  RecentInv'
<1>1. \A z \in Zones : lag[z] \in Nat
  BY TypeFacts DEF RecentInv
<1>2. SameIsNotBehind'
  BY DEF RecentInv, SameIsNotBehind, Matches
<1>3. QED
  BY <1>1, <1>2, ZonesStep

LEMMA DiffStepRecent ==
  ASSUME RecentInv, TypeOK', DiffStep \/ DiffDies
  PROVE  RecentInv'
<1>0. /\ compared \subseteq Zones
      /\ diff.elapsed \in 0..DiffTime /\ diff.todo \subseteq compared
      /\ \A z \in Zones : lag[z] \in Nat
      /\ diff \in DiffType
  BY TypeFacts DEF RecentInv, TypeOK, DiffType
<1>1. UNCHANGED <<compared, active, standby, lag>>
  BY DEF DiffStep, DiffStart, DiffSource, DiffTarget, DiffEnd, DiffDies, nodes
<1>2. SameIsNotBehind'
  BY <1>1 DEF RecentInv, SameIsNotBehind, Matches
<1>3. ComparedIsRecent
  BY DEF RecentInv
<1>4. CASE DiffStart
  <2>1. diff' = [NoDiff EXCEPT !.on = TRUE, !.todo = compared]
        /\ differential' = differential
    BY <1>4 DEF DiffStart, reports
  <2>2. diff'.on /\ diff'.todo = compared /\ diff'.zone = None
    BY <2>1 DEF NoDiff
  <2>3. ComparedIsRecent'
    BY <1>1, <2>2 DEF ComparedIsRecent
  <2>4. ReportIsRecent'
    BY <1>1, <2>1 DEF RecentInv, ReportIsRecent, ReplicationHealthy
  <2>5. QED
    BY <1>2, <2>3, <2>4 DEF RecentInv
<1>5. ASSUME NEW z \in Zones, DiffSource(z)
      PROVE  RecentInv'
  <2>1. /\ diff.zone = None /\ z \in diff.todo /\ z \in compared
        /\ diff' = IF link /\ active[z] # None
                   THEN [diff EXCEPT !.zone = z, !.source = active[z]]
                   ELSE [diff EXCEPT !.todo = @ \ {z}, !.equal = FALSE]
        /\ differential' = differential
    BY <1>0, <1>5 DEF DiffSource, reports
  <2>2. diff.on
    BY <1>3, <2>1 DEF ComparedIsRecent
  <2>3. ASSUME link /\ active[z] # None PROVE ComparedIsRecent'
    <3>1. /\ diff'.on /\ diff'.todo = diff.todo /\ diff'.equal = diff.equal
          /\ diff'.elapsed = diff.elapsed /\ diff'.zone = z /\ diff'.source = active[z]
      BY <1>0, <2>1, <2>2, <2>3 DEF DiffType
    <3>2. standby[z] = active[z] => lag[z] = 0
      BY DEF RecentInv, SameIsNotBehind, Matches
    <3>3. standby[z] = active[z] => lag[z] <= diff.elapsed
      BY <1>0, <3>2, Constants
    <3>4. diff.equal => \A y \in compared \ diff.todo : lag[y] <= diff.elapsed
      BY <1>3, <2>2 DEF ComparedIsRecent
    <3>5. QED
      BY <1>1, <2>1, <3>1, <3>3, <3>4 DEF ComparedIsRecent
  <2>4. ASSUME ~(link /\ active[z] # None) PROVE ComparedIsRecent'
    <3>1. diff'.on /\ ~diff'.equal /\ diff'.zone = None
      BY <1>0, <2>1, <2>2, <2>4 DEF DiffType
    <3>2. QED
      BY <3>1 DEF ComparedIsRecent
  <2>5. ComparedIsRecent'
    BY <2>3, <2>4
  <2>6. ReportIsRecent'
    BY <1>1, <2>1 DEF RecentInv, ReportIsRecent, ReplicationHealthy
  <2>7. QED
    BY <1>2, <2>5, <2>6 DEF RecentInv
<1>6. CASE DiffTarget
  <2> DEFINE z == diff.zone
  <2>1. z # None /\ z \in compared /\ diff.on
    BY <1>3, <1>6 DEF DiffTarget, ComparedIsRecent
  <2>2. PICK agree \in BOOLEAN :
          diff' = [diff EXCEPT !.todo = @ \ {z}, !.zone = None, !.source = None,
                     !.equal = @ /\ agree /\ diff.source = standby[z]]
    BY <1>6 DEF DiffTarget
  <2>3. /\ diff'.on /\ diff'.todo = diff.todo \ {z} /\ diff'.zone = None
        /\ diff'.elapsed = diff.elapsed
        /\ diff'.equal => diff.equal /\ diff.source = standby[z]
    BY <1>0, <2>1, <2>2 DEF DiffType
  <2>4. diff'.equal => \A y \in compared \ diff'.todo : lag[y] <= diff.elapsed
    BY <1>3, <2>1, <2>3 DEF ComparedIsRecent
  <2>5. ComparedIsRecent'
    BY <1>1, <2>3, <2>4 DEF ComparedIsRecent
  <2>6. differential' = differential
    BY <1>6 DEF DiffTarget, reports
  <2>7. ReportIsRecent'
    BY <1>1, <2>6 DEF RecentInv, ReportIsRecent, ReplicationHealthy
  <2>8. QED
    BY <1>2, <2>5, <2>7 DEF RecentInv
<1>7. CASE DiffEnd
  <2>1. /\ diff.on /\ diff.todo = {} /\ diff' = NoDiff
        /\ differential' = DifferentialStatus(diff.equal)
    BY <1>7 DEF DiffEnd
  <2>2. ComparedIsRecent'
    BY <2>1 DEF ComparedIsRecent, NoDiff
  <2>3. diff.equal => \A y \in compared : lag[y] <= diff.elapsed
    BY <1>3, <2>1 DEF ComparedIsRecent
  <2>4. differential'.success = diff.equal /\ (diff.equal => differential'.age = 0)
    BY <2>1 DEF DifferentialStatus
  <2>5. diff.equal => \A y \in compared : lag[y] <= 0 + DiffTime
    BY <1>0, <2>3, Constants
  <2>6. ReportIsRecent'
    BY <1>1, <2>4, <2>5 DEF ReportIsRecent, ReplicationHealthy
  <2>7. QED
    BY <1>2, <2>2, <2>6 DEF RecentInv
<1>8. CASE DiffDies
  <2>1. diff' = NoDiff /\ differential' = differential
    BY <1>8 DEF DiffDies, reports
  <2>2. ComparedIsRecent'
    BY <2>1 DEF ComparedIsRecent, NoDiff
  <2>3. ReportIsRecent'
    BY <1>1, <2>1 DEF RecentInv, ReportIsRecent, ReplicationHealthy
  <2>4. QED
    BY <1>2, <2>2, <2>3 DEF RecentInv
<1>9. QED
  BY <1>4, <1>5, <1>6, <1>7, <1>8 DEF DiffStep

LEMMA TickRecent ==
  ASSUME RecentInv, TypeOK', Tick
  PROVE  RecentInv'
<1>0. /\ compared \subseteq Zones
      /\ diff.elapsed \in 0..DiffTime /\ diff.elapsed \in Nat
      /\ \A z \in Zones : lag[z] \in Nat
      /\ diff \in DiffType
  <2>1. /\ compared \subseteq Zones /\ diff.elapsed \in 0..DiffTime
        /\ \A z \in Zones : lag[z] \in Nat
    BY TypeFacts DEF RecentInv
  <2>2. diff \in DiffType
    BY DEF RecentInv, TypeOK, DiffType
  <2>3. QED
    BY <2>1, <2>2, Constants
<1>1. UNCHANGED <<compared, active, standby>>
  BY DEF Tick
<1>2. \A z \in Zones : lag'[z] = IF Matches(active, standby, z) THEN 0 ELSE Longer(lag[z])
  BY DEF Tick
<1>3. \A z \in Zones : lag'[z] \in Nat /\ lag'[z] <= lag[z] + 1
  BY <1>0, <1>2, Constants DEF Longer, Behind
<1>4. SameIsNotBehind'
  BY <1>1, <1>2 DEF SameIsNotBehind, Matches
<1>5. ComparedIsRecent'
  <2>0. ComparedIsRecent
    BY DEF RecentInv
  <2>1. CASE ~diff.on
    <3>1. diff' = diff
      BY <2>1 DEF Tick
    <3>2. QED
      BY <2>0, <2>1, <3>1 DEF ComparedIsRecent
  <2>2. CASE diff.on
    <3>1. diff' = [diff EXCEPT !.elapsed = @ + 1]
      BY <2>2 DEF Tick
    <3>2. /\ diff'.on /\ diff'.todo = diff.todo /\ diff'.equal = diff.equal
          /\ diff'.zone = diff.zone /\ diff'.source = diff.source
          /\ diff'.elapsed = diff.elapsed + 1
      BY <1>0, <2>2, <3>1 DEF DiffType
    <3>3. ASSUME NEW z \in compared, lag[z] <= diff.elapsed
          PROVE  lag'[z] <= diff.elapsed + 1
      <4>1. lag[z] \in Nat /\ lag'[z] \in Nat /\ lag'[z] <= lag[z] + 1
        BY <1>0, <1>3
      <4>2. QED
        BY <1>0, <3>3, <4>1
    <3>4. QED
      BY <1>1, <2>0, <2>2, <3>2, <3>3 DEF ComparedIsRecent
  <2>3. QED
    BY <2>1, <2>2
<1>6. ReportIsRecent'
  <2>1. ASSUME ReplicationHealthy', NEW z \in compared
        PROVE  lag'[z] <= differential'.age + DiffTime
    <3>1. differential # None /\ differential' = [differential EXCEPT !.age = Older(@)]
      BY <2>1 DEF Tick, ReplicationHealthy
    <3>2. /\ differential \in DiffStatus /\ differential.age \in Nat
          /\ differential.age <= MaxAge \/ differential.age = Never
      BY <3>1, TypeFacts DEF RecentInv, TypeOK
    <3>3. /\ differential'.success = differential.success
          /\ differential'.age = Older(differential.age)
      BY <3>1, <3>2 DEF DiffStatus
    <3>4. differential'.age <= MaxAge /\ differential.success
      BY <2>1, <3>3 DEF ReplicationHealthy
    <3>5. differential.age <= MaxAge /\ differential'.age = differential.age + 1
      BY <3>2, <3>3, <3>4, Constants DEF Older, Never
    <3>6. lag[z] <= differential.age + DiffTime
      BY <3>1, <3>4, <3>5 DEF RecentInv, ReportIsRecent, ReplicationHealthy
    <3>7. lag[z] \in Nat /\ lag'[z] \in Nat /\ lag'[z] <= lag[z] + 1
      BY <1>0, <1>3
    <3>8. QED
      BY <3>2, <3>5, <3>6, <3>7, Constants
  <2>2. QED
    BY <1>1, <2>1 DEF ReportIsRecent
<1>7. QED
  BY <1>4, <1>5, <1>6 DEF RecentInv

LEMMA NextRecentInv == RecentInv /\ [Next]_vars => RecentInv'
<1> SUFFICES ASSUME RecentInv, [Next]_vars
             PROVE  RecentInv'
  OBVIOUS
<1>0. TypeOK'
  BY NextTypeOK DEF RecentInv
<1>1. CASE UNCHANGED vars
  BY <1>0, <1>1, IdleStep DEF vars, nodes, reports
<1>2. ASSUME NEW z \in Zones, Write(z) \/ Delete(z)
      PROVE  RecentInv'
  <2>1. /\ lag' = LagAfter(active', standby') /\ standby' = standby
        /\ UNCHANGED <<compared, diff, differential>>
    BY <1>2 DEF Write, Delete, reports
  <2>2. QED
    BY <1>0, <2>1, ChangesStep
<1>3. ASSUME NEW z, Sync(z)
      PROVE  RecentInv'
  <2>1. /\ lag' = LagAfter(active', standby') /\ active' = active
        /\ UNCHANGED <<compared, diff, differential>>
    BY <1>3 DEF Sync
  <2>2. \A y \in Zones : standby'[y] = standby[y] \/ standby'[y] = active'[y]
    BY <1>3, <2>1 DEF Sync
  <2>3. QED
    BY <1>0, <2>1, <2>2, ChangesStep
<1>4. ASSUME NEW z \in Zones, SyncFails(z)
      PROVE  RecentInv'
  BY <1>0, <1>4, IdleStep DEF SyncFails
<1>5. CASE ReportZones \/ ReportUnwritten
           \/ \E before \in SUBSET Zones : ReportSomeZones(before)
  BY <1>0, <1>5, IdleStep DEF ReportZones, ReportUnwritten, ReportSomeZones, nodes, reports
<1>6. CASE DiffStep \/ DiffDies
  BY <1>0, <1>6, DiffStepRecent
<1>7. CASE CheckStep \/ ReadFails
  BY <1>0, <1>7, IdleStep DEF CheckStep, ReadActive, Evaluate, ReadFails, nodes, reports
<1>8. CASE Cut \/ Heal \/ \E j \in Jobs : Dies(j)
  BY <1>0, <1>8, IdleStep DEF Cut, Heal, Dies, nodes, reports
<1>9. CASE Tick
  BY <1>0, <1>9, TickRecent
<1>10. QED
  BY <1>1, <1>2, <1>3, <1>4, <1>5, <1>6, <1>7, <1>8, <1>9 DEF Next

(* A standby that rill-ha calls ready has, of every compared zone, the     *)
(* records that the active node served at most the limit on the age of a   *)
(* report and the time of one rill-diff ago, whatever the limit, however   *)
(* long rill-diff takes, and with serials that are used twice (compare,    *)
(* differentialStatus, haStatus, evaluate).                                *)
THEOREM ReadyStandbyIsRecent == Spec => ReadyIsRecent
<1>1. RecentInv /\ [Next]_vars
        => [SaysReady => \A z \in compared : lag[z] <= MaxAge + DiffTime]_vars
  <2> SUFFICES ASSUME RecentInv, Next, SaysReady, NEW z \in compared
               PROVE  lag[z] <= MaxAge + DiffTime
    BY DEF SaysReady, vars
  <2>1. ReplicationHealthy
    <3>1. ~Tick /\ ~ReadFails /\ ~ReadActive
      BY DEF SaysReady, Tick, ReadFails, ReadActive
    <3>2. check' # check
      BY DEF SaysReady
    <3>3. Evaluate
      BY <3>1, <3>2 DEF Next, Write, Delete, SyncFails, Sync, ReportZones,
         ReportUnwritten, ReportSomeZones, DiffStep, DiffStart, DiffSource, DiffTarget, DiffEnd,
         DiffDies, CheckStep, Cut, Heal, Dies, reports
    <3>4. QED
      BY <3>3 DEF SaysReady, Evaluate
  <2>2. differential.age \in Nat /\ differential.age <= MaxAge
    BY <2>1, TypeFacts DEF RecentInv, ReplicationHealthy
  <2>3. lag[z] <= differential.age + DiffTime /\ lag[z] \in Nat
    BY <2>1, TypeFacts DEF RecentInv, ReportIsRecent
  <2>4. QED
    BY <2>2, <2>3, Constants
<1>2. QED
  BY <1>1, InitRecentInv, NextRecentInv, PTL DEF Spec, ReadyIsRecent

-----------------------------------------------------------------------------
(* The zones of which only the serials are known                           *)

Others == Zones \ compared

(* What a report says of a zone: its serial, or that there is none. *)
Tells(report, z) == report.success \/ report.zones[z] # 0

(* A serial that rill-zone-status has reported was the active node's when  *)
(* it did.                                                                 *)
ActiveIsReported ==
  activeZones # None =>
    \A z \in Others : Tells(activeZones, z) /\ Serial(standby[z]) = activeZones.zones[z]
                        => lag[z] <= activeZones.age

(* The same for the report that rill-ha has read. *)
ActiveIsRead ==
  check.on =>
    \A z \in Others : Tells(check.active, z) /\ Serial(standby[z]) = check.active.zones[z]
                        => lag[z] <= check.active.age

(* The standby still has the serial of its last status, or has taken over  *)
(* another one since its last success.                                     *)
StandbyIsReported ==
  standbyZones # None /\ standbyZones.age <= MaxAge =>
    \A z \in Others : \/ Serial(standby[z]) = standbyZones.zones[z]
                      \/ lag[z] <= standbyZones.age

SerialInv == ActiveIsReported /\ ActiveIsRead /\ StandbyIsReported

LEMMA InitSerialInv == Init => SerialInv
<1> SUFFICES ASSUME Init PROVE SerialInv
  OBVIOUS
<1>1. activeZones = None /\ standbyZones = None /\ check = NoCheck
  BY DEF Init
<1>2. ~check.on
  BY <1>1 DEF NoCheck
<1>3. QED
  BY <1>1, <1>2 DEF SerialInv, ActiveIsReported, ActiveIsRead, StandbyIsReported

LEMMA LagIsNat ==
  ASSUME TypeOK
  PROVE  /\ \A z \in Zones : lag[z] \in Nat
         /\ activeZones # None =>
              activeZones.age \in 0..Behind /\ activeZones \in PrimaryStatus
         /\ check.active.age \in 0..Behind /\ Behind \in Nat
         /\ standbyZones # None => standbyZones.age \in Nat /\ standbyZones \in SecondaryStatus
<1>1. \A z \in Zones : lag[z] \in Nat
  BY TypeFacts
<1>2. /\ activeZones # None =>
           activeZones.age \in 0..Behind /\ activeZones \in PrimaryStatus
      /\ check.active.age \in 0..Behind
  BY DEF TypeOK, PrimaryStatus
<1>3. ASSUME standbyZones # None
      PROVE  standbyZones.age \in Nat /\ standbyZones \in SecondaryStatus
  <2>1. standbyZones \in SecondaryStatus
    BY <1>3 DEF TypeOK
  <2>2. standbyZones.age \in 0..MaxAge + 1
    BY <2>1 DEF SecondaryStatus, Ages, Never
  <2>3. QED
    BY <2>1, <2>2, Constants
<1>4. Behind \in Nat
  BY Constants DEF Behind
<1>5. QED
  BY <1>1, <1>2, <1>3, <1>4

(* A step that makes a zone of the standby either no older or the active   *)
(* node's, and leaves the reports alone or describes the standby anew.     *)
LEMMA SerialsStep ==
  ASSUME TypeOK, TypeOK', SerialInv, compared' = compared,
         UNCHANGED <<activeZones, check>>,
         \A z \in Zones : /\ lag'[z] <= lag[z]
                          /\ standby'[z] = standby[z] \/ lag'[z] = 0,
         \/ standbyZones' = standbyZones
         \/ standbyZones'.zones = SerialsOf(standby')
  PROVE  SerialInv'
<1>1. /\ \A z \in Zones : lag[z] \in Nat /\ lag'[z] \in Nat
      /\ activeZones # None => activeZones.age \in Nat
      /\ check.active.age \in Nat
      /\ standbyZones # None => standbyZones.age \in Nat
  <2>1. \A z \in Zones : lag'[z] \in Nat
    <3>1. lag' \in [Zones -> 0..Behind]
      BY DEF TypeOK, Behind, Never
    <3>2. Behind \in Nat
      BY Constants DEF Behind
    <3>3. QED
      BY <3>1, <3>2
  <2>2. /\ activeZones # None => activeZones.age \in 0..Behind
        /\ check.active.age \in 0..Behind /\ Behind \in Nat
    BY LagIsNat
  <2>3. QED
    BY <2>1, <2>2, LagIsNat
<1>3. ActiveIsReported'
  <2> SUFFICES ASSUME activeZones # None, NEW z \in Others, Tells(activeZones, z),
                      Serial(standby'[z]) = activeZones.zones[z]
               PROVE  lag'[z] <= activeZones.age
    BY DEF ActiveIsReported, Others, Tells
  <2>1. CASE lag'[z] = 0
    BY <1>1, <2>1
  <2>2. CASE standby'[z] = standby[z]
    <3>1. lag[z] <= activeZones.age /\ lag'[z] <= lag[z] /\ z \in Zones
      BY <2>2 DEF SerialInv, ActiveIsReported, Others
    <3>2. QED
      BY <1>1, <3>1
  <2>3. QED
    BY <2>1, <2>2 DEF Others
<1>4. ActiveIsRead'
  <2> SUFFICES ASSUME check.on, NEW z \in Others, Tells(check.active, z),
                      Serial(standby'[z]) = check.active.zones[z]
               PROVE  lag'[z] <= check.active.age
    BY DEF ActiveIsRead, Others, Tells
  <2>1. CASE lag'[z] = 0
    BY <1>1, <2>1
  <2>2. CASE standby'[z] = standby[z]
    <3>1. lag[z] <= check.active.age /\ lag'[z] <= lag[z] /\ z \in Zones
      BY <2>2 DEF SerialInv, ActiveIsRead, Others
    <3>2. QED
      BY <1>1, <3>1
  <2>3. QED
    BY <2>1, <2>2 DEF Others
<1>5. StandbyIsReported'
  <2>1. CASE standbyZones' = standbyZones
    <3> SUFFICES ASSUME standbyZones # None, standbyZones.age <= MaxAge, NEW z \in Others,
                        lag'[z] # 0
                 PROVE  \/ Serial(standby'[z]) = standbyZones.zones[z]
                        \/ lag'[z] <= standbyZones.age
      BY <1>1, <2>1 DEF StandbyIsReported, Others
    <3>1. z \in Zones /\ standby'[z] = standby[z] /\ lag'[z] <= lag[z]
      BY DEF Others
    <3>2. \/ Serial(standby[z]) = standbyZones.zones[z]
          \/ lag[z] <= standbyZones.age
      BY DEF SerialInv, StandbyIsReported
    <3>3. QED
      BY <1>1, <3>1, <3>2
  <2>2. CASE standbyZones'.zones = SerialsOf(standby')
    BY <2>2 DEF StandbyIsReported, SerialsOf, Others
  <2>3. QED
    BY <2>1, <2>2
<1>6. QED
  BY <1>3, <1>4, <1>5 DEF SerialInv

LEMMA IdleSerials ==
  ASSUME TypeOK, TypeOK', SerialInv,
         UNCHANGED <<compared, standby, lag, activeZones, check, standbyZones>>
  PROVE  SerialInv'
<1>1. \A z \in Zones : lag[z] \in Nat
  BY LagIsNat
<1>2. QED
  BY <1>1, SerialsStep

LEMMA ReportSerials ==
  ASSUME RecentInv, TypeOK', SerialInv,
         ReportZones \/ \E before \in SUBSET Zones : ReportSomeZones(before)
  PROVE  SerialInv'
<1>1. UNCHANGED <<compared, active, standby, lag, check, standbyZones>>
  BY DEF ReportZones, ReportSomeZones, nodes
<1>2. ActiveIsRead' /\ StandbyIsReported'
  BY <1>1 DEF SerialInv, ActiveIsRead, StandbyIsReported, Others, Tells
<1>3. /\ activeZones'.age = 0
      /\ \A z \in Zones : Tells(activeZones', z) => activeZones'.zones[z] = Serial(active[z])
  <2>1. CASE ReportZones
    BY <2>1 DEF ReportZones, SerialsOf
  <2>2. ASSUME NEW before \in SUBSET Zones, ReportSomeZones(before)
        PROVE  /\ activeZones'.age = 0
               /\ \A z \in Zones : Tells(activeZones', z)
                                     => activeZones'.zones[z] = Serial(active[z])
    BY <2>2 DEF ReportSomeZones, Tells
  <2>3. QED
    BY <2>1, <2>2
<1>4. ASSUME NEW z \in Others, Tells(activeZones', z),
             Serial(standby[z]) = activeZones'.zones[z]
      PROVE  lag[z] = 0
  <2>1. z \in Zones /\ z \notin compared /\ Serial(standby[z]) = Serial(active[z])
    BY <1>3, <1>4 DEF Others
  <2>2. Matches(active, standby, z)
    BY <2>1 DEF Matches
  <2>3. QED
    BY <2>1, <2>2 DEF RecentInv, SameIsNotBehind
<1>5. ActiveIsReported'
  BY <1>1, <1>3, <1>4 DEF ActiveIsReported, Others, Tells
<1>6. QED
  BY <1>2, <1>5 DEF SerialInv

LEMMA CheckSerials ==
  ASSUME RecentInv, TypeOK', SerialInv, CheckStep \/ ReadFails
  PROVE  SerialInv'
<1>1. UNCHANGED <<compared, active, standby, lag, activeZones, standbyZones>>
  BY DEF CheckStep, ReadActive, Evaluate, ReadFails, nodes, jobs, reports
<1>2. ActiveIsReported' /\ StandbyIsReported'
  BY <1>1 DEF SerialInv, ActiveIsReported, StandbyIsReported, Others, Tells
<1>3. CASE ReadActive
  <2> SUFFICES ASSUME check'.on, NEW z \in Others, Tells(check'.active, z),
                      Serial(standby[z]) = check'.active.zones[z]
               PROVE  lag[z] <= check'.active.age
    BY <1>1, <1>2 DEF SerialInv, ActiveIsRead, Others, Tells
  <2>1. check'.active = IF activeZones = None THEN NoCheck.active ELSE activeZones
    BY <1>3 DEF ReadActive
  <2>2. ~Tells(NoCheck.active, z)
    BY DEF NoCheck, NoZones, Tells, Others
  <2>3. activeZones # None /\ check'.active = activeZones
    BY <2>1, <2>2
  <2>4. QED
    BY <2>3 DEF SerialInv, ActiveIsReported
<1>4. CASE Evaluate \/ ReadFails
  <2>1. check' = NoCheck
    BY <1>4 DEF Evaluate, ReadFails
  <2>2. ~check'.on
    BY <2>1 DEF NoCheck
  <2>3. QED
    BY <1>2, <2>2 DEF SerialInv, ActiveIsRead
<1>5. QED
  BY <1>3, <1>4 DEF CheckStep

LEMMA TickSerials ==
  ASSUME RecentInv, TypeOK', SerialInv, Tick
  PROVE  SerialInv'
<1>0. /\ \A z \in Zones : lag[z] \in Nat
      /\ activeZones # None =>
           activeZones.age \in 0..Behind /\ activeZones \in PrimaryStatus
      /\ Behind \in Nat
      /\ standbyZones # None => standbyZones.age \in Nat /\ standbyZones \in SecondaryStatus
  BY LagIsNat DEF RecentInv
<1>1. UNCHANGED <<compared, active, standby, check>> /\ ~check.on
  BY DEF Tick
<1>2. \A z \in Zones : lag'[z] = IF Matches(active, standby, z) THEN 0
                                  ELSE Longer(lag[z])
  BY DEF Tick
<1>3. \A z \in Zones : lag'[z] \in Nat /\ lag'[z] <= lag[z] + 1
  BY <1>0, <1>2, Constants DEF Longer
<1>b. \A z \in Zones : lag[z] <= Behind => lag'[z] <= Behind
  BY <1>0, <1>2, Constants DEF Longer
<1>4. ActiveIsReported'
  <2> SUFFICES ASSUME activeZones' # None, NEW z \in Others, Tells(activeZones', z),
                      Serial(standby[z]) = activeZones'.zones[z]
               PROVE  lag'[z] <= activeZones'.age
    BY <1>1 DEF ActiveIsReported, Others, Tells
  <2>1. activeZones # None /\ activeZones' = [activeZones EXCEPT !.age = Longer(@)]
    BY DEF Tick
  <2>2. /\ activeZones'.zones = activeZones.zones /\ activeZones'.success = activeZones.success
        /\ activeZones'.age = Longer(activeZones.age)
    BY <1>0, <2>1 DEF PrimaryStatus
  <2>3. lag[z] <= activeZones.age /\ z \in Zones
    BY <2>1, <2>2 DEF SerialInv, ActiveIsReported, Others, Tells
  <2>4. activeZones.age \in 0..Behind
    BY <1>0, <2>1
  <2>5. activeZones'.age = IF activeZones.age = Behind THEN Behind ELSE activeZones.age + 1
    BY <2>2 DEF Longer
  <2>6. /\ lag[z] \in Nat /\ lag'[z] \in Nat /\ lag'[z] <= lag[z] + 1
        /\ lag[z] <= Behind => lag'[z] <= Behind
    BY <1>0, <1>3, <1>b, <2>3
  <2>7. QED
    BY <1>0, <2>3, <2>4, <2>5, <2>6
<1>5. ActiveIsRead'
  BY <1>1 DEF ActiveIsRead
<1>6. StandbyIsReported'
  <2> SUFFICES ASSUME standbyZones' # None, standbyZones'.age <= MaxAge, NEW z \in Others
               PROVE  \/ Serial(standby[z]) = standbyZones'.zones[z]
                      \/ lag'[z] <= standbyZones'.age
    BY <1>1 DEF StandbyIsReported, Others
  <2>1. standbyZones # None /\ standbyZones' = [standbyZones EXCEPT !.age = Older(@)]
    BY DEF Tick
  <2>2. /\ standbyZones'.zones = standbyZones.zones
        /\ standbyZones'.age = Older(standbyZones.age)
    BY <1>0, <2>1 DEF SecondaryStatus
  <2>3. standbyZones.age <= MaxAge /\ standbyZones'.age = standbyZones.age + 1
    <3>1. standbyZones.age \in 0..MaxAge + 1
      BY <1>0, <2>1 DEF SecondaryStatus, Ages, Never
    <3>2. QED
      BY <2>2, <3>1, Constants DEF Older, Never
  <2>4. Serial(standby[z]) = standbyZones.zones[z] \/ lag[z] <= standbyZones.age
    BY <2>1, <2>3 DEF SerialInv, StandbyIsReported
  <2>5. z \in Zones
    BY DEF Others
  <2>6. QED
    BY <1>0, <1>3, <2>1, <2>2, <2>3, <2>4, <2>5
<1>7. QED
  BY <1>4, <1>5, <1>6 DEF SerialInv

LEMMA NextSerialInv == RecentInv /\ SerialInv /\ [Next]_vars => SerialInv'
<1> SUFFICES ASSUME RecentInv, SerialInv, [Next]_vars
             PROVE  SerialInv'
  OBVIOUS
<1>0. TypeOK /\ TypeOK'
  BY NextTypeOK DEF RecentInv
<1>1. CASE UNCHANGED vars
  BY <1>0, <1>1, IdleSerials DEF vars, nodes, reports, jobs
<1>2. ASSUME NEW z \in Zones, Write(z) \/ Delete(z)
      PROVE  SerialInv'
  <2>1. /\ lag' = LagAfter(active', standby') /\ standby' = standby
        /\ UNCHANGED <<compared, activeZones, standbyZones, check>>
    BY <1>2 DEF Write, Delete, reports
  <2>2. \A y \in Zones : lag'[y] <= lag[y]
    BY <1>0, <2>1, LagIsNoLonger
  <2>3. QED
    BY <1>0, <2>1, <2>2, SerialsStep
<1>s. ASSUME SyncStatus
      PROVE  \/ standbyZones' = standbyZones
             \/ standbyZones'.zones = SerialsOf(standby')
  <2>1. CASE standbyZones' = standbyZones
    BY <2>1
  <2>2. CASE standbyZones' = [age |-> IF errors' = {} THEN 0
                                      ELSE LastSuccess(standbyZones),
                              zones |-> SerialsOf(standby')]
    BY <2>2
  <2>3. QED
    BY <1>s, <2>1, <2>2 DEF SyncStatus
<1>3. ASSUME NEW z, Sync(z)
      PROVE  SerialInv'
  <2>1. /\ lag' = LagAfter(active', standby') /\ active' = active
        /\ UNCHANGED <<compared, activeZones, check>>
        /\ SyncStatus
    BY <1>3 DEF Sync
  <2>2. \A y \in Zones : standby'[y] = standby[y] \/ standby'[y] = active'[y]
    BY <1>3, <2>1 DEF Sync
  <2>3. \A y \in Zones : standby'[y] = active'[y] => Matches(active', standby', y)
    BY DEF Matches
  <2>4. \A y \in Zones : lag'[y] <= lag[y]
                         /\ (standby'[y] = standby[y] \/ lag'[y] = 0)
    BY <1>0, <2>1, <2>2, <2>3, LagIsNoLonger
  <2>5. QED
    BY <1>0, <1>s, <2>1, <2>4, SerialsStep
<1>4. ASSUME NEW z \in Zones, SyncFails(z)
      PROVE  SerialInv'
  <2>1. /\ UNCHANGED <<compared, standby, lag, activeZones, check>>
        /\ SyncStatus
    BY <1>4 DEF SyncFails
  <2>2. \A y \in Zones : lag[y] \in Nat
    BY <1>0, LagIsNat
  <2>3. QED
    BY <1>0, <1>s, <2>1, <2>2, SerialsStep
<1>5. CASE ReportZones \/ \E before \in SUBSET Zones : ReportSomeZones(before)
  BY <1>0, <1>5, ReportSerials
<1>u. CASE ReportUnwritten
  BY <1>0, <1>u, IdleSerials DEF ReportUnwritten, nodes, reports
<1>6. CASE DiffStep \/ DiffDies
  <2>1. UNCHANGED <<compared, standby, lag, activeZones, standbyZones, check>>
    BY <1>6 DEF DiffStep, DiffStart, DiffSource, DiffTarget, DiffEnd, DiffDies, nodes,
                reports
  <2>2. QED
    BY <1>0, <2>1, IdleSerials
<1>7. CASE CheckStep \/ ReadFails
  BY <1>0, <1>7, CheckSerials
<1>8. CASE Cut \/ Heal \/ \E j \in Jobs : Dies(j)
  BY <1>0, <1>8, IdleSerials DEF Cut, Heal, Dies, nodes, reports, jobs
<1>9. CASE Tick
  BY <1>0, <1>9, TickSerials
<1>10. QED
  BY <1>1, <1>2, <1>3, <1>4, <1>5, <1>u, <1>6, <1>7, <1>8, <1>9 DEF Next

(* A zone that rill-diff does not compare: when rill-ha says ready, the    *)
(* serial of the standby's copy was the active node's within the limit on  *)
(* the age of a status, or else within the age of the active node's        *)
(* report, however long that report was not renewed; of a report that is   *)
(* no success this holds for the zones it lists (evaluate,                 *)
(* rill-zone-status, syncZone).                                            *)
THEOREM ReadySerialsStayRecent == Spec => ReadySerialsAreRecent
<1>1. RecentInv /\ SerialInv /\ [Next]_vars
        => [SaysReady =>
              \A z \in Zones \ compared :
                check.active.success \/ check.active.zones[z] # 0 =>
                  lag[z] <= MaxAge \/ lag[z] <= check.active.age]_vars
  <2> SUFFICES ASSUME RecentInv, SerialInv, Next, SaysReady, NEW z \in Zones \ compared,
                      Tells(check.active, z)
               PROVE  lag[z] <= MaxAge \/ lag[z] <= check.active.age
    BY DEF SaysReady, vars, Tells
  <2>1. SnapshotFresh /\ SerialsMatch(check.active.zones) /\ check.on
    <3>1. ~Tick /\ ~ReadFails /\ ~ReadActive
      BY DEF SaysReady, Tick, ReadFails, ReadActive
    <3>2. check' # check
      BY DEF SaysReady
    <3>3. Evaluate
      BY <3>1, <3>2 DEF Next, Write, Delete, SyncFails, Sync, ReportZones,
         ReportUnwritten, ReportSomeZones, DiffStep, DiffStart, DiffSource, DiffTarget, DiffEnd,
         DiffDies, CheckStep, Cut, Heal, Dies, reports
    <3>4. QED
      BY <3>3 DEF SaysReady, Evaluate
  <2>2. z \in Zones /\ z \in Others
    BY DEF Others
  <2>3. standbyZones.zones[z] = check.active.zones[z]
    BY <2>1, <2>2 DEF SerialsMatch
  <2>4. standbyZones # None /\ standbyZones.age <= MaxAge
    BY <2>1 DEF SnapshotFresh
  <2>5. lag[z] \in Nat /\ standbyZones.age \in Nat
    BY <2>2, <2>4, LagIsNat DEF RecentInv
  <2>6. Serial(standby[z]) = standbyZones.zones[z] \/ lag[z] <= standbyZones.age
    BY <2>2, <2>4 DEF SerialInv, StandbyIsReported
  <2>7. CASE lag[z] <= standbyZones.age
    BY <2>4, <2>5, <2>7, Constants
  <2>8. CASE Serial(standby[z]) = standbyZones.zones[z]
    BY <2>1, <2>2, <2>3, <2>8 DEF SerialInv, ActiveIsRead
  <2>9. QED
    BY <2>6, <2>7, <2>8
<1>2. QED
  BY <1>1, InitRecentInv, NextRecentInv, InitSerialInv, NextSerialInv, PTL
     DEF Spec, ReadySerialsAreRecent
=============================================================================
