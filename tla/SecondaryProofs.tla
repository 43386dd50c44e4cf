--------------------------- MODULE SecondaryProofs ---------------------------
(***************************************************************************)
(* Proofs about Secondary for any set of zones, faults and losses: a       *)
(* snapshot is always a whole version that the primary served, and the     *)
(* trigger channel keeps to its capacity.                                  *)
(***************************************************************************)
EXTENDS Secondary, FiniteSetTheorems, FunctionTheorems, WellFoundedInduction, TLAPS

(* The part of the type invariant that the arguments rest on. *)
Types ==
  /\ primary \in [Zones -> Version \cup {None}]
  /\ pending \in [Zones -> Version \cup {None}]
  /\ file \in [Zones -> Records \cup {None}]
  /\ served \in [Zones -> SUBSET Version]
  /\ sync = [pc |-> sync.pc, zone |-> sync.zone,
             current |-> sync.current, records |-> sync.records]

(* The inductive invariant of the first theorem. *)
Whole == Types /\ SnapshotsAreWhole /\ TransfersAreServed

LEMMA InitWhole == Init => Whole
<1> SUFFICES ASSUME Init PROVE Whole
  OBVIOUS
<1>1. 1 \in Serials
  BY ConstantsAssumption DEF Serials
<1>2. \A z \in Zones : /\ primary[z] \in Version
                       /\ file[z] = primary[z]
                       /\ primary[z] \in served[z]
  BY <1>1 DEF Init, Version
<1> QED
  BY <1>2 DEF Init, Whole, Types, SnapshotsAreWhole, TransfersAreServed, Idle,
    Version, Records

(* Whatever the primary does, it only adds to what it served. *)
LEMMA PrimaryWhole ==
  ASSUME Whole, UNCHANGED <<file, sync>>,
         served' \in [Zones -> SUBSET Version],
         \A z \in Zones : served[z] \subseteq served'[z],
         primary' \in [Zones -> Version \cup {None}],
         pending' \in [Zones -> Version \cup {None}],
         \A z \in Zones : {primary'[z], pending'[z]} \subseteq served'[z] \cup {None}
  PROVE  Whole'
BY DEF Whole, Types, SnapshotsAreWhole, TransfersAreServed

(* A step of the daemon that leaves the snapshots alone and holds no new   *)
(* transfer.                                                               *)
LEMMA DaemonWhole ==
  ASSUME Whole, UNCHANGED <<primary, pending, served, file>>,
         \/ sync' = Idle
         \/ sync' = sync
         \/ sync'.pc # "publish" /\ sync' = [sync EXCEPT !.pc = sync'.pc]
  PROVE  Whole'
BY DEF Whole, Types, SnapshotsAreWhole, TransfersAreServed, Idle

LEMMA ChangeType ==
  ASSUME NEW z \in Zones, NEW data \in Data, primary[z] \in Version,
         primary[z].serial < MaxSerial
  PROVE  [serial |-> primary[z].serial + 1, data |-> data] \in Version
<1>1. primary[z].serial \in 0..MaxSerial
  BY DEF Version, Serials
<1>2. primary[z].serial + 1 \in 0..MaxSerial
  BY <1>1, ConstantsAssumption
<1> QED
  BY <1>2 DEF Version, Serials

LEMMA WholeStep ==
  ASSUME Whole, [Next]_vars
  PROVE  Whole'
<1>1. ASSUME NEW z \in Zones, NEW data \in Data, PrimaryChange(z, data)
      PROVE  Whole'
  <2> DEFINE new == [serial |-> primary[z].serial + 1, data |-> data]
  <2>1. primary[z] \in Version /\ new \in Version
    BY <1>1, ChangeType DEF PrimaryChange, Whole, Types
  <2> HIDE DEF new
  <2>2. /\ primary' = [primary EXCEPT ![z] = new]
        /\ pending' = [pending EXCEPT ![z] = primary[z]]
        /\ served' = [served EXCEPT ![z] = served[z] \cup {new}]
    BY <1>1 DEF PrimaryChange, new
  <2> QED
    BY <1>1, <2>1, <2>2, PrimaryWhole
    DEF PrimaryChange, Whole, Types, TransfersAreServed
<1>2. ASSUME NEW z \in Zones,
             PrimaryVerified(z) \/ PrimaryRestores(z) \/ PrimaryDeletes(z)
      PROVE  Whole'
  BY <1>2, PrimaryWhole
  DEF PrimaryVerified, PrimaryRestores, PrimaryDeletes, Whole, Types,
    TransfersAreServed
<1>3. ASSUME NEW z \in Zones,
             NotifyLost(z) \/ HandleNotify(z) \/ RetryFires(z)
      PROVE  Whole'
  BY <1>3, DaemonWhole DEF NotifyLost, HandleNotify, RetryFires, primaryVars
<1>4. CASE Tick \/ LateTick
  BY <1>4, DaemonWhole DEF Tick, LateTick, primaryVars
<1>5. CASE TakeZone
  BY <1>5 DEF TakeZone, primaryVars, Whole, Types, SnapshotsAreWhole,
    TransfersAreServed
<1>6. CASE Probe
  <2>1. \/ sync' = Idle
        \/ sync'.pc # "publish" /\ sync' = [sync EXCEPT !.pc = sync'.pc]
    BY <1>6 DEF Probe, Finish, Goto, Whole, Types
  <2>2. UNCHANGED <<primary, pending, served, file>>
    BY <1>6 DEF Probe, primaryVars
  <2> QED
    BY <2>1, <2>2, DaemonWhole
<1>7. CASE Remove
  BY <1>7 DEF Remove, Finish, primaryVars, Whole, Types, SnapshotsAreWhole,
    TransfersAreServed, Idle
<1>8. CASE Transfer
  <2>1. CASE primary[sync.zone] = None
    BY <1>8, <2>1, DaemonWhole DEF Transfer, Finish, primaryVars
  <2>2. CASE primary[sync.zone] # None
    <3>1. sync' = [sync EXCEPT !.pc = "publish",
                               !.records = primary[sync.zone]]
      BY <1>8, <2>2 DEF Transfer
    <3>2. /\ sync'.pc = "publish"
          /\ sync'.zone = sync.zone
          /\ sync'.records = primary[sync.zone]
          /\ sync' = [pc |-> sync'.pc, zone |-> sync'.zone,
                      current |-> sync'.current, records |-> sync'.records]
      BY <3>1 DEF Whole, Types
    <3> QED
      BY <1>8, <2>2, <3>2
      DEF Transfer, primaryVars, Whole, Types, SnapshotsAreWhole,
        TransfersAreServed
  <2> QED
    BY <2>1, <2>2
<1>9. CASE TransferCut
  <2>1. sync' = [sync EXCEPT !.pc = "publish",
                   !.records = [serial |-> primary[sync.zone].serial,
                                data |-> Cut]]
    BY <1>9 DEF TransferCut
  <2>2. /\ sync'.records.data = Cut
        /\ sync' = [pc |-> sync'.pc, zone |-> sync'.zone,
                    current |-> sync'.current, records |-> sync'.records]
    BY <2>1 DEF Whole, Types
  <2> QED
    BY <1>9, <2>2 DEF TransferCut, primaryVars, Whole, Types,
      SnapshotsAreWhole, TransfersAreServed
<1>10. CASE Publish
  <2>1. CASE FullSnapshot(sync.records)
    <3>1. /\ file' = [file EXCEPT ![sync.zone] = sync.records]
          /\ sync' = [sync EXCEPT !.pc = "inspect"]
          /\ sync.pc = "publish"
          /\ UNCHANGED <<primary, pending, served>>
      BY <1>10, <2>1 DEF Publish, Goto, primaryVars
    <3>2. sync.zone \in Zones => sync.records \in served[sync.zone]
      BY <2>1, <3>1 DEF FullSnapshot, Whole, TransfersAreServed
    <3>3. Version \subseteq Records
      BY DEF Version, Records
    <3>4. file' \in [Zones -> Records \cup {None}]
      BY <3>1, <3>2, <3>3 DEF Whole, Types
    <3>5. SnapshotsAreWhole'
      BY <3>1, <3>2 DEF Whole, Types, SnapshotsAreWhole
    <3> QED
      BY <3>1, <3>4, <3>5 DEF Whole, Types, TransfersAreServed
  <2>2. CASE ~FullSnapshot(sync.records)
    BY <1>10, <2>2, DaemonWhole DEF Publish, Finish, primaryVars
  <2> QED
    BY <2>1, <2>2
<1>11. CASE Inspect \/ SyncFails
  BY <1>11, DaemonWhole DEF Inspect, SyncFails, Finish, primaryVars
<1>12. CASE Restart
  BY <1>12, DaemonWhole DEF Restart, primaryVars
<1>13. CASE UNCHANGED vars
  BY <1>13, DaemonWhole DEF vars
<1> QED
  BY <1>1, <1>2, <1>3, <1>4, <1>5, <1>6, <1>7, <1>8, <1>9, <1>10, <1>11,
    <1>12, <1>13
  DEF Next, SyncStep

LEMMA AlwaysWhole == Spec => []Whole
BY InitWhole, WholeStep, PTL DEF Spec

(* Every snapshot of the secondary is a whole version that the primary     *)
(* served: a failed or truncated transfer leaves the last good one.        *)
THEOREM SnapshotsStayWhole == Spec => []SnapshotsAreWhole
<1>1. Whole => SnapshotsAreWhole
  BY DEF Whole
<1> QED
  BY <1>1, AlwaysWhole, PTL

-----------------------------------------------------------------------------
(* Loops                                                                   *)

LEMMA LeastNumber ==
  ASSUME NEW T, T \subseteq Nat, T # {}
  PROVE  \E m \in T : \A k \in T : m <= k
<1> DEFINE R == {p \in Nat \X Nat : p[1] < p[2]}
<1>1. IsWellFoundedOn(R, Nat)
  BY NatLessThanWellFounded DEF OpToRel
<1>2. \E m \in T : \A k \in T : ~(<<k, m>> \in R)
  <2> HIDE DEF R
  <2>1. QED
    BY <1>1, WFMin
<1>3. PICK m \in T : \A k \in T : ~(<<k, m>> \in R)
  BY <1>2
<1>4. ASSUME NEW k \in T
      PROVE  m <= k
  <2>1. ~(<<k, m>> \in R)
    BY <1>3
  <2>2. <<k, m>> \in Nat \X Nat /\ k \in Nat /\ m \in Nat
    OBVIOUS
  <2>3. ~(k < m)
    BY <2>1, <2>2
  <2>4. QED
    BY <2>2, <2>3
<1>5. QED
  BY <1>4

(* Induction on a set of numbers instead of a predicate. *)
LEMMA SetInduction ==
  ASSUME NEW S, 0 \in S, \A n \in Nat : n \in S => n + 1 \in S
  PROVE  Nat \subseteq S
<1> SUFFICES ASSUME Nat \ S # {} PROVE FALSE
  OBVIOUS
<1>1. PICK m \in Nat \ S : \A k \in Nat \ S : m <= k
  BY LeastNumber
<1>2. m # 0 /\ m - 1 \in Nat /\ m - 1 \in S
  BY <1>1
<1>3. m - 1 + 1 \in S /\ m - 1 + 1 = m
  BY <1>2
<1>4. QED
  BY <1>1, <1>3

(* What every turn of a loop keeps holds at its end. *)
LEMMA LoopKeeps ==
  ASSUME NEW T, NEW N \in Nat, NEW F, F[0] \in T,
         \A i \in 1..N : F[i - 1] \in T => F[i] \in T
  PROVE  \A i \in 0..N : F[i] \in T
<1> DEFINE S == {n \in Nat : n <= N => F[n] \in T}
<1>1. 0 \in S
  OBVIOUS
<1>2. ASSUME NEW n \in Nat, n \in S
      PROVE  n + 1 \in S
  <2> SUFFICES ASSUME n + 1 <= N PROVE F[n + 1] \in T
    OBVIOUS
  <2>1. n + 1 \in 1..N /\ n + 1 - 1 = n /\ F[n] \in T
    BY <1>2
  <2>2. QED
    BY <2>1
<1>3. Nat \subseteq S
  <2> HIDE DEF S
  <2>1. QED
    BY <1>1, <1>2, SetInduction
<1>4. QED
  BY <1>3

(* The states of a loop of N turns, from q on. *)
Looped(f, T, N, q, step) ==
  f \in [0..N -> T] /\ f[0] = q /\ \A i \in 1..N : f[i] = step[i][f[i - 1]]

(* A loop whose turns lead from T to T runs to its end. *)
LEMMA LoopRuns ==
  ASSUME NEW T, NEW N \in Nat, NEW q \in T, NEW step \in [1..N -> [T -> T]]
  PROVE  \E f : Looped(f, T, N, q, step)
<1> DEFINE Grows(f, n) == f[0] = q /\ \A i \in 1..n : f[i] = step[i][f[i - 1]]
           Runs(n) == n <= N => \E f \in [0..n -> T] : Grows(f, n)
<1>1. Runs(0)
  <2> DEFINE f == [i \in 0..0 |-> q]
  <2>1. f \in [0..0 -> T] /\ Grows(f, 0)
    OBVIOUS
  <2>2. QED
    BY <2>1
<1>2. ASSUME NEW n \in Nat, Runs(n)
      PROVE  Runs(n + 1)
  <2> SUFFICES ASSUME n + 1 <= N
               PROVE  \E f \in [0..n + 1 -> T] : Grows(f, n + 1)
    OBVIOUS
  <2>1. n <= N /\ n + 1 \in 1..N
    OBVIOUS
  <2>2. PICK f \in [0..n -> T] : Grows(f, n)
    BY <1>2, <2>1
  <2> DEFINE next == step[n + 1][f[n]]
             g == [i \in 0..n + 1 |-> IF i = n + 1 THEN next ELSE f[i]]
  <2>3. next \in T
    <3>1. step[n + 1] \in [T -> T] /\ f[n] \in T
      BY <2>1
    <3>2. QED
      BY <3>1
  <2> HIDE DEF next
  <2>4. g \in [0..n + 1 -> T]
    BY <2>3
  <2>5. g[n + 1] = next /\ \A i \in 0..n : g[i] = f[i]
    OBVIOUS
  <2> HIDE DEF g
  <2>6. ASSUME NEW i \in 1..n + 1
        PROVE  g[i] = step[i][g[i - 1]]
    <3>1. i - 1 \in 0..n /\ g[i - 1] = f[i - 1]
      BY <2>5
    <3>2. CASE i = n + 1
      BY <2>5, <3>1, <3>2 DEF next
    <3>3. CASE i # n + 1
      <4>1. i \in 1..n /\ i \in 0..n
        BY <3>3
      <4>2. QED
        BY <2>2, <2>5, <3>1, <4>1
    <3>4. QED
      BY <3>2, <3>3
  <2>7. Grows(g, n + 1)
    BY <2>2, <2>5, <2>6
  <2>8. QED
    BY <2>4, <2>7
<1>3. \A n \in Nat : Runs(n)
  <2> HIDE DEF Runs
  <2> DEFINE S == {n \in Nat : Runs(n)}
  <2>1. 0 \in S /\ \A n \in Nat : n \in S => n + 1 \in S
    BY <1>1, <1>2
  <2> HIDE DEF S
  <2>2. Nat \subseteq S
    BY <2>1, SetInduction
  <2>3. QED
    BY <2>2 DEF S
<1>4. Runs(N)
  <2> HIDE DEF Runs
  <2>1. QED
    BY <1>3
<1>5. QED
  BY <1>4 DEF Looped

-----------------------------------------------------------------------------
(* The trigger channel                                                     *)

Queues == {q \in Seq(Zones) : Len(q) <= Capacity}

LEMMA CapacityIsNat == Capacity \in Nat
<1>1. ZoneOrder \in Seq(Zones) /\ Len(ZoneOrder) \in Nat
      /\ DOMAIN ZoneOrder = 1..Len(ZoneOrder)
  BY ConstantsAssumption
<1>2. ZoneOrder \in Surjection(1..Len(ZoneOrder), Zones)
  BY <1>1 DEF Surjection, Zones
<1>3. IsFiniteSet(Zones)
  BY <1>1, <1>2, FS_Interval, FS_Surjection
<1>4. IsFiniteSet(Configured)
  BY <1>3, ConstantsAssumption, FS_Subset
<1>5. Cardinality(Configured) \in Nat
  BY <1>4, FS_CardinalityType
<1>6. QED
  BY <1>5 DEF Capacity

(* A full channel drops the zone. *)
LEMMA QueuedFits ==
  ASSUME NEW q \in Queues, NEW z \in Zones
  PROVE  Queued(q, z) \in Queues
BY CapacityIsNat DEF Queues, Queued

LEMMA QueuedAllFits ==
  ASSUME NEW q \in Queues, NEW zones
  PROVE  QueuedAll(q, zones) \in Queues
<1> DEFINE N == Len(ZoneOrder)
           Turn(i, s) == IF ZoneOrder[i] \in zones THEN Queued(s, ZoneOrder[i]) ELSE s
           step == [i \in 1..N |-> [s \in Queues |-> Turn(i, s)]]
           Is(h) == h = [i \in 0..N |-> IF i = 0 THEN q ELSE Turn(i, h[i - 1])]
           F == CHOOSE h : Is(h)
<1>1. N \in Nat /\ \A i \in 1..N : ZoneOrder[i] \in Zones
  BY ConstantsAssumption
<1>2. \A i \in 1..N : \A s \in Queues : Turn(i, s) \in Queues
  BY <1>1, QueuedFits
<1>a. QueuedAll(q, zones) = F[N]
  BY Zenon DEF QueuedAll
<1> HIDE DEF Turn
<1>3. step \in [1..N -> [Queues -> Queues]]
  BY <1>2
<1>4. \A i \in 1..N : \A s \in Queues : step[i][s] = Turn(i, s)
  OBVIOUS
<1> HIDE DEF step, N
<1>5. PICK f : Looped(f, Queues, N, q, step)
  BY <1>1, <1>3, LoopRuns
<1>5a. f \in [0..N -> Queues] /\ f[0] = q /\ \A i \in 1..N : f[i] = step[i][f[i - 1]]
  BY <1>5 DEF Looped
<1>6. Is(f)
  <2>1. ASSUME NEW i \in 0..N
        PROVE  f[i] = IF i = 0 THEN q ELSE Turn(i, f[i - 1])
    <3>1. CASE i # 0
      <4>1. i \in 1..N /\ i - 1 \in 0..N
        BY <1>1, <3>1
      <4>2. QED
        BY <1>4, <1>5a, <3>1, <4>1
    <3>2. QED
      BY <1>5a, <3>1
  <2>2. f = [i \in 0..N |-> f[i]]
    BY <1>5a
  <2>3. QED
    BY <2>1, <2>2
<1>7. Is(F)
  <2> HIDE DEF Is
  <2>1. QED
    BY <1>6
<1> HIDE DEF F
<1>8. F[0] = q /\ \A i \in 1..N : F[i] = Turn(i, F[i - 1])
  <2> DEFINE G == [i \in 0..N |-> IF i = 0 THEN q ELSE Turn(i, F[i - 1])]
  <2>1. G[0] = q /\ \A i \in 1..N : G[i] = Turn(i, F[i - 1])
    BY <1>1
  <2>2. F = G
    BY <1>7
  <2> HIDE DEF G
  <2>3. QED
    BY <2>1, <2>2
<1>9. \A i \in 0..N : F[i] \in Queues
  <2>1. \A i \in 1..N : F[i - 1] \in Queues => F[i] \in Queues
    BY <1>2, <1>8
  <2>2. QED
    BY <1>1, <1>8, <2>1, LoopKeeps
<1>10. QED
  BY <1>1, <1>9, <1>a

-----------------------------------------------------------------------------
(* Types                                                                   *)

LEMMA InitTypeOK == Init => TypeOK
<1> SUFFICES ASSUME Init PROVE TypeOK
  OBVIOUS
<1>1. Whole
  BY InitWhole
<1>2. queue \in Queues
  <2>1. <<>> \in Queues
    BY CapacityIsNat DEF Queues
  <2>2. QED
    BY <2>1, QueuedAllFits DEF Init
<1>3. Configured \subseteq known /\ known \subseteq Zones
  BY ConstantsAssumption DEF Init, StartZones
<1>4. faults \in 0..MaxFaults
  BY ConstantsAssumption DEF Init
<1>5. QED
  BY <1>1, <1>2, <1>3, <1>4 DEF Init, TypeOK, Whole, Types, Queues

(* What a step may do to the state of the daemon. *)
LEMMA DaemonTypes ==
  ASSUME TypeOK, Whole', notices' \subseteq Zones, queue' \in Queues,
         Configured \subseteq known', known' \subseteq Zones,
         armed' \subseteq errors', errors' \subseteq Zones,
         sync' \in Syncing \cup {Idle}, faults' = faults \/ Fault
  PROVE  TypeOK'
<1>1. faults' \in 0..MaxFaults
  BY ConstantsAssumption DEF TypeOK, Fault
<1>2. QED
  BY <1>1 DEF TypeOK, Whole, Types, Queues

LEMMA FinishTypes ==
  ASSUME TypeOK, sync \in Syncing, NEW failed, Finish(failed)
  PROVE  armed' \subseteq errors' /\ errors' \subseteq Zones /\ sync' = Idle
BY DEF TypeOK, Finish, Syncing

LEMMA GotoTypes ==
  ASSUME TypeOK, sync \in Syncing,
         NEW step \in {"probe", "remove", "transfer", "publish", "inspect"}, Goto(step)
  PROVE  armed' \subseteq errors' /\ errors' \subseteq Zones /\ sync' \in Syncing
BY DEF TypeOK, Goto, Syncing

LEMMA NextTypeOK ==
  ASSUME TypeOK, Whole, [Next]_vars
  PROVE  TypeOK'
<1>0. /\ Whole' /\ queue \in Queues /\ sync \in Syncing \cup {Idle}
      /\ notices \subseteq Zones
      /\ Configured \subseteq known /\ known \subseteq Zones
      /\ armed \subseteq errors /\ errors \subseteq Zones
  BY WholeStep DEF TypeOK, Queues
<1>r. sync.pc # "idle" => sync \in Syncing
  BY <1>0 DEF Idle
<1>1. ASSUME NEW z \in Zones,
             \/ \E data \in Data : PrimaryChange(z, data)
             \/ PrimaryVerified(z) \/ PrimaryRestores(z) \/ PrimaryDeletes(z)
             \/ NotifyLost(z)
      PROVE  TypeOK'
  <2>1. UNCHANGED <<known, queue, armed, errors, sync>>
    BY <1>1 DEF PrimaryChange, PrimaryVerified, PrimaryRestores, PrimaryDeletes, NotifyLost
  <2>2. notices' \subseteq Zones
    BY <1>0, <1>1 DEF PrimaryChange, PrimaryVerified, PrimaryRestores, PrimaryDeletes,
       NotifyLost
  <2>3. faults' = faults \/ Fault
    BY <1>1 DEF PrimaryChange, PrimaryVerified, PrimaryRestores, PrimaryDeletes, NotifyLost
  <2>4. QED
    BY <1>0, <2>1, <2>2, <2>3, DaemonTypes
<1>2. ASSUME NEW z \in Zones, HandleNotify(z)
      PROVE  TypeOK'
  <2>1. Queued(queue, z) \in Queues
    BY <1>0, QueuedFits
  <2>2. /\ known' = known \/ known' = known \cup {z}
        /\ queue' = queue \/ queue' = Queued(queue, z)
        /\ notices' = notices \ {z}
        /\ UNCHANGED <<armed, errors, sync, faults>>
    BY <1>2 DEF HandleNotify
  <2>3. queue' \in Queues
    BY <1>0, <2>1, <2>2
  <2>4. QED
    BY <1>0, <2>2, <2>3, DaemonTypes
<1>3. ASSUME NEW z \in Zones, RetryFires(z)
      PROVE  TypeOK'
  <2>1. Queued(queue, z) \in Queues
    BY <1>0, QueuedFits
  <2>2. QED
    BY <1>0, <1>3, <2>1, DaemonTypes DEF RetryFires
<1>4. CASE Tick \/ LateTick
  <2>1. QueuedAll(queue, known) \in Queues
    BY <1>0, QueuedAllFits
  <2>2. QED
    BY <1>0, <1>4, <2>1, DaemonTypes DEF Tick, LateTick
<1>5. CASE TakeZone
  <2>1. queue # <<>> /\ Head(queue) \in Zones /\ Tail(queue) \in Queues
    BY <1>0, <1>5, CapacityIsNat DEF TakeZone, Queues
  <2>2. ReadSerial(Head(queue)) \in Serials
    BY <2>1, ConstantsAssumption DEF ReadSerial, TypeOK, Records, Serials
  <2>3. sync' \in Syncing
    BY <1>5, <2>1, <2>2 DEF TakeZone, Syncing
  <2>4. QED
    BY <1>0, <1>5, <2>1, <2>3, DaemonTypes DEF TakeZone
<1>6. CASE Probe
  <2>1. sync \in Syncing
    BY <1>6, <1>r DEF Probe
  <2>2. Finish(TRUE) \/ Goto("remove") \/ Goto("transfer") \/ Goto("inspect")
    BY <1>6 DEF Probe
  <2>3. armed' \subseteq errors' /\ errors' \subseteq Zones /\ sync' \in Syncing \cup {Idle}
    BY <2>1, <2>2, FinishTypes, GotoTypes
  <2>4. UNCHANGED <<notices, known, queue, faults>>
    BY <1>6 DEF Probe
  <2>5. QED
    BY <1>0, <2>3, <2>4, DaemonTypes
<1>7. CASE Remove \/ Inspect \/ SyncFails
  <2>1. sync \in Syncing
    BY <1>0, <1>7, <1>r DEF Remove, Inspect, SyncFails
  <2>2. \E failed : Finish(failed)
    BY <1>7 DEF Remove, Inspect, SyncFails
  <2>3. armed' \subseteq errors' /\ errors' \subseteq Zones /\ sync' \in Syncing \cup {Idle}
    BY <2>1, <2>2, FinishTypes
  <2>4. UNCHANGED <<notices, known, queue>> /\ (faults' = faults \/ Fault)
    BY <1>7 DEF Remove, Inspect, SyncFails
  <2>5. QED
    BY <1>0, <2>3, <2>4, DaemonTypes
<1>8. CASE Transfer \/ TransferCut
  <2>1. sync \in Syncing /\ sync.zone \in Zones
    BY <1>8, <1>r DEF Transfer, TransferCut, Syncing
  <2>2. UNCHANGED <<notices, known, queue>> /\ (faults' = faults \/ Fault)
    BY <1>8 DEF Transfer, TransferCut
  <2>3. CASE Finish(TRUE)
    BY <1>0, <2>1, <2>2, <2>3, FinishTypes, DaemonTypes
  <2>4. CASE primary[sync.zone] # None /\ UNCHANGED <<armed, errors>>
             /\ \E records : /\ sync' = [sync EXCEPT !.pc = "publish", !.records = records]
                             /\ \/ records = primary[sync.zone]
                                \/ records = [serial |-> primary[sync.zone].serial,
                                              data |-> Cut]
    <3>1. primary[sync.zone] \in Version
      BY <2>1, <2>4 DEF TypeOK
    <3>2. PICK records : /\ sync' = [sync EXCEPT !.pc = "publish", !.records = records]
                         /\ \/ records = primary[sync.zone]
                            \/ records = [serial |-> primary[sync.zone].serial, data |-> Cut]
      BY <2>4
    <3>3. records \in Records
      BY <3>1, <3>2 DEF Version, Records
    <3>4. sync' \in Syncing
      BY <2>1, <3>2, <3>3 DEF Syncing
    <3>5. QED
      BY <1>0, <2>2, <2>4, <3>4, DaemonTypes
  <2>5. QED
    BY <1>8, <2>3, <2>4 DEF Transfer, TransferCut
<1>9. CASE Publish
  <2>1. sync \in Syncing
    BY <1>9, <1>r DEF Publish
  <2>2. Finish(TRUE) \/ Goto("inspect")
    BY <1>9 DEF Publish
  <2>3. armed' \subseteq errors' /\ errors' \subseteq Zones /\ sync' \in Syncing \cup {Idle}
    BY <2>1, <2>2, FinishTypes, GotoTypes
  <2>4. UNCHANGED <<notices, known, queue, faults>>
    BY <1>9 DEF Publish
  <2>5. QED
    BY <1>0, <2>3, <2>4, DaemonTypes
<1>10. CASE Restart
  <2>1. <<>> \in Queues
    BY CapacityIsNat DEF Queues
  <2>2. QueuedAll(<<>>, StartZones) \in Queues
    BY <2>1, QueuedAllFits
  <2>3. Configured \subseteq StartZones /\ StartZones \subseteq Zones
    BY ConstantsAssumption DEF StartZones
  <2>4. QED
    BY <1>0, <1>10, <2>2, <2>3, DaemonTypes DEF Restart
<1>11. CASE UNCHANGED vars
  BY <1>0, <1>11, DaemonTypes DEF vars
<1>12. QED
  BY <1>1, <1>2, <1>3, <1>4, <1>5, <1>6, <1>7, <1>8, <1>9, <1>10, <1>11
     DEF Next, SyncStep

(* The trigger channel never holds more than its capacity, whatever the    *)
(* order of NOTIFY, polls and retry timers and however many zones are      *)
(* discovered, and a retry timer runs only for a zone in error (queue,     *)
(* Run, scheduleRetry).                                                    *)
THEOREM TypeCorrect == Spec => []TypeOK
<1>1. TypeOK /\ Whole /\ [Next]_vars => TypeOK'
  BY NextTypeOK
<1>2. QED
  BY <1>1, InitTypeOK, AlwaysWhole, PTL DEF Spec
=============================================================================
