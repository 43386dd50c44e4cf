--------------------------- MODULE BlocklistProofs ---------------------------
(* Proofs about Blocklist, for any number of clients, updates and faults. *)
EXTENDS Blocklist, TLAPS

(* Only an update that has files left to write holds the mutex, and it     *)
(* holds the configuration to write (Update keeps the mutex to its end).   *)
UpdatesHoldLock ==
  \A c \in Clients :
    todo[c] # Written => mu = c /\ todo[c].next \in Config

(* What the refresh program holds at each point: a whole configuration     *)
(* when it writes files or publishes, the earlier status when it has to    *)
(* report a failure.  On the primary it never writes configuration files.  *)
RefreshCoherent(n) ==
  LET r == refresh[n]  IN
  /\ r.pc \in {"sync", "publish", "status"} => r.config \in Config
  /\ r.pc \in {"fetch", "sync"} => n = "standby"
  /\ r.pc = "fail" => r.previous \in Status

(* Every refresh under way knows the status it started from. *)
KnowsPrevious(n) == refresh[n] # Idle => refresh[n].previous \in Status

IInv ==
  /\ TypeOK
  /\ UpdatesHoldLock
  /\ NoLostUpdate
  /\ \A n \in Nodes : RefreshCoherent(n) /\ KnowsPrevious(n)

(* A configuration whose three files have been read is a configuration. *)
LEMMA CompleteIsConfig ==
  ASSUME NEW p \in Partial, Complete(p)
  PROVE  p \in Config
BY DEF Partial, Complete, Config

(* Reading one more file keeps a partly read configuration well typed. *)
LEMMA ReadingIsPartial ==
  ASSUME NEW p \in Partial, NEW f \in Files, NEW v \in Values
  PROVE  [p EXCEPT ![f] = v] \in Partial
BY DEF Partial

LEMMA FilesRead ==
  ASSUME NEW p
  PROVE  NextToRead(p) \in Files /\ NextToMerge(p) \in Files
BY DEF NextToRead, NextToMerge, Files

LEMMA PrimaryNotStandby == "primary" # "standby"
OBVIOUS

LEMMA InitIInv == Init => IInv
<1> SUFFICES ASSUME Init PROVE IInv
  OBVIOUS
<1> USE ConstantsAssumption
<1>1. TypeOK
  BY DEF Init, TypeOK, Status, Written, Idle, Unread, Partial
<1>2. UpdatesHoldLock /\ NoLostUpdate
  BY DEF Init, UpdatesHoldLock, NoLostUpdate, Written
<1>3. \A n \in Nodes : RefreshCoherent(n) /\ KnowsPrevious(n)
  BY DEF Init, RefreshCoherent, KnowsPrevious, Idle
<1>4. QED
  BY <1>1, <1>2, <1>3 DEF IInv

(* The steps of the API on the primary. *)
LEMMA ClientSteps ==
  ASSUME IInv, NEW c \in Clients,
         \/ GetFile(c)
         \/ \E next \in Configs : UpdateStart(c, next)
         \/ \E f \in Files : UpdateFile(c, f)
         \/ UpdateFails(c)
  PROVE  IInv'
<1> USE ConstantsAssumption DEF IInv
<1>1. CASE GetFile(c)
  <2> DEFINE before == IF Complete(reader[c]) THEN Unread ELSE reader[c]
             f      == NextToRead(before)
             read   == [before EXCEPT ![f] = files["primary"][f]]
  <2>1. before \in Partial
    BY DEF TypeOK, Unread, Partial
  <2>2. f \in Files /\ files["primary"][f] \in Values
    BY FilesRead DEF TypeOK, Config
  <2>3. read \in Partial
    BY <2>1, <2>2, ReadingIsPartial
  <2>4. /\ todo[c] = Written
        /\ reader' = [reader EXCEPT ![c] = read]
        /\ UNCHANGED <<files, merged, status, mu, todo, refresh, updates, faults>>
    BY <1>1 DEF GetFile
  <2> HIDE DEF before, f, read
  <2>5. TypeOK'
    BY <2>3, <2>4 DEF TypeOK
  <2>6. UpdatesHoldLock' /\ NoLostUpdate'
    <3>1. UpdatesHoldLock'
      BY <2>4 DEF UpdatesHoldLock
    <3>2. \A d \in Clients : d # c => reader'[d] = reader[d]
      BY <2>4 DEF TypeOK
    <3>3. todo[c].left = {}
      BY <2>4 DEF Written
    <3>4. QED
      BY <2>4, <3>1, <3>2, <3>3 DEF NoLostUpdate
  <2>7. \A n \in Nodes : RefreshCoherent(n)' /\ KnowsPrevious(n)'
    BY <2>4 DEF RefreshCoherent, KnowsPrevious
  <2>8. QED
    BY <2>5, <2>6, <2>7
<1>2. ASSUME NEW next \in Configs, UpdateStart(c, next)
      PROVE  IInv'
  <2>1. next \in Config
    OBVIOUS
  <2>2. TypeOK'
    BY <1>2, <2>1 DEF UpdateStart, TypeOK, Written
  <2>3. \A d \in Clients : todo[d] = Written
    BY <1>2 DEF UpdateStart, UpdatesHoldLock
  <2>4. UpdatesHoldLock'
    BY <1>2, <2>1, <2>3 DEF UpdateStart, UpdatesHoldLock, TypeOK
  <2>5. NoLostUpdate'
    BY <1>2, <2>3 DEF UpdateStart, NoLostUpdate, TypeOK, Written
  <2>6. \A n \in Nodes : RefreshCoherent(n)' /\ KnowsPrevious(n)'
    BY <1>2 DEF UpdateStart, RefreshCoherent, KnowsPrevious
  <2>7. QED
    BY <2>2, <2>4, <2>5, <2>6
<1>3. ASSUME NEW f \in Files, UpdateFile(c, f)
      PROVE  IInv'
  <2>1. todo[c] # Written
    BY <1>3 DEF UpdateFile, Written
  <2>2. mu = c /\ todo[c].next \in Config /\ todo[c].next[f] \in Values
    BY <2>1 DEF UpdatesHoldLock, Config
  <2>3. \A d \in Clients : d # c => todo[d] = Written
    BY <2>2 DEF UpdatesHoldLock
  <2>4. TypeOK'
    <3>1. files' \in [Nodes -> Config]
      BY <1>3, <2>2 DEF UpdateFile, TypeOK, Config
    <3>2. todo' \in [Clients -> [left : SUBSET Files, next : Config \cup {None}]]
      BY <1>3 DEF UpdateFile, TypeOK, Written
    <3>3. mu' \in Clients \cup {None}
      BY <1>3 DEF UpdateFile, TypeOK
    <3>4. reader' \in [Clients -> Partial]
      BY <1>3 DEF UpdateFile, TypeOK, Unread, Partial
    <3>5. QED
      BY <1>3, <3>1, <3>2, <3>3, <3>4 DEF UpdateFile, TypeOK
  <2>5. UpdatesHoldLock'
    <3>1. ASSUME NEW d \in Clients, d # c
          PROVE  todo'[d] = Written
      BY <1>3, <2>3, <3>1 DEF UpdateFile, TypeOK
    <3>2. ASSUME todo'[c] # Written
          PROVE  mu' = mu /\ todo'[c].next = todo[c].next
      <4> DEFINE left == todo[c].left \ {f}
      <4>1. todo'[c] = IF left = {} THEN Written ELSE [todo[c] EXCEPT !.left = left]
        BY <1>3 DEF UpdateFile, TypeOK
      <4>2. left # {}
        BY <3>2, <4>1
      <4>3. mu' = mu
        BY <1>3, <4>2 DEF UpdateFile
      <4>4. todo[c] = [left |-> todo[c].left, next |-> todo[c].next]
        BY DEF TypeOK
      <4>5. QED
        BY <4>1, <4>2, <4>3, <4>4
    <3>3. QED
      BY <2>2, <3>1, <3>2 DEF UpdatesHoldLock
  <2>6. NoLostUpdate'
    <3>1. \A g \in Files : g # f => files'["primary"][g] = files["primary"][g]
      BY <1>3 DEF UpdateFile, TypeOK, Config
    <3>2. f \notin todo'[c].left /\ todo'[c].left \subseteq todo[c].left
      BY <1>3 DEF UpdateFile, TypeOK, Written
    <3>3. \A d \in Clients : d # c => todo'[d].left = {}
      BY <1>3, <2>3 DEF UpdateFile, TypeOK, Written
    <3>4. todo'[c].left # {} => reader' = reader
      BY <1>3 DEF UpdateFile, TypeOK, Written
    <3>5. QED
      BY <3>1, <3>2, <3>3, <3>4 DEF NoLostUpdate
  <2>7. \A n \in Nodes : RefreshCoherent(n)' /\ KnowsPrevious(n)'
    BY <1>3 DEF UpdateFile, RefreshCoherent, KnowsPrevious
  <2>8. QED
    BY <2>4, <2>5, <2>6, <2>7
<1>4. CASE UpdateFails(c)
  <2>1. TypeOK'
    BY <1>4 DEF UpdateFails, Fault, TypeOK, Written, Unread, Partial
  <2>2. \A d \in Clients : d # c => todo[d] = Written
    BY <1>4 DEF UpdateFails, UpdatesHoldLock
  <2>3. UpdatesHoldLock' /\ NoLostUpdate'
    BY <1>4, <2>2 DEF UpdateFails, UpdatesHoldLock, NoLostUpdate, TypeOK, Written
  <2>4. \A n \in Nodes : RefreshCoherent(n)' /\ KnowsPrevious(n)'
    BY <1>4 DEF UpdateFails, RefreshCoherent, KnowsPrevious
  <2>5. QED
    BY <2>1, <2>3, <2>4
<1>5. QED
  BY <1>1, <1>2, <1>3, <1>4

(* What a step of the refresh program of one node may change. *)
LEMMA RefreshFrame ==
  ASSUME IInv, NEW n \in Nodes,
         UNCHANGED <<mu, todo, reader, updates>>,
         faults' \in 0..MaxFaults,
         \A f \in Files : files'["primary"][f] = files["primary"][f],
         files' \in [Nodes -> Config],
         merged' \in [Nodes -> Config \cup {None}],
         status' \in [Nodes -> Status],
         NEW r \in [pc : {"idle", "fetch", "sync", "read", "publish",
                          "status", "fail"},
                    config : Partial, left : SUBSET Files,
                    previous : Status \cup {None},
                 before : Config \cup {None}],
         refresh' = [refresh EXCEPT ![n] = r],
         r.pc \in {"sync", "publish", "status"} => r.config \in Config,
         r.pc \in {"fetch", "sync"} => n = "standby",
         r # Idle => r.previous \in Status
  PROVE  IInv'
<1> USE DEF IInv
<1>1. TypeOK'
  BY DEF TypeOK
<1>2. UpdatesHoldLock'
  BY DEF UpdatesHoldLock
<1>3. NoLostUpdate'
  BY DEF NoLostUpdate
<1>4. ASSUME NEW m \in Nodes
      PROVE  RefreshCoherent(m)' /\ KnowsPrevious(m)'
  <2>1. CASE m # n
    BY <2>1 DEF RefreshCoherent, KnowsPrevious, TypeOK
  <2>2. CASE m = n
    BY <2>2 DEF RefreshCoherent, KnowsPrevious, TypeOK, Idle
  <2>3. QED
    BY <2>1, <2>2
<1>5. QED
  BY <1>1, <1>2, <1>3, <1>4

LEMMA RefreshSteps ==
  ASSUME IInv, NEW n \in Refreshers,
         RefreshStep(n) \/ RefreshFails(n) \/ RefreshDies(n)
  PROVE  IInv'
<1> DEFINE R == [pc : {"idle", "fetch", "sync", "read", "publish", "status",
                       "fail"},
                 config : Partial, left : SUBSET Files,
                 previous : Status \cup {None},
                 before : Config \cup {None}]
<1>0. /\ n \in Nodes /\ refresh[n] \in R /\ files \in [Nodes -> Config]
      /\ merged \in [Nodes -> Config \cup {None}]
      /\ status \in [Nodes -> Status] /\ faults \in 0..MaxFaults
      /\ "primary" \in Nodes
      /\ n # "primary" => n = "standby"
  BY ConstantsAssumption DEF IInv, TypeOK
<1>i. Idle \in R /\ Unread \in Partial
  BY DEF Idle, Unread, Partial
<1>k. RefreshCoherent(n) /\ KnowsPrevious(n)
  BY <1>0 DEF IInv
<1>1. CASE RefreshStart(n)
  <2> DEFINE r == [pc |-> IF n = "standby" THEN "fetch" ELSE "read",
                   config |-> Unread, left |-> {}, previous |-> status[n],
                   before |-> merged[n]]
  <2>1. r \in R /\ r.previous \in Status
    BY <1>0, <1>i
  <2>2. r.pc \in {"fetch", "sync"} => n = "standby"
    OBVIOUS
  <2>3. r.pc \notin {"sync", "publish", "status"}
    OBVIOUS
  <2>4. refresh' = [refresh EXCEPT ![n] = r]
    BY <1>1 DEF RefreshStart
  <2>5. UNCHANGED <<files, merged, status, mu, todo, reader, updates, faults>>
    BY <1>1 DEF RefreshStart
  <2> HIDE DEF r
  <2>6. QED
    BY <1>0, <2>1, <2>2, <2>3, <2>4, <2>5, RefreshFrame
<1>2. CASE FetchFile(n)
  <2> DEFINE f    == NextToRead(refresh[n].config)
             read == [refresh[n].config EXCEPT ![f] = files["primary"][f]]
             r    == [refresh[n] EXCEPT
                        !.config = read,
                        !.pc = IF Complete(read) THEN "sync" ELSE "fetch",
                        !.left = IF Complete(read) THEN Files ELSE {}]
  <2>1. f \in Files /\ files["primary"][f] \in Values
    BY <1>0, FilesRead DEF Config
  <2>2. read \in Partial
    BY <1>0, <2>1, ReadingIsPartial
  <2>3. Complete(read) => read \in Config
    BY <2>2, CompleteIsConfig
  <2>3a. refresh[n].pc = "fetch"
         /\ UNCHANGED <<files, merged, status, mu, todo, reader, updates, faults>>
    BY <1>2 DEF FetchFile
  <2>4. refresh' = [refresh EXCEPT ![n] = r]
    BY <1>2, <1>0 DEF FetchFile, IInv, TypeOK
  <2> HIDE DEF f, read
  <2>5. r \in R /\ r.previous = refresh[n].previous
    BY <1>0, <2>2
  <2>6. r.pc \in {"sync", "publish", "status"} => r.config \in Config
    BY <1>0, <2>3
  <2>7. n = "standby" /\ refresh[n].previous \in Status
    BY <2>3a, <1>k DEF RefreshCoherent, KnowsPrevious, Idle
  <2> HIDE DEF r
  <2>8. QED
    BY <1>0, <2>3a, <2>4, <2>5, <2>6, <2>7, RefreshFrame
<1>3. ASSUME NEW f \in Files, SyncFile(n, f)
      PROVE  IInv'
  <2> DEFINE left == refresh[n].left \ {f}
             r    == [refresh[n] EXCEPT
                        !.left = left,
                        !.pc = IF left = {} THEN "read" ELSE "sync",
                        !.config = IF left = {} THEN Unread ELSE @]
  <2>1. /\ refresh[n].pc = "sync"
        /\ files' = [files EXCEPT ![n][f] = refresh[n].config[f]]
        /\ UNCHANGED <<merged, status, mu, todo, reader, updates, faults>>
    BY <1>3 DEF SyncFile
  <2>2. n = "standby" /\ refresh[n].config \in Config /\ refresh[n].previous \in Status
    BY <2>1, <1>k DEF RefreshCoherent, KnowsPrevious, Idle
  <2>3. refresh' = [refresh EXCEPT ![n] = r]
    BY <1>3, <1>0 DEF SyncFile, IInv, TypeOK
  <2>4. refresh[n].config[f] \in Values
    BY <2>2 DEF Config
  <2>5. files' \in [Nodes -> Config] /\ files'["primary"] = files["primary"]
    BY <1>0, <2>1, <2>2, <2>4, PrimaryNotStandby DEF Config
  <2>6. r \in R /\ r.previous = refresh[n].previous
    BY <1>0, <1>i
  <2>7. r.pc \in {"sync", "publish", "status"} => r.config \in Config
    BY <1>0, <2>2
  <2> HIDE DEF r
  <2>8. QED
    BY <1>0, <2>1, <2>2, <2>3, <2>5, <2>6, <2>7, RefreshFrame
<1>4. CASE MergeFile(n)
  <2> DEFINE f    == NextToMerge(refresh[n].config)
             read == [refresh[n].config EXCEPT ![f] = files[n][f]]
             r    == [refresh[n] EXCEPT
                        !.config = read,
                        !.pc = IF Complete(read) THEN "publish" ELSE "read"]
  <2>1. f \in Files /\ files[n][f] \in Values
    BY <1>0, FilesRead DEF Config
  <2>2. read \in Partial
    BY <1>0, <2>1, ReadingIsPartial
  <2>3. Complete(read) => read \in Config
    BY <2>2, CompleteIsConfig
  <2>4. refresh[n].pc = "read"
        /\ UNCHANGED <<files, merged, status, mu, todo, reader, updates, faults>>
    BY <1>4 DEF MergeFile
  <2>5. refresh' = [refresh EXCEPT ![n] = r]
    BY <1>4, <1>0 DEF MergeFile, IInv, TypeOK
  <2> HIDE DEF f, read
  <2>6. r \in R /\ r.previous = refresh[n].previous
    BY <1>0, <2>2
  <2>7. r.pc \in {"sync", "publish", "status"} => r.config \in Config
    BY <1>0, <2>3
  <2>8. r.pc \notin {"fetch", "sync"}
    BY <1>0
  <2>9. refresh[n].previous \in Status
    BY <2>4, <1>k DEF KnowsPrevious, Idle
  <2> HIDE DEF r
  <2>10. QED
    BY <1>0, <2>4, <2>5, <2>6, <2>7, <2>8, <2>9, RefreshFrame
<1>5. CASE Publish(n)
  <2> DEFINE r == [refresh[n] EXCEPT !.pc = "status"]
  <2>1. refresh[n].pc = "publish"
        /\ merged' = [merged EXCEPT ![n] = refresh[n].config]
        /\ UNCHANGED <<files, status, mu, todo, reader, updates, faults>>
    BY <1>5 DEF Publish
  <2>2. refresh[n].config \in Config /\ refresh[n].previous \in Status
    BY <2>1, <1>k DEF RefreshCoherent, KnowsPrevious, Idle
  <2>3. refresh' = [refresh EXCEPT ![n] = r]
    BY <1>5, <1>0 DEF Publish, IInv, TypeOK
  <2>4. r \in R /\ r.pc = "status" /\ r.config = refresh[n].config
        /\ r.previous = refresh[n].previous
    BY <1>0
  <2>5. merged' \in [Nodes -> Config \cup {None}]
    BY <1>0, <2>1, <2>2
  <2> HIDE DEF r
  <2>6. QED
    BY <1>0, <2>1, <2>2, <2>3, <2>4, <2>5, RefreshFrame
<1>6. CASE WriteStatus(n)
  <2>1. /\ refresh[n].pc = "status"
        /\ status' = [status EXCEPT ![n] = [success |-> TRUE, list |-> refresh[n].config]]
        /\ refresh' = [refresh EXCEPT ![n] = Idle]
        /\ UNCHANGED <<files, merged, mu, todo, reader, updates, faults>>
    BY <1>6 DEF WriteStatus
  <2>2. refresh[n].config \in Config
    BY <2>1, <1>k DEF RefreshCoherent
  <2>3. status' \in [Nodes -> Status]
    BY <1>0, <2>1, <2>2 DEF Status
  <2>4. Idle.pc = "idle"
    BY DEF Idle
  <2>5. QED
    BY <1>0, <1>i, <2>1, <2>3, <2>4, RefreshFrame
<1>7. CASE ReportFailure(n)
  <2>1. /\ refresh[n].pc = "fail"
        /\ status' = [status EXCEPT ![n] = [refresh[n].previous EXCEPT !.success = FALSE]]
        /\ refresh' = [refresh EXCEPT ![n] = Idle]
        /\ UNCHANGED <<files, merged, mu, todo, reader, updates, faults>>
    BY <1>7 DEF ReportFailure
  <2>2. refresh[n].previous \in Status
    BY <2>1, <1>k DEF RefreshCoherent
  <2>3. status' \in [Nodes -> Status]
    BY <1>0, <2>1, <2>2 DEF Status
  <2>4. Idle.pc = "idle"
    BY DEF Idle
  <2>5. QED
    BY <1>0, <1>i, <2>1, <2>3, <2>4, RefreshFrame
<1>8. CASE RefreshFails(n)
  <2> DEFINE r == [refresh[n] EXCEPT !.pc = "fail"]
  <2>1. /\ refresh[n].pc \in {"fetch", "sync", "read", "publish"}
        /\ UNCHANGED <<files, merged, status, mu, todo, reader, updates>>
    BY <1>8 DEF RefreshFails
  <2>2. faults' \in 0..MaxFaults
    BY <1>0, <1>8, ConstantsAssumption DEF RefreshFails, Fault
  <2>3. refresh[n].previous \in Status
    BY <2>1, <1>k DEF KnowsPrevious, Idle
  <2>4. refresh' = [refresh EXCEPT ![n] = r]
    BY <1>8, <1>0 DEF RefreshFails, IInv, TypeOK
  <2>5. r \in R /\ r.pc = "fail" /\ r.previous = refresh[n].previous
    BY <1>0
  <2> HIDE DEF r
  <2>6. QED
    BY <1>0, <2>1, <2>2, <2>3, <2>4, <2>5, RefreshFrame
<1>9. CASE RefreshDies(n)
  <2>1. /\ refresh' = [refresh EXCEPT ![n] = Idle]
        /\ UNCHANGED <<files, merged, status, mu, todo, reader, updates>>
    BY <1>9 DEF RefreshDies
  <2>2. faults' \in 0..MaxFaults
    BY <1>0, <1>9, ConstantsAssumption DEF RefreshDies, Fault
  <2>3. Idle.pc = "idle"
    BY DEF Idle
  <2>4. QED
    BY <1>0, <1>i, <2>1, <2>2, <2>3, RefreshFrame
<1>10. QED
  BY <1>1, <1>2, <1>3, <1>4, <1>5, <1>6, <1>7, <1>8, <1>9 DEF RefreshStep

LEMMA NextIInv == IInv /\ [Next]_vars => IInv'
<1> SUFFICES ASSUME IInv, [Next]_vars PROVE IInv'
  OBVIOUS
<1>1. CASE Next
  BY <1>1, ClientSteps, RefreshSteps DEF Next
<1>2. CASE UNCHANGED vars
  BY <1>2 DEF vars, IInv, TypeOK, UpdatesHoldLock, NoLostUpdate,
              RefreshCoherent, KnowsPrevious
<1>3. QED
  BY <1>1, <1>2

(* The state of the blocklist store and of the refresh programs stays well *)
(* typed: only whole configurations are written, published and reported.   *)
THEOREM TypeCorrect == Spec => []TypeOK
<1>1. IInv => TypeOK
  BY DEF IInv
<1>2. QED
  BY <1>1, InitIInv, NextIInv, PTL DEF Spec

(* No update is lost, for any number of clients, whatever fails: what an   *)
(* Update replaces is what its client read (Update holds the mutex).       *)
THEOREM NoUpdateLost == Spec => []NoLostUpdate
<1>1. IInv => NoLostUpdate
  BY DEF IInv
<1>2. QED
  BY <1>1, InitIInv, NextIInv, PTL DEF Spec

-----------------------------------------------------------------------------
(* The last good list                                                      *)

(* The status that a refresh under way has read is still the one on disk,  *)
(* however long the downloads took, and until it publishes so is the list. *)
AsItBegan ==
  \A n \in Nodes : refresh[n] # Idle =>
    /\ refresh[n].previous = status[n]
    /\ refresh[n].pc # "status" => refresh[n].before = merged[n]

LEMMA NotIdle == \A r : r.pc # "idle" => r # Idle
BY DEF Idle

(* A step of the refresh program of one node: it goes on or begins, ends,  *)
(* or publishes.                                                           *)
LEMMA AsItBeganStep ==
  ASSUME TypeOK, AsItBegan, NEW n \in Nodes, NEW r,
         refresh' = [refresh EXCEPT ![n] = r],
         \/ /\ status' = status /\ merged' = merged
            /\ r.previous = status[n] /\ r.before = merged[n]
         \/ r = Idle /\ merged' = merged /\ status' = status
         \/ /\ r = Idle /\ merged' = merged
            /\ \E s : status' = [status EXCEPT ![n] = s]
         \/ /\ r.pc = "status" /\ r.previous = status[n] /\ status' = status
            /\ \E l : merged' = [merged EXCEPT ![n] = l]
  PROVE  AsItBegan'
<1> SUFFICES ASSUME NEW m \in Nodes, refresh'[m] # Idle
             PROVE  /\ refresh'[m].previous = status'[m]
                    /\ refresh'[m].pc # "status" =>
                         refresh'[m].before = merged'[m]
  BY DEF AsItBegan
<1>1. CASE m = n
  BY <1>1 DEF TypeOK
<1>2. CASE m # n
  <2>1. /\ refresh'[m] = refresh[m]
        /\ status'[m] = status[m] /\ merged'[m] = merged[m]
    BY <1>2 DEF TypeOK
  <2>2. QED
    BY <2>1 DEF AsItBegan
<1>3. QED
  BY <1>1, <1>2

LEMMA NextAsItBegan ==
  ASSUME TypeOK, AsItBegan, [Next]_vars
  PROVE  AsItBegan'
<1>1. CASE UNCHANGED <<refresh, status, merged>>
  BY <1>1 DEF AsItBegan
<1>2. ASSUME NEW c \in Clients,
             \/ GetFile(c)
             \/ \E next \in Configs : UpdateStart(c, next)
             \/ \E f \in Files : UpdateFile(c, f)
             \/ UpdateFails(c)
      PROVE  UNCHANGED <<refresh, status, merged>>
  BY <1>2 DEF GetFile, UpdateStart, UpdateFile, UpdateFails
<1>3. ASSUME NEW n \in Refreshers, RefreshStep(n) \/ RefreshFails(n) \/ RefreshDies(n)
      PROVE  AsItBegan'
  <2>0. n \in Nodes /\ refresh \in [Nodes -> [pc : {"idle", "fetch", "sync", "read",
                                                    "publish", "status", "fail"},
                  config : Partial, left : SUBSET Files,
                  previous : Status \cup {None},
                  before : Config \cup {None}]]
    BY ConstantsAssumption DEF TypeOK
  <2>p. refresh[n].pc # "idle" =>
          /\ refresh[n].previous = status[n]
          /\ refresh[n].pc # "status" => refresh[n].before = merged[n]
    BY <2>0, NotIdle DEF AsItBegan
  <2>1. CASE RefreshStart(n)
    BY <2>0, <2>1, AsItBeganStep DEF RefreshStart
  <2>2. CASE FetchFile(n) \/ (\E f \in Files : SyncFile(n, f)) \/ MergeFile(n)
             \/ RefreshFails(n)
    <3>1. /\ status' = status /\ merged' = merged
          /\ refresh[n].pc # "idle" /\ refresh[n].pc # "status"
      BY <2>2 DEF FetchFile, SyncFile, MergeFile, RefreshFails
    <3>2. /\ refresh' = [refresh EXCEPT ![n] = refresh'[n]]
          /\ refresh'[n].previous = refresh[n].previous
          /\ refresh'[n].before = refresh[n].before
      <4>1. CASE FetchFile(n)
        BY <2>0, <4>1 DEF FetchFile
      <4>2. CASE MergeFile(n)
        BY <2>0, <4>2 DEF MergeFile
      <4>3. ASSUME NEW f \in Files, SyncFile(n, f)
            PROVE  /\ refresh' = [refresh EXCEPT ![n] = refresh'[n]]
                   /\ refresh'[n].previous = refresh[n].previous
                   /\ refresh'[n].before = refresh[n].before
        <5> DEFINE left == refresh[n].left \ {f}
                   r    == [refresh[n] EXCEPT
                              !.left = left,
                              !.pc = IF left = {} THEN "read" ELSE "sync",
                              !.config = IF left = {} THEN Unread ELSE @]
        <5>1. refresh' = [refresh EXCEPT ![n] = r]
          BY <2>0, <4>3 DEF SyncFile
        <5> HIDE DEF left
        <5>2. r.previous = refresh[n].previous /\ r.before = refresh[n].before
          BY <2>0
        <5> HIDE DEF r
        <5>3. QED
          BY <2>0, <5>1, <5>2
      <4>4. CASE RefreshFails(n)
        BY <2>0, <4>4 DEF RefreshFails
      <4>5. QED
        BY <2>2, <4>1, <4>2, <4>3, <4>4
    <3>3. QED
      BY <2>0, <2>p, <3>1, <3>2, AsItBeganStep
  <2>3. CASE Publish(n)
    <3>1. /\ refresh' = [refresh EXCEPT ![n] = refresh'[n]]
          /\ refresh'[n].previous = refresh[n].previous
          /\ refresh'[n].pc = "status"
      BY <2>0, <2>3 DEF Publish
    <3>2. /\ refresh[n].pc # "idle" /\ status' = status
          /\ merged' = [merged EXCEPT ![n] = refresh[n].config]
      BY <2>3 DEF Publish
    <3>3. QED
      BY <2>0, <2>p, <3>1, <3>2, AsItBeganStep
  <2>4. CASE WriteStatus(n) \/ ReportFailure(n)
    BY <2>0, <2>4, AsItBeganStep DEF WriteStatus, ReportFailure
  <2>5. CASE RefreshDies(n)
    BY <2>0, <2>5, AsItBeganStep DEF RefreshDies
  <2>6. QED
    BY <1>3, <2>1, <2>2, <2>3, <2>4, <2>5 DEF RefreshStep
<1>4. QED
  BY <1>1, <1>2, <1>3 DEF Next, vars

(* A refresh that ends before it published, for any number of nodes that   *)
(* fail, die and start again: the list is the one that was there when it   *)
(* began, and the status describes the list that it described then.        *)
THEOREM LastGoodIsKept == Spec => LastGoodKept
<1>1. Init => AsItBegan
  BY DEF Init, AsItBegan
<1>2. IInv /\ AsItBegan /\ [Next]_vars => AsItBegan'
  BY NextAsItBegan DEF IInv
<1>3. IInv /\ AsItBegan /\ [Next]_vars
        => [\A n \in Nodes :
              refresh[n] # Idle /\ refresh'[n] = Idle /\ refresh[n].pc # "status" =>
                /\ merged'[n] = refresh[n].before
                /\ status'[n].list = refresh[n].previous.list]_vars
  <2> SUFFICES ASSUME IInv, AsItBegan, Next, NEW n \in Nodes,
                      refresh[n] # Idle, refresh'[n] = Idle,
                      refresh[n].pc # "status"
               PROVE  /\ merged'[n] = refresh[n].before
                      /\ status'[n].list = refresh[n].previous.list
    OBVIOUS
  <2>0. /\ refresh \in [Nodes -> [pc : {"idle", "fetch", "sync", "read",
                                        "publish", "status", "fail"},
                  config : Partial, left : SUBSET Files,
                  previous : Status \cup {None},
                  before : Config \cup {None}]]
        /\ status \in [Nodes -> Status] /\ Refreshers \subseteq Nodes
    BY ConstantsAssumption DEF IInv, TypeOK
  <2>1. \E m \in Refreshers : RefreshStep(m) \/ RefreshFails(m) \/ RefreshDies(m)
    BY DEF Next, GetFile, UpdateStart, UpdateFile, UpdateFails
  <2>2. PICK m \in Refreshers : RefreshStep(m) \/ RefreshFails(m) \/ RefreshDies(m)
    BY <2>1
  <2>3. m = n
    BY <2>0, <2>2 DEF RefreshStep, RefreshStart, FetchFile, SyncFile, MergeFile,
      Publish, WriteStatus, ReportFailure, RefreshFails, RefreshDies
  <2>4. ReportFailure(n) \/ RefreshDies(n)
    <3>1. refresh'[n].pc = "idle"
      BY DEF Idle
    <3>2. ~RefreshStart(n) /\ ~Publish(n) /\ ~WriteStatus(n) /\ ~RefreshFails(n)
      BY <2>0, <3>1 DEF RefreshStart, Publish, WriteStatus, RefreshFails
    <3>3. ~FetchFile(n)
      BY <2>0, <3>1 DEF FetchFile
    <3>4. ~MergeFile(n)
      BY <2>0, <3>1 DEF MergeFile
    <3>5. ASSUME NEW f \in Files, SyncFile(n, f)
          PROVE  FALSE
      <4> DEFINE pc == IF refresh[n].left \ {f} = {} THEN "read" ELSE "sync"
      <4>1. refresh'[n].pc = pc
        BY <2>0, <3>5 DEF SyncFile
      <4>2. QED
        BY <3>1, <4>1
    <3>6. QED
      BY <2>2, <2>3, <3>2, <3>3, <3>4, <3>5 DEF RefreshStep
  <2>5. refresh[n].previous = status[n] /\ refresh[n].before = merged[n]
    BY DEF AsItBegan
  <2>6. CASE RefreshDies(n)
    BY <2>5, <2>6 DEF RefreshDies
  <2>7. CASE ReportFailure(n)
    <3>1. status'[n] = [status[n] EXCEPT !.success = FALSE] /\ merged' = merged
      BY <2>0, <2>5, <2>7 DEF ReportFailure
    <3>2. status[n] \in [success : BOOLEAN, list : Config \cup {None}]
      BY <2>0 DEF Status
    <3>3. QED
      BY <2>5, <3>1, <3>2
  <2>8. QED
    BY <2>4, <2>6, <2>7
<1>4. QED
  BY <1>1, <1>2, <1>3, InitIInv, NextIInv, PTL DEF Spec, LastGoodKept
=============================================================================
