------------------------------ MODULE Blocklist ------------------------------
(***************************************************************************)
(* The blocklist pipeline: the three configuration files that rill-api     *)
(* reads and replaces on the primary (internal/blocking/store.go), and the *)
(* refresh program (cmd/rill-blocklist-refresh) that each node runs to     *)
(* compile them; the standby first copies the primary's configuration over *)
(* the API.                                                                *)
(*                                                                         *)
(* A file's lines are abstracted to a member of Values, the revision of a  *)
(* configuration (a hash of the three) to the configuration itself, and a  *)
(* compiled list to the file contents it was compiled from.                *)
(***************************************************************************)
EXTENDS Naturals

CONSTANTS
  Values,      \* contents of one configuration file
  Configs,     \* configurations that requests ask for, and the first one
  Nodes,       \* "primary" and, where it is deployed, "standby"
  Refreshers,  \* the nodes whose refresh program runs
  Clients,     \* API clients (one outstanding request each)
  MaxUpdates,  \* bound on the updates accepted
  MaxFaults,   \* bound on failed calls and crashes
  None

Files  == {"sources", "allow", "deny"}
Config == [Files -> Values]

ASSUME ConstantsAssumption ==
  /\ Configs \subseteq Config /\ Configs # {}
  /\ "primary" \in Nodes /\ Nodes \subseteq {"primary", "standby"}
  /\ Refreshers \subseteq Nodes
  /\ MaxUpdates \in Nat /\ MaxFaults \in Nat
  /\ None \notin Config /\ None \notin Values /\ None \notin Clients

(* A configuration of which only some files have been read. *)
Partial == [Files -> Values \cup {None}]
Unread  == [f \in Files |-> None]

VARIABLES
  files,     \* sources.txt, allow.txt and deny.txt of each node
  merged,    \* merged.hosts of each node, None before the first refresh
  status,    \* blocklists.json of each node
  mu,        \* holder of Store.mu on the primary
  todo,      \* the files each Update has still to write, and their contents
  reader,    \* what each client has read of a Get; all of it is the
             \* configuration whose revision its next update expects
  refresh,   \* the refresh program of each node
  updates, faults

vars == <<files, merged, status, mu, todo, reader, refresh, updates,
          faults>>

(* No Update is under way. *)
Written == [left |-> {}, next |-> None]

(* before is a history field: the list in place when the program began. *)
Idle == [pc |-> "idle", config |-> Unread, left |-> {}, previous |-> None,
         before |-> None]

Status == [success : BOOLEAN, list : Config \cup {None}]

TypeOK ==
  /\ files \in [Nodes -> Config]
  /\ merged \in [Nodes -> Config \cup {None}]
  /\ status \in [Nodes -> Status]
  /\ mu \in Clients \cup {None}
  /\ todo \in [Clients -> [left : SUBSET Files, next : Config \cup {None}]]
  /\ reader \in [Clients -> Partial]
  /\ refresh \in
       [Nodes -> [pc : {"idle", "fetch", "sync", "read", "publish", "status",
                        "fail"},
                  config : Partial, left : SUBSET Files,
                  previous : Status \cup {None},
                  before : Config \cup {None}]]
  /\ updates \in 0..MaxUpdates
  /\ faults \in 0..MaxFaults

Init ==
  /\ \E config \in Configs : files = [n \in Nodes |-> config]
  /\ merged = [n \in Nodes |-> None]
  /\ status = [n \in Nodes |-> [success |-> FALSE, list |-> None]]
  /\ mu = None
  /\ todo = [c \in Clients |-> Written]
  /\ reader = [c \in Clients |-> Unread]
  /\ refresh = [n \in Nodes |-> Idle]
  /\ updates = 0
  /\ faults = 0

-----------------------------------------------------------------------------
(* Helpers                                                                 *)

(* A definition whose comment calls it faulty is not used by Spec: it is a *)
(* plausible slip in the code, and shows that a property would catch it.   *)

(* Get reads sources.txt, then allow.txt, then deny.txt. *)
NextToRead(partial) ==
  IF partial["sources"] = None THEN "sources"
  ELSE IF partial["allow"] = None THEN "allow" ELSE "deny"

(* The refresh program reads sources.txt before it downloads; the merger   *)
(* then opens its inputs, deny.txt first, and allow.txt last.              *)
NextToMerge(partial) ==
  IF partial["sources"] = None THEN "sources"
  ELSE IF partial["deny"] = None THEN "deny" ELSE "allow"

Complete(partial) == \A f \in Files : partial[f] # None

Fault ==
  /\ faults < MaxFaults
  /\ faults' = faults + 1

-----------------------------------------------------------------------------
(* The API on the primary                                                  *)

(* One of the three reads of Get, which takes no lock.  Clients read only  *)
(* while an update may follow.                                             *)
GetFile(c) ==
  LET before == IF Complete(reader[c]) THEN Unread ELSE reader[c]
      f      == NextToRead(before)  IN
  /\ todo[c] = Written
  /\ updates < MaxUpdates
  /\ reader' = [reader EXCEPT ![c] = [before EXCEPT ![f] = files["primary"][f]]]
  /\ UNCHANGED <<files, merged, status, mu, todo, refresh, updates, faults>>

(* Faulty: the comparison and the writes are not made under one lock. *)
UpdateUnlocked(c, next) ==
  /\ todo[c] = Written
  /\ reader[c] = files["primary"]
  /\ updates < MaxUpdates
  /\ mu' = c
  /\ todo' = [todo EXCEPT ![c] = [left |-> Files, next |-> next]]
  /\ updates' = updates + 1
  /\ UNCHANGED <<files, merged, status, reader, refresh, faults>>

(* Update compares the revision under the lock.  Its own Get is one step:  *)
(* only the holder of the lock writes the files of the primary.            *)
UpdateStart(c, next) ==
  /\ mu = None
  /\ reader[c] = files["primary"]
  /\ updates < MaxUpdates
  /\ mu' = c
  /\ todo' = [todo EXCEPT ![c] = [left |-> Files, next |-> next]]
  /\ updates' = updates + 1
  /\ UNCHANGED <<files, merged, status, reader, refresh, faults>>

(* One atomic replacement; the range over a map takes any order. *)
UpdateFile(c, f) ==
  LET left == todo[c].left \ {f}  IN
  /\ f \in todo[c].left
  /\ files' = [files EXCEPT !["primary"][f] = todo[c].next[f]]
  /\ todo' = [todo EXCEPT ![c] =
                IF left = {} THEN Written ELSE [@ EXCEPT !.left = left]]
  /\ mu' = IF left = {} THEN None ELSE mu
  /\ reader' = [reader EXCEPT ![c] = IF left = {} THEN Unread ELSE @]
  /\ UNCHANGED <<merged, status, refresh, updates, faults>>

(* A write fails and the rest is left undone; a crash of the API does the  *)
(* same.                                                                   *)
UpdateFails(c) ==
  /\ todo[c] # Written
  /\ Fault
  /\ mu' = None
  /\ todo' = [todo EXCEPT ![c] = Written]
  /\ reader' = [reader EXCEPT ![c] = Unread]
  /\ UNCHANGED <<files, merged, status, refresh, updates>>

-----------------------------------------------------------------------------
(* rill-blocklist-refresh, a oneshot unit: one at a time on each node      *)

RefreshStart(n) ==
  /\ refresh[n] = Idle
  /\ refresh' = [refresh EXCEPT ![n] =
       [pc |-> IF n = "standby" THEN "fetch" ELSE "read",
        config |-> Unread, left |-> {}, previous |-> status[n],
        before |-> merged[n]]]
  /\ UNCHANGED <<files, merged, status, mu, todo, reader, updates,
                 faults>>

(* downloadJSON: the primary's getBlocklistConfig reads its three files. *)
FetchFile(n) ==
  LET f    == NextToRead(refresh[n].config)
      read == [refresh[n].config EXCEPT ![f] = files["primary"][f]]  IN
  /\ refresh[n].pc = "fetch"
  /\ refresh' = [refresh EXCEPT
       ![n].config = read,
       ![n].pc = IF Complete(read) THEN "sync" ELSE "fetch",
       ![n].left = IF Complete(read) THEN Files ELSE {}]
  /\ UNCHANGED <<files, merged, status, mu, todo, reader, updates,
                 faults>>

(* Faulty: the allow list is not copied. *)
SyncFileButAllow(n, f) ==
  LET left == refresh[n].left \ {f}  IN
  /\ refresh[n].pc = "sync"
  /\ f \in refresh[n].left
  /\ files' = [files EXCEPT ![n][f] =
                 IF f = "allow" THEN @ ELSE refresh[n].config[f]]
  /\ refresh' = [refresh EXCEPT
       ![n].left = left,
       ![n].pc = IF left = {} THEN "read" ELSE "sync",
       ![n].config = IF left = {} THEN Unread ELSE @]
  /\ UNCHANGED <<merged, status, mu, todo, reader, updates, faults>>

(* writeLines, again in the order of a range over a map. *)
SyncFile(n, f) ==
  LET left == refresh[n].left \ {f}  IN
  /\ refresh[n].pc = "sync"
  /\ f \in refresh[n].left
  /\ files' = [files EXCEPT ![n][f] = refresh[n].config[f]]
  /\ refresh' = [refresh EXCEPT
       ![n].left = left,
       ![n].pc = IF left = {} THEN "read" ELSE "sync",
       ![n].config = IF left = {} THEN Unread ELSE @]
  /\ UNCHANGED <<merged, status, mu, todo, reader, updates, faults>>

(* Faulty: the merger writes to merged.hosts itself, before its output is  *)
(* inspected.                                                              *)
MergeInPlace(n) ==
  LET f    == NextToMerge(refresh[n].config)
      read == [refresh[n].config EXCEPT ![f] = files[n][f]]  IN
  /\ refresh[n].pc = "read"
  /\ refresh' = [refresh EXCEPT
       ![n].config = read,
       ![n].pc = IF Complete(read) THEN "publish" ELSE "read"]
  /\ merged' = [merged EXCEPT ![n] = IF Complete(read) THEN read ELSE @]
  /\ UNCHANGED <<files, status, mu, todo, reader, updates, faults>>

(* The three files are read minutes apart: the downloads are in between.   *)
MergeFile(n) ==
  LET f    == NextToMerge(refresh[n].config)
      read == [refresh[n].config EXCEPT ![f] = files[n][f]]  IN
  /\ refresh[n].pc = "read"
  /\ refresh' = [refresh EXCEPT
       ![n].config = read,
       ![n].pc = IF Complete(read) THEN "publish" ELSE "read"]
  /\ UNCHANGED <<files, merged, status, mu, todo, reader, updates,
                 faults>>

(* The merged list passed inspectHosts and the minimum; rename it in place. *)
Publish(n) ==
  /\ refresh[n].pc = "publish"
  /\ merged' = [merged EXCEPT ![n] = refresh[n].config]
  /\ refresh' = [refresh EXCEPT ![n].pc = "status"]
  /\ UNCHANGED <<files, status, mu, todo, reader, updates, faults>>

WriteStatus(n) ==
  /\ refresh[n].pc = "status"
  /\ status' = [status EXCEPT ![n] =
                  [success |-> TRUE, list |-> refresh[n].config]]
  /\ refresh' = [refresh EXCEPT ![n] = Idle]
  /\ UNCHANGED <<files, merged, mu, todo, reader, updates, faults>>

(* A download, a write, the merger or a guard fails before the rename. *)
RefreshFails(n) ==
  /\ refresh[n].pc \in {"fetch", "sync", "read", "publish"}
  /\ Fault
  /\ refresh' = [refresh EXCEPT ![n].pc = "fail"]
  /\ UNCHANGED <<files, merged, status, mu, todo, reader, updates>>

(* fail keeps what the status said of the last good list. *)
ReportFailure(n) ==
  /\ refresh[n].pc = "fail"
  /\ status' = [status EXCEPT ![n] =
                  [refresh[n].previous EXCEPT !.success = FALSE]]
  /\ refresh' = [refresh EXCEPT ![n] = Idle]
  /\ UNCHANGED <<files, merged, mu, todo, reader, updates, faults>>

(* The program dies, or its status cannot be written (which is ignored in  *)
(* fail and ends the program otherwise).                                   *)
RefreshDies(n) ==
  /\ refresh[n] # Idle
  /\ Fault
  /\ refresh' = [refresh EXCEPT ![n] = Idle]
  /\ UNCHANGED <<files, merged, status, mu, todo, reader, updates>>

RefreshStep(n) ==
  \/ RefreshStart(n) \/ FetchFile(n)
  \/ \E f \in Files : SyncFile(n, f)
  \/ MergeFile(n) \/ Publish(n) \/ WriteStatus(n) \/ ReportFailure(n)

Next ==
  \/ \E c \in Clients :
       \/ GetFile(c)
       \/ \E next \in Configs : UpdateStart(c, next)
       \/ \E f \in Files : UpdateFile(c, f)
       \/ UpdateFails(c)
  \/ \E n \in Refreshers : RefreshStep(n) \/ RefreshFails(n) \/ RefreshDies(n)

Spec == Init /\ [][Next]_vars

(* The daily timer keeps starting the program, which keeps running; an     *)
(* update under way keeps writing.                                         *)
FairSpec ==
  /\ Spec
  /\ \A n \in Refreshers : WF_vars(RefreshStep(n))
  /\ \A c \in Clients : WF_vars(\E f \in Files : UpdateFile(c, f))

-----------------------------------------------------------------------------
(* Properties                                                              *)

(* No lost update: what an update replaces is still the configuration that *)
(* its client read, file by file, until the update itself writes the file, *)
(* whoever else reads, updates or fails in between (Update holds the mutex *)
(* from the comparison to the last write).                                 *)
NoLostUpdate ==
  \A c \in Clients, f \in Files :
    f \in todo[c].left => files["primary"][f] = reader[c][f]

(* Every node ends up with a list compiled from the configuration that the  *)
(* primary holds at the end: lists compiled from a half-written or half-   *)
(* read configuration, and failed refreshes, are repaired by later runs.   *)
Converges ==
  <>[](\A n \in Refreshers : merged[n] = files["primary"])

(* docs/operations.md, on a failed refresh: "Preserve the last-known-good  *)
(* compiled list": a refresh program that ends, by a failure it reports or *)
(* by its death, before it published a list leaves the one that was there  *)
(* when it began, over all of its steps, and the status still describes    *)
(* the list that it described then (run, fail).  A program that dies       *)
(* between the rename and the status leaves the new list, and the status   *)
(* of the one before.                                                      *)
LastGoodKept ==
  [][\A n \in Nodes :
       refresh[n] # Idle /\ refresh'[n] = Idle /\ refresh[n].pc # "status" =>
         /\ merged'[n] = refresh[n].before
         /\ status'[n].list = refresh[n].previous.list]_vars
=============================================================================
