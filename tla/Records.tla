------------------------------- MODULE Records -------------------------------
(***************************************************************************)
(* The record editing of the zone store (internal/zones/store.go): what    *)
(* the changes of a request do to a zone's records, which results are      *)
(* accepted, and which changes a rollback reports and audits.              *)
(*                                                                         *)
(* A record is [name, type, ttl, value], a zone a set of them; a change    *)
(* has an action, a name, a type, a TTL and a bag of values.  A committed  *)
(* operation is one step here; ZoneStore takes it apart.  The SOA serial   *)
(* and the order of records, which render sorts, are left out.             *)
(***************************************************************************)
EXTENDS Naturals, Sequences, FiniteSets, Bags, SequencesExt

CONSTANTS
  Zones,      \* zone names; a zone's name is that of its apex too
  Owners,     \* Owners[z]: the names at or below z
  Texts,      \* Texts[z]: zone texts that may be imported
  Requests,   \* Requests[z]: the lists of changes that clients send
  MaxWrites,  \* bound on the operations committed
  MaxLost,    \* bound on the audit events lost
  None

(* A record, and a change of a request; ApplyChange sets the other values. *)
IsRecord(r) ==
  /\ r = [name |-> r.name, type |-> r.type, ttl |-> r.ttl, value |-> r.value]
  /\ r.ttl \in Nat

IsChange(c) ==
  /\ c.ttl \in Nat
  /\ IsABag(c.records) /\ IsFiniteSet(DOMAIN c.records)

ASSUME RecordsAssumption ==
  \A z \in Zones :
    /\ \A text \in Texts[z] : IsFiniteSet(text) /\ \A r \in text : IsRecord(r)
    /\ \A changes \in Requests[z] :
         /\ changes \in Seq(Range(changes))
         /\ \A i \in DOMAIN changes : IsChange(changes[i])

VARIABLES
  file,      \* the zone files, None for a zone that does not exist
  history,   \* the versions that saveHistory kept
  last,      \* the revision that the last event of the audit log names
  linked,    \* history variable: every event since the last import names as
             \* the previous revision the one that the event before it names
  replayed,  \* history variable: the imported text and, applied to it, the
             \* changes that the audit log holds since
  writes,
  lost

audit == <<last, linked, replayed>>
vars  == <<file, history, audit, writes, lost>>

Init ==
  /\ file = [z \in Zones |-> None]
  /\ history = [z \in Zones |-> {}]
  /\ last = [z \in Zones |-> None]
  /\ linked = [z \in Zones |-> FALSE]
  /\ replayed = [z \in Zones |-> {}]
  /\ writes = 0 /\ lost = 0

-----------------------------------------------------------------------------
(* Changes                                                                 *)

(* A definition whose comment calls it faulty is not used by Spec: it is a *)
(* plausible slip in the code, and shows that a property would catch it.   *)

Concerns(change, record) ==
  record.name = change.name /\ record.type = change.type

(* What applyChange and ownerName refuse at once. *)
Accepted(z, change) ==
  /\ change.action \in {"upsert", "delete"}
  /\ change.type # "SOA"
  /\ change.name \in Owners[z]
  /\ change.action = "delete" <=> change.records = EmptyBag

(* applyChange: the RRset is removed, and the new one, if any, appended. *)
ApplyChange(rrs, change) ==
  LET kept  == {r \in BagToSet(rrs) : ~Concerns(change, r)}
      added == {[name |-> change.name, type |-> change.type, ttl |-> change.ttl,
                 value |-> v] : v \in BagToSet(change.records)}
  IN  [r \in kept |-> rrs[r]] (+) [r \in added |-> change.records[r.value]]

(* The loop of Apply over the changes of a request. *)
Edited(version, changes) ==
  LET rrs[i \in 0..Len(changes)] ==
        IF i = 0 THEN SetToBag(version) ELSE ApplyChange(rrs[i - 1], changes[i])
  IN  rrs[Len(changes)]

Signatures == {"RRSIG", "NSEC", "NSEC3"}

(* validate, of the records as a whole. *)
Validate(z, rrs) ==
  LET records == BagToSet(rrs)
      soa     == {r \in records : r.type = "SOA"}  IN
  /\ \A r \in records : r.name \in Owners[z] /\ rrs[r] = 1
  /\ Cardinality(soa) = 1 /\ \A r \in soa : r.name = z
  /\ \E r \in records : r.type = "NS" /\ r.name = z
  /\ \A r, s \in records :
       r.type = "CNAME" /\ s.name = r.name => s.type \in {"CNAME"} \cup Signatures

(* Faulty: the zone is validated after every change. *)
PublishableByStep(z, version, changes) ==
  /\ changes # <<>>
  /\ \A i \in DOMAIN changes :
       /\ Accepted(z, changes[i])
       /\ Validate(z, Edited(version, SubSeq(changes, 1, i)))

Publishable(z, version, changes) ==
  /\ changes # <<>>
  /\ \A i \in DOMAIN changes : Accepted(z, changes[i])
  /\ Validate(z, Edited(version, changes))

-----------------------------------------------------------------------------
(* Differences                                                             *)

(* groupRRsets: an RRset has the TTL of the first of its records, which    *)
(* render has sorted (by their text: the TTLs here are numbered in that    *)
(* order), and as many values as it has records.                           *)
RRset(version, name, type) ==
  LET set == {r \in version : r.name = name /\ r.type = type}
  IN  [name    |-> name,
       type    |-> type,
       ttl     |-> Min({r.ttl : r \in set}),
       records |-> [v \in {r.value : r \in set} |->
                      Cardinality({r \in set : r.value = v})]]

RRsets(version) == {RRset(version, r.name, r.type) : r \in version}

(* Faulty: RRsets with the same values count as equal. *)
DiffOfValues(from, to) ==
  LET upserts == {s \in RRsets(to) : /\ s.type # "SOA"
                                     /\ \A old \in RRsets(from) :
                                          Concerns(s, old) => old.records # s.records}
      deletes == {s \in RRsets(from) : /\ s.type # "SOA"
                                       /\ \A new \in RRsets(to) : ~Concerns(s, new)}
  IN  SetToSeq({[action |-> "upsert", name |-> s.name, type |-> s.type,
                 ttl |-> s.ttl, records |-> s.records] : s \in upserts})
      \o SetToSeq({[action |-> "delete", name |-> s.name, type |-> s.type,
                    ttl |-> 0, records |-> EmptyBag] : s \in deletes})

DiffRRsets(from, to) ==
  LET upserts == {s \in RRsets(to) : s.type # "SOA" /\ s \notin RRsets(from)}
      deletes == {s \in RRsets(from) : /\ s.type # "SOA"
                                       /\ \A new \in RRsets(to) : ~Concerns(s, new)}
  IN  SetToSeq({[action |-> "upsert", name |-> s.name, type |-> s.type,
                 ttl |-> s.ttl, records |-> s.records] : s \in upserts})
      \o SetToSeq({[action |-> "delete", name |-> s.name, type |-> s.type,
                    ttl |-> 0, records |-> EmptyBag] : s \in deletes})

-----------------------------------------------------------------------------
(* Operations                                                              *)

WithoutSOA(version) == {r \in version : r.type # "SOA"}

Write ==
  /\ writes < MaxWrites
  /\ writes' = writes + 1

(* appendAudit: an event names the revisions before and after it and holds *)
(* the changes.  It comes after the publication and may fail, or never     *)
(* come, or be cut by a crash: Apply and Rollback report the error, Create *)
(* and Delete do not.                                                      *)
Unaudited ==
  /\ lost < MaxLost
  /\ lost' = lost + 1
  /\ UNCHANGED audit

Audited(z, revision, follows, records) ==
  /\ last' = [last EXCEPT ![z] = revision]
  /\ linked' = [linked EXCEPT ![z] = follows]
  /\ replayed' = [replayed EXCEPT ![z] = records]
  /\ lost' = lost

(* commit publishes a version in place of the current one and audits the   *)
(* changes.                                                                *)
Commit(z, version, changes) ==
  /\ Write
  /\ history' = [history EXCEPT ![z] = @ \cup {file[z]}]
  /\ file' = [file EXCEPT ![z] = version]
  /\ \/ Audited(z, version, linked[z] /\ last[z] = file[z],
                BagToSet(Edited(replayed[z], changes)))
     \/ Unaudited

(* parseZoneText checks the imported text. *)
Create(z, text) ==
  /\ Write
  /\ file[z] = None
  /\ Validate(z, SetToBag(text))
  /\ file' = [file EXCEPT ![z] = text]
  /\ Audited(z, text, TRUE, WithoutSOA(text)) \/ Unaudited
  /\ UNCHANGED history

Apply(z, changes) ==
  /\ file[z] # None
  /\ Publishable(z, file[z], changes)
  /\ Commit(z, BagToSet(Edited(file[z], changes)), changes)

(* The history outlives the zone, so the target may be of an earlier life; *)
(* loadPath validates it.                                                  *)
Rollback(z, target) ==
  /\ file[z] # None
  /\ Validate(z, SetToBag(target))
  /\ Commit(z, target, DiffRRsets(file[z], target))

Delete(z) ==
  /\ Write
  /\ file[z] # None
  /\ history' = [history EXCEPT ![z] = @ \cup {file[z]}]
  /\ file' = [file EXCEPT ![z] = None]
  /\ Audited(z, None, FALSE, {}) \/ Unaudited

Next ==
  \E z \in Zones :
    \/ \E text \in Texts[z] : Create(z, text)
    \/ \E changes \in Requests[z] : Apply(z, changes)
    \/ \E target \in history[z] : Rollback(z, target)
    \/ Delete(z)

Spec == Init /\ [][Next]_vars

-----------------------------------------------------------------------------
(* Properties                                                              *)

Contents(version) ==
  {[name |-> r.name, type |-> r.type, value |-> r.value] : r \in version}

(* The records of every RRset have one TTL, as those that an upsert made.  *)
OneTtl(version) ==
  \A r, s \in version : Concerns(r, s) => r.ttl = s.ttl

(* docs/api.md: a rollback's changes list "the RRset upserts and deletes   *)
(* that the rollback performs".  Whoever replays the audit log over the    *)
(* text that was imported, and finds every event linked to the one before  *)
(* it by its previous revision and the last one to name the zone, arrives  *)
(* at the records that are published, through any changes and rollbacks    *)
(* (diffRRsets, applyChange, commit): an event that was lost shows.  The   *)
(* TTLs agree as well, unless an RRset came in with more than one.         *)
AuditReplays ==
  \A z \in Zones : file[z] # None /\ linked[z] /\ last[z] = file[z] =>
    /\ Contents(replayed[z]) = Contents(WithoutSOA(file[z]))
    /\ (\A v \in history[z] \cup {file[z]} : OneTtl(v))
         => replayed[z] = WithoutSOA(file[z])

Published(z, changes) ==
  IF Publishable(z, file[z], changes) THEN BagToSet(Edited(file[z], changes)) ELSE None

(* The order in which a request names its RRsets makes no difference: a    *)
(* name can be turned from one type into another by a delete and an upsert *)
(* in either order, and what is refused in one order is refused in the     *)
(* other (Apply, validate).                                                *)
OrderIsFree ==
  \A z \in Zones : file[z] # None =>
    \A changes \in Requests[z] :
      Len(changes) = 2 /\ ~Concerns(changes[1], changes[2])
        => Published(z, changes) = Published(z, Reverse(changes))
=============================================================================
