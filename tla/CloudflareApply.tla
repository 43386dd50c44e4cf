--------------------------- MODULE CloudflareApply ---------------------------
(***************************************************************************)
(* Changes to a Cloudflare zone (internal/cloudflare/planner.go, apply.go):*)
(* the plan computed from the records read, one batch under applyMu, the   *)
(* read-back, and the compensating batch when the read-back fails.         *)
(*                                                                         *)
(* The records live at Cloudflare, which is external: a batch is one       *)
(* transaction, its answer may be lost, a read may be behind the writes    *)
(* (that is what the read-back waits for), and other writers change the    *)
(* RRsets they own.  A record keeps its ID, TTL and, for the provider's    *)
(* attributes (proxied, comment, tags), one comment.  A revision is a hash *)
(* of all records, and so the set of records itself.                       *)
(***************************************************************************)
EXTENDS Integers, FiniteSets

CONSTANTS
  RRsets,       \* pairs <<owner, type>>
  Foreign,      \* the RRsets that other writers own
  Contents, TTLs,
  Comments,     \* with NoComment among them
  NoComment,
  InitialZones, \* the sets of records at the start
  Requests,     \* the changes that are asked for
  Clients,
  MaxId,        \* bound on the record IDs given out
  MaxForeign,   \* bound on the changes of other writers
  MaxFaults,    \* bound on failed calls, hang-ups, late reads and crashes
  None

Record == [id : 1..MaxId, key : RRsets, content : Contents, ttl : TTLs,
           comment : Comments]

(* The new state of an RRset; no contents stand for the action "delete",   *)
(* comment None for an attribute that the request does not mention, padded *)
(* for a type written with spaces around it, which only the planner trims. *)
Upsert == [contents : SUBSET Contents, ttl : TTLs, comment : Comments \cup {None},
           padded : BOOLEAN]

Changes == UNION {[keys -> Upsert] : keys \in (SUBSET RRsets) \ {{}}}

ASSUME ConstantsAssumption ==
  /\ IsFiniteSet(RRsets) /\ IsFiniteSet(Contents) /\ TTLs # {}
  /\ Foreign \subseteq RRsets /\ \A k \in RRsets : k = <<k[1], k[2]>>
  /\ NoComment \in Comments /\ None \notin Comments /\ None \notin Clients
  /\ InitialZones \subseteq SUBSET Record
  /\ Requests \subseteq Changes
  /\ \A changes \in Requests : DOMAIN changes \cap Foreign = {}
  /\ MaxId \in Nat /\ MaxForeign \in Nat /\ MaxFaults \in Nat

(* Cloudflare gives every record an ID of its own. *)
ASSUME InitialIds ==
  \A zone \in InitialZones :
    /\ IsFiniteSet(zone) /\ Cardinality(zone) <= MaxId
    /\ \A r, s \in zone : r.id <= Cardinality(zone) /\ (r.id = s.id => r = s)

VARIABLES
  remote,   \* the records at Cloudflare
  view,     \* the records that a read returns
  nextId,   \* the next record ID that Cloudflare gives out
  applyMu,  \* holder of Client.applyMu
  seen,     \* what each client was last shown
  op,       \* ApplyChanges, for each client
  result,   \* how ApplyChanges ended, if it was the last step
  theirs,   \* history variable: the records of other writers
  unsettled,\* history variable: an ApplyChanges failed, died or began like
            \* this, and reads have not caught up since
  foreign, faults

vars == <<remote, view, nextId, applyMu, seen, op, result, theirs, unsettled,
          foreign, faults>>

(* History fields: read says how good the read was that the plan is made   *)
(* from, listed that the rollback's list was not behind.                   *)
Idle == [pc |-> "idle", changes |-> None, current |-> {}, latest |-> {},
         cancelled |-> FALSE, read |-> "fresh", listed |-> TRUE]

NoResult == [status |-> "none", changes |-> None, before |-> {},
             rolledBack |-> FALSE, read |-> "fresh", listed |-> TRUE]

Reads == {"fresh", "late", "unsure"}

Operation ==
  [pc : {"idle", "batch", "verify", "dns", "list", "compensate", "recheck"},
   changes : Requests \cup {None}, current : SUBSET Record, latest : SUBSET Record,
   cancelled : BOOLEAN, read : Reads, listed : BOOLEAN]

TypeOK ==
  /\ remote \subseteq Record
  /\ view \subseteq Record
  /\ nextId \in 1..MaxId + 1
  /\ applyMu \in Clients \cup {None}
  /\ seen \in [Clients -> (SUBSET Record) \cup {None}]
  /\ op \in [Clients -> Operation]
  /\ result \in [status : {"none", "success", "refused", "failed"},
                 changes : Requests \cup {None}, before : SUBSET Record,
                 rolledBack : BOOLEAN, read : Reads, listed : BOOLEAN]
  /\ theirs \subseteq Record
  /\ unsettled \in BOOLEAN
  /\ foreign \in 0..MaxForeign
  /\ faults \in 0..MaxFaults

Theirs(records) == {r \in records : r.key \in Foreign}
Ours(records) == {r \in records : r.key \notin Foreign}

(* A record without its attributes, which no read-back looks at. *)
Bare(records) == {[id |-> r.id, key |-> r.key, content |-> r.content,
                   ttl |-> r.ttl] : r \in records}

Init ==
  /\ remote \in InitialZones
  /\ view = remote
  /\ nextId = Cardinality(remote) + 1
  /\ applyMu = None
  /\ seen = [c \in Clients |-> None]
  /\ op = [c \in Clients |-> Idle]
  /\ result = NoResult
  /\ theirs = Theirs(remote)
  /\ unsettled = FALSE
  /\ foreign = 0
  /\ faults = 0

-----------------------------------------------------------------------------
(* The planner                                                             *)

(* A definition whose comment calls it faulty is not used by Spec: it is a *)
(* plausible slip in the code, and shows that a property would catch it.   *)

RRset(records, k) == {r \in records : r.key = k}
Affected(records, changes) == {r \in records : r.key \in DOMAIN changes}

(* Faulty: only what the request mentions counts. *)
AsRequested(existing, requested) == requested

(* inheritedProvider: what the request does not mention is inherited when  *)
(* all records of the RRset agree on it.                                   *)
Inherited(existing, requested) ==
  LET comments == {r.comment : r \in existing}  IN
  IF requested # None THEN requested
  ELSE IF Cardinality(comments) = 1 THEN CHOOSE x \in comments : TRUE
  ELSE NoComment

(* Plan.Expected, for all RRsets of the request. *)
Expected(current, changes) ==
  UNION {{[key |-> k, content |-> x, ttl |-> changes[k].ttl,
           comment |-> Inherited(RRset(current, k), changes[k].comment)] :
             x \in changes[k].contents} : k \in DOMAIN changes}

Value(r) == [key |-> r.key, content |-> r.content, ttl |-> r.ttl,
             comment |-> r.comment]
SameRecordValue(r, wanted) == r.key = wanted.key /\ r.content = wanted.content

(* Faulty: a record is patched only when its TTL differs. *)
PlanByTTL(current, changes) ==
  LET expected == Expected(current, changes)
      existing == Affected(current, changes)
      kept(r)  == {w \in expected : SameRecordValue(r, w)}  IN
  [deletes |-> {r.id : r \in {s \in existing : kept(s) = {}}},
   patches |-> UNION {{[id |-> r.id, to |-> w] :
                         w \in {v \in kept(r) : v.ttl # r.ttl}} : r \in existing},
   creates |-> {w \in expected :
                  \A r \in existing : ~SameRecordValue(r, w)}]

(* reconcileRRset, for all RRsets of the request: a record of the wanted   *)
(* content is kept, and patched if something else about it differs.        *)
PlanChanges(current, changes) ==
  LET expected == Expected(current, changes)
      existing == Affected(current, changes)
      kept(r)  == {w \in expected : SameRecordValue(r, w)}  IN
  [deletes |-> {r.id : r \in {s \in existing : kept(s) = {}}},
   patches |-> UNION {{[id |-> r.id, to |-> w] : w \in kept(r) \ {Value(r)}} :
                        r \in existing},
   creates |-> {w \in expected :
                  \A r \in existing : ~SameRecordValue(r, w)}]

NothingToDo(plan) ==
  plan.deletes = {} /\ plan.patches = {} /\ plan.creates = {}

(* Faulty: a CNAME is planned beside other types. *)
AnyTypes(current, changes) == TRUE

(* The types at an owner after the changes, unless they were so before. *)
NoNewConflict(current, changes) ==
  LET before(o) == {k \in RRsets : k[1] = o /\ RRset(current, k) # {}}
      after(o)  == {k \in RRsets : k[1] = o /\
                      IF k \in DOMAIN changes THEN changes[k].contents # {}
                      ELSE RRset(current, k) # {}}  IN
  \A o \in {k[1] : k \in RRsets} :
    <<o, "CNAME">> \in after(o) /\ Cardinality(after(o)) > 1 =>
      after(o) = before(o)

Valid(current, changes) ==
  /\ \A k \in DOMAIN changes :
       changes[k].contents = {} => RRset(current, k) # {}
  /\ NoNewConflict(current, changes)

(* What the two comparisons of a read-back look at: not the comment. *)
Compared(records) ==
  {[key |-> r.key, content |-> r.content, ttl |-> r.ttl] : r \in records}

(* Faulty: whatever is read will do. *)
AnyRead(records, current, changes) == TRUE

PlanMatches(records, current, changes) ==
  Compared(Affected(records, changes)) = Compared(Expected(current, changes))

(* rollback does not trim the type: a padded one names no record. *)
Restorable(records, changes) ==
  {r \in Affected(records, changes) : ~changes[r.key].padded}

AffectedRecordsMatch(records, current, changes) ==
  Compared(Restorable(records, changes)) = Compared(Restorable(current, changes))

(* Faulty: the attributes are not restored. *)
RollbackBare(current, latest, changes) ==
  [deletes |-> {r.id : r \in Restorable(latest, changes)},
   patches |-> {},
   creates |-> {[Value(r) EXCEPT !.comment = NoComment] :
                  r \in Restorable(current, changes)}]

(* Faulty: the whole zone is restored. *)
RollbackOfTheZone(current, latest, changes) ==
  [deletes |-> {r.id : r \in latest},
   patches |-> {},
   creates |-> {Value(r) : r \in current}]

(* rollback: every record of the RRsets changed is deleted, and the former *)
(* ones are created anew.                                                  *)
RollbackPlan(current, latest, changes) ==
  [deletes |-> {r.id : r \in Restorable(latest, changes)},
   patches |-> {},
   creates |-> {Value(r) : r \in Restorable(current, changes)}]

-----------------------------------------------------------------------------
(* Cloudflare's batch: a transaction on records named by their IDs         *)

Ids(records) == {r.id : r \in records}

Accepts(plan) ==
  /\ plan.deletes \cup {p.id : p \in plan.patches} \subseteq Ids(remote)
  /\ \A w \in plan.creates, r \in remote :
       r.id \notin plan.deletes => ~SameRecordValue(r, w)
  /\ nextId + Cardinality(plan.creates) <= MaxId + 1

(* New records get new IDs. *)
Numbered(creates) ==
  LET ids  == nextId..nextId + Cardinality(creates) - 1
      give == CHOOSE f \in [creates -> ids] :
                \A v, w \in creates : f[v] = f[w] => v = w
  IN  {[id |-> give[w], key |-> w.key, content |-> w.content,
        ttl |-> w.ttl, comment |-> w.comment] : w \in creates}

(* A patch leaves alone what it does not hold, and the JSON of a           *)
(* PatchOperation holds no empty comment.                                  *)
Patched(r, patches) ==
  IF \E p \in patches : p.id = r.id
  THEN LET to == (CHOOSE p \in patches : p.id = r.id).to  IN
       [r EXCEPT !.ttl = to.ttl,
                 !.comment = IF to.comment = NoComment THEN @ ELSE to.comment]
  ELSE r

(* The next read shows the batch, or reads are late for a while, which is  *)
(* one fault however many batches it lasts.                                *)
Batch(plan, late) ==
  /\ Accepts(plan)
  /\ remote' = {Patched(r, plan.patches) :
                  r \in {s \in remote : s.id \notin plan.deletes}}
                 \cup Numbered(plan.creates)
  /\ nextId' = nextId + Cardinality(plan.creates)
  /\ view' = IF late THEN view ELSE remote'

NoBatch == UNCHANGED <<remote, view, nextId>>

(* History: reads are still behind on our RRsets since an ApplyChanges     *)
(* failed.                                                                 *)
Settle(failed) ==
  unsettled' = ((unsettled \/ failed) /\ Ours(view') # Ours(remote'))

-----------------------------------------------------------------------------
(* ApplyChanges, under applyMu                                             *)

Fault ==
  /\ faults < MaxFaults
  /\ faults' = faults + 1

FaultIf(p) == IF p THEN Fault ELSE UNCHANGED faults

Goto(c, pc) == op' = [op EXCEPT ![c].pc = pc]

(* What applyCloudflareChanges answers for the operation o; defer releases *)
(* the mutex.                                                              *)
End(c, o, status, rolledBack) ==
  /\ result' = [status |-> status, changes |-> o.changes, before |-> o.current,
                rolledBack |-> rolledBack, read |-> o.read, listed |-> o.listed]
  /\ op' = [op EXCEPT ![c] = Idle]
  /\ applyMu' = None

Fails(c, rolledBack) == End(c, op[c], "failed", rolledBack) /\ Settle(TRUE)

(* The operation that ListRecords begins. *)
Begun(changes) ==
  [Idle EXCEPT !.pc = "batch", !.changes = changes, !.current = view,
               !.read = IF Ours(view) = Ours(remote) THEN "fresh"
                        ELSE IF unsettled THEN "unsure" ELSE "late"]

(* getCloudflareRecords or planCloudflareChanges. *)
Show(c) ==
  /\ op[c] = Idle
  /\ seen[c] # view
  /\ seen' = [seen EXCEPT ![c] = view]
  /\ result' = NoResult
  /\ UNCHANGED <<remote, view, nextId, applyMu, op, theirs, unsettled, foreign,
                 faults>>

CanStart(c) == op[c] = Idle /\ seen[c] # None /\ applyMu = None

(* The records cannot be read, the revision is another one, or the changes *)
(* are not valid.                                                          *)
Refuse(c, changes) ==
  /\ CanStart(c)
  /\ seen[c] # view \/ ~Valid(view, changes)
  /\ End(c, Idle, "refused", FALSE)
  /\ NoBatch
  /\ UNCHANGED <<seen, theirs, unsettled, foreign, faults>>

NoOp(c, changes) ==
  /\ CanStart(c)
  /\ seen[c] = view /\ Valid(view, changes)
  /\ NothingToDo(PlanChanges(view, changes))
  /\ End(c, Begun(changes), "success", FALSE)
  /\ NoBatch
  /\ UNCHANGED <<seen, theirs, unsettled, foreign, faults>>

(* ListRecords fails, or ensureAuditWritable does. *)
StartFails(c) ==
  /\ CanStart(c)
  /\ Fault
  /\ End(c, Idle, "failed", FALSE)
  /\ NoBatch
  /\ UNCHANGED <<seen, theirs, unsettled, foreign>>

Start(c, changes) ==
  /\ CanStart(c)
  /\ seen[c] = view /\ Valid(view, changes)
  /\ ~NothingToDo(PlanChanges(view, changes))
  /\ applyMu' = c
  /\ op' = [op EXCEPT ![c] = Begun(changes)]
  /\ NoBatch
  /\ result' = NoResult
  /\ UNCHANGED <<seen, theirs, unsettled, foreign, faults>>

SendBatch(c, late) ==
  /\ op[c].pc = "batch"
  /\ ~op[c].cancelled
  /\ FaultIf(late /\ view = remote)
  /\ Batch(PlanChanges(op[c].current, op[c].changes), late)
  /\ Settle(FALSE)
  /\ Goto(c, "verify")
  /\ result' = NoResult
  /\ UNCHANGED <<applyMu, seen, theirs, foreign>>

(* sendBatch returns an error: the batch was rejected, it was not sent, or *)
(* it was carried out and the answer was lost.  There is no rollback.      *)
BatchFails(c, done, late) ==
  LET plan == PlanChanges(op[c].current, op[c].changes)  IN
  /\ op[c].pc = "batch"
  /\ late => done
  /\ FaultIf(~op[c].cancelled /\ (done \/ Accepts(plan)))
  /\ IF done THEN Batch(plan, late) ELSE NoBatch
  /\ Fails(c, FALSE)
  /\ UNCHANGED <<seen, theirs, foreign>>

Verified(c) ==
  /\ op[c].pc = "verify"
  /\ ~op[c].cancelled
  /\ PlanMatches(view, op[c].current, op[c].changes)
  /\ Goto(c, "dns")
  /\ NoBatch
  /\ result' = NoResult
  /\ UNCHANGED <<applyMu, seen, theirs, unsettled, foreign, faults>>

(* Faulty: the wait has no end. *)
WaitsForEver(c) == FALSE

(* waitForAPI gives up: the records do not match until the deadline, be it *)
(* that reads are behind, the reads fail, or the client has gone.          *)
VerifyFails(c) ==
  /\ op[c].pc = "verify"
  /\ FaultIf(~op[c].cancelled
               /\ PlanMatches(view, op[c].current, op[c].changes))
  /\ Goto(c, "list")
  /\ NoBatch
  /\ result' = NoResult
  /\ UNCHANGED <<applyMu, seen, theirs, unsettled, foreign>>

(* The name servers answer in time or not: a success in either case. *)
Succeed(c) ==
  /\ op[c].pc = "dns"
  /\ End(c, op[c], "success", FALSE)
  /\ NoBatch
  /\ Settle(op[c].read = "unsure")
  /\ UNCHANGED <<seen, theirs, foreign, faults>>

RollbackList(c) ==
  /\ op[c].pc = "list"
  /\ ~op[c].cancelled
  /\ op' = [op EXCEPT ![c].pc = "compensate", ![c].latest = view,
                      ![c].listed = Bare(Ours(view)) = Bare(Ours(remote))]
  /\ NoBatch
  /\ result' = NoResult
  /\ UNCHANGED <<applyMu, seen, theirs, unsettled, foreign, faults>>

Compensation(c) == RollbackPlan(op[c].current, op[c].latest, op[c].changes)

RollbackBatch(c, late) ==
  /\ op[c].pc = "compensate"
  /\ ~op[c].cancelled
  /\ FaultIf(late /\ view = remote)
  /\ Batch(Compensation(c), late)
  /\ Settle(FALSE)
  /\ Goto(c, "recheck")
  /\ result' = NoResult
  /\ UNCHANGED <<applyMu, seen, theirs, foreign>>

Recheck(c) ==
  /\ op[c].pc = "recheck"
  /\ ~op[c].cancelled
  /\ AffectedRecordsMatch(view, op[c].current, op[c].changes)
  /\ NoBatch
  /\ Fails(c, TRUE)
  /\ UNCHANGED <<seen, theirs, foreign, faults>>

(* One of the steps of rollback fails, or the deadline comes before the    *)
(* records match.                                                          *)
RollbackFails(c, done, late) ==
  /\ op[c].pc \in {"list", "compensate", "recheck"}
  /\ late => done
  /\ FaultIf(/\ ~op[c].cancelled
             /\ op[c].pc = "compensate" => done \/ Accepts(Compensation(c))
             /\ op[c].pc = "recheck" =>
                  AffectedRecordsMatch(view, op[c].current, op[c].changes))
  /\ IF done THEN op[c].pc = "compensate" /\ Batch(Compensation(c), late)
     ELSE NoBatch
  /\ Fails(c, FALSE)
  /\ UNCHANGED <<seen, theirs, foreign>>

-----------------------------------------------------------------------------
(* Environment                                                             *)

(* The client hangs up, and its request's context is cancelled. *)
Cancel(c) ==
  /\ op[c] # Idle
  /\ ~op[c].cancelled
  /\ Fault
  /\ op' = [op EXCEPT ![c].cancelled = TRUE]
  /\ NoBatch
  /\ result' = NoResult
  /\ UNCHANGED <<applyMu, seen, theirs, unsettled, foreign>>

Propagate ==
  /\ view # remote
  /\ view' = remote
  /\ UNCHANGED <<remote, nextId, applyMu, seen, op, theirs, foreign,
                 faults>>
  /\ Settle(FALSE)
  /\ result' = NoResult

OtherWriter(k, contents, late) ==
  LET old == RRset(remote, k)
      new == {[key |-> k, content |-> x, ttl |-> CHOOSE t \in TTLs : TRUE,
               comment |-> NoComment] : x \in contents}  IN
  /\ foreign < MaxForeign
  /\ foreign' = foreign + 1
  /\ FaultIf(late /\ view = remote)
  /\ Batch([deletes |-> Ids(old), patches |-> {}, creates |-> new], late)
  /\ theirs' = Theirs(remote')
  /\ Settle(FALSE)
  /\ result' = NoResult
  /\ UNCHANGED <<applyMu, seen, op>>

Crash ==
  /\ Fault
  /\ applyMu # None
  /\ applyMu' = None
  /\ op' = [c \in Clients |-> Idle]
  /\ NoBatch
  /\ Settle(TRUE)
  /\ result' = NoResult
  /\ UNCHANGED <<seen, theirs, foreign>>

ApplyStep(c) ==
  \/ \E late \in BOOLEAN : SendBatch(c, late) \/ RollbackBatch(c, late)
  \/ Verified(c) \/ VerifyFails(c) \/ Succeed(c) \/ RollbackList(c) \/ Recheck(c)
  \/ \E done, late \in BOOLEAN : BatchFails(c, done, late) \/ RollbackFails(c, done, late)

Next ==
  \/ \E c \in Clients :
       \/ Show(c)
       \/ \E changes \in Requests :
            Refuse(c, changes) \/ NoOp(c, changes) \/ Start(c, changes)
       \/ StartFails(c)
       \/ ApplyStep(c)
       \/ Cancel(c)
  \/ Propagate
  \/ \E k \in Foreign, contents \in SUBSET Contents, late \in BOOLEAN :
       OtherWriter(k, contents, late)
  \/ Crash

Spec == Init /\ [][Next]_vars

(* Every call has a deadline (15 s for HTTP and for each wait, 30 s for    *)
(* the name servers).  That reads ever catch up is not assumed.            *)
FairSpec == Spec /\ \A c \in Clients : WF_vars(ApplyStep(c))

-----------------------------------------------------------------------------
(* Properties                                                              *)

(* docs/cloudflare-integration.md: "optimistic concurrency": the contents  *)
(* and TTLs that a batch replaces are the ones the client was shown, also  *)
(* when reads are late: nobody's change is overwritten unseen (applyMu,    *)
(* the revision check, and the read-back before applyMu is released).  The *)
(* exception is an ApplyChanges that reads after another one failed or     *)
(* died and before the reads caught up: the failed one releases applyMu    *)
(* without a read-back, and the stale revision is accepted.                *)
NoLostUpdate ==
  [][\A c \in Clients :
       op[c].pc = "batch" /\ remote' # remote /\ op'[c] # op[c]
         /\ op[c].read # "unsure" =>
           \A k \in DOMAIN op[c].changes :
             Compared(RRset(remote, k)) = Compared(RRset(seen[c], k))]_vars

(* The comment that r has after the change to w: an empty one is not sent, *)
(* and what a kept record had before stays.                                *)
CommentGiven(r, w, before) ==
  \/ r.comment = w.comment
  \/ /\ w.comment = NoComment
     /\ \E b \in before : SameRecordValue(b, w) /\ b.comment = r.comment

(* A success is answered only when the zone holds what was asked for,      *)
(* unless the plan was made from a read after a failure, as above.  The    *)
(* attributes, given or inherited, are right when that read was not late,  *)
(* although no read-back compares them, but one that is emptied stays what *)
(* it was: the patch does not hold it (planChanges, inheritedProvider,     *)
(* planMatches, CreateOperation's omitempty).                              *)
SuccessIsApplied ==
  [][result' # result /\ result'.status = "success" =>
       LET before == Affected(result'.before, result'.changes)
           is     == Affected(remote, result'.changes)
           ought  == Expected(result'.before, result'.changes)  IN
       /\ result'.read # "unsure" => Compared(is) = Compared(ought)
       /\ result'.read = "fresh" =>
            \A r \in is, w \in ought :
              SameRecordValue(r, w) => CommentGiven(r, w, before)]_vars

(* A rollback is reported only when the RRsets changed are what they were  *)
(* when ApplyChanges read them, attributes included, however late the read *)
(* that confirms it (rollback, affectedRecordsMatch).  Two exceptions: the *)
(* list that the rollback starts from was itself behind, and RRsets whose  *)
(* type was written with spaces, which rollback neither restores nor       *)
(* compares.                                                               *)
RolledBackIsRestored ==
  [][result' # result /\ result'.rolledBack /\ result'.listed =>
       {Value(r) : r \in Restorable(remote, result'.changes)} =
       {Value(r) : r \in Restorable(result'.before, result'.changes)}]_vars

(* Neither a batch nor a rollback reverts what other writers do to their   *)
(* RRsets meanwhile (planChanges, rollback).                               *)
OthersKeepTheirs == Theirs(remote) = theirs

Alone(records) ==
  \A k, l \in RRsets \ Foreign :
    k # l /\ k[1] = l[1] /\ k[2] = "CNAME" =>
      RRset(records, k) = {} \/ RRset(records, l) = {}

(* Neither a batch nor a rollback puts a CNAME beside other types at the   *)
(* same owner, also when one change removes what another replaces          *)
(* (planChanges), unless it was so when ApplyChanges read the zone, or one *)
(* of the exceptions above holds: a read after a failure, a list that is   *)
(* behind, a type that rollback does not recognise.                        *)
CnamesAreAlone ==
  [][remote' # remote /\ Alone(remote) /\ ~Alone(remote') =>
       \E c \in Clients :
         /\ op'[c] # op[c]
         /\ \/ op[c].read = "unsure" \/ ~op[c].listed
            \/ ~Alone(op[c].current)
            \/ \E k \in DOMAIN op[c].changes : op[c].changes[k].padded]_vars

(* Nobody waits for ever for applyMu: each ApplyChanges ends, when its     *)
(* client hangs up too (the deadlines, and defer).                         *)
EveryApplyEnds ==
  \A c \in Clients : op[c] # Idle ~> op[c] = Idle
=============================================================================
