----------------------------- MODULE Idempotency -----------------------------
(***************************************************************************)
(* The Idempotency-Key middleware of rill-api (internal/api/idempotency.go)*)
(* in front of a resource that a mutating handler changes under a revision *)
(* check: the responses it remembers in memory and in idempotency.json,    *)
(* the keys in flight, and the requests that run it concurrently.          *)
(*                                                                         *)
(* The wrapped handler is one step here; ZoneStore and Blocklist describe  *)
(* what happens inside it.  A fingerprint is the hash of method, path,     *)
(* If-Match and body: the revision expected and the content asked for.     *)
(***************************************************************************)
EXTENDS Naturals, FiniteSets

CONSTANTS
  Keys,        \* Idempotency-Key values
  Handlers,    \* requests being served at a time
  Contents,    \* contents the resource can be given
  Sends,       \* what clients send: pairs of a key and a fingerprint
  MaxSerial,   \* bound on the serials of the resource
  MaxEntries,  \* idempotencyMaxEntries
  TTL,         \* idempotencyTTL, in ticks of the clock
  Hashed,      \* the revision hashes the content only (blocklist,
               \* Cloudflare), and not a text with a serial (zones)
  Faults,      \* the faults considered, of "crash", "halfdone" and "unsaved"
  None

ASSUME ConstantsAssumption ==
  /\ MaxSerial \in Nat /\ MaxEntries \in Nat \ {0} /\ TTL \in Nat \ {0}
  /\ Hashed \in BOOLEAN
  /\ Faults \subseteq {"crash", "halfdone", "unsaved"}

Revision == [content : Contents, serial : IF Hashed THEN {0} ELSE 0..MaxSerial]
Fingerprint == [from : Revision, to : Contents]

ASSUME SendsAssumption == Sends \subseteq Keys \X Fingerprint

Entry == [fingerprint : Fingerprint, status : {"ok", "refused"}, age : 0..TTL]

ASSUME NoneAssumption ==
  None \notin Fingerprint /\ None \notin Entry /\ None \notin Keys

VARIABLES
  entries,   \* IdempotencyStore.entries: the responses remembered
  saved,     \* the same in the file
  inFlight,  \* IdempotencyStore.inFlight: key -> fingerprint
  handler,   \* what each request is doing
  revision,  \* the resource's current revision
  answer,    \* the response that the last step sent, if it sent one
  applied,   \* history variable: the requests that changed the resource
  spent      \* history variable: those of them whose expected revision has
             \* not come back since

vars == <<entries, saved, inFlight, handler, revision, answer, applied, spent>>

Idle == [pc |-> "idle", key |-> None, fingerprint |-> None, status |-> "none"]
Running ==
  [pc : {"run"}, key : Keys, fingerprint : Fingerprint, status : {"none"}]
    \cup [pc : {"finish"}, key : Keys, fingerprint : Fingerprint,
          status : {"ok", "refused", "failed"}]
Answer == [key : Keys, fingerprint : Fingerprint,
           status : {"ok", "refused", "failed", "conflict", "mismatch"}]

TypeOK ==
  /\ entries \in [Keys -> Entry \cup {None}]
  /\ saved \in [Keys -> Entry \cup {None}]
  /\ inFlight \in [Keys -> Fingerprint \cup {None}]
  /\ handler \in [Handlers -> Running \cup {Idle}]
  /\ revision \in Revision
  /\ answer \in Answer \cup {None}
  /\ applied \subseteq Keys \X Fingerprint
  /\ spent \subseteq Keys \X Fingerprint

Nothing == [k \in Keys |-> None]

Init ==
  /\ entries = Nothing
  /\ saved = Nothing
  /\ inFlight = Nothing
  /\ handler = [h \in Handlers |-> Idle]
  /\ revision \in [content : Contents, serial : {0}]
  /\ answer = None
  /\ applied = {}
  /\ spent = {}

-----------------------------------------------------------------------------
(* Helpers                                                                 *)

(* A definition whose comment calls it faulty is not used by Spec: it is a *)
(* plausible slip in the code, and shows that a property would catch it.   *)

Retained(k) == entries[k] # None /\ entries[k].age < TTL

Live(e) == {k \in Keys : e[k] # None /\ e[k].age < TTL}

(* pruneLocked: drop what is older than the TTL, then the oldest beyond    *)
(* MaxEntries; entries of the same age may go in any order.                *)
Prunings(e) ==
  {[k \in Keys |-> IF k \in kept THEN e[k] ELSE None] :
     kept \in {s \in SUBSET Live(e) :
                 /\ Cardinality(s) =
                      IF Cardinality(Live(e)) <= MaxEntries
                      THEN Cardinality(Live(e)) ELSE MaxEntries
                 /\ \A k \in s, l \in Live(e) \ s : e[k].age <= e[l].age}}

(* A change bumps the serial unless the revision hashes the content only. *)
After(rev, content) ==
  [content |-> content,
   serial |-> IF Hashed THEN 0 ELSE rev.serial + 1]

HasSuccessor(rev) == Hashed \/ rev.serial < MaxSerial

(* Requests ask for something else than what they expect to be there, and  *)
(* stay within the bound on the serials.                                   *)
Requests(k) ==
  {f \in Fingerprint : /\ <<k, f>> \in Sends
                       /\ HasSuccessor(f.from)
                       /\ After(f.from, f.to) # f.from}

Reply(k, f, status) ==
  answer' = [key |-> k, fingerprint |-> f, status |-> status]

-----------------------------------------------------------------------------
(* begin, by its four results                                              *)

(* Faulty: a key is looked up without comparing the fingerprint. *)
AnyFingerprint(remembered, f) == TRUE
SameFingerprint(remembered, f) == remembered = f

BeginReplay(h, k, f) ==
  /\ handler[h] = Idle
  /\ Retained(k)
  /\ SameFingerprint(entries[k].fingerprint, f)
  /\ Reply(k, f, entries[k].status)
  /\ UNCHANGED <<entries, saved, inFlight, handler, revision, applied, spent>>

BeginMismatch(h, k, f) ==
  /\ handler[h] = Idle
  /\ IF Retained(k) THEN ~SameFingerprint(entries[k].fingerprint, f)
     ELSE inFlight[k] # None /\ inFlight[k] # f
  /\ Reply(k, f, "mismatch")
  /\ UNCHANGED <<entries, saved, inFlight, handler, revision, applied, spent>>

BeginInFlight(h, k, f) ==
  /\ handler[h] = Idle
  /\ ~Retained(k)
  /\ inFlight[k] = f
  /\ Reply(k, f, "conflict")
  /\ UNCHANGED <<entries, saved, inFlight, handler, revision, applied, spent>>

(* Faulty: the requests in flight are not consulted. *)
BeginUnguarded(h, k, f) ==
  /\ handler[h] = Idle
  /\ ~Retained(k)
  /\ inFlight' = [inFlight EXCEPT ![k] = f]
  /\ handler' = [handler EXCEPT ![h] =
       [pc |-> "run", key |-> k, fingerprint |-> f, status |-> "none"]]
  /\ answer' = None
  /\ UNCHANGED <<entries, saved, revision, applied, spent>>

BeginNew(h, k, f) ==
  /\ handler[h] = Idle
  /\ ~Retained(k)
  /\ inFlight[k] = None
  /\ inFlight' = [inFlight EXCEPT ![k] = f]
  /\ handler' = [handler EXCEPT ![h] =
       [pc |-> "run", key |-> k, fingerprint |-> f, status |-> "none"]]
  /\ answer' = None
  /\ UNCHANGED <<entries, saved, revision, applied, spent>>

-----------------------------------------------------------------------------
(* The wrapped handler.  The response goes to the client as it is written, *)
(* before finish records it.                                               *)

Responds(h, status) ==
  LET k == handler[h].key
      f == handler[h].fingerprint  IN
  /\ handler[h].pc = "run"
  /\ handler' = [handler EXCEPT ![h].pc = "finish", ![h].status = status]
  /\ Reply(k, f, status)
  /\ UNCHANGED <<entries, saved, inFlight>>

NotBack(requests) == {r \in requests : r[2].from # revision'}

RecordApplied(h) ==
  LET request == <<handler[h].key, handler[h].fingerprint>>  IN
  /\ applied' = applied \cup {request}
  /\ spent' = NotBack(spent \cup {request})

(* Faulty: the handler does not compare the revisions. *)
AnyRevision(h) == TRUE
RevisionMatches(h) == handler[h].fingerprint.from = revision

(* The change is made; "halfdone" is a 5xx after it was made: the zone's   *)
(* audit append failed, the directory was not synced, or Cloudflare's      *)
(* answer was lost.                                                        *)
RunApplies(h, status) ==
  /\ Responds(h, status)
  /\ RevisionMatches(h)
  /\ HasSuccessor(revision)
  /\ status = "failed" => "halfdone" \in Faults
  /\ revision' = After(revision, handler[h].fingerprint.to)
  /\ RecordApplied(h)

(* A 5xx before anything was changed, or after it was undone. *)
RunFails(h) ==
  /\ Responds(h, "failed")
  /\ RevisionMatches(h)
  /\ UNCHANGED <<revision, applied, spent>>

(* 412: the revision is not the expected one. *)
RunRefuses(h) ==
  /\ Responds(h, "refused")
  /\ ~RevisionMatches(h)
  /\ UNCHANGED <<revision, applied, spent>>

-----------------------------------------------------------------------------
(* finish                                                                  *)

(* Faulty: the early return forgets the key in flight. *)
FinishFailedEarly(h) ==
  /\ handler[h].pc = "finish"
  /\ handler[h].status = "failed"
  /\ handler' = [handler EXCEPT ![h] = Idle]
  /\ answer' = None
  /\ UNCHANGED <<entries, saved, inFlight, revision, applied, spent>>

(* A server error is forgotten, so that a retry runs again. *)
FinishFailed(h) ==
  /\ handler[h].pc = "finish"
  /\ handler[h].status = "failed"
  /\ inFlight' = [inFlight EXCEPT ![handler[h].key] = None]
  /\ handler' = [handler EXCEPT ![h] = Idle]
  /\ answer' = None
  /\ UNCHANGED <<entries, saved, revision, applied, spent>>

(* Any other response is recorded and all are saved; a failed save is only *)
(* logged.                                                                 *)
FinishRecorded(h, saves) ==
  LET k == handler[h].key
      e == [entries EXCEPT ![k] =
              [fingerprint |-> handler[h].fingerprint,
               status |-> handler[h].status, age |-> 0]]  IN
  /\ handler[h].pc = "finish"
  /\ handler[h].status # "failed"
  /\ saves \/ "unsaved" \in Faults
  /\ inFlight' = [inFlight EXCEPT ![k] = None]
  /\ entries' \in Prunings(e)
  /\ saved' = IF saves THEN entries' ELSE saved
  /\ handler' = [handler EXCEPT ![h] = Idle]
  /\ answer' = None
  /\ UNCHANGED <<revision, applied, spent>>

-----------------------------------------------------------------------------
(* Environment                                                             *)

(* A writer that uses another key, or none, changes the resource, to an    *)
(* earlier revision too: by restoring the content where the revision hashes*)
(* that alone, and for a zone by deleting it and creating it again with    *)
(* the text, serial included, that it had (Delete, Create).                *)
OtherChange(rev) ==
  /\ rev # revision
  /\ revision' = rev
  /\ spent' = NotBack(spent)
  /\ answer' = None
  /\ UNCHANGED <<entries, saved, inFlight, handler, applied>>

Older(e) == [k \in Keys |->
  IF e[k] = None THEN None
  ELSE [e[k] EXCEPT !.age = IF @ < TTL THEN @ + 1 ELSE TTL]]

Tick ==
  /\ entries' = Older(entries)
  /\ saved' = Older(saved)
  /\ entries' # entries \/ saved' # saved
  /\ answer' = None
  /\ UNCHANGED <<inFlight, handler, revision, applied, spent>>

(* The process restarts: NewIdempotencyStore loads and prunes the file. *)
Crash ==
  /\ "crash" \in Faults
  /\ entries' \in Prunings(saved)
  /\ inFlight' = Nothing
  /\ handler' = [h \in Handlers |-> Idle]
  /\ answer' = None
  /\ UNCHANGED <<saved, revision, applied, spent>>

Begin(h) ==
  \E k \in Keys : \E f \in Requests(k) :
    \/ BeginReplay(h, k, f) \/ BeginMismatch(h, k, f)
    \/ BeginInFlight(h, k, f) \/ BeginNew(h, k, f)

Serve(h) ==
  \/ \E status \in {"ok", "failed"} : RunApplies(h, status)
  \/ RunFails(h) \/ RunRefuses(h)
  \/ FinishFailed(h)
  \/ \E saves \in BOOLEAN : FinishRecorded(h, saves)

Next ==
  \/ \E h \in Handlers : Begin(h) \/ Serve(h)
  \/ \E rev \in Revision : OtherChange(rev)
  \/ Tick
  \/ Crash

Spec == Init /\ [][Next]_vars

(* A request that was begun is served to its end. *)
FairSpec == Spec /\ \A h \in Handlers : WF_vars(Serve(h))

-----------------------------------------------------------------------------
(* Properties                                                              *)

(* The step in which a request changes the resource: its handler responds  *)
(* and the revision is another one.                                        *)
Applies(k, f) ==
  \E h \in Handlers :
    /\ handler[h].pc = "run" /\ handler'[h].pc = "finish"
    /\ handler[h].key = k /\ handler[h].fingerprint = f
    /\ revision' # revision

(* docs/api.md: "the mutation is not repeated": while a response to a key  *)
(* is retained, and while a request with the key is running, no other      *)
(* request with the key changes the resource (begin, finish).              *)
NotRepeatedWhileRetained ==
  [][\A k \in Keys, f \in Fingerprint :
       Applies(k, f) =>
         /\ ~Retained(k)
         /\ \A g, h \in Handlers :
              handler[g].key = k /\ handler[h].key = k => g = h]_vars

(* A success is only ever reported, replayed or not, to a request that did *)
(* change the resource: not to another one that reuses its key, and not    *)
(* from what a restart loads (idempotent, begin).                          *)
SuccessIsTrue ==
  answer # None /\ answer.status = "ok" =>
    <<answer.key, answer.fingerprint>> \in applied

(* A request that changed the resource does not change it again before     *)
(* another writer has brought the revision back that it expects: however   *)
(* often it is retried, over server errors, evictions, expiry and restarts *)
(* (finish, and the handlers' revision checks).                            *)
ReappliedOnlyIfRecurred ==
  [][\A k \in Keys, f \in Fingerprint :
       Applies(k, f) => <<k, f>> \notin spent]_vars

(* finish: "the zone revision check still prevents a double apply".  It    *)
(* does not when a revision comes back between a request and its retry.    *)
AtMostOnce ==
  [][\A k \in Keys, f \in Fingerprint :
       Applies(k, f) => <<k, f>> \notin applied]_vars

(* A key does not stay in flight: a retry is not answered 409 for ever.    *)
EveryKeyIsReleased ==
  \A k \in Keys : inFlight[k] # None ~> inFlight[k] = None

(* The inductive invariant: a running request alone owns its key, no       *)
(* response to the key is retained, and everything remembered as a success *)
(* has happened (begin, finish, NewIdempotencyStore).                      *)
OwnsKey(h) ==
  /\ inFlight[handler[h].key] = handler[h].fingerprint
  /\ ~Retained(handler[h].key)
  /\ \A g \in Handlers : handler[g].key = handler[h].key => g = h
  /\ handler[h].status = "ok" =>
       <<handler[h].key, handler[h].fingerprint>> \in applied

Remembered(e) ==
  \A k \in Keys :
    e[k] # None /\ e[k].status = "ok" => <<k, e[k].fingerprint>> \in applied

Consistent ==
  /\ \A h \in Handlers : handler[h] # Idle => OwnsKey(h)
  /\ Remembered(entries)
  /\ Remembered(saved)
  /\ SuccessIsTrue

(* A request that is spent expects another revision than the present one.  *)
SpentIsPast == \A r \in spent : r[2].from # revision
=============================================================================
