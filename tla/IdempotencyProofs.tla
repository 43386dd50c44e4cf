-------------------------- MODULE IdempotencyProofs --------------------------
(***************************************************************************)
(* Proofs about Idempotency for any number of keys, concurrent requests    *)
(* and entries: a remembered request is not run again, a reported success  *)
(* is true, and, where revisions do not come back, nothing is done twice.  *)
(***************************************************************************)
EXTENDS Idempotency, TLAPS

(* pruneLocked only forgets: what it keeps is what was there. *)
LEMMA PruningForgets ==
  ASSUME NEW e \in [Keys -> Entry \cup {None}], NEW p \in Prunings(e)
  PROVE  /\ p \in [Keys -> Entry \cup {None}]
         /\ \A k \in Keys : p[k] = None \/ p[k] = e[k]
BY DEF Prunings

(* The clock only moves the age of an entry, and only up. *)
LEMMA OlderAges ==
  ASSUME NEW e \in [Keys -> Entry \cup {None}]
  PROVE  /\ Older(e) \in [Keys -> Entry \cup {None}]
         /\ \A k \in Keys : e[k] = None => Older(e)[k] = None
         /\ \A k \in Keys : e[k] # None =>
              /\ Older(e)[k] # None
              /\ Older(e)[k].fingerprint = e[k].fingerprint
              /\ Older(e)[k].status = e[k].status
              /\ Older(e)[k].age >= e[k].age
<1>1. ASSUME NEW k \in Keys, e[k] # None
      PROVE  /\ Older(e)[k] \in Entry
             /\ Older(e)[k].fingerprint = e[k].fingerprint
             /\ Older(e)[k].status = e[k].status
             /\ Older(e)[k].age >= e[k].age
  <2>1. e[k] \in Entry
    BY <1>1
  <2>2. Older(e)[k] = [e[k] EXCEPT !.age = IF @ < TTL THEN @ + 1 ELSE TTL]
    BY <1>1 DEF Older
  <2> QED
    BY <2>1, <2>2, ConstantsAssumption DEF Entry
<1>2. \A k \in Keys : e[k] = None => Older(e)[k] = None
  BY DEF Older
<1>3. Older(e) \in [Keys -> Entry \cup {None}]
  BY <1>1, <1>2 DEF Older
<1> QED
  BY <1>1, <1>2, <1>3, NoneAssumption

-----------------------------------------------------------------------------
(* Types                                                                   *)

LEMMA AfterType ==
  ASSUME NEW rev \in Revision, NEW content \in Contents, HasSuccessor(rev)
  PROVE  After(rev, content) \in Revision
BY ConstantsAssumption DEF After, HasSuccessor, Revision

LEMMA RunningHandler ==
  ASSUME TypeOK, NEW h \in Handlers, handler[h].pc # "idle"
  PROVE  handler[h] \in Running /\ handler[h] # Idle
BY DEF TypeOK, Idle

LEMMA TypeStep == TypeOK /\ [Next]_vars => TypeOK'
<1> SUFFICES ASSUME TypeOK, [Next]_vars PROVE TypeOK'
  OBVIOUS
<1>1. ASSUME NEW h \in Handlers, NEW k \in Keys, NEW f \in Requests(k),
             BeginReplay(h, k, f)
      PROVE  TypeOK'
  <2>1. entries[k] \in Entry
    BY <1>1 DEF TypeOK, BeginReplay, Retained
  <2> QED
    BY <1>1, <2>1
    DEF TypeOK, BeginReplay, Reply, Requests, Answer, Entry
<1>2. ASSUME NEW h \in Handlers, NEW k \in Keys, NEW f \in Requests(k),
             BeginMismatch(h, k, f) \/ BeginInFlight(h, k, f)
      PROVE  TypeOK'
  BY <1>2
  DEF TypeOK, BeginMismatch, BeginInFlight, Reply, Requests, Answer
<1>3. ASSUME NEW h \in Handlers, NEW k \in Keys, NEW f \in Requests(k),
             BeginNew(h, k, f)
      PROVE  TypeOK'
  BY <1>3 DEF TypeOK, BeginNew, Requests, Running
<1>4. ASSUME NEW h \in Handlers, NEW status \in {"ok", "refused", "failed"},
             Responds(h, status)
      PROVE  /\ handler' \in [Handlers -> Running \cup {Idle}]
             /\ answer' \in Answer
             /\ handler[h] \in Running
             /\ UNCHANGED <<entries, saved, inFlight>>
  <2>1. handler[h] \in Running
    BY <1>4, RunningHandler DEF Responds
  <2> QED
    BY <1>4, <2>1 DEF TypeOK, Responds, Reply, Running, Answer
<1>5. ASSUME NEW h \in Handlers, NEW status \in {"ok", "failed"},
             RunApplies(h, status)
      PROVE  TypeOK'
  <2>1. /\ Responds(h, status)
        /\ handler[h] \in Running
    BY <1>4, <1>5 DEF RunApplies
  <2>2. revision' \in Revision
    BY <1>5, <2>1, AfterType DEF RunApplies, TypeOK, Running, Fingerprint
  <2>3. /\ applied' \subseteq Keys \X Fingerprint
        /\ spent' \subseteq Keys \X Fingerprint
    BY <1>5, <2>1 DEF RunApplies, RecordApplied, NotBack, TypeOK, Running
  <2> QED
    BY <1>4, <2>1, <2>2, <2>3 DEF TypeOK
<1>6. ASSUME NEW h \in Handlers, RunFails(h) \/ RunRefuses(h)
      PROVE  TypeOK'
  BY <1>4, <1>6 DEF TypeOK, RunFails, RunRefuses
<1>7. ASSUME NEW h \in Handlers, FinishFailed(h)
      PROVE  TypeOK'
  BY <1>7, RunningHandler DEF TypeOK, FinishFailed, Running
<1>8. ASSUME NEW h \in Handlers, NEW saves \in BOOLEAN,
             FinishRecorded(h, saves)
      PROVE  TypeOK'
  <2>1. /\ handler[h] \in Running
        /\ handler[h].status \in {"ok", "refused"}
    BY <1>8, RunningHandler DEF FinishRecorded, Running
  <2> DEFINE e == [entries EXCEPT ![handler[h].key] =
                     [fingerprint |-> handler[h].fingerprint,
                      status |-> handler[h].status, age |-> 0]]
  <2>2. e \in [Keys -> Entry \cup {None}]
    BY <2>1, ConstantsAssumption DEF TypeOK, Running, Entry
  <2>3. entries' \in Prunings(e)
    BY <1>8 DEF FinishRecorded
  <2>4. entries' \in [Keys -> Entry \cup {None}]
    <3> HIDE DEF e
    <3> QED
      BY <2>2, <2>3, PruningForgets
  <2> QED
    BY <1>8, <2>1, <2>4 DEF TypeOK, FinishRecorded, Running
<1>9. ASSUME NEW rev \in Revision, OtherChange(rev)
      PROVE  TypeOK'
  BY <1>9 DEF TypeOK, OtherChange, NotBack
<1>10. CASE Tick
  BY <1>10, OlderAges DEF TypeOK, Tick
<1>11. CASE Crash
  BY <1>11, PruningForgets DEF TypeOK, Crash, Nothing
<1>12. CASE UNCHANGED vars
  BY <1>12 DEF TypeOK, vars
<1> QED
  BY <1>1, <1>2, <1>3, <1>5, <1>6, <1>7, <1>8, <1>9, <1>10, <1>11, <1>12
  DEF Next, Begin, Serve

(* Every variable keeps its type. *)
THEOREM TypeCorrect == Spec => []TypeOK
<1>1. Init => TypeOK
  BY ConstantsAssumption DEF Init, TypeOK, Nothing, Revision
<1> QED
  BY <1>1, TypeStep, PTL DEF Spec

-----------------------------------------------------------------------------
(* A running request owns its key, and what is remembered is true          *)

(* Forgetting and ageing entries keep the memory true. *)
LEMMA TruthKept ==
  ASSUME TypeOK, TypeOK', Consistent,
         applied \subseteq applied',
         NEW e \in [Keys -> Entry \cup {None}], Remembered(e),
         NEW p \in [Keys -> Entry \cup {None}],
         \A k \in Keys :
           \/ p[k] = None
           \/ e[k] # None /\ p[k].fingerprint = e[k].fingerprint
                          /\ p[k].status = e[k].status
  PROVE  \A k \in Keys :
           p[k] # None /\ p[k].status = "ok" =>
             <<k, p[k].fingerprint>> \in applied'
<1> SUFFICES ASSUME NEW k \in Keys, p[k] # None, p[k].status = "ok"
             PROVE  <<k, p[k].fingerprint>> \in applied'
  OBVIOUS
<1>1. e[k] \in Entry /\ e[k].status = "ok"
  OBVIOUS
<1>2. <<k, e[k].fingerprint>> \in applied
  BY <1>1, NoneAssumption DEF Remembered
<1>3. <<k, e[k].fingerprint>> \in Keys \X Fingerprint
  BY <1>1 DEF Entry
<1> QED
  BY <1>2, <1>3

LEMMA ConsistentStep ==
  TypeOK /\ TypeOK' /\ Consistent /\ [Next]_vars => Consistent'
<1> SUFFICES ASSUME TypeOK, TypeOK', Consistent, [Next]_vars
             PROVE  Consistent'
  OBVIOUS
<1>1. ASSUME NEW h \in Handlers, handler[h] # Idle
      PROVE  OwnsKey(h) /\ handler[h] \in Running
  BY <1>1 DEF Consistent, TypeOK
<1>2. ASSUME UNCHANGED <<handler, inFlight, entries, applied>>
      PROVE  \A h \in Handlers : handler'[h] # Idle => OwnsKey(h)'
  BY <1>2 DEF Consistent, OwnsKey, Retained
<1>3. ASSUME NEW h \in Handlers, NEW k \in Keys, NEW f \in Requests(k),
             BeginReplay(h, k, f)
      PROVE  Consistent'
  <2>1. SuccessIsTrue'
    BY <1>3 DEF BeginReplay, Reply, SuccessIsTrue, SameFingerprint,
      Retained, Consistent, Remembered
  <2> QED
    BY <1>2, <1>3, <2>1 DEF BeginReplay, Consistent, Remembered
<1>4. ASSUME NEW h \in Handlers, NEW k \in Keys, NEW f \in Requests(k),
             BeginMismatch(h, k, f) \/ BeginInFlight(h, k, f)
      PROVE  Consistent'
  <2>1. SuccessIsTrue'
    BY <1>4 DEF BeginMismatch, BeginInFlight, Reply, SuccessIsTrue
  <2> QED
    BY <1>2, <1>4, <2>1
    DEF BeginMismatch, BeginInFlight, Consistent, Remembered
<1>5. ASSUME NEW h \in Handlers, NEW k \in Keys, NEW f \in Requests(k),
             BeginNew(h, k, f)
      PROVE  Consistent'
  <2>1. \A g \in Handlers : handler[g] # Idle => handler[g].key # k
    BY <1>1, <1>5, NoneAssumption DEF BeginNew, OwnsKey, Running
  <2>2. ASSUME NEW g \in Handlers, handler'[g] # Idle
        PROVE  OwnsKey(g)'
    <3>1. CASE g = h
      BY <1>5, <2>1, <3>1, NoneAssumption
      DEF BeginNew, OwnsKey, Retained, TypeOK, Idle
    <3>2. CASE g # h
      <4>1. handler'[g] = handler[g] /\ OwnsKey(g) /\ handler[g] \in Running
        BY <1>1, <1>5, <2>2, <3>2 DEF BeginNew, TypeOK
      <4>2. handler[g].key # k /\ handler[g].key \in Keys
        BY <2>1, <2>2, <4>1 DEF Running
      <4> QED
        BY <1>5, <4>1, <4>2 DEF BeginNew, OwnsKey, Retained, TypeOK
    <3> QED
      BY <3>1, <3>2
  <2> QED
    BY <1>5, <2>2 DEF BeginNew, Consistent, Remembered, SuccessIsTrue
<1>6. ASSUME NEW h \in Handlers, NEW status \in {"ok", "refused", "failed"},
             Responds(h, status),
             applied \subseteq applied',
             status = "ok" =>
               <<handler[h].key, handler[h].fingerprint>> \in applied'
      PROVE  Consistent'
  <2>1. handler[h] \in Running /\ handler[h] # Idle
    BY <1>6, RunningHandler DEF Responds
  <2>2. ASSUME NEW g \in Handlers, handler'[g] # Idle
        PROVE  OwnsKey(g)'
    <3>1. handler[g] # Idle /\ OwnsKey(g) /\ handler[g] \in Running
      BY <1>1, <1>6, <2>1, <2>2 DEF Responds, TypeOK
    <3>2. \A i \in Handlers : /\ handler'[i].key = handler[i].key
                              /\ handler'[i].fingerprint = handler[i].fingerprint
      BY <1>6, <2>1 DEF Responds, TypeOK, Running
    <3>3. <<handler[g].key, handler[g].fingerprint>> \in Keys \X Fingerprint
      BY <3>1 DEF Running
    <3>4. handler'[g].status = "ok" =>
            <<handler[g].key, handler[g].fingerprint>> \in applied'
      <4>1. CASE g = h
        BY <1>6, <2>1, <4>1 DEF Responds, TypeOK, Running
      <4>2. CASE g # h
        BY <1>6, <3>1, <3>3, <4>2 DEF Responds, TypeOK, OwnsKey
      <4> QED
        BY <4>1, <4>2
    <3>5. entries' = entries /\ inFlight' = inFlight
      BY <1>6 DEF Responds
    <3> QED
      BY <3>1, <3>2, <3>4, <3>5 DEF OwnsKey, Retained
  <2>3. Remembered(entries)' /\ Remembered(saved)'
    BY <1>6, TruthKept DEF Responds, TypeOK, Consistent, Remembered
  <2>4. SuccessIsTrue'
    BY <1>6 DEF Responds, Reply, SuccessIsTrue
  <2> QED
    BY <2>2, <2>3, <2>4 DEF Consistent
<1>7. ASSUME NEW h \in Handlers, NEW status \in {"ok", "failed"},
             RunApplies(h, status)
      PROVE  Consistent'
  <2>1. handler[h] \in Running
    BY <1>7, RunningHandler DEF RunApplies, Responds
  <2>2. <<handler[h].key, handler[h].fingerprint>> \in Keys \X Fingerprint
    BY <2>1 DEF Running
  <2>3. /\ applied \subseteq applied'
        /\ <<handler[h].key, handler[h].fingerprint>> \in applied'
    BY <1>7, <2>2 DEF RunApplies, RecordApplied, TypeOK
  <2> QED
    BY <1>6, <1>7, <2>3 DEF RunApplies
<1>8. ASSUME NEW h \in Handlers, RunFails(h) \/ RunRefuses(h)
      PROVE  Consistent'
  BY <1>6, <1>8 DEF RunFails, RunRefuses
<1>9. ASSUME NEW h \in Handlers, handler[h] # Idle,
             handler' = [handler EXCEPT ![h] = Idle],
             inFlight' = [inFlight EXCEPT ![handler[h].key] = None],
             \A k \in Keys : k # handler[h].key =>
               entries'[k] = None \/ entries'[k] = entries[k],
             applied' = applied
      PROVE  \A g \in Handlers : handler'[g] # Idle => OwnsKey(g)'
  <2> SUFFICES ASSUME NEW g \in Handlers, handler'[g] # Idle
               PROVE  OwnsKey(g)'
    OBVIOUS
  <2>1. g # h /\ handler'[g] = handler[g] /\ handler[g] # Idle
    BY <1>9 DEF TypeOK
  <2>2. OwnsKey(g) /\ OwnsKey(h) /\ handler[g] \in Running
        /\ handler[h] \in Running
    BY <1>1, <1>9, <2>1
  <2>3. handler[g].key # handler[h].key /\ handler[g].key \in Keys
    BY <2>1, <2>2 DEF OwnsKey, Running
  <2>4. inFlight'[handler[g].key] = handler[g].fingerprint
    BY <1>9, <2>2, <2>3 DEF OwnsKey, TypeOK
  <2>5. ~Retained(handler[g].key)'
    BY <1>9, <2>1, <2>2, <2>3 DEF OwnsKey, Retained
  <2>6. \A i \in Handlers : handler'[i].key = handler[g].key => i = g
    <3>1. Idle.key # handler[g].key
      BY <2>3, NoneAssumption DEF Idle
    <3> QED
      BY <1>9, <2>2, <3>1 DEF OwnsKey, TypeOK
  <2> QED
    BY <1>9, <2>1, <2>2, <2>4, <2>5, <2>6 DEF OwnsKey
<1>10. ASSUME NEW h \in Handlers, FinishFailed(h)
       PROVE  Consistent'
  <2>1. handler[h] # Idle
    BY <1>10 DEF FinishFailed, Idle
  <2>2. \A g \in Handlers : handler'[g] # Idle => OwnsKey(g)'
    BY <1>9, <1>10, <2>1 DEF FinishFailed
  <2> QED
    BY <1>10, <2>2 DEF FinishFailed, Consistent, Remembered, SuccessIsTrue
<1>11. ASSUME NEW h \in Handlers, NEW saves \in BOOLEAN,
              FinishRecorded(h, saves)
       PROVE  Consistent'
  <2>1. /\ handler[h] \in Running /\ handler[h] # Idle
        /\ handler[h].status \in {"ok", "refused"}
        /\ OwnsKey(h)
    BY <1>1, <1>11, RunningHandler DEF FinishRecorded, Running
  <2> DEFINE k == handler[h].key
             new == [fingerprint |-> handler[h].fingerprint,
                     status |-> handler[h].status, age |-> 0]
             e == [entries EXCEPT ![k] = new]
  <2>2. e \in [Keys -> Entry \cup {None}]
    BY <2>1, ConstantsAssumption DEF TypeOK, Running, Entry
  <2>3. \A l \in Keys : entries'[l] = None \/ entries'[l] = e[l]
    <3>1. entries' \in Prunings(e)
      BY <1>11 DEF FinishRecorded
    <3> HIDE DEF e
    <3> QED
      BY <2>2, <3>1, PruningForgets
  <2>4. \A l \in Keys : l # k => entries'[l] = None \/ entries'[l] = entries[l]
    BY <2>3 DEF TypeOK
  <2>5. entries'[k] = None \/ entries'[k] = new
    BY <2>1, <2>3 DEF TypeOK, Running
  <2>6. \A g \in Handlers : handler'[g] # Idle => OwnsKey(g)'
    BY <1>9, <1>11, <2>1, <2>4 DEF FinishRecorded
  <2>7. Remembered(entries)'
    <3> SUFFICES ASSUME NEW l \in Keys, entries'[l] # None,
                        entries'[l].status = "ok"
                 PROVE  <<l, entries'[l].fingerprint>> \in applied'
      BY DEF Remembered
    <3>1. applied' = applied
      BY <1>11 DEF FinishRecorded
    <3>2. CASE l = k
      BY <2>1, <2>5, <3>1, <3>2 DEF OwnsKey
    <3>3. CASE l # k
      BY <2>4, <3>1, <3>3 DEF Consistent, Remembered
    <3> QED
      BY <3>2, <3>3
  <2>8. Remembered(saved)'
    <3>1. CASE saved' = entries'
      BY <2>7, <3>1 DEF Remembered
    <3>2. CASE saved' = saved
      BY <1>11, <3>2 DEF FinishRecorded, Consistent, Remembered
    <3> QED
      BY <1>11, <3>1, <3>2 DEF FinishRecorded
  <2>9. SuccessIsTrue'
    BY <1>11 DEF FinishRecorded, Consistent, SuccessIsTrue
  <2> QED
    BY <2>6, <2>7, <2>8, <2>9 DEF Consistent
<1>12. ASSUME NEW rev \in Revision, OtherChange(rev)
       PROVE  Consistent'
  BY <1>2, <1>12 DEF OtherChange, Consistent, Remembered, SuccessIsTrue
<1>13. CASE Tick
  <2>1. ASSUME NEW h \in Handlers, handler'[h] # Idle
        PROVE  OwnsKey(h)'
    <3>1. OwnsKey(h) /\ handler[h] \in Running /\ handler' = handler
      BY <1>1, <1>13, <2>1 DEF Tick
    <3>2. handler[h].key \in Keys
      BY <3>1 DEF Running
    <3>3. ~Retained(handler[h].key)'
      <4>1. CASE entries[handler[h].key] = None
        BY <1>13, <3>1, <3>2, <4>1, OlderAges DEF Tick, Retained, TypeOK
      <4>2. CASE entries[handler[h].key] # None
        <5> DEFINE l == handler[h].key
        <5>1. entries[l] \in Entry /\ ~(entries[l].age < TTL)
          BY <3>1, <3>2, <4>2 DEF OwnsKey, Retained, TypeOK
        <5>2. Older(entries)[l].age >= entries[l].age
          BY <3>2, <4>2, OlderAges DEF TypeOK
        <5>3. Older(entries)[l] \in Entry
          BY <3>2, <4>2, OlderAges DEF TypeOK
        <5>4. ~(Older(entries)[l].age < TTL)
          BY <5>1, <5>2, <5>3, ConstantsAssumption DEF Entry
        <5> QED
          BY <1>13, <3>1, <5>4 DEF Tick, Retained
      <4> QED
        BY <4>1, <4>2
    <3> QED
      BY <1>13, <3>1, <3>3 DEF Tick, OwnsKey
  <2>2. Remembered(entries)'
    BY <1>13, OlderAges, TruthKept
    DEF Tick, TypeOK, Consistent, Remembered
  <2>3. Remembered(saved)'
    BY <1>13, OlderAges, TruthKept
    DEF Tick, TypeOK, Consistent, Remembered
  <2> QED
    BY <1>13, <2>1, <2>2, <2>3 DEF Tick, Consistent, SuccessIsTrue
<1>14. CASE Crash
  <2>1. Remembered(entries)'
    BY <1>14, PruningForgets DEF Crash, TypeOK, Consistent, Remembered
  <2> QED
    BY <1>14, <2>1 DEF Crash, Consistent, Remembered, SuccessIsTrue
<1>15. CASE UNCHANGED vars
  BY <1>2, <1>15 DEF vars, Consistent, Remembered, SuccessIsTrue
<1> QED
  BY <1>3, <1>4, <1>5, <1>7, <1>8, <1>10, <1>11, <1>12, <1>13, <1>14, <1>15
  DEF Next, Begin, Serve

(* A running request alone owns its key and nothing untrue is remembered.  *)
THEOREM AlwaysConsistent == Spec => []Consistent
<1>1. Init => Consistent
  BY DEF Init, Nothing, Consistent, Remembered, SuccessIsTrue
<1> QED
  BY <1>1, TypeCorrect, ConsistentStep, PTL DEF Spec

(* A success is only reported to a request that changed the resource.      *)
THEOREM SuccessesAreTrue == Spec => []SuccessIsTrue
<1>1. Consistent => SuccessIsTrue
  BY DEF Consistent
<1> QED
  BY <1>1, AlwaysConsistent, PTL

-----------------------------------------------------------------------------
(* Only the handler that owns the key changes the resource for it          *)

LEMMA AppliedBy ==
  ASSUME TypeOK, [Next]_vars,
         NEW k \in Keys, NEW f \in Fingerprint, Applies(k, f)
  PROVE  \E h \in Handlers :
           /\ handler[h] # Idle
           /\ handler[h].key = k /\ handler[h].fingerprint = f
           /\ RevisionMatches(h)
<1>1. PICK h \in Handlers : /\ handler[h].pc = "run"
                            /\ handler'[h].pc = "finish"
                            /\ handler[h].key = k
                            /\ handler[h].fingerprint = f
                            /\ revision' # revision
  BY DEF Applies
<1>2. PICK g \in Handlers, status \in {"ok", "failed"} : RunApplies(g, status)
  <2>1. handler' # handler /\ revision' # revision
    BY <1>1
  <2> QED
    BY <2>1 DEF Next, Begin, Serve, vars, BeginReplay, BeginMismatch,
      BeginInFlight, BeginNew, RunFails, RunRefuses, FinishFailed,
      FinishRecorded, OtherChange, Tick, Crash
<1>3. g = h
  BY <1>1, <1>2 DEF RunApplies, Responds, TypeOK
<1> QED
  BY <1>1, <1>2, <1>3 DEF RunApplies, Idle

(* While a response is retained, or another request with the key is        *)
(* running, no request with that key changes the resource.                 *)
THEOREM RetainedNotRepeated == Spec => NotRepeatedWhileRetained
<1> DEFINE Once ==
      \A k \in Keys, f \in Fingerprint :
        Applies(k, f) =>
          /\ ~Retained(k)
          /\ \A g, h \in Handlers :
               handler[g].key = k /\ handler[h].key = k => g = h
<1>1. TypeOK /\ Consistent /\ [Next]_vars => [Once]_vars
  <2> SUFFICES ASSUME TypeOK, Consistent, [Next]_vars,
                      NEW k \in Keys, NEW f \in Fingerprint, Applies(k, f)
               PROVE  /\ ~Retained(k)
                      /\ \A g, h \in Handlers :
                           handler[g].key = k /\ handler[h].key = k => g = h
    OBVIOUS
  <2>1. PICK h \in Handlers : handler[h] # Idle /\ handler[h].key = k
    BY AppliedBy
  <2>2. OwnsKey(h)
    BY <2>1 DEF Consistent
  <2> QED
    BY <2>1, <2>2 DEF OwnsKey
<1> QED
  BY <1>1, TypeCorrect, AlwaysConsistent, PTL
  DEF Spec, NotRepeatedWhileRetained

-----------------------------------------------------------------------------
(* A request is repeated only after its expected revision came back        *)

LEMMA SpentStep ==
  ASSUME TypeOK, SpentIsPast, [Next]_vars
  PROVE  SpentIsPast'
<1>1. ASSUME NEW h \in Handlers, NEW status \in {"ok", "failed"},
             RunApplies(h, status)
      PROVE  SpentIsPast'
  BY <1>1 DEF RunApplies, RecordApplied, NotBack, SpentIsPast
<1>2. ASSUME NEW rev \in Revision, OtherChange(rev)
      PROVE  SpentIsPast'
  BY <1>2 DEF OtherChange, NotBack, SpentIsPast
<1>3. CASE revision' = revision /\ spent' = spent
  BY <1>3 DEF SpentIsPast
<1> QED
  BY <1>1, <1>2, <1>3 DEF Next, Begin, Serve, vars, BeginReplay,
    BeginMismatch, BeginInFlight, BeginNew, RunFails, RunRefuses,
    FinishFailed, FinishRecorded, Tick, Crash

(* Whatever is forgotten, fails or crashes, and whoever else writes: a     *)
(* request that was applied is not applied again until the revision that   *)
(* it expects has come back.                                               *)
THEOREM RepeatedOnlyIfRecurred == Spec => ReappliedOnlyIfRecurred
<1> DEFINE Fresh ==
      \A k \in Keys, f \in Fingerprint :
        Applies(k, f) => <<k, f>> \notin spent
<1>1. Init => SpentIsPast
  BY DEF Init, SpentIsPast
<1>2. TypeOK /\ SpentIsPast /\ [Next]_vars => SpentIsPast'
  BY SpentStep
<1>3. TypeOK /\ SpentIsPast /\ [Next]_vars => [Fresh]_vars
  <2> SUFFICES ASSUME TypeOK, SpentIsPast, [Next]_vars,
                      NEW k \in Keys, NEW f \in Fingerprint, Applies(k, f),
                      <<k, f>> \in spent
               PROVE  FALSE
    OBVIOUS
  <2>1. f.from = revision
    BY AppliedBy DEF RevisionMatches
  <2> QED
    BY <2>1 DEF SpentIsPast
<1> QED
  BY <1>1, <1>2, <1>3, TypeCorrect, PTL DEF Spec, ReappliedOnlyIfRecurred
=============================================================================
