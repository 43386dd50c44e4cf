--------------------------- MODULE CloudflareProofs ---------------------------
(***************************************************************************)
(* Proofs about CloudflareApply, for any set of RRsets, requests, clients  *)
(* and other writers and any number of faults, late reads among them.      *)
(* That other writers' RRsets are left alone rests on the IDs alone.  What *)
(* else is proved rests on what an ApplyChanges knows at each of its       *)
(* steps, and on what reads show once applyMu is free.                     *)
(***************************************************************************)
EXTENDS CloudflareApply, FiniteSetTheorems, FunctionTheorems, TLAPS

-----------------------------------------------------------------------------
(* The planner                                                             *)

(* What a plan wants to be there, and what it may hold. *)
Wanted == [key : RRsets, content : Contents, ttl : TTLs, comment : Comments]

IsPlan(plan) ==
  /\ \A p \in plan.patches : p.to \in Wanted
  /\ plan.creates \subseteq Wanted
  /\ IsFiniteSet(plan.creates)

LEMMA RequestType ==
  ASSUME NEW changes \in Requests
  PROVE  /\ DOMAIN changes \subseteq RRsets /\ DOMAIN changes \cap Foreign = {}
         /\ \A k \in DOMAIN changes : changes[k] \in Upsert
<1>1. PICK keys \in (SUBSET RRsets) \ {{}} : changes \in [keys -> Upsert]
  BY ConstantsAssumption DEF Changes
<1>2. DOMAIN changes \cap Foreign = {}
  BY ConstantsAssumption
<1>3. QED
  BY <1>1, <1>2

LEMMA InheritedType ==
  ASSUME NEW S \in SUBSET Record, NEW requested \in Comments \cup {None}
  PROVE  Inherited(S, requested) \in Comments
<1> DEFINE comments == {r.comment : r \in S}
<1>1. comments \subseteq Comments
  BY DEF Record
<1>2. Inherited(S, requested) = IF requested # None THEN requested
                                ELSE IF Cardinality(comments) = 1
                                     THEN CHOOSE x \in comments : TRUE ELSE NoComment
  BY DEF Inherited
<1>3. Cardinality(comments) = 1 => comments # {}
  BY FS_EmptySet
<1> HIDE DEF comments
<1>4. Cardinality(comments) = 1 => (CHOOSE x \in comments : TRUE) \in comments
  BY <1>3
<1>5. QED
  BY <1>1, <1>2, <1>4, ConstantsAssumption

(* The record that is wanted of a content. *)
WantedFor(current, changes, k, x) ==
  [key |-> k, content |-> x, ttl |-> changes[k].ttl,
   comment |-> Inherited(RRset(current, k), changes[k].comment)]

LEMMA ExpectedIs ==
  ASSUME NEW current, NEW changes, NEW w
  PROVE  w \in Expected(current, changes) <=>
           \E k \in DOMAIN changes : \E x \in changes[k].contents :
             w = WantedFor(current, changes, k, x)
BY DEF Expected, WantedFor

(* At most one record is wanted of each RRset and content. *)
LEMMA ExpectedFacts ==
  ASSUME NEW current \in SUBSET Record, NEW changes \in Requests
  PROVE  /\ Expected(current, changes) \subseteq Wanted
         /\ \A w \in Expected(current, changes) :
              w.key \in DOMAIN changes /\ w.content \in changes[w.key].contents
         /\ \A v, w \in Expected(current, changes) :
              v.key = w.key /\ v.content = w.content => v = w
         /\ \A k \in DOMAIN changes : \A x \in changes[k].contents :
              \E w \in Expected(current, changes) : w.key = k /\ w.content = x
         /\ IsFiniteSet(Expected(current, changes))
<1> DEFINE E == Expected(current, changes)
<1>1. ASSUME NEW k \in DOMAIN changes, NEW x \in changes[k].contents
      PROVE  WantedFor(current, changes, k, x) \in Wanted
  <2>1. k \in RRsets /\ changes[k] \in Upsert
    BY RequestType
  <2>2. RRset(current, k) \in SUBSET Record
    BY DEF RRset
  <2>3. changes[k].ttl \in TTLs /\ x \in Contents /\ changes[k].comment \in Comments \cup {None}
    BY <2>1 DEF Upsert
  <2>4. Inherited(RRset(current, k), changes[k].comment) \in Comments
    BY <2>2, <2>3, InheritedType
  <2>5. QED
    BY <2>1, <2>3, <2>4 DEF WantedFor, Wanted
<1>2. ASSUME NEW w \in E
      PROVE  /\ w \in Wanted /\ w.key \in DOMAIN changes
             /\ w.content \in changes[w.key].contents
             /\ w = WantedFor(current, changes, w.key, w.content)
  <2>1. PICK k \in DOMAIN changes : \E x \in changes[k].contents :
          w = WantedFor(current, changes, k, x)
    BY ExpectedIs
  <2>2. PICK x \in changes[k].contents : w = WantedFor(current, changes, k, x)
    BY <2>1
  <2>3. w.key = k /\ w.content = x
    BY <2>2 DEF WantedFor
  <2>4. QED
    BY <1>1, <2>2, <2>3
<1>3. ASSUME NEW k \in DOMAIN changes, NEW x \in changes[k].contents
      PROVE  \E w \in E : w.key = k /\ w.content = x
  <2> DEFINE w == WantedFor(current, changes, k, x)
  <2>1. w \in E
    BY ExpectedIs
  <2>2. w.key = k /\ w.content = x
    BY DEF WantedFor
  <2>3. QED
    BY <2>1, <2>2
<1>4. IsFiniteSet(E)
  <2> DEFINE f == [w \in E |-> <<w.key, w.content>>]
  <2> HIDE DEF E
  <2>1. f \in [E -> RRsets \X Contents]
    BY <1>2 DEF Wanted
  <2>2. ASSUME NEW v \in E, NEW w \in E, f[v] = f[w]
        PROVE  v = w
    <3>1. v.key = w.key /\ v.content = w.content
      BY <2>2
    <3>2. QED
      BY <1>2, <3>1
  <2>3. f \in Injection(E, RRsets \X Contents)
    <3> HIDE DEF f
    <3>1. QED
      BY <2>1, <2>2 DEF Injection, IsInjective
  <2>4. IsFiniteSet(RRsets \X Contents)
    BY ConstantsAssumption, FS_Product
  <2>5. QED
    BY <2>3, <2>4, FS_Injection
<1>5. QED
  BY <1>2, <1>3, <1>4

LEMMA ValueFacts ==
  ASSUME NEW r \in Record
  PROVE  /\ Value(r) \in Wanted
         /\ Value(r).key = r.key /\ Value(r).content = r.content
         /\ Value(r).ttl = r.ttl /\ Value(r).comment = r.comment
BY DEF Value, Record, Wanted

LEMMA FiniteImage ==
  ASSUME NEW S, IsFiniteSet(S), NEW f, DOMAIN f = S
  PROVE  IsFiniteSet({f[x] : x \in S})
<1> DEFINE T == {f[x] : x \in S}
           g == [x \in S |-> f[x]]
<1>1. g \in Surjection(S, T)
  BY DEF Surjection
<1> HIDE DEF T, g
<1>2. IsFiniteSet(T)
  BY <1>1, FS_Surjection
<1>3. QED
  BY <1>2 DEF T

-----------------------------------------------------------------------------
(* Cloudflare's batch                                                      *)

(* A record with a value that is wanted. *)
Carries(r, w) ==
  r.key = w.key /\ r.content = w.content /\ r.ttl = w.ttl /\ r.comment = w.comment

(* New records carry what is to be created, each one under an ID that was  *)
(* not given before.                                                       *)
LEMMA NumberedFacts ==
  ASSUME nextId \in Nat, NEW creates, IsFiniteSet(creates)
  PROVE  /\ Cardinality(creates) \in Nat
         /\ \A n \in Numbered(creates) :
              /\ n.id \in nextId..nextId + Cardinality(creates) - 1
              /\ \E w \in creates : Carries(n, w)
              /\ n = [id |-> n.id, key |-> n.key, content |-> n.content,
                      ttl |-> n.ttl, comment |-> n.comment]
         /\ \A w \in creates : \E n \in Numbered(creates) : Carries(n, w)
         /\ \A m, n \in Numbered(creates) : m.id = n.id => m = n
<1> DEFINE C == Cardinality(creates)
           ids == nextId..nextId + C - 1
           Gives(f) == \A v, w \in creates : f[v] = f[w] => v = w
           give == CHOOSE f \in [creates -> ids] : Gives(f)
           New(w) == [id |-> give[w], key |-> w.key, content |-> w.content,
                      ttl |-> w.ttl, comment |-> w.comment]
<1>1. C \in Nat
  BY FS_CardinalityType
<1>2. IsFiniteSet(ids) /\ Cardinality(ids) = C
  <2> HIDE DEF C
  <2> DEFINE last == nextId + C - 1
  <2>1. nextId \in Int /\ last \in Int
    BY <1>1
  <2>2. nextId > last => C = 0
    BY <1>1
  <2>3. last - nextId + 1 = C
    BY <1>1
  <2> HIDE DEF last
  <2>4. /\ IsFiniteSet(nextId..last)
        /\ Cardinality(nextId..last) = IF nextId > last THEN 0 ELSE last - nextId + 1
    BY <2>1, FS_Interval
  <2>5. ids = nextId..last
    BY DEF last
  <2>6. QED
    BY <2>2, <2>3, <2>4, <2>5
<1>3. \E f \in [creates -> ids] : Gives(f)
  <2> HIDE DEF ids
  <2>1. ExistsBijection(creates, ids)
    BY <1>2, FS_SameCardinalityBij
  <2>2. PICK f : f \in Bijection(creates, ids)
    BY <2>1, Fun_ExistsBij
  <2>3. f \in [creates -> ids] /\ Gives(f)
    BY <2>2 DEF Bijection, Injection, IsInjective
  <2>4. QED
    BY <2>3
<1>4. give \in [creates -> ids] /\ Gives(give)
  <2> HIDE DEF ids, Gives
  <2>1. QED
    BY <1>3
<1>5. Numbered(creates) = {New(w) : w \in creates}
  BY DEF Numbered
<1> HIDE DEF give, ids, C
<1>6. \A w \in creates : New(w).id = give[w] /\ Carries(New(w), w)
  BY DEF Carries
<1>7. ASSUME NEW n \in Numbered(creates)
      PROVE  \E w \in creates : n = New(w)
  BY <1>5
<1>8. ASSUME NEW n \in Numbered(creates)
      PROVE  /\ n.id \in ids
             /\ \E w \in creates : Carries(n, w)
             /\ n = [id |-> n.id, key |-> n.key, content |-> n.content,
                     ttl |-> n.ttl, comment |-> n.comment]
  <2>1. PICK w \in creates : n = New(w)
    BY <1>7
  <2>2. n.id \in ids
    BY <1>4, <2>1
  <2>3. QED
    BY <1>6, <2>1, <2>2
<1>9. ASSUME NEW m \in Numbered(creates), NEW n \in Numbered(creates), m.id = n.id
      PROVE  m = n
  <2>1. PICK v \in creates : m = New(v)
    BY <1>7
  <2>2. PICK w \in creates : n = New(w)
    BY <1>7
  <2>3. give[v] = give[w]
    BY <1>6, <1>9, <2>1, <2>2
  <2>4. v = w
    BY <1>4, <2>3
  <2>5. QED
    BY <2>1, <2>2, <2>4
<1>10. \A w \in creates : \E n \in Numbered(creates) : Carries(n, w)
  BY <1>5, <1>6
<1>11. QED
  BY <1>1, <1>8, <1>9, <1>10 DEF ids, C

LEMMA PatchedFacts ==
  ASSUME NEW r \in Record, NEW patches, \A p \in patches : p.to \in Wanted
  PROVE  /\ Patched(r, patches) \in Record
         /\ Patched(r, patches).id = r.id
         /\ Patched(r, patches).key = r.key
         /\ Patched(r, patches).content = r.content
         /\ (\A p \in patches : p.id # r.id) => Patched(r, patches) = r
         /\ (\E p \in patches : p.id = r.id) =>
              \E p \in patches :
                /\ p.id = r.id /\ Patched(r, patches).ttl = p.to.ttl
                /\ Patched(r, patches).comment =
                     IF p.to.comment = NoComment THEN r.comment ELSE p.to.comment
<1>1. CASE \A p \in patches : p.id # r.id
  BY <1>1 DEF Patched
<1>2. CASE \E p \in patches : p.id = r.id
  <2> DEFINE p == CHOOSE q \in patches : q.id = r.id
             new == [r EXCEPT !.ttl = p.to.ttl,
                       !.comment = IF p.to.comment = NoComment THEN @ ELSE p.to.comment]
  <2>1. p \in patches /\ p.id = r.id
    BY <1>2
  <2>2. Patched(r, patches) = new
    BY <1>2 DEF Patched
  <2> HIDE DEF p
  <2>3. p.to \in Wanted
    BY <2>1
  <2>4. p.to.ttl \in TTLs /\ p.to.comment \in Comments
    BY <2>3 DEF Wanted
  <2>5. /\ new \in Record /\ new.id = r.id /\ new.key = r.key /\ new.content = r.content
        /\ new.ttl = p.to.ttl
        /\ new.comment = IF p.to.comment = NoComment THEN r.comment ELSE p.to.comment
    BY <2>4 DEF Record
  <2> HIDE DEF new
  <2>6. QED
    BY <1>2, <2>1, <2>2, <2>5
<1>3. QED
  BY <1>1, <1>2

(* Where the records come from that are there after a batch. *)
Survivors(plan) == {s \in remote : s.id \notin plan.deletes}

LEMMA BatchFacts ==
  ASSUME remote \subseteq Record, nextId \in 1..MaxId + 1, NEW plan, NEW late,
         IsPlan(plan), Batch(plan, late)
  PROVE  /\ remote' \subseteq Record
         /\ nextId' \in 1..MaxId + 1 /\ nextId <= nextId'
         /\ \A n \in Numbered(plan.creates) : n.id \in Nat /\ nextId <= n.id /\ n.id < nextId'
         /\ \A r \in remote' : \/ r \in Numbered(plan.creates)
                               \/ \E s \in Survivors(plan) : r = Patched(s, plan.patches)
         /\ \A s \in Survivors(plan) : Patched(s, plan.patches) \in remote'
         /\ Numbered(plan.creates) \subseteq remote'
<1> DEFINE C == Cardinality(plan.creates)
<1>1. /\ remote' = {Patched(r, plan.patches) : r \in Survivors(plan)}
                     \cup Numbered(plan.creates)
      /\ nextId' = nextId + C /\ nextId + C <= MaxId + 1
  BY DEF Batch, Accepts, Survivors
<1>2. nextId \in Nat /\ MaxId \in Nat
  BY ConstantsAssumption
<1>3. C \in Nat
  BY FS_CardinalityType DEF IsPlan
<1>4. /\ \A n \in Numbered(plan.creates) :
           /\ n.id \in nextId..nextId + Cardinality(plan.creates) - 1
           /\ \E w \in plan.creates : Carries(n, w)
           /\ n = [id |-> n.id, key |-> n.key, content |-> n.content,
                   ttl |-> n.ttl, comment |-> n.comment]
  BY <1>2, NumberedFacts DEF IsPlan
<1> HIDE DEF C
<1>5. nextId' \in 1..MaxId + 1 /\ nextId <= nextId'
  BY <1>1, <1>2, <1>3
<1>6. ASSUME NEW n \in Numbered(plan.creates)
      PROVE  n \in Record /\ n.id \in Nat /\ nextId <= n.id /\ n.id < nextId'
  <2>1. n.id \in nextId..nextId + C - 1
    BY <1>4 DEF C
  <2>2. n.id \in 1..MaxId /\ n.id \in Nat /\ nextId <= n.id /\ n.id < nextId'
    BY <1>1, <1>2, <1>3, <2>1
  <2>3. PICK w \in plan.creates : Carries(n, w)
    BY <1>4
  <2>4. w \in Wanted
    BY DEF IsPlan
  <2>5. n.key \in RRsets /\ n.content \in Contents /\ n.ttl \in TTLs /\ n.comment \in Comments
    BY <2>3, <2>4 DEF Carries, Wanted
  <2>6. n = [id |-> n.id, key |-> n.key, content |-> n.content, ttl |-> n.ttl,
             comment |-> n.comment]
    BY <1>4
  <2>7. QED
    BY <2>2, <2>5, <2>6 DEF Record
<1>7. \A s \in Survivors(plan) : Patched(s, plan.patches) \in Record
  BY PatchedFacts DEF IsPlan, Survivors
<1>8. remote' \subseteq Record
  BY <1>1, <1>6, <1>7
<1>9. QED
  BY <1>1, <1>5, <1>6, <1>8

-----------------------------------------------------------------------------
(* The plans                                                               *)

PlanIds(plan) == plan.deletes \cup {p.id : p \in plan.patches}

(* A plan that touches no record of another RRset. *)
Within(plan, K) ==
  /\ \A r \in remote : r.id \in PlanIds(plan) => r.key \in K
  /\ \A w \in plan.creates : w.key \in K

Outside(records, K) == {r \in records : r.key \notin K}

LEMMA PlanChangesIs ==
  ASSUME NEW current \in SUBSET Record, NEW changes \in Requests
  PROVE  /\ IsPlan(PlanChanges(current, changes))
         /\ \A i \in PlanIds(PlanChanges(current, changes)) :
              \E r \in Affected(current, changes) : r.id = i
         /\ \A w \in PlanChanges(current, changes).creates : w.key \in DOMAIN changes
<1> DEFINE plan == PlanChanges(current, changes)
           E == Expected(current, changes)
           X == Affected(current, changes)
           kept(r) == {w \in E : SameRecordValue(r, w)}
<1>1. E \subseteq Wanted /\ IsFiniteSet(E) /\ \A w \in E : w.key \in DOMAIN changes
  BY ExpectedFacts
<1>2. /\ plan.deletes = {r.id : r \in {s \in X : kept(s) = {}}}
      /\ plan.patches = UNION {{[id |-> r.id, to |-> w] : w \in kept(r) \ {Value(r)}} :
                                 r \in X}
      /\ plan.creates = {w \in E : \A r \in X : ~SameRecordValue(r, w)}
  BY DEF PlanChanges
<1> HIDE DEF plan, E, X
<1>3. ASSUME NEW p \in plan.patches
      PROVE  \E r \in X : p.id = r.id /\ p.to \in E
  BY <1>2
<1>4. \A i \in plan.deletes : \E r \in X : r.id = i
  BY <1>2
<1>5. plan.creates \subseteq E
  BY <1>2
<1>6. IsFiniteSet(plan.creates)
  BY <1>1, <1>5, FS_Subset
<1>7. IsPlan(plan)
  BY <1>1, <1>3, <1>5, <1>6 DEF IsPlan
<1>8. \A i \in PlanIds(plan) : \E r \in X : r.id = i
  BY <1>3, <1>4 DEF PlanIds
<1>9. QED
  BY <1>1, <1>5, <1>7, <1>8 DEF plan, X

UniqueIds(records) == \A r, s \in records : r.id = s.id => r = s

LEMMA UniqueIsFinite ==
  ASSUME NEW S \in SUBSET Record, UniqueIds(S)
  PROVE  IsFiniteSet(S)
<1> DEFINE f == [r \in S |-> r.id]
<1>1. f \in [S -> 1..MaxId]
  BY DEF Record
<1>2. \A r, s \in S : f[r] = f[s] => r = s
  BY DEF UniqueIds
<1> HIDE DEF f
<1>3. f \in Injection(S, 1..MaxId)
  BY <1>1, <1>2 DEF Injection, IsInjective
<1>4. IsFiniteSet(1..MaxId)
  <2>1. MaxId \in Int
    BY ConstantsAssumption
  <2>2. QED
    BY <2>1, FS_Interval
<1>5. QED
  BY <1>3, <1>4, FS_Injection

LEMMA ValuesAreFinite ==
  ASSUME NEW S \in SUBSET Record, UniqueIds(S)
  PROVE  {Value(r) : r \in S} \subseteq Wanted /\ IsFiniteSet({Value(r) : r \in S})
<1> DEFINE f == [r \in S |-> Value(r)]
<1>1. IsFiniteSet(S)
  BY UniqueIsFinite
<1>2. IsFiniteSet({f[r] : r \in S})
  <2>1. DOMAIN f = S
    OBVIOUS
  <2> HIDE DEF f
  <2>2. QED
    BY <1>1, <2>1, FiniteImage
<1>3. {f[r] : r \in S} = {Value(r) : r \in S}
  OBVIOUS
<1>4. {Value(r) : r \in S} \subseteq Wanted
  BY ValueFacts
<1>5. QED
  BY <1>2, <1>3, <1>4

LEMMA RollbackPlanIs ==
  ASSUME NEW current \in SUBSET Record, UniqueIds(current), NEW latest, NEW changes
  PROVE  /\ IsPlan(RollbackPlan(current, latest, changes))
         /\ \A i \in PlanIds(RollbackPlan(current, latest, changes)) :
              \E r \in Affected(latest, changes) : r.id = i
         /\ \A w \in RollbackPlan(current, latest, changes).creates : w.key \in DOMAIN changes
<1> DEFINE plan == RollbackPlan(current, latest, changes)
           X == Restorable(current, changes)
<1>1. X \in SUBSET Record /\ UniqueIds(X) /\ \A r \in X : r.key \in DOMAIN changes
  BY DEF Restorable, Affected, UniqueIds
<1>2. /\ plan.deletes = {r.id : r \in Restorable(latest, changes)}
      /\ plan.patches = {}
      /\ plan.creates = {Value(r) : r \in X}
  BY DEF RollbackPlan
<1>0. Restorable(latest, changes) \subseteq Affected(latest, changes)
  BY DEF Restorable
<1> HIDE DEF plan, X
<1>3. IsPlan(plan)
  BY <1>1, <1>2, ValuesAreFinite DEF IsPlan
<1>4. \A i \in PlanIds(plan) : \E r \in Affected(latest, changes) : r.id = i
  BY <1>0, <1>2 DEF PlanIds
<1>5. \A w \in plan.creates : w.key \in DOMAIN changes
  BY <1>1, <1>2, ValueFacts
<1>6. QED
  BY <1>3, <1>4, <1>5 DEF plan

(* What another writer sends. *)
OtherPlan(k, contents) ==
  [deletes |-> Ids(RRset(remote, k)), patches |-> {},
   creates |-> {[key |-> k, content |-> x, ttl |-> CHOOSE t \in TTLs : TRUE,
                 comment |-> NoComment] : x \in contents}]

LEMMA OtherPlanIs ==
  ASSUME UniqueIds(remote), NEW k \in RRsets, NEW contents \in SUBSET Contents
  PROVE  IsPlan(OtherPlan(k, contents)) /\ Within(OtherPlan(k, contents), {k})
<1> DEFINE plan == OtherPlan(k, contents)
           f == [x \in contents |-> [key |-> k, content |-> x,
                                     ttl |-> CHOOSE t \in TTLs : TRUE, comment |-> NoComment]]
<1>1. /\ plan.deletes = Ids(RRset(remote, k)) /\ plan.patches = {}
      /\ plan.creates = {f[x] : x \in contents}
  BY DEF OtherPlan
<1>2. (CHOOSE t \in TTLs : TRUE) \in TTLs
  BY ConstantsAssumption
<1>3. \A x \in contents : f[x] \in Wanted /\ f[x].key = k
  BY <1>2, ConstantsAssumption DEF Wanted
<1>4. IsFiniteSet({f[x] : x \in contents})
  <2>1. IsFiniteSet(contents)
    BY ConstantsAssumption, FS_Subset
  <2>2. DOMAIN f = contents
    OBVIOUS
  <2> HIDE DEF f
  <2>3. QED
    BY <2>1, <2>2, FiniteImage
<1> HIDE DEF plan, f
<1>5. IsPlan(plan)
  BY <1>1, <1>3, <1>4 DEF IsPlan
<1>6. Within(plan, {k})
  BY <1>1, <1>3 DEF Within, PlanIds, Ids, RRset, UniqueIds
<1>7. QED
  BY <1>5, <1>6 DEF plan

(* A batch leaves the records alone that its plan does not touch. *)
LEMMA BatchWithin ==
  ASSUME remote \subseteq Record, nextId \in 1..MaxId + 1, NEW plan, NEW late, NEW K,
         IsPlan(plan), Batch(plan, late), Within(plan, K)
  PROVE  Outside(remote', K) = Outside(remote, K)
<1>0. nextId \in Nat
  BY ConstantsAssumption
<1>1. ASSUME NEW r \in remote, r.key \notin K
      PROVE  r \in remote'
  <2>1. r.id \notin PlanIds(plan)
    BY <1>1 DEF Within
  <2>2. r \in Survivors(plan) /\ \A p \in plan.patches : p.id # r.id
    BY <2>1 DEF PlanIds, Survivors
  <2>3. Patched(r, plan.patches) = r
    BY <2>2, PatchedFacts DEF IsPlan
  <2>4. QED
    BY <2>2, <2>3, BatchFacts
<1>2. ASSUME NEW r \in remote', r.key \notin K
      PROVE  r \in remote
  <2>1. CASE r \in Numbered(plan.creates)
    <3>1. \E w \in plan.creates : Carries(r, w)
      BY <1>0, <2>1, NumberedFacts DEF IsPlan
    <3>2. QED
      BY <1>2, <3>1 DEF Carries, Within
  <2>2. ASSUME NEW s \in Survivors(plan), r = Patched(s, plan.patches)
        PROVE  r \in remote
    <3>1. s \in remote /\ s \in Record
      BY DEF Survivors
    <3>2. s.key = r.key
      BY <2>2, <3>1, PatchedFacts DEF IsPlan
    <3>3. \A p \in plan.patches : p.id # s.id
      BY <1>2, <3>1, <3>2 DEF Within, PlanIds
    <3>4. Patched(s, plan.patches) = s
      BY <3>1, <3>3, PatchedFacts DEF IsPlan
    <3>5. QED
      BY <2>2, <3>1, <3>4
  <2>3. QED
    BY <2>1, <2>2, BatchFacts
<1>3. QED
  BY <1>1, <1>2 DEF Outside

-----------------------------------------------------------------------------
(* The IDs                                                                 *)

(* Every record that somebody holds, now or from an earlier read. *)
Held == remote \cup view \cup UNION {op[c].current \cup op[c].latest : c \in Clients}

(* An ID stays with its RRset and content, and is not given twice. *)
IdsAreStable ==
  /\ \A r, s \in Held : r.id = s.id => r.key = s.key /\ r.content = s.content
  /\ \A r \in Held : r.id < nextId

IdsAreUnique ==
  /\ UniqueIds(remote) /\ UniqueIds(view)
  /\ \A c \in Clients : UniqueIds(op[c].current) /\ UniqueIds(op[c].latest)

(* An ApplyChanges under way has a request. *)
Requested ==
  \A c \in Clients : op[c] # Idle => op[c].pc # "idle" /\ op[c].changes \in Requests

IdInv == TypeOK /\ IdsAreStable /\ IdsAreUnique /\ Requested

LEMMA HeldIs ==
  /\ remote \subseteq Held /\ view \subseteq Held
  /\ \A c \in Clients : op[c].current \subseteq Held /\ op[c].latest \subseteq Held
BY DEF Held

LEMMA HeldType ==
  ASSUME TypeOK
  PROVE  Held \subseteq Record /\ \A r \in Held : r.id \in Nat
<1>1. Held \subseteq Record
  BY DEF Held, TypeOK, Operation
<1>2. QED
  BY <1>1, ConstantsAssumption DEF Record

LEMMA EmptyIsUnique == UniqueIds({})
BY DEF UniqueIds

(* The snapshots of an operation are what they were, a read, or empty. *)
Snapshots ==
  \A c \in Clients :
    /\ op'[c].current = op[c].current \/ op'[c].current = view \/ op'[c].current = {}
    /\ op'[c].latest = op[c].latest \/ op'[c].latest = view \/ op'[c].latest = {}

(* The records of a batch hold IDs of before with what they stood for, or  *)
(* new ones.                                                               *)
LEMMA BatchIds ==
  ASSUME TypeOK, UniqueIds(remote), \A r \in remote : r.id < nextId,
         NEW plan, NEW late, IsPlan(plan), Batch(plan, late)
  PROVE  /\ UniqueIds(remote')
         /\ \A r \in remote' : \/ \E s \in remote : r.id = s.id /\ r.key = s.key
                                                    /\ r.content = s.content
                               \/ r \in Numbered(plan.creates)
         /\ \A r \in Numbered(plan.creates) : r.id \in Nat /\ nextId <= r.id /\ r.id < nextId'
         /\ nextId \in Nat /\ nextId' \in Nat /\ nextId <= nextId'
<1>0. remote \subseteq Record /\ nextId \in 1..MaxId + 1 /\ nextId \in Nat
  BY ConstantsAssumption DEF TypeOK
<1>1. /\ nextId' \in Nat /\ nextId <= nextId'
      /\ \A r \in Numbered(plan.creates) : r.id \in Nat /\ nextId <= r.id /\ r.id < nextId'
  BY <1>0, BatchFacts, ConstantsAssumption
<1>2. ASSUME NEW s \in Survivors(plan)
      PROVE  /\ s \in remote
             /\ Patched(s, plan.patches).id = s.id
             /\ Patched(s, plan.patches).key = s.key
             /\ Patched(s, plan.patches).content = s.content
  BY <1>0, PatchedFacts DEF Survivors, IsPlan
<1>3. ASSUME NEW r \in remote', r \notin Numbered(plan.creates)
      PROVE  \E s \in Survivors(plan) : r = Patched(s, plan.patches)
  BY <1>0, <1>3, BatchFacts
<1>4. \A r \in remote' : \/ \E s \in remote : r.id = s.id /\ r.key = s.key
                                             /\ r.content = s.content
                        \/ r \in Numbered(plan.creates)
  BY <1>2, <1>3
<1>5. UniqueIds(remote')
  <2> SUFFICES ASSUME NEW r \in remote', NEW q \in remote', r.id = q.id
               PROVE  r = q
    BY DEF UniqueIds
  <2>1. CASE r \in Numbered(plan.creates) /\ q \in Numbered(plan.creates)
    BY <1>0, <2>1, NumberedFacts DEF IsPlan
  <2>2. ASSUME NEW a, NEW b, a \in Numbered(plan.creates), b \in remote',
               b \notin Numbered(plan.creates), a.id = b.id
        PROVE  FALSE
    <3>1. PICK s \in Survivors(plan) : b = Patched(s, plan.patches)
      BY <1>3, <2>2
    <3>2. s \in remote /\ s.id = a.id
      BY <1>2, <2>2, <3>1
    <3>3. QED
      BY <1>0, <1>1, <2>2, <3>2
  <2>3. CASE r \notin Numbered(plan.creates) /\ q \notin Numbered(plan.creates)
    <3>1. PICK s \in Survivors(plan) : r = Patched(s, plan.patches)
      BY <1>3, <2>3
    <3>2. PICK t \in Survivors(plan) : q = Patched(t, plan.patches)
      BY <1>3, <2>3
    <3>3. s = t
      BY <1>2, <3>1, <3>2 DEF UniqueIds
    <3>4. QED
      BY <3>1, <3>2, <3>3
  <2>4. QED
    BY <2>1, <2>2, <2>3
<1>6. QED
  BY <1>0, <1>1, <1>4, <1>5

LEMMA IdStep ==
  ASSUME IdInv, TypeOK', Requested', Snapshots,
         \/ remote' = remote /\ nextId' = nextId
         \/ \E plan, late : IsPlan(plan) /\ Batch(plan, late),
         view' = view \/ view' = remote \/ view' = remote'
  PROVE  IdInv'
<1>0. TypeOK /\ IdsAreStable /\ IdsAreUnique
  BY DEF IdInv
<1>1. /\ remote \subseteq Held /\ \A r \in remote : r.id < nextId
      /\ \A r \in Held : r.id \in Nat /\ r.id < nextId
      /\ nextId \in Nat
  BY <1>0, HeldIs, HeldType, ConstantsAssumption DEF IdsAreStable, TypeOK
<1>2. Held' \subseteq Held \cup remote'
  <2>1. ASSUME NEW c \in Clients
        PROVE  op'[c].current \subseteq Held /\ op'[c].latest \subseteq Held
    BY HeldIs DEF Snapshots
  <2>2. view' \subseteq Held \cup remote'
    BY HeldIs
  <2>3. QED
    BY <2>1, <2>2 DEF Held
<1>3. \A c \in Clients : UniqueIds(op'[c].current) /\ UniqueIds(op'[c].latest)
  BY <1>0, EmptyIsUnique DEF Snapshots, IdsAreUnique
<1>4. CASE remote' = remote /\ nextId' = nextId
  <2>1. Held' \subseteq Held
    BY <1>1, <1>2, <1>4
  <2>2. IdsAreStable'
    BY <1>0, <1>4, <2>1 DEF IdsAreStable
  <2>3. UniqueIds(remote') /\ UniqueIds(view')
    BY <1>0, <1>4 DEF IdsAreUnique
  <2>4. QED
    BY <1>3, <2>2, <2>3 DEF IdInv, IdsAreUnique
<1>5. CASE \E plan, late : IsPlan(plan) /\ Batch(plan, late)
  <2>1. PICK plan, late : IsPlan(plan) /\ Batch(plan, late)
    BY <1>5
  <2> DEFINE New == Numbered(plan.creates)
             Old(r) == \E s \in Held : r.id = s.id /\ r.key = s.key /\ r.content = s.content
  <2>2. /\ UniqueIds(remote')
        /\ \A r \in remote' : r \in New \/ Old(r)
        /\ \A r \in New : r.id \in Nat /\ nextId <= r.id /\ r.id < nextId'
        /\ nextId' \in Nat /\ nextId <= nextId'
    <3>1. UniqueIds(remote)
      BY <1>0 DEF IdsAreUnique
    <3>2. /\ UniqueIds(remote')
          /\ \A r \in remote' : \/ \E s \in remote : r.id = s.id /\ r.key = s.key
                                                     /\ r.content = s.content
                                \/ r \in New
          /\ \A r \in New : r.id \in Nat /\ nextId <= r.id /\ r.id < nextId'
          /\ nextId' \in Nat /\ nextId <= nextId'
      BY <1>0, <1>1, <2>1, <3>1, BatchIds
    <3> HIDE DEF New
    <3>3. QED
      BY <1>1, <3>2
  <2>3. \A m, n \in New : m.id = n.id => m = n
    BY <1>1, <2>1, NumberedFacts DEF IsPlan
  <2> HIDE DEF New
  <2>4. \A r \in Held' : r \in New \/ Old(r)
    <3>1. \A r \in Held : Old(r)
      OBVIOUS
    <3> HIDE DEF Old
    <3>2. QED
      BY <1>2, <2>2, <3>1
  <2>5. ASSUME NEW r \in Held', NEW q \in Held', r.id = q.id
        PROVE  r.key = q.key /\ r.content = q.content
    <3>1. CASE r \in New /\ q \in New
      BY <2>3, <2>5, <3>1
    <3>2. CASE Old(r) /\ Old(q)
      BY <1>0, <2>5, <3>2 DEF IdsAreStable
    <3>3. CASE (r \in New /\ Old(q)) \/ (Old(r) /\ q \in New)
      BY <1>1, <2>2, <2>5, <3>3
    <3>4. QED
      BY <2>4, <3>1, <3>2, <3>3
  <2>6. ASSUME NEW r \in Held'
        PROVE  r.id < nextId'
    <3>1. CASE r \in New
      BY <2>2, <3>1
    <3>2. CASE Old(r)
      BY <1>1, <2>2, <3>2
    <3>3. QED
      BY <2>4, <3>1, <3>2
  <2>7. UniqueIds(view')
    BY <1>0, <2>2 DEF IdsAreUnique
  <2>8. QED
    BY <1>3, <2>2, <2>5, <2>6, <2>7 DEF IdInv, IdsAreStable, IdsAreUnique
<1>6. QED
  BY <1>4, <1>5

-----------------------------------------------------------------------------
(* The steps                                                               *)

Busy == {"batch", "verify", "dns", "list", "compensate", "recheck"}

Outcome ==
  [status : {"none", "success", "refused", "failed"},
   changes : Requests \cup {None}, before : SUBSET Record,
   rolledBack : BOOLEAN, read : Reads, listed : BOOLEAN]

LEMMA IdleFields ==
  /\ Idle \in Operation /\ Idle.pc = "idle" /\ Idle.current = {} /\ Idle.latest = {}
  /\ Idle.changes = None
BY DEF Idle, Operation, Reads

(* The operation that a read begins. *)
LEMMA BegunFields ==
  ASSUME view \in SUBSET Record, NEW changes \in Requests
  PROVE  /\ Begun(changes) \in Operation /\ Begun(changes).pc = "batch"
         /\ Begun(changes).changes = changes /\ Begun(changes).current = view
         /\ Begun(changes).latest = {}
         /\ Begun(changes).read = IF Ours(view) = Ours(remote) THEN "fresh"
                                  ELSE IF unsettled THEN "unsure" ELSE "late"
BY DEF Begun, Idle, Operation, Reads

LEMMA SettleType ==
  ASSUME NEW failed, Settle(failed)
  PROVE  unsettled' \in BOOLEAN
BY DEF Settle

(* The part of the type invariant about the records. *)
LEMMA DataTypes ==
  ASSUME TypeOK,
         \/ remote' = remote /\ nextId' = nextId
         \/ \E plan, late : IsPlan(plan) /\ Batch(plan, late),
         view' = view \/ view' = remote \/ view' = remote',
         theirs' = theirs \/ theirs' = Theirs(remote')
  PROVE  /\ remote' \subseteq Record /\ view' \subseteq Record /\ theirs' \subseteq Record
         /\ nextId' \in 1..MaxId + 1
<1>1. remote' \subseteq Record /\ nextId' \in 1..MaxId + 1
  BY BatchFacts DEF TypeOK
<1>2. QED
  BY <1>1 DEF TypeOK, Theirs

(* What a step may make of the operation of a client. *)
Continued(c, new) ==
  /\ new.pc # "idle" /\ new.changes \in Requests
  /\ new.current = op[c].current \/ new.current = view
  /\ new.latest = op[c].latest \/ new.latest = view \/ new.latest = {}

LEMMA OpFrame ==
  ASSUME TypeOK, Requested, NEW c \in Clients, NEW new \in Operation,
         op' = [op EXCEPT ![c] = new], new = Idle \/ Continued(c, new)
  PROVE  op' \in [Clients -> Operation] /\ Requested' /\ Snapshots
<1>1. op' \in [Clients -> Operation]
  BY DEF TypeOK
<1>2. \A d \in Clients : op'[d] = IF d = c THEN new ELSE op[d]
  BY DEF TypeOK
<1>3. Requested'
  BY <1>2 DEF Requested, Continued
<1>4. Snapshots
  BY <1>2, IdleFields DEF Snapshots, Continued
<1>5. QED
  BY <1>1, <1>3, <1>4

LEMMA OpSame ==
  ASSUME TypeOK, Requested, op' = op
  PROVE  op' \in [Clients -> Operation] /\ Requested' /\ Snapshots
BY DEF TypeOK, Requested, Snapshots

(* ApplyChanges goes on to another step. *)
LEMMA GotoOp ==
  ASSUME TypeOK, Requested, NEW c \in Clients, op[c] # Idle, NEW pc \in Busy, Goto(c, pc)
  PROVE  op' \in [Clients -> Operation] /\ Requested' /\ Snapshots
<1> DEFINE new == [op[c] EXCEPT !.pc = pc]
<1>1. op[c] \in Operation /\ op[c].changes \in Requests
  BY DEF TypeOK, Requested
<1>2. new \in Operation /\ Continued(c, new)
  BY <1>1 DEF Operation, Continued, Busy
<1>3. op' = [op EXCEPT ![c] = new]
  BY DEF Goto
<1> HIDE DEF new
<1>4. QED
  BY <1>2, <1>3, OpFrame

LEMMA EndOp ==
  ASSUME TypeOK, Requested, NEW c \in Clients, NEW o \in Operation,
         NEW status \in {"success", "refused", "failed"},
         NEW rolledBack \in BOOLEAN, End(c, o, status, rolledBack)
  PROVE  /\ op' \in [Clients -> Operation] /\ Requested' /\ Snapshots
         /\ result' \in Outcome
         /\ applyMu' = None
<1>1. op' = [op EXCEPT ![c] = Idle] /\ applyMu' = None
  BY DEF End
<1>2. result' \in Outcome
  BY DEF End, Outcome, Operation
<1>3. QED
  BY <1>1, <1>2, IdleFields, OpFrame

LEMMA NoResultType ==
  NoResult \in Outcome
BY DEF NoResult, Outcome, Reads

LEMMA FaultTypes ==
  ASSUME TypeOK, faults' = faults \/ Fault
  PROVE  faults' \in 0..MaxFaults
BY ConstantsAssumption DEF TypeOK, Fault

LEMMA FaultIfIs ==
  ASSUME NEW p, FaultIf(p)
  PROVE  faults' = faults \/ Fault
BY DEF FaultIf

(* What the proofs use of a step. *)
Frame ==
  /\ TypeOK' /\ Requested' /\ Snapshots
  /\ \/ remote' = remote /\ nextId' = nextId /\ theirs' = theirs
     \/ \E plan, late :
          /\ IsPlan(plan) /\ Batch(plan, late)
          /\ \/ theirs' = Theirs(remote')
             \/ theirs' = theirs /\ \E K : K \cap Foreign = {} /\ Within(plan, K)
  /\ view' = view \/ view' = remote \/ view' = remote'

LEMMA FrameIs ==
  ASSUME TypeOK,
         op' \in [Clients -> Operation], Requested', Snapshots,
         \/ remote' = remote /\ nextId' = nextId /\ theirs' = theirs
         \/ \E plan, late :
              /\ IsPlan(plan) /\ Batch(plan, late)
              /\ \/ theirs' = Theirs(remote')
                 \/ theirs' = theirs /\ \E K : K \cap Foreign = {} /\ Within(plan, K),
         view' = view \/ view' = remote \/ view' = remote',
         applyMu' \in Clients \cup {None},
         seen' \in [Clients -> (SUBSET Record) \cup {None}],
         result' \in Outcome, unsettled' \in BOOLEAN,
         foreign' \in 0..MaxForeign,
         faults' = faults \/ Fault
  PROVE  Frame
<1>1. /\ remote' \subseteq Record /\ view' \subseteq Record /\ theirs' \subseteq Record
      /\ nextId' \in 1..MaxId + 1
  <2>1. \/ remote' = remote /\ nextId' = nextId
        \/ \E plan, late : IsPlan(plan) /\ Batch(plan, late)
    OBVIOUS
  <2>2. theirs' = theirs \/ theirs' = Theirs(remote')
    OBVIOUS
  <2>3. QED
    BY <2>1, <2>2, DataTypes
<1>2. TypeOK'
  BY <1>1, FaultTypes DEF TypeOK, Outcome
<1>3. QED
  BY <1>2 DEF Frame

(* The plans of a client stay within its request. *)
LEMMA ClientPlans ==
  ASSUME IdInv, NEW c \in Clients, op[c] # Idle
  PROVE  /\ op[c].changes \in Requests /\ DOMAIN op[c].changes \cap Foreign = {}
         /\ IsPlan(PlanChanges(op[c].current, op[c].changes))
         /\ Within(PlanChanges(op[c].current, op[c].changes), DOMAIN op[c].changes)
         /\ IsPlan(Compensation(c)) /\ Within(Compensation(c), DOMAIN op[c].changes)
<1> DEFINE current == op[c].current
           latest  == op[c].latest
           changes == op[c].changes
           K == DOMAIN changes
<1>1. changes \in Requests
  BY DEF IdInv, Requested
<1>2. current \in SUBSET Record /\ latest \in SUBSET Record
  BY DEF IdInv, TypeOK, Operation
<1>3. UniqueIds(current)
  BY DEF IdInv, IdsAreUnique
<1>4. \A r \in remote : \A s \in current \cup latest : r.id = s.id => r.key = s.key
  BY HeldIs DEF IdInv, IdsAreStable
<1>5. Compensation(c) = RollbackPlan(current, latest, changes)
  BY DEF Compensation
<1>6. K \cap Foreign = {}
  BY <1>1, RequestType
<1> HIDE DEF current, latest, changes
<1>7. IsPlan(PlanChanges(current, changes)) /\ Within(PlanChanges(current, changes), K)
  <2>1. /\ IsPlan(PlanChanges(current, changes))
        /\ \A i \in PlanIds(PlanChanges(current, changes)) :
             \E r \in Affected(current, changes) : r.id = i
        /\ \A w \in PlanChanges(current, changes).creates : w.key \in K
    BY <1>1, <1>2, PlanChangesIs
  <2>2. QED
    BY <1>4, <2>1 DEF Within, Affected
<1>8. /\ IsPlan(RollbackPlan(current, latest, changes))
      /\ Within(RollbackPlan(current, latest, changes), K)
  <2>1. /\ IsPlan(RollbackPlan(current, latest, changes))
        /\ \A i \in PlanIds(RollbackPlan(current, latest, changes)) :
             \E r \in Affected(latest, changes) : r.id = i
        /\ \A w \in RollbackPlan(current, latest, changes).creates : w.key \in K
    BY <1>2, <1>3, RollbackPlanIs
  <2>2. QED
    BY <1>4, <2>1 DEF Within, Affected
<1>9. QED
  BY <1>1, <1>5, <1>6, <1>7, <1>8 DEF current, latest, changes

-----------------------------------------------------------------------------

(* A step without a batch, and a step with one. *)
LEMMA QuietFrame ==
  ASSUME TypeOK, op' \in [Clients -> Operation], Requested', Snapshots,
         remote' = remote, nextId' = nextId, theirs' = theirs,
         view' = view \/ view' = remote,
         applyMu' \in Clients \cup {None},
         seen' \in [Clients -> (SUBSET Record) \cup {None}],
         result' \in Outcome, unsettled' \in BOOLEAN,
         foreign' = foreign, faults' = faults \/ Fault
  PROVE  Frame
<1>1. foreign' \in 0..MaxForeign
  BY DEF TypeOK
<1>2. QED
  BY <1>1, FrameIs

LEMMA BatchFrame ==
  ASSUME TypeOK, op' \in [Clients -> Operation], Requested', Snapshots,
         NEW plan, NEW late, IsPlan(plan), Batch(plan, late),
         NEW K, K \cap Foreign = {}, Within(plan, K), theirs' = theirs,
         applyMu' \in Clients \cup {None}, seen' = seen,
         result' \in Outcome, unsettled' \in BOOLEAN,
         foreign' = foreign, faults' = faults \/ Fault
  PROVE  Frame
<1>1. foreign' \in 0..MaxForeign /\ seen' \in [Clients -> (SUBSET Record) \cup {None}]
  BY DEF TypeOK
<1>2. view' = view \/ view' = remote \/ view' = remote'
  BY DEF Batch
<1>3. \E p, l : /\ IsPlan(p) /\ Batch(p, l)
                /\ \/ theirs' = Theirs(remote')
                   \/ theirs' = theirs /\ \E L : L \cap Foreign = {} /\ Within(p, L)
  OBVIOUS
<1>4. QED
  BY <1>1, <1>2, <1>3, FrameIs

(* The steps that start or end an ApplyChanges, without a batch. *)
LEMMA OutsideFrames ==
  ASSUME IdInv, NEW c \in Clients
  PROVE  /\ Show(c) => Frame
         /\ StartFails(c) => Frame
         /\ \A changes \in Requests :
              /\ Refuse(c, changes) => Frame
              /\ NoOp(c, changes) => Frame
              /\ Start(c, changes) => Frame
<1>0. TypeOK /\ Requested /\ view \in SUBSET Record /\ unsettled \in BOOLEAN
  BY DEF IdInv, TypeOK
<1>1. ASSUME Show(c)
      PROVE  Frame
  <2>1. op' \in [Clients -> Operation] /\ Requested' /\ Snapshots
    BY <1>0, <1>1, OpSame DEF Show
  <2>2. /\ seen' \in [Clients -> (SUBSET Record) \cup {None}]
        /\ applyMu' \in Clients \cup {None}
    BY <1>0, <1>1 DEF Show, TypeOK
  <2>3. QED
    BY <1>0, <1>1, <2>1, <2>2, NoResultType, QuietFrame DEF Show
<1>2. ASSUME NEW o \in Operation, NEW status \in {"success", "refused", "failed"},
             End(c, o, status, FALSE), NoBatch,
             UNCHANGED <<seen, theirs, unsettled, foreign>>, faults' = faults \/ Fault
      PROVE  Frame
  <2>1. /\ op' \in [Clients -> Operation] /\ Requested' /\ Snapshots
        /\ result' \in Outcome
        /\ applyMu' = None
    BY <1>0, <1>2, EndOp
  <2>2. seen' \in [Clients -> (SUBSET Record) \cup {None}]
    BY <1>0, <1>2 DEF TypeOK
  <2>3. QED
    BY <1>0, <1>2, <2>1, <2>2, QuietFrame DEF NoBatch
<1>3. ASSUME NEW changes \in Requests, Start(c, changes)
      PROVE  Frame
  <2> DEFINE new == Begun(changes)
  <2>1. new \in Operation /\ Continued(c, new)
    BY <1>0, BegunFields DEF Continued
  <2>2. op' = [op EXCEPT ![c] = new]
    BY <1>3 DEF Start
  <2> HIDE DEF new
  <2>3. op' \in [Clients -> Operation] /\ Requested' /\ Snapshots
    BY <1>0, <2>1, <2>2, OpFrame
  <2>4. /\ seen' \in [Clients -> (SUBSET Record) \cup {None}]
        /\ applyMu' \in Clients \cup {None}
    BY <1>0, <1>3 DEF TypeOK, Start
  <2>5. QED
    BY <1>0, <1>3, <2>3, <2>4, NoResultType, QuietFrame DEF Start, NoBatch
<1>4. ASSUME NEW changes \in Requests
      PROVE  (Refuse(c, changes) => Frame) /\ (NoOp(c, changes) => Frame)
  BY <1>0, <1>2, IdleFields, BegunFields DEF Refuse, NoOp
<1>5. StartFails(c) => Frame
  BY <1>2, IdleFields DEF StartFails
<1>6. QED
  BY <1>1, <1>3, <1>4, <1>5

(* The steps of an ApplyChanges that goes on. *)
LEMMA GoingFrames ==
  ASSUME IdInv, NEW c \in Clients
  PROVE  /\ Verified(c) => Frame
         /\ VerifyFails(c) => Frame
         /\ RollbackList(c) => Frame
         /\ Cancel(c) => Frame
         /\ \A late \in BOOLEAN : SendBatch(c, late) => Frame
         /\ \A late \in BOOLEAN : RollbackBatch(c, late) => Frame
<1>0. /\ TypeOK /\ Requested /\ view \in SUBSET Record
      /\ op[c] \in Operation /\ (op[c].pc # "idle" => op[c] # Idle)
      /\ (op[c] # Idle => op[c].pc # "idle" /\ op[c].changes \in Requests)
      /\ seen \in [Clients -> (SUBSET Record) \cup {None}]
      /\ applyMu \in Clients \cup {None} /\ unsettled \in BOOLEAN
  BY IdleFields DEF IdInv, TypeOK, Requested
<1>1. ASSUME NEW pc \in Busy, Goto(c, pc), op[c].pc # "idle", NoBatch, result' = NoResult,
             UNCHANGED <<applyMu, seen, theirs, unsettled, foreign>>,
             faults' = faults \/ Fault
      PROVE  Frame
  <2>1. op' \in [Clients -> Operation] /\ Requested' /\ Snapshots
    BY <1>0, <1>1, GotoOp
  <2>2. QED
    BY <1>0, <1>1, <2>1, NoResultType, QuietFrame DEF NoBatch
<1>2. ASSUME NEW pc \in Busy, Goto(c, pc), op[c].pc # "idle", result' = NoResult,
             NEW plan, NEW late, IsPlan(plan), Batch(plan, late),
             Within(plan, DOMAIN op[c].changes), Settle(FALSE),
             UNCHANGED <<applyMu, seen, theirs, foreign>>, faults' = faults \/ Fault
      PROVE  Frame
  <2>1. op' \in [Clients -> Operation] /\ Requested' /\ Snapshots
    BY <1>0, <1>2, GotoOp
  <2>2. DOMAIN op[c].changes \cap Foreign = {}
    BY <1>0, <1>2, ClientPlans
  <2>3. QED
    BY <1>0, <1>2, <2>1, <2>2, NoResultType, SettleType, BatchFrame
<1>3. Verified(c) => Frame
  BY <1>1 DEF Verified, Busy
<1>4. VerifyFails(c) => Frame
  BY <1>1, FaultIfIs DEF VerifyFails, Busy
<1>5. ASSUME NEW new \in Operation, op' = [op EXCEPT ![c] = new], Continued(c, new),
             NoBatch, result' = NoResult,
             UNCHANGED <<applyMu, seen, theirs, unsettled, foreign>>, faults' = faults \/ Fault
      PROVE  Frame
  <2>1. op' \in [Clients -> Operation] /\ Requested' /\ Snapshots
    BY <1>0, <1>5, OpFrame
  <2>2. QED
    BY <1>0, <1>5, <2>1, NoResultType, QuietFrame DEF NoBatch
<1>6. ASSUME RollbackList(c)
      PROVE  Frame
  <2> DEFINE new == [op[c] EXCEPT !.pc = "compensate", !.latest = view,
                                  !.listed = Bare(Ours(view)) = Bare(Ours(remote))]
  <2>1. op[c].pc = "list"
    BY <1>6 DEF RollbackList
  <2>2. new \in Operation /\ Continued(c, new)
    BY <1>0, <2>1 DEF Operation, Continued
  <2>3. op' = [op EXCEPT ![c] = new]
    BY <1>0, <1>6 DEF RollbackList, TypeOK
  <2> HIDE DEF new
  <2>4. QED
    BY <1>5, <1>6, <2>2, <2>3 DEF RollbackList
<1>7. ASSUME Cancel(c)
      PROVE  Frame
  <2> DEFINE new == [op[c] EXCEPT !.cancelled = TRUE]
  <2>1. op[c] # Idle
    BY <1>7 DEF Cancel
  <2>2. new \in Operation /\ Continued(c, new)
    BY <1>0, <2>1 DEF Operation, Continued
  <2>3. op' = [op EXCEPT ![c] = new]
    BY <1>7 DEF Cancel
  <2> HIDE DEF new
  <2>4. QED
    BY <1>5, <1>7, <2>2, <2>3 DEF Cancel
<1>8. ASSUME NEW late \in BOOLEAN, SendBatch(c, late)
      PROVE  Frame
  <2>1. op[c].pc # "idle"
    BY <1>8 DEF SendBatch
  <2>2. faults' = faults \/ Fault
    BY <1>8, FaultIfIs DEF SendBatch
  <2>3. /\ IsPlan(PlanChanges(op[c].current, op[c].changes))
        /\ Within(PlanChanges(op[c].current, op[c].changes), DOMAIN op[c].changes)
    BY <1>0, <2>1, ClientPlans
  <2>4. QED
    BY <1>2, <1>8, <2>1, <2>2, <2>3 DEF SendBatch, Busy
<1>9. ASSUME NEW late \in BOOLEAN, RollbackBatch(c, late)
      PROVE  Frame
  <2>1. op[c].pc # "idle"
    BY <1>9 DEF RollbackBatch
  <2>2. faults' = faults \/ Fault
    BY <1>9, FaultIfIs DEF RollbackBatch
  <2>3. IsPlan(Compensation(c)) /\ Within(Compensation(c), DOMAIN op[c].changes)
    BY <1>0, <2>1, ClientPlans
  <2>4. QED
    BY <1>2, <1>9, <2>1, <2>2, <2>3 DEF RollbackBatch, Busy
<1>10. QED
  BY <1>3, <1>4, <1>6, <1>7, <1>8, <1>9

(* The steps that end an ApplyChanges. *)
LEMMA EndingFrames ==
  ASSUME IdInv, NEW c \in Clients
  PROVE  /\ Succeed(c) => Frame
         /\ Recheck(c) => Frame
         /\ \A done, late \in BOOLEAN : BatchFails(c, done, late) => Frame
         /\ \A done, late \in BOOLEAN : RollbackFails(c, done, late) => Frame
<1>0. /\ TypeOK /\ Requested /\ view \in SUBSET Record
      /\ op[c] \in Operation /\ (op[c].pc # "idle" => op[c] # Idle)
      /\ (op[c] # Idle => op[c].pc # "idle" /\ op[c].changes \in Requests)
      /\ op[c].current \in SUBSET Record /\ op[c].changes \in Requests \cup {None}
      /\ seen \in [Clients -> (SUBSET Record) \cup {None}]
      /\ applyMu \in Clients \cup {None}
  BY IdleFields DEF IdInv, TypeOK, Requested, Operation
<1>1. ASSUME NEW status \in {"success", "refused", "failed"}, NEW rolledBack \in BOOLEAN,
             End(c, op[c], status, rolledBack), op[c].pc # "idle",
             UNCHANGED <<seen, theirs, foreign>>, faults' = faults \/ Fault,
             NEW failed, Settle(failed),
             \/ NoBatch
             \/ \E plan, late : /\ IsPlan(plan) /\ Batch(plan, late)
                                /\ Within(plan, DOMAIN op[c].changes)
      PROVE  Frame
  <2>1. /\ op' \in [Clients -> Operation] /\ Requested' /\ Snapshots
        /\ result' \in Outcome
        /\ applyMu' = None
    BY <1>0, <1>1, EndOp
  <2>0. unsettled' \in BOOLEAN
    BY <1>1, SettleType
  <2>2. CASE NoBatch
    BY <1>0, <1>1, <2>0, <2>1, <2>2, QuietFrame DEF NoBatch
  <2>3. CASE \E plan, late : /\ IsPlan(plan) /\ Batch(plan, late)
                             /\ Within(plan, DOMAIN op[c].changes)
    <3>1. PICK plan, late : /\ IsPlan(plan) /\ Batch(plan, late)
                            /\ Within(plan, DOMAIN op[c].changes)
      BY <2>3
    <3>2. DOMAIN op[c].changes \cap Foreign = {}
      BY <1>0, <1>1, ClientPlans
    <3>3. QED
      BY <1>0, <1>1, <2>0, <2>1, <3>1, <3>2, BatchFrame
  <2>4. QED
    BY <1>1, <2>2, <2>3
<1>2. Succeed(c) => Frame
  BY <1>1 DEF Succeed
<1>3. Recheck(c) => Frame
  BY <1>1 DEF Recheck, Fails
<1>4. ASSUME NEW done \in BOOLEAN, NEW late \in BOOLEAN, BatchFails(c, done, late)
      PROVE  Frame
  <2>1. op[c].pc # "idle"
    BY <1>4 DEF BatchFails
  <2>2. faults' = faults \/ Fault
    BY <1>4, FaultIfIs DEF BatchFails
  <2>3. /\ IsPlan(PlanChanges(op[c].current, op[c].changes))
        /\ Within(PlanChanges(op[c].current, op[c].changes), DOMAIN op[c].changes)
    BY <1>0, <2>1, ClientPlans
  <2>4. \/ NoBatch
        \/ Batch(PlanChanges(op[c].current, op[c].changes), late)
    BY <1>4 DEF BatchFails
  <2>5. QED
    BY <1>1, <1>4, <2>1, <2>2, <2>3, <2>4 DEF BatchFails, Fails
<1>5. ASSUME NEW done \in BOOLEAN, NEW late \in BOOLEAN, RollbackFails(c, done, late)
      PROVE  Frame
  <2>1. op[c].pc # "idle"
    BY <1>5 DEF RollbackFails
  <2>2. faults' = faults \/ Fault
    BY <1>5, FaultIfIs DEF RollbackFails
  <2>3. IsPlan(Compensation(c)) /\ Within(Compensation(c), DOMAIN op[c].changes)
    BY <1>0, <2>1, ClientPlans
  <2>4. NoBatch \/ Batch(Compensation(c), late)
    BY <1>5 DEF RollbackFails
  <2>5. QED
    BY <1>1, <1>5, <2>1, <2>2, <2>3, <2>4 DEF RollbackFails, Fails
<1>6. QED
  BY <1>2, <1>3, <1>4, <1>5

LEMMA EnvironmentFrames ==
  ASSUME IdInv
  PROVE  /\ Propagate => Frame
         /\ Crash => Frame
         /\ \A k \in Foreign, contents \in SUBSET Contents, late \in BOOLEAN :
              OtherWriter(k, contents, late) => Frame
<1>0. /\ TypeOK /\ Requested /\ UniqueIds(remote)
      /\ seen \in [Clients -> (SUBSET Record) \cup {None}]
      /\ applyMu \in Clients \cup {None}
  BY DEF IdInv, TypeOK, IdsAreUnique
<1>1. ASSUME Propagate
      PROVE  Frame
  <2>1. op' \in [Clients -> Operation] /\ Requested' /\ Snapshots
    BY <1>0, <1>1, OpSame DEF Propagate
  <2>2. QED
    BY <1>0, <1>1, <2>1, NoResultType, SettleType, QuietFrame DEF Propagate
<1>2. ASSUME Crash
      PROVE  Frame
  <2>1. op' \in [Clients -> Operation]
    BY <1>2, IdleFields DEF Crash
  <2>2. Requested' /\ Snapshots
    BY <1>2, IdleFields DEF Crash, Requested, Snapshots
  <2>3. QED
    BY <1>0, <1>2, <2>1, <2>2, NoResultType, SettleType, QuietFrame DEF Crash, NoBatch
<1>3. ASSUME NEW k \in Foreign, NEW contents \in SUBSET Contents, NEW late \in BOOLEAN,
             OtherWriter(k, contents, late)
      PROVE  Frame
  <2>1. Batch(OtherPlan(k, contents), late) /\ theirs' = Theirs(remote')
    BY <1>3 DEF OtherWriter, OtherPlan
  <2>2. IsPlan(OtherPlan(k, contents))
    BY <1>0, OtherPlanIs, ConstantsAssumption
  <2>3. op' \in [Clients -> Operation] /\ Requested' /\ Snapshots
    BY <1>0, <1>3, OpSame DEF OtherWriter
  <2>4. foreign' \in 0..MaxForeign
    BY <1>0, <1>3, ConstantsAssumption DEF OtherWriter, TypeOK
  <2>5. view' = view \/ view' = remote'
    BY <2>1 DEF Batch
  <2>6. unsettled' \in BOOLEAN /\ (faults' = faults \/ Fault)
    BY <1>3, SettleType, FaultIfIs DEF OtherWriter
  <2>7. QED
    BY <1>0, <1>3, <2>1, <2>2, <2>3, <2>4, <2>5, <2>6, NoResultType, FrameIs DEF OtherWriter
<1>4. QED
  BY <1>1, <1>2, <1>3

LEMMA EveryStepFrames ==
  ASSUME IdInv, Next
  PROVE  Frame
<1>1. ASSUME NEW c \in Clients, ApplyStep(c)
      PROVE  Frame
  BY <1>1, GoingFrames, EndingFrames DEF ApplyStep
<1>2. QED
  BY <1>1, OutsideFrames, GoingFrames, EnvironmentFrames DEF Next

LEMMA StutterFrames ==
  ASSUME IdInv, UNCHANGED vars
  PROVE  Frame
BY DEF IdInv, Frame, vars, TypeOK, Requested, Snapshots

LEMMA InitIds ==
  ASSUME Init
  PROVE  IdInv /\ OthersKeepTheirs
<1> DEFINE C == Cardinality(remote)
<1>1. /\ remote \subseteq Record /\ IsFiniteSet(remote) /\ C <= MaxId
      /\ \A r, s \in remote : r.id <= C /\ (r.id = s.id => r = s)
  BY ConstantsAssumption, InitialIds DEF Init
<1>2. C \in Nat /\ nextId = C + 1
  BY <1>1, FS_CardinalityType DEF Init
<1> HIDE DEF C
<1>3. TypeOK
  <2>1. MaxId \in Nat /\ MaxForeign \in Nat /\ MaxFaults \in Nat
    BY ConstantsAssumption
  <2>2. nextId \in 1..MaxId + 1 /\ foreign \in 0..MaxForeign /\ faults \in 0..MaxFaults
    BY <1>1, <1>2, <2>1 DEF Init
  <2>3. seen \in [Clients -> (SUBSET Record) \cup {None}] /\ applyMu \in Clients \cup {None}
    BY DEF Init
  <2>4. op \in [Clients -> Operation]
    BY IdleFields DEF Init
  <2>5. result \in Outcome
    BY NoResultType DEF Init
  <2>6. remote \subseteq Record /\ view \subseteq Record /\ theirs \subseteq Record
    BY <1>1 DEF Init, Theirs
  <2>7. unsettled \in BOOLEAN
    BY DEF Init
  <2>8. QED
    BY <2>2, <2>3, <2>4, <2>5, <2>6, <2>7 DEF TypeOK, Outcome
<1>4. Requested /\ \A c \in Clients : op[c].current = {} /\ op[c].latest = {}
  BY IdleFields DEF Init, Requested
<1>5. Held = remote
  BY <1>4 DEF Init, Held
<1>6. \A r \in remote : r.id \in Nat
  BY <1>1 DEF Record
<1>7. IdsAreStable
  BY <1>1, <1>2, <1>5, <1>6 DEF IdsAreStable
<1>8. IdsAreUnique
  BY <1>1, <1>4, EmptyIsUnique DEF IdsAreUnique, UniqueIds, Init
<1>9. QED
  BY <1>3, <1>4, <1>7, <1>8 DEF IdInv, OthersKeepTheirs, Init

LEMMA FrameKeeps ==
  ASSUME IdInv, OthersKeepTheirs, Frame
  PROVE  IdInv' /\ OthersKeepTheirs'
<1>1. IdInv'
  <2>1. \/ remote' = remote /\ nextId' = nextId
        \/ \E plan, late : IsPlan(plan) /\ Batch(plan, late)
    BY DEF Frame
  <2>2. QED
    BY <2>1, IdStep DEF Frame
<1>2. OthersKeepTheirs'
  <2>1. CASE remote' = remote /\ theirs' = theirs
    BY <2>1 DEF OthersKeepTheirs, Theirs
  <2>2. CASE theirs' = Theirs(remote')
    BY <2>2 DEF OthersKeepTheirs, Theirs
  <2>3. CASE \E plan, late : /\ IsPlan(plan) /\ Batch(plan, late) /\ theirs' = theirs
                             /\ \E K : K \cap Foreign = {} /\ Within(plan, K)
    <3>1. PICK plan, late, K : /\ IsPlan(plan) /\ Batch(plan, late) /\ theirs' = theirs
                               /\ K \cap Foreign = {} /\ Within(plan, K)
      BY <2>3
    <3>2. Outside(remote', K) = Outside(remote, K)
      BY <3>1, BatchWithin DEF IdInv, TypeOK
    <3>3. \A S : Theirs(S) = {r \in Outside(S, K) : r.key \in Foreign}
      BY <3>1 DEF Theirs, Outside
    <3>4. QED
      BY <3>1, <3>2, <3>3 DEF OthersKeepTheirs
  <2>4. QED
    BY <2>1, <2>2, <2>3 DEF Frame
<1>3. QED
  BY <1>1, <1>2

(* Every state of ApplyChanges and of the records at Cloudflare has its    *)
(* type; the proof's invariant also says that an ID never changes its      *)
(* RRset or content, and is never given twice.                             *)
THEOREM TypeCorrect == Spec => []TypeOK
<1>1. Init => IdInv /\ OthersKeepTheirs
  BY InitIds
<1>2. IdInv /\ OthersKeepTheirs /\ [Next]_vars => IdInv' /\ OthersKeepTheirs'
  BY EveryStepFrames, StutterFrames, FrameKeeps
<1>3. IdInv => TypeOK
  BY DEF IdInv
<1>4. QED
  BY <1>1, <1>2, <1>3, PTL DEF Spec

(* However the batches, rollbacks, late reads and crashes of any number of *)
(* clients fall together, no batch and no rollback of ours touches what    *)
(* other writers made of their RRsets.                                     *)
THEOREM OthersKeepTheirRecords == Spec => []OthersKeepTheirs
<1>1. Init => IdInv /\ OthersKeepTheirs
  BY InitIds
<1>2. IdInv /\ OthersKeepTheirs /\ [Next]_vars => IdInv' /\ OthersKeepTheirs'
  BY EveryStepFrames, StutterFrames, FrameKeeps
<1>3. QED
  BY <1>1, <1>2, PTL DEF Spec


-----------------------------------------------------------------------------
(* Records that differ at most in their attributes                         *)

Like(r, s) ==
  r.id = s.id /\ r.key = s.key /\ r.content = s.content /\ r.ttl = s.ttl

Alike(S, T) ==
  /\ \A r \in S : \E s \in T : Like(r, s)
  /\ \A s \in T : \E r \in S : Like(r, s)

(* Our RRsets hold the same, attributes aside. *)
Same(S, T) == Alike(Ours(S), Ours(T))

LEMMA BareIsAlike ==
  ASSUME NEW S, NEW T
  PROVE  Bare(S) = Bare(T) => Alike(S, T)
<1> DEFINE B(r) == [id |-> r.id, key |-> r.key, content |-> r.content, ttl |-> r.ttl]
<1>1. Bare(S) = {B(r) : r \in S} /\ Bare(T) = {B(r) : r \in T}
  BY DEF Bare
<1>2. ASSUME NEW r, NEW s, B(r) = B(s)
      PROVE  Like(r, s)
  BY <1>2 DEF Like
<1> HIDE DEF B
<1>3. QED
  BY <1>1, <1>2 DEF Alike

LEMMA AlikeCompared ==
  ASSUME NEW S, NEW T, Alike(S, T)
  PROVE  Compared(S) = Compared(T)
<1> DEFINE P(r) == [key |-> r.key, content |-> r.content, ttl |-> r.ttl]
<1>1. Compared(S) = {P(r) : r \in S} /\ Compared(T) = {P(r) : r \in T}
  BY DEF Compared
<1>2. ASSUME NEW r, NEW s, Like(r, s)
      PROVE  P(r) = P(s)
  BY <1>2 DEF Like
<1> HIDE DEF P
<1>3. QED
  BY <1>1, <1>2 DEF Alike

(* Records that are compared as equal. *)
Fits(r, w) == r.key = w.key /\ r.content = w.content /\ r.ttl = w.ttl

LEMMA ComparedFits ==
  ASSUME NEW S, NEW T
  PROVE  Compared(S) = Compared(T) <=>
           /\ \A r \in S : \E s \in T : Fits(r, s)
           /\ \A s \in T : \E r \in S : Fits(r, s)
<1> DEFINE P(r) == [key |-> r.key, content |-> r.content, ttl |-> r.ttl]
<1>1. Compared(S) = {P(r) : r \in S} /\ Compared(T) = {P(r) : r \in T}
  BY DEF Compared
<1>2. \A r, s : P(r) = P(s) <=> Fits(r, s)
  BY DEF Fits
<1> HIDE DEF P
<1>3. QED
  BY <1>1, <1>2

LEMMA SameFacts ==
  /\ \A S : Same(S, S)
  /\ \A S, T : Same(S, T) => Same(T, S)
  /\ \A S, T, U : Same(S, T) /\ Same(T, U) => Same(S, U)
  /\ \A S, T : Ours(S) = Ours(T) => Same(S, T)
<1>1. \A S, T : Ours(S) = Ours(T) => Same(S, T)
  BY DEF Same, Alike, Like
<1>2. \A S, T : Same(S, T) => Same(T, S)
  BY DEF Same, Alike, Like
<1>3. ASSUME NEW S, NEW T, NEW U, Same(S, T), Same(T, U)
      PROVE  Same(S, U)
  BY <1>3 DEF Same, Alike, Like
<1>4. QED
  BY <1>1, <1>2, <1>3

LEMMA SameRRset ==
  ASSUME NEW S, NEW T, Same(S, T), NEW k, k \notin Foreign
  PROVE  Alike(RRset(S, k), RRset(T, k))
BY DEF Same, Alike, Like, Ours, RRset

LEMMA SameAffected ==
  ASSUME NEW S, NEW T, Same(S, T), NEW changes \in Requests
  PROVE  Alike(Affected(S, changes), Affected(T, changes))
<1>1. \A k \in DOMAIN changes : k \notin Foreign
  BY RequestType
<1>2. QED
  BY <1>1 DEF Same, Alike, Like, Ours, Affected

LEMMA OursAffected ==
  ASSUME NEW S, NEW T, Ours(S) = Ours(T), NEW changes \in Requests
  PROVE  Affected(S, changes) = Affected(T, changes)
<1>1. \A k \in DOMAIN changes : k \notin Foreign
  BY RequestType
<1>2. \A U : Affected(U, changes) = {r \in Ours(U) : r.key \in DOMAIN changes}
  BY <1>1 DEF Affected, Ours
<1>3. QED
  BY <1>2

LEMMA OursRRset ==
  ASSUME NEW S, NEW T, Ours(S) = Ours(T), NEW k, k \notin Foreign
  PROVE  RRset(S, k) = RRset(T, k)
<1>1. \A U : RRset(U, k) = {r \in Ours(U) : r.key = k}
  BY DEF RRset, Ours
<1>2. QED
  BY <1>1

-----------------------------------------------------------------------------
(* What a batch makes of the RRsets of its request                         *)

Values(records) == {Value(r) : r \in records}

(* The attributes are the ones given or inherited, or an empty one was not *)
(* sent.                                                                   *)
Attributed(is, ought, before) ==
  \A r \in is, w \in ought : SameRecordValue(r, w) => CommentGiven(r, w, before)

LEMMA BatchAffected ==
  ASSUME TypeOK, NEW plan, NEW late, NEW changes, IsPlan(plan), Batch(plan, late),
         \A w \in plan.creates : w.key \in DOMAIN changes
  PROVE  /\ \A r \in Affected(remote', changes) :
              \/ \E w \in plan.creates : Carries(r, w)
              \/ \E s \in Affected(remote, changes) :
                   s.id \notin plan.deletes /\ r = Patched(s, plan.patches)
         /\ \A s \in Affected(remote, changes) :
              s.id \notin plan.deletes =>
                Patched(s, plan.patches) \in Affected(remote', changes)
         /\ \A w \in plan.creates : \E n \in Affected(remote', changes) : Carries(n, w)
<1>1. /\ \A r \in remote' : \/ r \in Numbered(plan.creates)
                            \/ \E s \in Survivors(plan) : r = Patched(s, plan.patches)
      /\ \A s \in Survivors(plan) : Patched(s, plan.patches) \in remote'
      /\ Numbered(plan.creates) \subseteq remote'
  BY BatchFacts DEF TypeOK
<1>2. /\ \A n \in Numbered(plan.creates) : \E w \in plan.creates : Carries(n, w)
      /\ \A w \in plan.creates : \E n \in Numbered(plan.creates) : Carries(n, w)
  <2>1. nextId \in Nat /\ IsFiniteSet(plan.creates)
    BY DEF IsPlan, TypeOK
  <2>2. QED
    BY <2>1, NumberedFacts
<1>3. \A s \in remote : Patched(s, plan.patches).key = s.key
  BY PatchedFacts DEF TypeOK, IsPlan
<1>4. ASSUME NEW r \in Affected(remote', changes), r \notin Numbered(plan.creates)
      PROVE  \E s \in Affected(remote, changes) :
               s.id \notin plan.deletes /\ r = Patched(s, plan.patches)
  <2>1. PICK s \in Survivors(plan) : r = Patched(s, plan.patches)
    BY <1>1, <1>4 DEF Affected
  <2>2. s \in remote /\ s.id \notin plan.deletes
    BY DEF Survivors
  <2>3. s \in Affected(remote, changes)
    BY <1>3, <2>1, <2>2 DEF Affected
  <2>4. QED
    BY <2>1, <2>2, <2>3
<1>5. ASSUME NEW s \in Affected(remote, changes), s.id \notin plan.deletes
      PROVE  Patched(s, plan.patches) \in Affected(remote', changes)
  BY <1>1, <1>3, <1>5 DEF Survivors, Affected
<1>6. \A w \in plan.creates : \E n \in Affected(remote', changes) : Carries(n, w)
  BY <1>1, <1>2 DEF Affected, Carries
<1>7. QED
  BY <1>2, <1>4, <1>5, <1>6

LEMMA PlanParts ==
  ASSUME NEW current, NEW changes
  PROVE  LET plan == PlanChanges(current, changes)
             E == Expected(current, changes)
             X == Affected(current, changes)
             kept(r) == {w \in E : SameRecordValue(r, w)}
         IN  /\ plan.deletes = {r.id : r \in {s \in X : kept(s) = {}}}
             /\ plan.patches = UNION {{[id |-> r.id, to |-> w] : w \in kept(r) \ {Value(r)}} :
                                        r \in X}
             /\ plan.creates = {w \in E : \A r \in X : ~SameRecordValue(r, w)}
BY DEF PlanChanges

(* A record of a wanted content is kept, and fits after the batch; s is    *)
(* what the record r that was read has become.                             *)
LEMMA KeptFits ==
  ASSUME NEW current \in SUBSET Record, UniqueIds(current), NEW changes \in Requests,
         NEW r \in Affected(current, changes), NEW w \in Expected(current, changes),
         SameRecordValue(r, w), NEW s \in Record, Like(s, r)
  PROVE  /\ s.id \notin PlanChanges(current, changes).deletes
         /\ Fits(Patched(s, PlanChanges(current, changes).patches), w)
         /\ s = r => CommentGiven(Patched(s, PlanChanges(current, changes).patches), w,
                                  Affected(current, changes))
<1> DEFINE plan == PlanChanges(current, changes)
           E == Expected(current, changes)
           X == Affected(current, changes)
           kept(q) == {v \in E : SameRecordValue(q, v)}
<1>1. /\ plan.deletes = {q.id : q \in {q \in X : kept(q) = {}}}
      /\ plan.patches = UNION {{[id |-> q.id, to |-> v] : v \in kept(q) \ {Value(q)}} :
                                 q \in X}
  BY PlanParts
<1>2. X \subseteq Record /\ \A q \in X : q.id = r.id => q = r
  BY DEF Affected, UniqueIds
<1>3. \A v \in kept(r) : v = w
  BY ExpectedFacts DEF SameRecordValue
<1>4. IsPlan(plan) /\ E \subseteq Wanted
  BY PlanChangesIs, ExpectedFacts
<1>0. r \in X /\ w \in E
  OBVIOUS
<1> HIDE DEF plan, E, X
<1>5. s.id \notin plan.deletes
  <2>1. SUFFICES ASSUME r.id \in plan.deletes
                 PROVE  FALSE
    BY DEF Like
  <2>2. PICK q \in X : kept(q) = {} /\ q.id = r.id
    BY <1>1, <2>1
  <2>3. w \in kept(r)
    BY DEF E
  <2>4. QED
    BY <1>2, <2>2, <2>3
<1>6. ASSUME NEW p \in plan.patches, p.id = r.id
      PROVE  p.to = w /\ w # Value(r)
  <2>1. PICK q \in X : p \in {[id |-> q.id, to |-> v] : v \in kept(q) \ {Value(q)}}
    BY <1>1
  <2>2. PICK v \in kept(q) \ {Value(q)} : p = [id |-> q.id, to |-> v]
    BY <2>1
  <2>3. p.id = q.id /\ p.to = v
    BY <2>2
  <2>4. q = r
    BY <1>2, <1>6, <2>3
  <2>5. QED
    BY <1>3, <2>2, <2>3, <2>4
<1>7. w # Value(r) => \E p \in plan.patches : p.id = r.id
  <2>1. SUFFICES ASSUME w # Value(r)
                 PROVE  \E p \in plan.patches : p.id = r.id
    OBVIOUS
  <2> DEFINE q == [id |-> r.id, to |-> w]
  <2>2. w \in kept(r) \ {Value(r)} /\ r \in X
    BY <2>1 DEF E, X
  <2>3. q \in plan.patches /\ q.id = r.id
    BY <1>1, <2>2
  <2>4. QED
    BY <2>3
<1>8. r \in Record /\ \A p \in plan.patches : p.to \in Wanted
  BY <1>2, <1>4 DEF X, IsPlan
<1> DEFINE t == Patched(s, plan.patches)
<1>9. Fits(t, w) /\ (s = r => CommentGiven(t, w, X))
  <2>1. CASE w = Value(r)
    <3>1. t = s
      BY <1>6, <1>8, <2>1, PatchedFacts DEF Like
    <3>2. w.key = r.key /\ w.content = r.content /\ w.ttl = r.ttl /\ w.comment = r.comment
      BY <1>8, <2>1, ValueFacts
    <3>3. QED
      BY <3>1, <3>2 DEF Fits, Like, CommentGiven
  <2>2. CASE w # Value(r)
    <3>0. \E p \in plan.patches : p.id = s.id
      BY <1>7, <2>2 DEF Like
    <3>1. PICK p \in plan.patches :
             /\ p.id = s.id /\ t.ttl = p.to.ttl
             /\ t.comment = IF p.to.comment = NoComment THEN s.comment ELSE p.to.comment
      BY <1>8, <3>0, PatchedFacts
    <3>2. p.to = w
      BY <1>6, <3>1 DEF Like
    <3>3. t.key = s.key /\ t.content = s.content
      BY <1>8, PatchedFacts
    <3> HIDE DEF t
    <3>4. Fits(t, w)
      BY <3>1, <3>2, <3>3 DEF Fits, SameRecordValue, Like
    <3>5. s = r => CommentGiven(t, w, X)
      BY <1>0, <3>1, <3>2 DEF CommentGiven
    <3>6. QED
      BY <3>4, <3>5
  <2>3. QED
    BY <2>1, <2>2
<1>10. QED
  BY <1>5, <1>9 DEF plan, X

(* What a plan creates, and what it keeps. *)
LEMMA PlanKeeps ==
  ASSUME NEW current \in SUBSET Record, NEW changes \in Requests
  PROVE  LET plan == PlanChanges(current, changes)
             E == Expected(current, changes)
             X == Affected(current, changes)
         IN  /\ \A w \in E : w \in plan.creates \/ \E r \in X : SameRecordValue(r, w)
             /\ \A w \in plan.creates : w \in E /\ \A r \in X : ~SameRecordValue(r, w)
             /\ \A r \in X : r.id \notin plan.deletes => \E w \in E : SameRecordValue(r, w)
<1> DEFINE plan == PlanChanges(current, changes)
           E == Expected(current, changes)
           X == Affected(current, changes)
<1>1. /\ plan.deletes = {s.id : s \in {s \in X : {w \in E : SameRecordValue(s, w)} = {}}}
      /\ plan.creates = {w \in E : \A r \in X : ~SameRecordValue(r, w)}
  BY PlanParts
<1> HIDE DEF plan, E, X
<1>2. ASSUME NEW r \in X, r.id \notin plan.deletes
      PROVE  \E w \in E : SameRecordValue(r, w)
  <2>1. {w \in E : SameRecordValue(r, w)} # {}
    BY <1>1, <1>2
  <2>2. QED
    BY <2>1
<1>3. /\ \A w \in E : w \in plan.creates \/ \E r \in X : SameRecordValue(r, w)
      /\ \A w \in plan.creates : w \in E /\ \A r \in X : ~SameRecordValue(r, w)
  BY <1>1
<1>4. QED
  BY <1>2, <1>3 DEF plan, E, X

(* The batch of a plan whose RRsets are still what was read, attributes    *)
(* aside, applies it.                                                      *)
LEMMA BatchApplies ==
  ASSUME TypeOK, NEW current \in SUBSET Record, UniqueIds(current),
         NEW changes \in Requests, NEW late,
         Alike(Affected(remote, changes), Affected(current, changes)),
         Batch(PlanChanges(current, changes), late)
  PROVE  Compared(Affected(remote', changes)) = Compared(Expected(current, changes))
<1> DEFINE plan == PlanChanges(current, changes)
           E == Expected(current, changes)
           X == Affected(current, changes)
           R == Affected(remote, changes)
           R2 == Affected(remote', changes)
<1>1. IsPlan(plan) /\ \A w \in plan.creates : w.key \in DOMAIN changes
  BY PlanChangesIs
<1>2. /\ \A w \in E : w \in plan.creates \/ \E r \in X : SameRecordValue(r, w)
      /\ \A w \in plan.creates : w \in E
      /\ \A r \in X : r.id \notin plan.deletes => \E w \in E : SameRecordValue(r, w)
  BY PlanKeeps
<1>3. /\ \A r \in R2 :
           \/ \E w \in plan.creates : Carries(r, w)
           \/ \E s \in R : s.id \notin plan.deletes /\ r = Patched(s, plan.patches)
      /\ \A s \in R : s.id \notin plan.deletes => Patched(s, plan.patches) \in R2
      /\ \A w \in plan.creates : \E n \in R2 : Carries(n, w)
  BY <1>1, BatchAffected
<1>4. R \subseteq Record
  BY DEF TypeOK, Affected
<1>5. ASSUME NEW r \in X, NEW w \in E, SameRecordValue(r, w), NEW s \in R, Like(s, r)
      PROVE  s.id \notin plan.deletes /\ Fits(Patched(s, plan.patches), w)
  BY <1>4, <1>5, KeptFits
<1>6. Alike(R, X)
  OBVIOUS
<1> HIDE DEF plan, E, X, R, R2
<1>7. ASSUME NEW w \in E
      PROVE  \E r \in R2 : Fits(r, w)
  <2>1. CASE \E r \in X : SameRecordValue(r, w)
    <3>1. PICK r \in X : SameRecordValue(r, w)
      BY <2>1
    <3>2. PICK s \in R : Like(s, r)
      BY <1>6 DEF Alike
    <3>3. QED
      BY <1>3, <1>5, <3>1, <3>2
  <2>2. CASE w \in plan.creates
    BY <1>3, <2>2 DEF Carries, Fits
  <2>3. QED
    BY <1>2, <2>1, <2>2
<1>8. ASSUME NEW r \in R2
      PROVE  \E w \in E : Fits(r, w)
  <2>1. CASE \E w \in plan.creates : Carries(r, w)
    BY <1>2, <2>1 DEF Carries, Fits
  <2>2. CASE \E s \in R : s.id \notin plan.deletes /\ r = Patched(s, plan.patches)
    <3>1. PICK s \in R : s.id \notin plan.deletes /\ r = Patched(s, plan.patches)
      BY <2>2
    <3>2. PICK q \in X : Like(s, q)
      BY <1>6 DEF Alike
    <3>3. q.id \notin plan.deletes
      BY <3>1, <3>2 DEF Like
    <3>4. PICK w \in E : SameRecordValue(q, w)
      BY <1>2, <3>3
    <3>5. QED
      BY <1>5, <3>1, <3>2, <3>4
  <2>3. QED
    BY <1>3, <2>1, <2>2
<1>9. Compared(R2) = Compared(E)
  BY <1>7, <1>8, ComparedFits
<1>10. QED
  BY <1>9 DEF R2, E

(* When the attributes too are what was read, they become what is wanted. *)
LEMMA BatchAttributes ==
  ASSUME TypeOK, NEW current \in SUBSET Record, UniqueIds(current),
         NEW changes \in Requests, NEW late,
         Affected(remote, changes) = Affected(current, changes),
         Batch(PlanChanges(current, changes), late)
  PROVE  Attributed(Affected(remote', changes), Expected(current, changes),
                    Affected(current, changes))
<1> DEFINE plan == PlanChanges(current, changes)
           E == Expected(current, changes)
           X == Affected(current, changes)
           R2 == Affected(remote', changes)
<1>1. IsPlan(plan) /\ \A w \in plan.creates : w.key \in DOMAIN changes
  BY PlanChangesIs
<1>2. \A w \in plan.creates : w \in E
  BY PlanKeeps
<1>3. \A r \in R2 :
        \/ \E w \in plan.creates : Carries(r, w)
        \/ \E s \in X : s.id \notin plan.deletes /\ r = Patched(s, plan.patches)
  BY <1>1, BatchAffected
<1>4. X \subseteq Record
  BY DEF Affected
<1>5. ASSUME NEW s \in X, NEW w \in E, SameRecordValue(s, w)
      PROVE  CommentGiven(Patched(s, plan.patches), w, X)
  <2>1. s \in Record /\ Like(s, s)
    BY <1>4 DEF Like
  <2>2. QED
    BY <1>5, <2>1, KeptFits
<1>6. \A v, w \in E : v.key = w.key /\ v.content = w.content => v = w
  BY ExpectedFacts
<1>7. ASSUME NEW s \in X
      PROVE  /\ Patched(s, plan.patches).key = s.key
             /\ Patched(s, plan.patches).content = s.content
  BY <1>1, <1>4, PatchedFacts DEF IsPlan
<1> HIDE DEF plan, E, X, R2
<1>8. ASSUME NEW r \in R2, NEW w \in E, SameRecordValue(r, w)
      PROVE  CommentGiven(r, w, X)
  <2>1. CASE \E v \in plan.creates : Carries(r, v)
    <3>1. PICK v \in plan.creates : Carries(r, v)
      BY <2>1
    <3>2. v = w
      BY <1>2, <1>6, <1>8, <3>1 DEF Carries, SameRecordValue
    <3>3. QED
      BY <3>1, <3>2 DEF Carries, CommentGiven
  <2>2. CASE \E s \in X : s.id \notin plan.deletes /\ r = Patched(s, plan.patches)
    <3>1. PICK s \in X : r = Patched(s, plan.patches)
      BY <2>2
    <3>2. SameRecordValue(s, w)
      BY <1>7, <1>8, <3>1 DEF SameRecordValue
    <3>3. QED
      BY <1>5, <3>1, <3>2
  <2>3. QED
    BY <1>3, <2>1, <2>2
<1>9. QED
  BY <1>8 DEF Attributed, R2, E, X

(* A plan whose contents and TTLs are there already changes attributes     *)
(* only.                                                                   *)
LEMMA BatchQuiet ==
  ASSUME TypeOK, NEW current \in SUBSET Record, UniqueIds(current),
         NEW changes \in Requests, NEW late,
         Alike(Affected(remote, changes), Affected(current, changes)),
         Compared(Affected(current, changes)) = Compared(Expected(current, changes)),
         Batch(PlanChanges(current, changes), late),
         Within(PlanChanges(current, changes), DOMAIN changes)
  PROVE  Same(remote', remote)
<1> DEFINE plan == PlanChanges(current, changes)
           E == Expected(current, changes)
           X == Affected(current, changes)
           R == Affected(remote, changes)
           R2 == Affected(remote', changes)
<1>1. IsPlan(plan) /\ \A w \in plan.creates : w.key \in DOMAIN changes
  BY PlanChangesIs
<1>2. \A w \in plan.creates : w \in E /\ \A r \in X : ~SameRecordValue(r, w)
  BY PlanKeeps
<1>3. /\ \A r \in R2 :
           \/ \E w \in plan.creates : Carries(r, w)
           \/ \E s \in R : s.id \notin plan.deletes /\ r = Patched(s, plan.patches)
      /\ \A s \in R : s.id \notin plan.deletes => Patched(s, plan.patches) \in R2
  BY <1>1, BatchAffected
<1>4. R \subseteq Record
  BY DEF TypeOK, Affected
<1>5. ASSUME NEW r \in X, NEW w \in E, SameRecordValue(r, w), NEW s \in R, Like(s, r)
      PROVE  s.id \notin plan.deletes /\ Fits(Patched(s, plan.patches), w)
  BY <1>4, <1>5, KeptFits
<1>6. Alike(R, X)
  OBVIOUS
<1>7. /\ \A r \in X : \E w \in E : Fits(r, w)
      /\ \A w \in E : \E r \in X : Fits(r, w)
  BY ComparedFits
<1>8. \A s \in R : Patched(s, plan.patches).id = s.id
  BY <1>1, <1>4, PatchedFacts DEF IsPlan
<1>9. Outside(remote', DOMAIN changes) = Outside(remote, DOMAIN changes)
  BY <1>1, BatchWithin DEF TypeOK
<1> HIDE DEF plan, E, X, R, R2
<1>10. plan.creates = {}
  BY <1>2, <1>7 DEF Fits, SameRecordValue
<1>11. ASSUME NEW s \in R
       PROVE  s.id \notin plan.deletes /\ Like(Patched(s, plan.patches), s)
  <2>1. PICK q \in X : Like(s, q)
    BY <1>6 DEF Alike
  <2>2. PICK w \in E : Fits(q, w)
    BY <1>7
  <2>3. SameRecordValue(q, w)
    BY <2>2 DEF Fits, SameRecordValue
  <2>4. s.id \notin plan.deletes /\ Fits(Patched(s, plan.patches), w)
    BY <1>5, <2>1, <2>3
  <2>5. QED
    BY <1>8, <2>1, <2>2, <2>4 DEF Like, Fits
<1>12. (\A r \in R2 : \E s \in R : Like(r, s)) /\ (\A s \in R : \E r \in R2 : Like(r, s))
  BY <1>3, <1>10, <1>11
<1>13. /\ \A r \in remote' : r.key \notin DOMAIN changes => r \in remote
       /\ \A r \in remote : r.key \notin DOMAIN changes => r \in remote'
  BY <1>9 DEF Outside
<1>14. ASSUME NEW r \in Ours(remote')
       PROVE  \E s \in Ours(remote) : Like(r, s)
  <2>1. CASE r.key \notin DOMAIN changes
    BY <1>13, <2>1 DEF Ours, Like
  <2>2. CASE r.key \in DOMAIN changes
    <3>1. r \in R2
      BY <2>2 DEF R2, Affected, Ours
    <3>2. QED
      BY <1>12, <3>1 DEF Ours, Like, R, Affected
  <2>3. QED
    BY <2>1, <2>2
<1>15. ASSUME NEW s \in Ours(remote)
       PROVE  \E r \in Ours(remote') : Like(r, s)
  <2>1. CASE s.key \notin DOMAIN changes
    BY <1>13, <2>1 DEF Ours, Like
  <2>2. CASE s.key \in DOMAIN changes
    <3>1. s \in R
      BY <2>2 DEF R, Affected, Ours
    <3>2. QED
      BY <1>12, <3>1 DEF Ours, Like, R2, Affected
  <2>3. QED
    BY <2>1, <2>2
<1>16. QED
  BY <1>14, <1>15 DEF Same, Alike

(* Without anything to do, the records are as wanted already. *)
LEMMA NothingApplies ==
  ASSUME NEW current \in SUBSET Record, NEW changes \in Requests,
         NothingToDo(PlanChanges(current, changes))
  PROVE  /\ Compared(Affected(current, changes)) = Compared(Expected(current, changes))
         /\ Attributed(Affected(current, changes), Expected(current, changes),
                       Affected(current, changes))
<1> DEFINE plan == PlanChanges(current, changes)
           E == Expected(current, changes)
           X == Affected(current, changes)
           kept(s) == {v \in E : SameRecordValue(s, v)}
<1>1. /\ plan.deletes = {s.id : s \in {s \in X : kept(s) = {}}}
      /\ plan.patches = UNION {{[id |-> s.id, to |-> v] : v \in kept(s) \ {Value(s)}} :
                                 s \in X}
      /\ plan.creates = {w \in E : \A r \in X : ~SameRecordValue(r, w)}
  BY PlanParts
<1>2. plan.deletes = {} /\ plan.patches = {} /\ plan.creates = {}
  BY DEF NothingToDo
<1>3. X \subseteq Record
  BY DEF Affected
<1> HIDE DEF plan, E, X
<1>4. ASSUME NEW r \in X, NEW w \in kept(r)
      PROVE  Fits(r, w) /\ r.comment = w.comment
  <2>1. w = Value(r)
    <3>1. SUFFICES ASSUME w # Value(r)
                   PROVE  FALSE
      OBVIOUS
    <3>2. [id |-> r.id, to |-> w] \in plan.patches
      BY <1>1, <3>1
    <3>3. QED
      BY <1>2, <3>2
  <2>2. QED
    BY <1>3, <2>1, ValueFacts DEF Fits
<1>5. \A r \in X : \E w \in E : Fits(r, w)
  <2>1. \A r \in X : kept(r) # {}
    BY <1>1, <1>2
  <2>2. QED
    BY <1>4, <2>1
<1>6. \A w \in E : \E r \in X : Fits(r, w)
  <2>1. \A w \in E : \E r \in X : SameRecordValue(r, w)
    BY <1>1, <1>2
  <2>2. QED
    BY <1>4, <2>1
<1>7. Compared(X) = Compared(E)
  BY <1>5, <1>6, ComparedFits
<1>8. Attributed(X, E, X)
  BY <1>4 DEF Attributed, CommentGiven
<1>9. QED
  BY <1>7, <1>8 DEF E, X

(* The batch of a rollback puts back what was there before, when the list  *)
(* it was made from was not behind.                                        *)
LEMMA BatchRestores ==
  ASSUME TypeOK, NEW current \in SUBSET Record, UniqueIds(current),
         NEW latest, NEW changes, NEW late,
         Alike(Affected(remote, changes), Affected(latest, changes)),
         Batch(RollbackPlan(current, latest, changes), late)
  PROVE  Values(Restorable(remote', changes)) = Values(Restorable(current, changes))
<1> DEFINE plan == RollbackPlan(current, latest, changes)
           R == Affected(remote, changes)
           R2 == Affected(remote', changes)
           L == Affected(latest, changes)
           V == Values(Restorable(current, changes))
           Bad(k) == changes[k].padded
<1>1. /\ plan.deletes = {r.id : r \in Restorable(latest, changes)}
      /\ plan.patches = {}
      /\ plan.creates = V
  BY DEF RollbackPlan, Values
<1>2. IsPlan(plan) /\ \A w \in plan.creates : w.key \in DOMAIN changes
  BY RollbackPlanIs
<1>3. /\ \A r \in R2 :
           \/ \E w \in plan.creates : Carries(r, w)
           \/ \E s \in R : s.id \notin plan.deletes /\ r = Patched(s, plan.patches)
      /\ \A w \in plan.creates : \E n \in R2 : Carries(n, w)
  BY <1>2, BatchAffected
<1>4. V \subseteq Wanted /\ \A w \in V : ~Bad(w.key)
  <2>1. plan.creates \subseteq Wanted
    BY <1>2 DEF IsPlan
  <2>2. \A r \in Restorable(current, changes) : ~Bad(r.key) /\ r \in Record
    BY DEF Restorable, Affected
  <2>3. \A w \in V : ~Bad(w.key)
    BY <2>2, ValueFacts DEF Values
  <2>4. QED
    BY <1>1, <2>1, <2>3
<1>5. R2 \subseteq Record
  BY <1>2, BatchFacts DEF TypeOK, Affected
<1>6. Restorable(remote', changes) = {r \in R2 : ~Bad(r.key)}
  BY DEF Restorable
<1>7. Alike(R, L)
  OBVIOUS
<1>8. ASSUME NEW s \in R, s.id \notin plan.deletes
      PROVE  Bad(s.key)
  <2>1. PICK q \in L : Like(s, q)
    BY <1>7 DEF Alike
  <2>2. q \notin Restorable(latest, changes)
    BY <1>1, <1>8, <2>1 DEF Like
  <2>3. Bad(q.key)
    BY <2>2 DEF Restorable
  <2>4. QED
    BY <2>1, <2>3 DEF Like
<1> HIDE DEF plan, R, R2, L, V, Bad
<1>9. ASSUME NEW r \in Record, NEW w \in Wanted, Carries(r, w)
      PROVE  Value(r) = w
  BY <1>9 DEF Carries, Value, Wanted
<1>10. \A s : Patched(s, plan.patches) = s
  BY <1>1 DEF Patched
<1>11. ASSUME NEW r \in R2, ~Bad(r.key)
       PROVE  Value(r) \in V
  <2>1. \E w \in plan.creates : Carries(r, w)
    BY <1>3, <1>8, <1>10, <1>11
  <2>2. QED
    BY <1>1, <1>4, <1>5, <1>9, <2>1
<1>12. ASSUME NEW w \in V
       PROVE  \E n \in R2 : ~Bad(n.key) /\ Value(n) = w
  <2>1. PICK n \in R2 : Carries(n, w)
    BY <1>1, <1>3
  <2>2. QED
    BY <1>4, <1>5, <1>9, <2>1 DEF Carries
<1>13. Values(Restorable(remote', changes)) = V
  BY <1>6, <1>11, <1>12 DEF Values
<1>14. QED
  BY <1>13 DEF V

(* Another writer leaves our RRsets alone. *)
LEMMA OtherOurs ==
  ASSUME TypeOK, UniqueIds(remote), NEW k \in Foreign, NEW contents \in SUBSET Contents,
         NEW late, OtherWriter(k, contents, late)
  PROVE  Ours(remote') = Ours(remote)
<1>1. Batch(OtherPlan(k, contents), late)
  BY DEF OtherWriter, OtherPlan
<1>2. IsPlan(OtherPlan(k, contents)) /\ Within(OtherPlan(k, contents), {k})
  BY OtherPlanIs, ConstantsAssumption
<1>3. Outside(remote', {k}) = Outside(remote, {k})
  BY <1>1, <1>2, BatchWithin DEF TypeOK
<1>4. \A S : Ours(S) = {r \in Outside(S, {k}) : r.key \notin Foreign}
  BY DEF Ours, Outside
<1>5. QED
  BY <1>3, <1>4

-----------------------------------------------------------------------------
(* What an ApplyChanges knows at each of its steps                         *)

(* While applyMu is free, reads show our RRsets, attributes aside, unless  *)
(* an ApplyChanges failed since they last did.                             *)
Settled == applyMu = None /\ ~unsettled => Same(view, remote)

(* The RRsets that are not asked for stay what they were. *)
Untouched(o, R) ==
  \A k \in RRsets \ (Foreign \cup DOMAIN o.changes) :
    RRset(R, k) # {} => RRset(o.current, k) # {}

(* The batch is not sent yet. *)
AtBatch(o, R, V) ==
  /\ o.read # "unsure" => Same(R, o.current) /\ Same(V, R)
  /\ o.read = "fresh" => Ours(R) = Ours(o.current)

Done(o, R) ==
  /\ o.read # "unsure" =>
       Compared(Affected(R, o.changes)) = Compared(Expected(o.current, o.changes))
  /\ o.read = "fresh" =>
       Attributed(Affected(R, o.changes), Expected(o.current, o.changes),
                  Affected(o.current, o.changes))

(* A read that matches the plan is not behind. *)
AtVerify(o, R, V) ==
  /\ Done(o, R)
  /\ o.read # "unsure" => (PlanMatches(V, o.current, o.changes) => Same(V, R))

AtDns(o, R, V) == Done(o, R) /\ (o.read # "unsure" => Same(V, R))

AtCompensate(o, R) ==
  o.listed => Alike(Affected(R, o.changes), Affected(o.latest, o.changes))

AtRecheck(o, R) ==
  o.listed => Values(Restorable(R, o.changes)) = Values(Restorable(o.current, o.changes))

(* The operation o, with the records R at Cloudflare and a view V of them. *)
Known(o, R, V) ==
  /\ o.read # "unsure" => Untouched(o, R)
  /\ o.pc = "batch" => AtBatch(o, R, V)
  /\ o.pc = "verify" => AtVerify(o, R, V)
  /\ o.pc = "dns" => AtDns(o, R, V)
  /\ o.pc = "compensate" => AtCompensate(o, R)
  /\ o.pc = "recheck" => AtRecheck(o, R)

(* It alone holds applyMu, and works on what its client was shown. *)
Under(c) ==
  /\ applyMu = c /\ op[c].current = seen[c]
  /\ NoNewConflict(op[c].current, op[c].changes)
  /\ Known(op[c], remote, view)

ApplyInv == Settled /\ \A c \in Clients : op[c] # Idle => Under(c)

(* Neither another writer nor a read that catches up disturbs it. *)
LEMMA KnownMoves ==
  ASSUME NEW o, o.changes \in Requests, NEW R, NEW V, Known(o, R, V),
         NEW R2, NEW V2, Ours(R2) = Ours(R), V2 = V \/ V2 = R2
  PROVE  Known(o, R2, V2)
<1>1. Affected(R2, o.changes) = Affected(R, o.changes)
  BY OursAffected
<1>2. \A k \in RRsets \ Foreign : RRset(R2, k) = RRset(R, k)
  BY OursRRset
<1>3. Same(V, R) => Same(V2, R2)
  BY SameFacts DEF Same
<1>4. Same(R, o.current) => Same(R2, o.current)
  BY DEF Same
<1>5. o.read # "unsure" => Untouched(o, R2)
  BY <1>2 DEF Known, Untouched
<1>6. Done(o, R) => Done(o, R2)
  BY <1>1 DEF Done
<1>7. o.pc = "batch" => AtBatch(o, R2, V2)
  BY <1>3, <1>4 DEF Known, AtBatch
<1>8. o.pc = "verify" => AtVerify(o, R2, V2)
  <2>1. V2 = R2 => Same(V2, R2)
    BY SameFacts
  <2>2. QED
    BY <1>3, <1>6, <2>1 DEF Known, AtVerify
<1>9. o.pc = "dns" => AtDns(o, R2, V2)
  BY <1>3, <1>6 DEF Known, AtDns
<1>10. o.pc = "compensate" => AtCompensate(o, R2)
  BY <1>1 DEF Known, AtCompensate
<1>11. o.pc = "recheck" => AtRecheck(o, R2)
  <2>1. Restorable(R2, o.changes) = Restorable(R, o.changes)
    BY <1>1 DEF Restorable
  <2>2. QED
    BY <2>1 DEF Known, AtRecheck
<1>12. QED
  BY <1>5, <1>7, <1>8, <1>9, <1>10, <1>11 DEF Known

LEMMA SettleSettles ==
  ASSUME NEW failed, Settle(failed), ~unsettled'
  PROVE  failed \/ unsettled => Same(view', remote')
BY SameFacts DEF Settle

LEMMA OnlyOne ==
  ASSUME TypeOK, ApplyInv, NEW c \in Clients, op[c] # Idle \/ applyMu = None
  PROVE  \A d \in Clients : d # c => op[d] = Idle
BY ConstantsAssumption DEF ApplyInv, Under

LEMMA OneStep ==
  ASSUME TypeOK, ApplyInv, NEW c \in Clients, op[c] # Idle \/ applyMu = None,
         NEW new, op' = [op EXCEPT ![c] = new], new = Idle \/ Under(c)', Settled'
  PROVE  ApplyInv'
<1>1. \A d \in Clients : op'[d] = IF d = c THEN new ELSE Idle
  BY OnlyOne DEF TypeOK
<1>2. QED
  BY <1>1 DEF ApplyInv

(* A step after which the operation c still holds applyMu. *)
LEMMA GoingStep ==
  ASSUME IdInv, ApplyInv, NEW c \in Clients, op[c].pc # "idle",
         NEW new, op' = [op EXCEPT ![c] = new],
         new.changes = op[c].changes, new.current = op[c].current,
         Known(new, remote', view'), UNCHANGED <<applyMu, seen>>
  PROVE  ApplyInv'
<1>1. TypeOK /\ op[c] # Idle
  BY IdleFields DEF IdInv
<1>2. op'[c] = new
  BY <1>1 DEF TypeOK
<1>3. Under(c) /\ applyMu = c /\ c # None
  BY <1>1, ConstantsAssumption DEF ApplyInv, Under
<1>4. Settled'
  BY <1>3 DEF Settled
<1>5. /\ applyMu' = c /\ op'[c].current = seen'[c]
      /\ NoNewConflict(op'[c].current, op'[c].changes)
      /\ Known(op'[c], remote', view')
  BY <1>2, <1>3 DEF Under
<1>6. Under(c)'
  BY <1>5 DEF Under, NoNewConflict, RRset
<1>7. QED
  BY <1>1, <1>4, <1>6, OneStep

(* A step that moves the operation c to pc. *)
LEMMA GotoStep ==
  ASSUME IdInv, ApplyInv, NEW c \in Clients, op[c].pc # "idle", NEW pc, Goto(c, pc),
         UNCHANGED <<applyMu, seen>>,
         op[c].read # "unsure" => Untouched(op[c], remote'),
         pc = "verify" => AtVerify(op[c], remote', view'),
         pc = "dns" => AtDns(op[c], remote', view'),
         pc = "recheck" => AtRecheck(op[c], remote'),
         pc # "batch", pc # "compensate"
  PROVE  ApplyInv'
<1> DEFINE new == [op[c] EXCEPT !.pc = pc]
<1>1. op[c] \in Operation
  BY DEF IdInv, TypeOK
<1>2. op' = [op EXCEPT ![c] = new]
  BY DEF Goto
<1>3. /\ new.pc = pc /\ new.changes = op[c].changes /\ new.current = op[c].current
      /\ new.read = op[c].read /\ new.listed = op[c].listed
  BY <1>1 DEF Operation
<1> HIDE DEF new
<1>4. new.read # "unsure" => Untouched(new, remote')
  BY <1>3 DEF Untouched
<1>5. new.pc = "verify" => AtVerify(new, remote', view')
  BY <1>3 DEF AtVerify, Done
<1>6. new.pc = "dns" => AtDns(new, remote', view')
  BY <1>3 DEF AtDns, Done
<1>7. new.pc = "recheck" => AtRecheck(new, remote')
  BY <1>3 DEF AtRecheck
<1>8. Known(new, remote', view')
  BY <1>3, <1>4, <1>5, <1>6, <1>7 DEF Known
<1>9. QED
  BY <1>2, <1>3, <1>8, GoingStep

LEMMA OutsideSteps ==
  ASSUME IdInv, ApplyInv, NEW c \in Clients
  PROVE  /\ Show(c) => ApplyInv'
         /\ StartFails(c) => ApplyInv'
         /\ \A changes \in Requests :
              /\ Refuse(c, changes) => ApplyInv'
              /\ NoOp(c, changes) => ApplyInv'
              /\ Start(c, changes) => ApplyInv'
<1>0. TypeOK /\ Settled
  BY DEF IdInv, ApplyInv
<1>1. ASSUME Show(c)
      PROVE  ApplyInv'
  <2>1. op' = op /\ op[c] = Idle /\ UNCHANGED <<applyMu, remote, view, unsettled>>
    BY <1>1 DEF Show
  <2>2. Settled'
    BY <1>0, <2>1 DEF Settled
  <2>3. ASSUME NEW d \in Clients, op'[d] # Idle
        PROVE  Under(d)'
    <3>1. d # c /\ Under(d)
      BY <2>1, <2>3 DEF ApplyInv
    <3>2. seen'[d] = seen[d]
      BY <1>0, <1>1, <3>1 DEF Show, TypeOK
    <3>3. /\ applyMu' = d /\ op'[d].current = seen'[d]
          /\ NoNewConflict(op'[d].current, op'[d].changes)
          /\ Known(op'[d], remote', view')
      BY <2>1, <3>1, <3>2 DEF Under
    <3>4. QED
      BY <3>3 DEF Under, NoNewConflict, RRset
  <2>4. QED
    BY <2>2, <2>3 DEF ApplyInv
<1>2. ASSUME NEW o, NEW status, CanStart(c), End(c, o, status, FALSE), NoBatch,
             unsettled' = unsettled
      PROVE  ApplyInv'
  <2>1. applyMu = None /\ op' = [op EXCEPT ![c] = Idle] /\ UNCHANGED <<remote, view>>
    BY <1>2 DEF CanStart, End, NoBatch
  <2>2. Settled'
    BY <1>0, <1>2, <2>1 DEF Settled
  <2>3. QED
    BY <1>0, <2>1, <2>2, OneStep
<1>3. ASSUME NEW changes \in Requests
      PROVE  (Refuse(c, changes) => ApplyInv') /\ (NoOp(c, changes) => ApplyInv')
  BY <1>2 DEF Refuse, NoOp
<1>4. StartFails(c) => ApplyInv'
  BY <1>2 DEF StartFails
<1>5. ASSUME NEW changes \in Requests, Start(c, changes)
      PROVE  ApplyInv'
  <2> DEFINE new == Begun(changes)
  <2>0. view \in SUBSET Record /\ c # None
    BY <1>0, ConstantsAssumption DEF TypeOK
  <2>1. /\ op' = [op EXCEPT ![c] = new] /\ applyMu = None /\ applyMu' = c
        /\ seen' = seen /\ seen[c] = view /\ UNCHANGED <<remote, view>>
        /\ NoNewConflict(view, changes)
    BY <1>5 DEF Start, CanStart, NoBatch, Valid
  <2>2. op'[c] = new
    BY <1>0, <2>1 DEF TypeOK
  <2>3. /\ new.pc = "batch" /\ new.changes = changes /\ new.current = view
        /\ new.read = IF Ours(view) = Ours(remote) THEN "fresh"
                      ELSE IF unsettled THEN "unsure" ELSE "late"
    BY <2>0, BegunFields
  <2> HIDE DEF new
  <2>4. new.read # "unsure" => Same(view, remote)
    BY <1>0, <2>1, <2>3, SameFacts DEF Settled
  <2>5. AtBatch(new, remote, view)
    BY <2>3, <2>4, SameFacts DEF AtBatch
  <2>6. new.read # "unsure" => Untouched(new, remote)
    <3>1. SUFFICES ASSUME new.read # "unsure", NEW k \in RRsets, k \notin Foreign,
                          RRset(remote, k) # {}
                   PROVE  RRset(view, k) # {}
      BY <2>3 DEF Untouched
    <3>2. Alike(RRset(view, k), RRset(remote, k))
      BY <2>4, <3>1, SameRRset
    <3>3. QED
      BY <3>1, <3>2 DEF Alike
  <2>7. Known(new, remote', view')
    BY <2>1, <2>3, <2>5, <2>6 DEF Known
  <2>8. /\ applyMu' = c /\ op'[c].current = seen'[c]
        /\ NoNewConflict(op'[c].current, op'[c].changes)
        /\ Known(op'[c], remote', view')
    BY <2>1, <2>2, <2>3, <2>7
  <2>9. Under(c)'
    BY <2>8 DEF Under, NoNewConflict, RRset
  <2>10. Settled'
    BY <2>0, <2>1 DEF Settled
  <2>11. QED
    BY <1>0, <2>1, <2>9, <2>10, OneStep
<1>6. QED
  BY <1>1, <1>3, <1>4, <1>5

(* What holds of an operation that has something to do. *)
LEMMA Doing ==
  ASSUME IdInv, ApplyInv, NEW c \in Clients, op[c].pc # "idle"
  PROVE  /\ TypeOK /\ UniqueIds(remote) /\ op[c] \in Operation /\ op[c] # Idle
         /\ op[c].changes \in Requests
         /\ op[c].current \in SUBSET Record /\ UniqueIds(op[c].current)
         /\ Under(c) /\ Known(op[c], remote, view)
         /\ applyMu = c
         /\ NoNewConflict(op[c].current, op[c].changes)
         /\ op[c].read # "unsure" => Untouched(op[c], remote)
<1>1. op[c] # Idle
  BY IdleFields
<1>2. /\ TypeOK /\ UniqueIds(remote) /\ op[c] \in Operation
      /\ op[c].changes \in Requests /\ UniqueIds(op[c].current)
      /\ Under(c)
  BY <1>1 DEF IdInv, TypeOK, Requested, IdsAreUnique, ApplyInv
<1>3. op[c].current \in SUBSET Record
  BY <1>2 DEF Operation
<1>4. QED
  BY <1>1, <1>2, <1>3 DEF Under, Known

(* A batch leaves alone what its request does not name. *)
LEMMA StaysUntouched ==
  ASSUME IdInv, ApplyInv, NEW c \in Clients, op[c].pc # "idle", NEW late,
         \/ Batch(PlanChanges(op[c].current, op[c].changes), late)
         \/ Batch(Compensation(c), late)
  PROVE  /\ \A k \in RRsets \ DOMAIN op[c].changes : RRset(remote', k) = RRset(remote, k)
         /\ op[c].read # "unsure" => Untouched(op[c], remote')
<1>1. /\ IsPlan(PlanChanges(op[c].current, op[c].changes))
      /\ Within(PlanChanges(op[c].current, op[c].changes), DOMAIN op[c].changes)
      /\ IsPlan(Compensation(c)) /\ Within(Compensation(c), DOMAIN op[c].changes)
  BY Doing, ClientPlans
<1>2. remote \subseteq Record /\ nextId \in 1..MaxId + 1
  BY DEF IdInv, TypeOK
<1>3. Outside(remote', DOMAIN op[c].changes) = Outside(remote, DOMAIN op[c].changes)
  BY <1>1, <1>2, BatchWithin
<1>4. ASSUME NEW k \in RRsets \ DOMAIN op[c].changes
      PROVE  RRset(remote', k) = RRset(remote, k)
  <2>1. \A S : RRset(S, k) = RRset(Outside(S, DOMAIN op[c].changes), k)
    BY DEF RRset, Outside
  <2>2. QED
    BY <1>3, <2>1
<1>5. op[c].read # "unsure" => Untouched(op[c], remote)
  BY Doing
<1>6. op[c].read # "unsure" => Untouched(op[c], remote')
  BY <1>4, <1>5 DEF Untouched
<1>7. QED
  BY <1>4, <1>6

(* What the batch of a plan leaves, and what a read of it tells. *)
LEMMA BatchSent ==
  ASSUME IdInv, ApplyInv, NEW c \in Clients, op[c].pc = "batch", NEW late \in BOOLEAN,
         Batch(PlanChanges(op[c].current, op[c].changes), late)
  PROVE  AtVerify(op[c], remote', view')
<1> DEFINE o == op[c]
<1>0. op[c].pc # "idle"
  OBVIOUS
<1>1. /\ TypeOK /\ o.changes \in Requests /\ o.current \in SUBSET Record
      /\ UniqueIds(o.current) /\ AtBatch(o, remote, view)
  BY <1>0, Doing DEF Known
<1>2. Within(PlanChanges(o.current, o.changes), DOMAIN o.changes)
  BY <1>0, Doing, ClientPlans
<1>3. Batch(PlanChanges(o.current, o.changes), late) /\ (view' = view \/ view' = remote')
  BY DEF Batch
<1> HIDE DEF o
<1>4. ASSUME o.read # "unsure"
      PROVE  /\ Compared(Affected(remote', o.changes))
                  = Compared(Expected(o.current, o.changes))
             /\ PlanMatches(view', o.current, o.changes) => Same(view', remote')
  <2>1. Same(remote, o.current) /\ Same(view, remote)
    BY <1>1, <1>4 DEF AtBatch
  <2>2. Alike(Affected(remote, o.changes), Affected(o.current, o.changes))
    BY <1>1, <2>1, SameAffected
  <2>3. Compared(Affected(remote', o.changes)) = Compared(Expected(o.current, o.changes))
    BY <1>1, <1>3, <2>2, BatchApplies
  <2>4. ASSUME view' = view, PlanMatches(view, o.current, o.changes)
        PROVE  Same(view', remote')
    <3>1. Same(view, o.current)
      BY <2>1, SameFacts
    <3>2. Compared(Affected(view, o.changes)) = Compared(Affected(o.current, o.changes))
      BY <1>1, <3>1, SameAffected, AlikeCompared
    <3>3. Compared(Affected(o.current, o.changes))
            = Compared(Expected(o.current, o.changes))
      BY <2>4, <3>2 DEF PlanMatches
    <3>4. Same(remote', remote)
      BY <1>1, <1>2, <1>3, <2>2, <3>3, BatchQuiet
    <3>5. QED
      BY <2>1, <2>4, <3>4, SameFacts
  <2>5. view' = remote' => Same(view', remote')
    BY SameFacts
  <2>6. QED
    BY <1>3, <2>3, <2>4, <2>5
<1>5. ASSUME o.read = "fresh"
      PROVE  Attributed(Affected(remote', o.changes), Expected(o.current, o.changes),
                        Affected(o.current, o.changes))
  <2>1. Ours(remote) = Ours(o.current)
    BY <1>1, <1>5 DEF AtBatch
  <2>2. Affected(remote, o.changes) = Affected(o.current, o.changes)
    BY <1>1, <2>1, OursAffected
  <2>3. QED
    BY <1>1, <1>3, <2>2, BatchAttributes
<1>6. AtVerify(o, remote', view')
  BY <1>4, <1>5 DEF AtVerify, Done
<1>7. QED
  BY <1>6 DEF o

LEMMA RollbackSent ==
  ASSUME IdInv, ApplyInv, NEW c \in Clients, op[c].pc = "compensate", NEW late,
         Batch(Compensation(c), late)
  PROVE  AtRecheck(op[c], remote')
<1>0. op[c].pc # "idle"
  OBVIOUS
<1>1. /\ TypeOK /\ op[c].current \in SUBSET Record /\ UniqueIds(op[c].current)
      /\ AtCompensate(op[c], remote)
  BY <1>0, Doing DEF Known
<1>2. Batch(RollbackPlan(op[c].current, op[c].latest, op[c].changes), late)
  BY DEF Compensation
<1>3. QED
  BY <1>1, <1>2, BatchRestores DEF AtCompensate, AtRecheck

LEMMA GoingSteps ==
  ASSUME IdInv, ApplyInv, NEW c \in Clients
  PROVE  /\ Verified(c) => ApplyInv'
         /\ VerifyFails(c) => ApplyInv'
         /\ RollbackList(c) => ApplyInv'
         /\ Cancel(c) => ApplyInv'
         /\ \A late \in BOOLEAN : SendBatch(c, late) => ApplyInv'
         /\ \A late \in BOOLEAN : RollbackBatch(c, late) => ApplyInv'
<1>1. ASSUME Verified(c)
      PROVE  ApplyInv'
  <2>1. /\ op[c].pc = "verify" /\ op[c].pc # "idle" /\ Goto(c, "dns")
        /\ UNCHANGED <<applyMu, seen, remote, view>>
        /\ PlanMatches(view, op[c].current, op[c].changes)
    BY <1>1 DEF Verified, NoBatch
  <2>2. AtVerify(op[c], remote, view) /\ (op[c].read # "unsure" => Untouched(op[c], remote))
    BY <2>1, Doing DEF Known
  <2>3. AtDns(op[c], remote, view)
    BY <2>1, <2>2 DEF AtVerify, AtDns
  <2>4. QED
    BY <2>1, <2>2, <2>3, GotoStep
<1>2. ASSUME VerifyFails(c)
      PROVE  ApplyInv'
  <2>1. /\ op[c].pc # "idle" /\ Goto(c, "list") /\ UNCHANGED <<applyMu, seen, remote, view>>
    BY <1>2 DEF VerifyFails, NoBatch
  <2>2. op[c].read # "unsure" => Untouched(op[c], remote)
    BY <2>1, Doing
  <2>3. QED
    BY <2>1, <2>2, GotoStep
<1>3. ASSUME RollbackList(c)
      PROVE  ApplyInv'
  <2> DEFINE new == [op[c] EXCEPT !.pc = "compensate", !.latest = view,
                                  !.listed = Bare(Ours(view)) = Bare(Ours(remote))]
  <2>1. op[c].pc # "idle" /\ UNCHANGED <<applyMu, seen, remote, view>>
    BY <1>3 DEF RollbackList, NoBatch
  <2>2. /\ TypeOK /\ op[c] \in Operation /\ op[c].changes \in Requests
        /\ op[c].read # "unsure" => Untouched(op[c], remote)
    BY <2>1, Doing
  <2>3. op' = [op EXCEPT ![c] = new]
    BY <1>3, <2>2 DEF RollbackList, TypeOK
  <2>4. /\ new.pc = "compensate" /\ new.latest = view /\ new.read = op[c].read
        /\ new.listed = (Bare(Ours(view)) = Bare(Ours(remote)))
        /\ new.current = op[c].current /\ new.changes = op[c].changes
    BY <2>2 DEF Operation
  <2> HIDE DEF new
  <2>5. new.listed => Same(remote, view)
    BY <2>4, BareIsAlike, SameFacts DEF Same
  <2>6. AtCompensate(new, remote)
    BY <2>2, <2>4, <2>5, SameAffected DEF AtCompensate
  <2>7. new.read # "unsure" => Untouched(new, remote)
    BY <2>2, <2>4 DEF Untouched
  <2>8. Known(new, remote', view')
    BY <2>1, <2>4, <2>6, <2>7 DEF Known
  <2>9. QED
    BY <2>1, <2>3, <2>4, <2>8, GoingStep
<1>4. ASSUME Cancel(c)
      PROVE  ApplyInv'
  <2> DEFINE new == [op[c] EXCEPT !.cancelled = TRUE]
  <2>1. op[c].pc # "idle" /\ UNCHANGED <<applyMu, seen, remote, view>>
    BY <1>4 DEF Cancel, NoBatch, IdInv, Requested
  <2>2. op' = [op EXCEPT ![c] = new]
    BY <1>4 DEF Cancel
  <2>3. op[c] \in Operation /\ Known(op[c], remote, view)
    BY <2>1, Doing
  <2>4. /\ new.pc = op[c].pc /\ new.latest = op[c].latest /\ new.read = op[c].read
        /\ new.current = op[c].current /\ new.changes = op[c].changes
        /\ new.listed = op[c].listed
    BY <2>3 DEF Operation
  <2> HIDE DEF new
  <2>5. Known(new, remote, view)
    BY <2>3, <2>4 DEF Known, Untouched, AtBatch, AtVerify, AtDns, AtCompensate, AtRecheck, Done
  <2>6. QED
    BY <2>1, <2>2, <2>4, <2>5, GoingStep
<1>5. ASSUME NEW late \in BOOLEAN, SendBatch(c, late)
      PROVE  ApplyInv'
  <2>1. /\ op[c].pc = "batch" /\ op[c].pc # "idle" /\ Goto(c, "verify")
        /\ UNCHANGED <<applyMu, seen>>
        /\ Batch(PlanChanges(op[c].current, op[c].changes), late)
    BY <1>5 DEF SendBatch
  <2>2. AtVerify(op[c], remote', view')
    BY <2>1, BatchSent
  <2>3. op[c].read # "unsure" => Untouched(op[c], remote')
    BY <2>1, StaysUntouched
  <2>4. QED
    BY <2>1, <2>2, <2>3, GotoStep
<1>6. ASSUME NEW late \in BOOLEAN, RollbackBatch(c, late)
      PROVE  ApplyInv'
  <2>1. /\ op[c].pc = "compensate" /\ op[c].pc # "idle" /\ Goto(c, "recheck")
        /\ UNCHANGED <<applyMu, seen>> /\ Batch(Compensation(c), late)
    BY <1>6 DEF RollbackBatch
  <2>2. AtRecheck(op[c], remote')
    BY <2>1, RollbackSent
  <2>3. op[c].read # "unsure" => Untouched(op[c], remote')
    BY <2>1, StaysUntouched
  <2>4. QED
    BY <2>1, <2>2, <2>3, GotoStep
<1>7. QED
  BY <1>1, <1>2, <1>3, <1>4, <1>5, <1>6

LEMMA EndingSteps ==
  ASSUME IdInv, ApplyInv, NEW c \in Clients
  PROVE  /\ Succeed(c) => ApplyInv'
         /\ Recheck(c) => ApplyInv'
         /\ \A done, late \in BOOLEAN : BatchFails(c, done, late) => ApplyInv'
         /\ \A done, late \in BOOLEAN : RollbackFails(c, done, late) => ApplyInv'
<1>1. ASSUME op[c].pc # "idle", op' = [op EXCEPT ![c] = Idle],
             ~unsettled' => Same(view', remote')
      PROVE  ApplyInv'
  <2>1. TypeOK /\ op[c] # Idle
    BY <1>1, Doing
  <2>2. Settled'
    BY <1>1 DEF Settled
  <2>3. QED
    BY <1>1, <2>1, <2>2, OneStep
<1>2. ASSUME op[c].pc # "idle", NEW rolledBack, Fails(c, rolledBack)
      PROVE  ApplyInv'
  <2>1. op' = [op EXCEPT ![c] = Idle] /\ Settle(TRUE)
    BY <1>2 DEF Fails, End
  <2>2. ~unsettled' => Same(view', remote')
    BY <2>1, SettleSettles
  <2>3. QED
    BY <1>1, <1>2, <2>1, <2>2
<1>3. ASSUME Succeed(c)
      PROVE  ApplyInv'
  <2>1. /\ op[c].pc = "dns" /\ op[c].pc # "idle" /\ op' = [op EXCEPT ![c] = Idle]
        /\ UNCHANGED <<remote, view>> /\ Settle(op[c].read = "unsure")
    BY <1>3 DEF Succeed, End, NoBatch
  <2>2. op[c].read # "unsure" => Same(view, remote)
    BY <2>1, Doing DEF Known, AtDns
  <2>3. ~unsettled' => (op[c].read = "unsure" => Same(view', remote'))
    BY <2>1, SettleSettles
  <2>4. QED
    BY <1>1, <2>1, <2>2, <2>3
<1>4. Recheck(c) => ApplyInv'
  BY <1>2 DEF Recheck
<1>5. \A done, late \in BOOLEAN : BatchFails(c, done, late) => ApplyInv'
  BY <1>2 DEF BatchFails
<1>6. \A done, late \in BOOLEAN : RollbackFails(c, done, late) => ApplyInv'
  BY <1>2 DEF RollbackFails
<1>7. QED
  BY <1>3, <1>4, <1>5, <1>6

LEMMA EnvironmentSteps ==
  ASSUME IdInv, ApplyInv
  PROVE  /\ Propagate => ApplyInv'
         /\ Crash => ApplyInv'
         /\ \A k \in Foreign, contents \in SUBSET Contents, late \in BOOLEAN :
              OtherWriter(k, contents, late) => ApplyInv'
<1>1. ASSUME Ours(remote') = Ours(remote), view' = view \/ view' = remote',
             Settle(FALSE), UNCHANGED <<applyMu, seen, op>>
      PROVE  ApplyInv'
  <2>1. Settled'
    <3>1. SUFFICES ASSUME applyMu = None, ~unsettled'
                   PROVE  Same(view', remote')
      BY <1>1 DEF Settled
    <3>2. CASE unsettled
      BY <1>1, <3>1, <3>2, SettleSettles
    <3>3. CASE ~unsettled
      <4>1. Same(view, remote)
        BY <3>1, <3>3 DEF ApplyInv, Settled
      <4>2. QED
        BY <1>1, <4>1, SameFacts DEF Same
    <3>4. QED
      BY <3>2, <3>3
  <2>2. ASSUME NEW c \in Clients, op'[c] # Idle
        PROVE  Under(c)'
    <3>1. op[c] # Idle /\ op[c].changes \in Requests
      BY <1>1, <2>2 DEF IdInv, Requested
    <3>2. Under(c)
      BY <3>1 DEF ApplyInv
    <3>3. Known(op[c], remote', view')
      BY <1>1, <3>1, <3>2, KnownMoves DEF Under
    <3>4. /\ applyMu' = c /\ op'[c].current = seen'[c]
          /\ NoNewConflict(op'[c].current, op'[c].changes)
          /\ Known(op'[c], remote', view')
      BY <1>1, <3>2, <3>3 DEF Under
    <3>5. QED
      BY <3>4 DEF Under, NoNewConflict, RRset
  <2>3. QED
    BY <2>1, <2>2 DEF ApplyInv
<1>2. Propagate => ApplyInv'
  BY <1>1 DEF Propagate
<1>3. ASSUME Crash
      PROVE  ApplyInv'
  <2>1. Settle(TRUE) /\ \A c \in Clients : op'[c] = Idle
    BY <1>3 DEF Crash
  <2>2. Settled'
    BY <2>1, SettleSettles DEF Settled
  <2>3. QED
    BY <2>1, <2>2 DEF ApplyInv
<1>4. ASSUME NEW k \in Foreign, NEW contents \in SUBSET Contents, NEW late \in BOOLEAN,
             OtherWriter(k, contents, late)
      PROVE  ApplyInv'
  <2>1. Ours(remote') = Ours(remote)
    BY <1>4, OtherOurs DEF IdInv, IdsAreUnique
  <2>2. /\ view' = view \/ view' = remote'
        /\ Settle(FALSE) /\ UNCHANGED <<applyMu, seen, op>>
    BY <1>4 DEF OtherWriter, Batch
  <2>3. QED
    BY <1>1, <2>1, <2>2
<1>5. QED
  BY <1>2, <1>3, <1>4

Inv == IdInv /\ ApplyInv

LEMMA InitInv ==
  ASSUME Init
  PROVE  Inv
<1>1. Settled
  BY SameFacts DEF Init, Settled
<1>2. QED
  BY <1>1, InitIds DEF Inv, ApplyInv, Init

LEMMA InvStep ==
  ASSUME Inv, [Next]_vars
  PROVE  Inv'
<1>0. IdInv /\ ApplyInv
  BY DEF Inv
<1>1. Frame
  BY <1>0, EveryStepFrames, StutterFrames
<1>2. \/ remote' = remote /\ nextId' = nextId
      \/ \E plan, late : IsPlan(plan) /\ Batch(plan, late)
  BY <1>1 DEF Frame
<1>3. IdInv'
  BY <1>0, <1>1, <1>2, IdStep DEF Frame
<1>4. ASSUME NEW c \in Clients, ApplyStep(c)
      PROVE  ApplyInv'
  BY <1>0, <1>4, GoingSteps, EndingSteps DEF ApplyStep
<1>5. ASSUME Next
      PROVE  ApplyInv'
  BY <1>0, <1>4, <1>5, OutsideSteps, GoingSteps, EnvironmentSteps DEF Next
<1>6. ASSUME UNCHANGED vars
      PROVE  ApplyInv'
  <2>1. Settled'
    BY <1>0, <1>6 DEF vars, ApplyInv, Settled
  <2>2. ASSUME NEW c \in Clients, op'[c] # Idle
        PROVE  Under(c)'
    <3>1. op' = op /\ seen' = seen /\ applyMu' = applyMu /\ remote' = remote /\ view' = view
      BY <1>6 DEF vars
    <3>2. Under(c)
      BY <1>0, <2>2, <3>1 DEF ApplyInv
    <3>3. /\ applyMu' = c /\ op'[c].current = seen'[c]
          /\ NoNewConflict(op'[c].current, op'[c].changes)
          /\ Known(op'[c], remote', view')
      BY <3>1, <3>2 DEF Under
    <3>4. QED
      BY <3>3 DEF Under, NoNewConflict, RRset
  <2>3. QED
    BY <2>1, <2>2 DEF ApplyInv
<1>7. QED
  BY <1>3, <1>5, <1>6 DEF Inv

-----------------------------------------------------------------------------
(* What it comes to                                                        *)

(* The batch of ApplyChanges replaces the contents and TTLs that its       *)
(* client was shown, whatever other clients, other writers, late reads,    *)
(* lost answers, hang-ups and crashes do, unless it read after a failure   *)
(* that the reads had not caught up with.                                  *)
THEOREM NothingIsOverwritten == Spec => NoLostUpdate
<1>1. Init => Inv
  BY InitInv
<1>2. Inv /\ [Next]_vars => Inv'
  BY InvStep
<1>3. Inv => [\A c \in Clients :
                op[c].pc = "batch" /\ remote' # remote /\ op'[c] # op[c]
                  /\ op[c].read # "unsure" =>
                    \A k \in DOMAIN op[c].changes :
                      Compared(RRset(remote, k)) = Compared(RRset(seen[c], k))]_vars
  <2> SUFFICES ASSUME Inv, NEW c \in Clients, op[c].pc = "batch", op[c].read # "unsure",
                      NEW k \in DOMAIN op[c].changes
               PROVE  Compared(RRset(remote, k)) = Compared(RRset(seen[c], k))
    OBVIOUS
  <2>1. op[c].pc # "idle" /\ IdInv /\ ApplyInv
    BY DEF Inv
  <2>2. /\ op[c].current = seen[c] /\ AtBatch(op[c], remote, view)
        /\ op[c].changes \in Requests
    BY <2>1, Doing DEF Under, Known
  <2>3. Same(remote, seen[c]) /\ k \notin Foreign
    BY <2>2, RequestType DEF AtBatch
  <2>4. QED
    BY <2>3, SameRRset, AlikeCompared
<1>4. QED
  BY <1>1, <1>2, <1>3, PTL DEF Spec, NoLostUpdate

(* Which step answers with a success, and which reports a rollback. *)
LEMMA SuccessSteps ==
  ASSUME Next, result' # result, result'.status = "success"
  PROVE  \E c \in Clients : Succeed(c) \/ \E changes \in Requests : NoOp(c, changes)
<1>0. NoResult.status # "success"
  BY DEF NoResult
<1>1. ~Propagate /\ ~Crash
  BY <1>0 DEF Propagate, Crash
<1>2. ~\E k \in Foreign, contents \in SUBSET Contents, late \in BOOLEAN :
         OtherWriter(k, contents, late)
  BY <1>0 DEF OtherWriter
<1>3. PICK c \in Clients :
         \/ Show(c)
         \/ \E changes \in Requests :
              Refuse(c, changes) \/ NoOp(c, changes) \/ Start(c, changes)
         \/ StartFails(c)
         \/ ApplyStep(c)
         \/ Cancel(c)
  BY <1>1, <1>2 DEF Next
<1>4. ~Show(c) /\ ~Cancel(c) /\ ~StartFails(c)
  BY <1>0 DEF Show, Cancel, StartFails, End
<1>5. ASSUME NEW changes \in Requests
      PROVE  ~Refuse(c, changes) /\ ~Start(c, changes)
  BY <1>0 DEF Refuse, Start, End
<1>6. ApplyStep(c) => Succeed(c)
  <2>1. ~Verified(c) /\ ~VerifyFails(c) /\ ~RollbackList(c)
    BY <1>0 DEF Verified, VerifyFails, RollbackList
  <2>2. \A late \in BOOLEAN : ~SendBatch(c, late) /\ ~RollbackBatch(c, late)
    BY <1>0 DEF SendBatch, RollbackBatch
  <2>3. ASSUME NEW rolledBack, Fails(c, rolledBack)
        PROVE  FALSE
    <3>1. End(c, op[c], "failed", rolledBack)
      BY <2>3 DEF Fails
    <3>2. result'.status = "failed"
      BY <3>1 DEF End
    <3>3. QED
      BY <3>2
  <2>4. ~Recheck(c)
    BY <2>3 DEF Recheck
  <2>5. \A done, late \in BOOLEAN : ~BatchFails(c, done, late) /\ ~RollbackFails(c, done, late)
    BY <2>3 DEF BatchFails, RollbackFails
  <2>6. QED
    BY <2>1, <2>2, <2>4, <2>5 DEF ApplyStep
<1>7. QED
  BY <1>3, <1>4, <1>5, <1>6

LEMMA RolledBackSteps ==
  ASSUME Next, result' # result, result'.rolledBack
  PROVE  \E c \in Clients : Recheck(c)
<1>0. ~NoResult.rolledBack
  BY DEF NoResult
<1>1. ~Propagate /\ ~Crash
  BY <1>0 DEF Propagate, Crash
<1>2. ~\E k \in Foreign, contents \in SUBSET Contents, late \in BOOLEAN :
         OtherWriter(k, contents, late)
  BY <1>0 DEF OtherWriter
<1>3. PICK c \in Clients :
         \/ Show(c)
         \/ \E changes \in Requests :
              Refuse(c, changes) \/ NoOp(c, changes) \/ Start(c, changes)
         \/ StartFails(c)
         \/ ApplyStep(c)
         \/ Cancel(c)
  BY <1>1, <1>2 DEF Next
<1>4. ~Show(c) /\ ~Cancel(c) /\ ~StartFails(c)
  BY <1>0 DEF Show, Cancel, StartFails, End
<1>5. ASSUME NEW changes \in Requests
      PROVE  ~Refuse(c, changes) /\ ~NoOp(c, changes) /\ ~Start(c, changes)
  BY <1>0 DEF Refuse, NoOp, Start, End
<1>6. ApplyStep(c) => Recheck(c)
  <2>1. ~Verified(c) /\ ~VerifyFails(c) /\ ~RollbackList(c)
    BY <1>0 DEF Verified, VerifyFails, RollbackList
  <2>2. \A late \in BOOLEAN : ~SendBatch(c, late) /\ ~RollbackBatch(c, late)
    BY <1>0 DEF SendBatch, RollbackBatch
  <2>3. ASSUME Fails(c, FALSE)
        PROVE  FALSE
    <3>1. End(c, op[c], "failed", FALSE)
      BY <2>3 DEF Fails
    <3>2. ~result'.rolledBack
      BY <3>1 DEF End
    <3>3. QED
      BY <3>2
  <2>4. ~Succeed(c)
    BY DEF Succeed, End
  <2>5. \A done, late \in BOOLEAN : ~BatchFails(c, done, late) /\ ~RollbackFails(c, done, late)
    BY <2>3 DEF BatchFails, RollbackFails
  <2>6. QED
    BY <2>1, <2>2, <2>4, <2>5 DEF ApplyStep
<1>7. QED
  BY <1>3, <1>4, <1>5, <1>6

(* What a success stands for. *)
LEMMA SuccessDone ==
  ASSUME Inv, Next, result' # result, result'.status = "success"
  PROVE  /\ result'.read # "unsure" =>
              Compared(Affected(remote, result'.changes)) =
              Compared(Expected(result'.before, result'.changes))
         /\ result'.read = "fresh" =>
              Attributed(Affected(remote, result'.changes),
                         Expected(result'.before, result'.changes),
                         Affected(result'.before, result'.changes))
<1>0. IdInv /\ ApplyInv /\ view \in SUBSET Record
  BY DEF Inv, IdInv, TypeOK
<1>1. PICK c \in Clients : Succeed(c) \/ \E changes \in Requests : NoOp(c, changes)
  BY SuccessSteps
<1>2. CASE Succeed(c)
  <2>1. /\ op[c].pc = "dns" /\ op[c].pc # "idle" /\ result'.changes = op[c].changes
        /\ result'.before = op[c].current /\ result'.read = op[c].read
    BY <1>2 DEF Succeed, End
  <2>2. Done(op[c], remote)
    BY <1>0, <2>1, Doing DEF Known, AtDns
  <2>3. QED
    BY <2>1, <2>2 DEF Done
<1>3. CASE \E changes \in Requests : NoOp(c, changes)
  <2>1. PICK changes \in Requests : NoOp(c, changes)
    BY <1>3
  <2> DEFINE o == Begun(changes)
  <2>2. /\ NothingToDo(PlanChanges(view, changes)) /\ applyMu = None
        /\ result'.changes = o.changes /\ result'.before = o.current
        /\ result'.read = o.read
    BY <2>1 DEF NoOp, End, CanStart
  <2>3. /\ o.changes = changes /\ o.current = view
        /\ o.read = IF Ours(view) = Ours(remote) THEN "fresh"
                    ELSE IF unsettled THEN "unsure" ELSE "late"
    BY <1>0, BegunFields
  <2> HIDE DEF o
  <2>4. /\ Compared(Affected(view, changes)) = Compared(Expected(view, changes))
        /\ Attributed(Affected(view, changes), Expected(view, changes),
                      Affected(view, changes))
    BY <1>0, <2>2, NothingApplies
  <2>5. o.read # "unsure" => Same(view, remote)
    BY <1>0, <2>2, <2>3, SameFacts DEF ApplyInv, Settled
  <2>6. o.read # "unsure" =>
          Compared(Affected(remote, changes)) = Compared(Affected(view, changes))
    BY <2>5, SameAffected, AlikeCompared
  <2>7. o.read = "fresh" => Affected(remote, changes) = Affected(view, changes)
    BY <2>3, OursAffected
  <2>8. QED
    BY <2>2, <2>3, <2>4, <2>6, <2>7
<1>4. QED
  BY <1>1, <1>2, <1>3

(* A success is answered only when the zone holds what was asked for, with *)
(* the attributes given, inherited or left, also when reads are late; the  *)
(* plans made from a read after a failure are excepted.                    *)
THEOREM SuccessMeansApplied == Spec => SuccessIsApplied
<1>1. Init => Inv
  BY InitInv
<1>2. Inv /\ [Next]_vars => Inv'
  BY InvStep
<1>3. Inv /\ [Next]_vars =>
        [result' # result /\ result'.status = "success" =>
           LET before == Affected(result'.before, result'.changes)
               is     == Affected(remote, result'.changes)
               ought  == Expected(result'.before, result'.changes)  IN
           /\ result'.read # "unsure" => Compared(is) = Compared(ought)
           /\ result'.read = "fresh" =>
                \A r \in is, w \in ought :
                  SameRecordValue(r, w) => CommentGiven(r, w, before)]_vars
  BY SuccessDone DEF vars, Attributed
<1>4. QED
  BY <1>1, <1>2, <1>3, PTL DEF Spec, SuccessIsApplied

(* A rollback is reported only when the RRsets it restores are what they   *)
(* were before, attributes included, however late the read that confirms   *)
(* it, unless the list it started from was behind.                         *)
THEOREM RollbackMeansRestored == Spec => RolledBackIsRestored
<1>1. Init => Inv
  BY InitInv
<1>2. Inv /\ [Next]_vars => Inv'
  BY InvStep
<1>3. Inv /\ [Next]_vars =>
        [result' # result /\ result'.rolledBack /\ result'.listed =>
           {Value(r) : r \in Restorable(remote, result'.changes)} =
           {Value(r) : r \in Restorable(result'.before, result'.changes)}]_vars
  <2> SUFFICES ASSUME Inv, Next, result' # result, result'.rolledBack, result'.listed
               PROVE  Values(Restorable(remote, result'.changes)) =
                      Values(Restorable(result'.before, result'.changes))
    BY DEF vars, Values
  <2>1. PICK c \in Clients : Recheck(c)
    BY RolledBackSteps
  <2>2. /\ op[c].pc = "recheck" /\ op[c].pc # "idle" /\ result'.changes = op[c].changes
        /\ result'.before = op[c].current /\ result'.listed = op[c].listed
    BY <2>1 DEF Recheck, Fails, End
  <2>3. AtRecheck(op[c], remote)
    BY <2>2, Doing DEF Inv, Known
  <2>4. QED
    BY <2>2, <2>3 DEF AtRecheck
<1>4. QED
  BY <1>1, <1>2, <1>3, PTL DEF Spec, RolledBackIsRestored

-----------------------------------------------------------------------------
(* CNAMEs                                                                  *)

LEMMA AloneFrom ==
  ASSUME NEW S, NEW T, Alone(S),
         \A k \in RRsets \ Foreign : RRset(T, k) # {} => RRset(S, k) # {}
  PROVE  Alone(T)
BY DEF Alone

LEMMA PairHasTwo ==
  ASSUME NEW k, NEW l, k # l
  PROVE  Cardinality({k, l}) = 2
<1>1. IsFiniteSet({l}) /\ Cardinality({l}) = 1
  BY FS_Singleton
<1>2. Cardinality({l} \cup {k}) = 2
  BY <1>1, FS_AddElement
<1>3. {l} \cup {k} = {k, l}
  OBVIOUS
<1>4. QED
  BY <1>2, <1>3

(* What Valid has accepted brings no CNAME beside another type. *)
LEMMA AppliedAlone ==
  ASSUME NEW current \in SUBSET Record, NEW changes \in Requests,
         Alone(current), NoNewConflict(current, changes), NEW T,
         Compared(Affected(T, changes)) = Compared(Expected(current, changes)),
         \A k \in RRsets \ (Foreign \cup DOMAIN changes) :
           RRset(T, k) # {} => RRset(current, k) # {}
  PROVE  Alone(T)
<1> SUFFICES ASSUME NEW k \in RRsets \ Foreign, NEW l \in RRsets \ Foreign,
                    k # l, k[1] = l[1], k[2] = "CNAME",
                    RRset(T, k) # {}, RRset(T, l) # {}
             PROVE  FALSE
  BY DEF Alone
<1> DEFINE o == k[1]
           before == {m \in RRsets : m[1] = o /\ RRset(current, m) # {}}
           after  == {m \in RRsets : m[1] = o /\
                        IF m \in DOMAIN changes THEN changes[m].contents # {}
                        ELSE RRset(current, m) # {}}
<1>1. k = <<o, "CNAME">>
  BY ConstantsAssumption
<1>2. <<o, "CNAME">> \in after /\ Cardinality(after) > 1 => after = before
  BY DEF NoNewConflict
<1>3. ASSUME NEW m \in RRsets, m[1] = o, m \notin Foreign, RRset(T, m) # {}
      PROVE  m \in after
  <2>1. CASE m \in DOMAIN changes
    <3>1. PICK r \in T : r.key = m
      BY <1>3 DEF RRset
    <3>2. r \in Affected(T, changes)
      BY <2>1, <3>1 DEF Affected
    <3>3. PICK w \in Expected(current, changes) : Fits(r, w)
      BY <3>2, ComparedFits
    <3>4. w.key = m /\ w.content \in changes[w.key].contents
      BY <3>1, <3>3, ExpectedFacts DEF Fits
    <3>5. QED
      BY <1>3, <2>1, <3>4
  <2>2. CASE m \notin DOMAIN changes
    BY <1>3, <2>2
  <2>3. QED
    BY <2>1, <2>2
<1>4. k \in after /\ l \in after
  BY <1>1, <1>3
<1>5. Cardinality(after) > 1
  <2>1. IsFiniteSet(after)
    <3>1. after \subseteq RRsets /\ IsFiniteSet(RRsets)
      BY ConstantsAssumption
    <3> HIDE DEF after
    <3>2. QED
      BY <3>1, FS_Subset
  <2> HIDE DEF after
  <2>2. {k, l} \subseteq after
    BY <1>4
  <2>3. Cardinality({k, l}) = 2
    BY PairHasTwo
  <2>4. Cardinality({k, l}) <= Cardinality(after) /\ Cardinality(after) \in Nat
    BY <2>1, <2>2, FS_Subset, FS_CardinalityType
  <2>5. QED
    BY <2>3, <2>4
<1>6. after = before
  BY <1>1, <1>2, <1>4, <1>5
<1>7. RRset(current, k) # {} /\ RRset(current, l) # {}
  BY <1>4, <1>6
<1>8. QED
  BY <1>7 DEF Alone

(* A batch of ApplyChanges or of its rollback, without the exceptions. *)
LEMMA ClientBatch ==
  ASSUME IdInv, ApplyInv, NEW c \in Clients, NEW late \in BOOLEAN,
         \/ op[c].pc = "batch" /\ Batch(PlanChanges(op[c].current, op[c].changes), late)
         \/ op[c].pc = "compensate" /\ Batch(Compensation(c), late),
         op[c].read # "unsure", op[c].listed, Alone(op[c].current),
         \A k \in DOMAIN op[c].changes : ~op[c].changes[k].padded
  PROVE  Alone(remote')
<1>0. op[c].pc # "idle"
  OBVIOUS
<1>1. /\ op[c].changes \in Requests /\ op[c].current \in SUBSET Record
      /\ NoNewConflict(op[c].current, op[c].changes)
  BY <1>0, Doing
<1>2. \A k \in RRsets \ (Foreign \cup DOMAIN op[c].changes) :
        RRset(remote', k) # {} => RRset(op[c].current, k) # {}
  <2>1. Untouched(op[c], remote')
    BY <1>0, StaysUntouched
  <2>2. QED
    BY <2>1 DEF Untouched
<1>3. CASE op[c].pc = "batch" /\ Batch(PlanChanges(op[c].current, op[c].changes), late)
  <2>1. AtVerify(op[c], remote', view')
    BY <1>3, BatchSent
  <2>2. Compared(Affected(remote', op[c].changes))
          = Compared(Expected(op[c].current, op[c].changes))
    BY <2>1 DEF AtVerify, Done
  <2>3. QED
    BY <1>1, <1>2, <2>2, AppliedAlone
<1>4. CASE op[c].pc = "compensate" /\ Batch(Compensation(c), late)
  <2>1. AtRecheck(op[c], remote')
    BY <1>4, RollbackSent
  <2>2. Values(Restorable(remote', op[c].changes))
          = Values(Restorable(op[c].current, op[c].changes))
    BY <2>1 DEF AtRecheck
  <2>3. ASSUME NEW k \in RRsets \ Foreign, RRset(remote', k) # {}
        PROVE  RRset(op[c].current, k) # {}
    <3>1. CASE k \notin DOMAIN op[c].changes
      BY <1>2, <2>3, <3>1
    <3>2. CASE k \in DOMAIN op[c].changes
      <4>1. PICK r \in remote' : r.key = k
        BY <2>3 DEF RRset
      <4>2. r \in Restorable(remote', op[c].changes)
        BY <3>2, <4>1 DEF Affected, Restorable
      <4>3. Value(r) \in Values(Restorable(op[c].current, op[c].changes))
        BY <2>2, <4>2 DEF Values
      <4>4. PICK s \in Restorable(op[c].current, op[c].changes) : Value(r) = Value(s)
        BY <4>3 DEF Values
      <4>5. s.key = k
        BY <4>1, <4>4 DEF Value
      <4>6. QED
        BY <4>4, <4>5 DEF Restorable, Affected, RRset
    <3>3. QED
      BY <3>1, <3>2
  <2>4. QED
    BY <2>3, AloneFrom
<1>5. QED
  BY <1>3, <1>4

(* Which steps change the records at Cloudflare. *)
LEMMA WritingSteps ==
  ASSUME Inv, Next, remote' # remote
  PROVE  \/ \E k \in Foreign, contents \in SUBSET Contents, late \in BOOLEAN :
              OtherWriter(k, contents, late)
         \/ \E c \in Clients, late \in BOOLEAN :
              /\ op'[c] # op[c]
              /\ \/ op[c].pc = "batch" /\ Batch(PlanChanges(op[c].current, op[c].changes), late)
                 \/ op[c].pc = "compensate" /\ Batch(Compensation(c), late)
<1>0. TypeOK
  BY DEF Inv, IdInv
<1>1. ~Propagate /\ ~Crash /\ ~NoBatch
  BY DEF Propagate, Crash, NoBatch
<1>2. ASSUME NEW c \in Clients
      PROVE  /\ ~Show(c) /\ ~Cancel(c) /\ ~StartFails(c)
             /\ \A changes \in Requests :
                  ~Refuse(c, changes) /\ ~NoOp(c, changes) /\ ~Start(c, changes)
  BY <1>1 DEF Show, Cancel, StartFails, Refuse, NoOp, Start
<1>3. ASSUME NEW c \in Clients, ApplyStep(c)
      PROVE  \E late \in BOOLEAN :
               /\ op'[c] # op[c]
               /\ \/ op[c].pc = "batch" /\ Batch(PlanChanges(op[c].current, op[c].changes), late)
                  \/ op[c].pc = "compensate" /\ Batch(Compensation(c), late)
  <2>1. ~Verified(c) /\ ~VerifyFails(c) /\ ~Succeed(c) /\ ~RollbackList(c) /\ ~Recheck(c)
    BY <1>1 DEF Verified, VerifyFails, Succeed, RollbackList, Recheck
  <2>2. ASSUME NEW pc, Goto(c, pc), pc # op[c].pc
        PROVE  op'[c] # op[c]
    <3>1. op'[c] = [op[c] EXCEPT !.pc = pc]
      BY <1>0, <2>2 DEF Goto, TypeOK
    <3>2. op[c] \in Operation
      BY <1>0 DEF TypeOK
    <3>3. op'[c].pc = pc
      BY <3>1, <3>2 DEF Operation
    <3>4. QED
      BY <2>2, <3>3
  <2>3. ASSUME op[c].pc # "idle", NEW rolledBack, Fails(c, rolledBack)
        PROVE  op'[c] # op[c]
    <3>1. op'[c] = Idle
      BY <1>0, <2>3 DEF Fails, End, TypeOK
    <3>2. QED
      BY <2>3, <3>1, IdleFields
  <2>4. ASSUME NEW late \in BOOLEAN, SendBatch(c, late)
        PROVE  /\ op'[c] # op[c] /\ op[c].pc = "batch"
               /\ Batch(PlanChanges(op[c].current, op[c].changes), late)
    BY <2>2, <2>4 DEF SendBatch
  <2>5. ASSUME NEW late \in BOOLEAN, RollbackBatch(c, late)
        PROVE  op'[c] # op[c] /\ op[c].pc = "compensate" /\ Batch(Compensation(c), late)
    BY <2>2, <2>5 DEF RollbackBatch
  <2>6. ASSUME NEW done \in BOOLEAN, NEW late \in BOOLEAN, BatchFails(c, done, late)
        PROVE  /\ op'[c] # op[c] /\ op[c].pc = "batch"
               /\ Batch(PlanChanges(op[c].current, op[c].changes), late)
    BY <1>1, <2>3, <2>6 DEF BatchFails
  <2>7. ASSUME NEW done \in BOOLEAN, NEW late \in BOOLEAN, RollbackFails(c, done, late)
        PROVE  op'[c] # op[c] /\ op[c].pc = "compensate" /\ Batch(Compensation(c), late)
    BY <1>1, <2>3, <2>7 DEF RollbackFails
  <2>8. QED
    BY <1>3, <2>1, <2>4, <2>5, <2>6, <2>7 DEF ApplyStep
<1>4. QED
  BY <1>1, <1>2, <1>3 DEF Next

(* Batches and rollbacks put no CNAME beside another type of an owner of   *)
(* ours, the same exceptions aside.                                        *)
THEOREM CnamesStayAlone == Spec => CnamesAreAlone
<1>1. Init => Inv
  BY InitInv
<1>2. Inv /\ [Next]_vars => Inv'
  BY InvStep
<1>3. Inv /\ [Next]_vars =>
        [remote' # remote /\ Alone(remote) /\ ~Alone(remote') =>
           \E c \in Clients :
             /\ op'[c] # op[c]
             /\ \/ op[c].read = "unsure" \/ ~op[c].listed
                \/ ~Alone(op[c].current)
                \/ \E k \in DOMAIN op[c].changes : op[c].changes[k].padded]_vars
  <2> SUFFICES ASSUME Inv, Next, remote' # remote, Alone(remote), ~Alone(remote')
               PROVE  \E c \in Clients :
                        /\ op'[c] # op[c]
                        /\ \/ op[c].read = "unsure" \/ ~op[c].listed
                           \/ ~Alone(op[c].current)
                           \/ \E k \in DOMAIN op[c].changes : op[c].changes[k].padded
    BY DEF vars
  <2>0. IdInv /\ ApplyInv /\ TypeOK /\ UniqueIds(remote)
    BY DEF Inv, IdInv, IdsAreUnique
  <2>1. ASSUME NEW k \in Foreign, NEW contents \in SUBSET Contents, NEW late \in BOOLEAN,
               OtherWriter(k, contents, late)
        PROVE  FALSE
    <3>1. Ours(remote') = Ours(remote)
      BY <2>0, <2>1, OtherOurs
    <3>2. \A l \in RRsets \ Foreign : RRset(remote', l) = RRset(remote, l)
      BY <3>1, OursRRset
    <3>3. QED
      BY <3>2, AloneFrom
  <2>2. PICK c \in Clients, late \in BOOLEAN :
          /\ op'[c] # op[c]
          /\ \/ op[c].pc = "batch" /\ Batch(PlanChanges(op[c].current, op[c].changes), late)
             \/ op[c].pc = "compensate" /\ Batch(Compensation(c), late)
    BY <2>1, WritingSteps
  <2>3. QED
    BY <2>0, <2>2, ClientBatch
<1>4. QED
  BY <1>1, <1>2, <1>3, PTL DEF Spec, CnamesAreAlone
=============================================================================
