--------------------------- MODULE ReconcileProofs ---------------------------
(***************************************************************************)
(* Proofs about Records and Reconcile, for any zones, texts and requests:  *)
(* published and kept versions stay valid, the audit log replays to the    *)
(* zone, the order of a request's changes is free, and the report of       *)
(* rill-reconcile can be relied on in what it says and in what it does not.*)
(*                                                                         *)
(* Everything about Edited goes through the states of its loop, by an      *)
(* induction over a set of positions (SetInduction).                       *)
(***************************************************************************)
EXTENDS Reconcile, FiniteSetTheorems, SequenceTheorems, WellFoundedInduction, TLAPS

-----------------------------------------------------------------------------
(* Loops                                                                   *)

(* A set of numbers has a least one. *)
LEMMA LeastNumber ==
  ASSUME NEW T, T \subseteq Nat, T # {}
  PROVE  \E m \in T : \A k \in T : m <= k
<1> DEFINE R == {p \in Nat \X Nat : p[1] < p[2]}
<1>1. IsWellFoundedOn(R, Nat)
  BY NatLessThanWellFounded DEF OpToRel
<1>2. \E m \in T : \A k \in T : ~(<<k, m>> \in R)
  <2> HIDE DEF R
  <2>1. QED
    BY <1>1, WFMin
<1>3. PICK m \in T : \A k \in T : ~(<<k, m>> \in R)
  BY <1>2
<1>4. ASSUME NEW k \in T
      PROVE  m <= k
  <2>1. ~(<<k, m>> \in R)
    BY <1>3
  <2>2. <<k, m>> \in Nat \X Nat /\ k \in Nat /\ m \in Nat
    OBVIOUS
  <2>3. ~(k < m)
    BY <2>1, <2>2
  <2>4. QED
    BY <2>2, <2>3
<1>5. QED
  BY <1>4

(* Induction up to n on a set of numbers instead of a predicate. *)
LEMMA SetInduction ==
  ASSUME NEW S, NEW n \in Nat, 0 \in S,
         \A i \in 1..n : i - 1 \in S => i \in S
  PROVE  \A i \in 0..n : i \in S
<1> SUFFICES ASSUME (0..n) \ S # {} PROVE FALSE
  OBVIOUS
<1>0. (0..n) \ S \subseteq Nat
  OBVIOUS
<1> DEFINE T == (0..n) \ S
<1>1. PICK m \in T : \A k \in T : m <= k
  <2> HIDE DEF T
  <2>1. QED
    BY <1>0, LeastNumber DEF T
<1>2. m \in 1..n /\ m - 1 \in 0..n /\ m - 1 < m
  BY <1>1
<1>3. m - 1 \in S
  BY <1>1, <1>2
<1>4. QED
  BY <1>1, <1>2, <1>3

(* The states of the loop of Edited over the first n changes. *)
Looped(g, version, changes, n) ==
  /\ g = [i \in 0..n |-> g[i]]
  /\ g[0] = SetToBag(version)
  /\ \A i \in 1..n : g[i] = ApplyChange(g[i - 1], changes[i])

LEMMA LoopRuns ==
  ASSUME NEW version, NEW changes, NEW N \in Nat
  PROVE  \E g : Looped(g, version, changes, N)
<1> DEFINE S == {n \in Nat : \E g : Looped(g, version, changes, n)}
<1>1. 0 \in S
  <2> DEFINE g == [i \in 0..0 |-> SetToBag(version)]
  <2>1. g[0] = SetToBag(version)
    OBVIOUS
  <2>2. g = [i \in 0..0 |-> g[i]]
    OBVIOUS
  <2>3. Looped(g, version, changes, 0)
    BY <2>1, <2>2 DEF Looped
  <2>4. QED
    BY <2>3
<1>2. ASSUME NEW n \in 1..N, n - 1 \in S
      PROVE  n \in S
  <2>0. n \in Nat /\ n - 1 \in Nat
    OBVIOUS
  <2>1. PICK f : Looped(f, version, changes, n - 1)
    BY <1>2
  <2> DEFINE next == ApplyChange(f[n - 1], changes[n])
             g == [i \in 0..n |-> IF i = n THEN next ELSE f[i]]
  <2> HIDE DEF next
  <2>2. g = [i \in 0..n |-> g[i]]
    OBVIOUS
  <2>3. g[0] = SetToBag(version)
    BY <2>0, <2>1 DEF Looped
  <2>4. ASSUME NEW i \in 1..n
        PROVE  g[i] = ApplyChange(g[i - 1], changes[i])
    <3>0. i \in 0..n /\ i - 1 \in 0..n /\ i - 1 # n
      OBVIOUS
    <3>1. g[i - 1] = f[i - 1]
      BY <3>0
    <3>2. CASE i = n
      BY <3>0, <3>1, <3>2 DEF next
    <3>3. CASE i # n
      <4>1. i \in 1..(n - 1) /\ g[i] = f[i]
        BY <3>0, <3>3
      <4>2. f[i] = ApplyChange(f[i - 1], changes[i])
        BY <4>1, <2>1 DEF Looped
      <4>3. QED
        BY <4>1, <4>2, <3>1
    <3>4. QED
      BY <3>2, <3>3
  <2>5. Looped(g, version, changes, n)
    <3> HIDE DEF g
    <3>1. QED
      BY <2>2, <2>3, <2>4 DEF Looped
  <2>6. QED
    BY <2>0, <2>5
<1>3. \A i \in 0..N : i \in S
  <2> HIDE DEF S
  <2>1. QED
    BY <1>1, <1>2, SetInduction
<1>4. QED
  BY <1>3

(* Edited is what its loop arrives at. *)
LEMMA EditedLoop ==
  ASSUME NEW version, NEW changes, Len(changes) \in Nat
  PROVE  \E g : /\ Looped(g, version, changes, Len(changes))
                /\ Edited(version, changes) = g[Len(changes)]
<1> DEFINE N == Len(changes)
           Is(f) == f = [i \in 0..N |->
                           IF i = 0 THEN SetToBag(version)
                           ELSE ApplyChange(f[i - 1], changes[i])]
           rrs == CHOOSE f : Is(f)
<1>1. PICK f : Looped(f, version, changes, N)
  BY LoopRuns
<1>2. Is(f)
  <2> HIDE DEF N
  <2>1. \A i \in 0..N : i = 0 \/ i \in 1..N
    OBVIOUS
  <2>2. \A i \in 0..N : f[i] = IF i = 0 THEN SetToBag(version)
                               ELSE ApplyChange(f[i - 1], changes[i])
    BY <1>1, <2>1 DEF Looped
  <2>3. f = [i \in 0..N |-> f[i]]
    BY <1>1 DEF Looped
  <2>4. QED
    BY <2>2, <2>3
<1>3. Is(rrs)
  <2> HIDE DEF Is
  <2>1. QED
    BY <1>2
<1>4. Edited(version, changes) = rrs[N]
  BY DEF Edited
<1>5. Looped(rrs, version, changes, N)
  <2> HIDE DEF rrs
  <2>0. N \in Nat
    OBVIOUS
  <2> HIDE DEF N
  <2>1. rrs = [i \in 0..N |-> rrs[i]]
    BY <1>3
  <2>2. rrs[0] = SetToBag(version)
    BY <1>3, <2>0
  <2>3. \A i \in 1..N : rrs[i] = ApplyChange(rrs[i - 1], changes[i])
    BY <1>3, <2>0
  <2>4. QED
    BY <2>1, <2>2, <2>3 DEF Looped
<1>6. QED
  BY <1>4, <1>5

-----------------------------------------------------------------------------
(* What a change does to the set of records                                *)

Added(change) ==
  {[name |-> change.name, type |-> change.type, ttl |-> change.ttl, value |-> v]
     : v \in BagToSet(change.records)}

After(records, change) ==
  {r \in records : ~Concerns(change, r)} \cup Added(change)

LEMMA AddedAreConcerned ==
  ASSUME NEW change, NEW r \in Added(change)
  PROVE  /\ Concerns(change, r) /\ r.name = change.name /\ r.type = change.type
         /\ r.ttl = change.ttl /\ r.value \in BagToSet(change.records)
         /\ r = [name |-> r.name, type |-> r.type, ttl |-> r.ttl, value |-> r.value]
<1>1. PICK v \in BagToSet(change.records) :
        r = [name |-> change.name, type |-> change.type, ttl |-> change.ttl, value |-> v]
  BY DEF Added
<1>2. r.name = change.name /\ r.type = change.type /\ r.ttl = change.ttl /\ r.value = v
  BY <1>1
<1>3. QED
  BY <1>1, <1>2 DEF Concerns

LEMMA ApplyToSet ==
  ASSUME NEW rrs, NEW change
  PROVE  BagToSet(ApplyChange(rrs, change)) = After(BagToSet(rrs), change)
BY DEF ApplyChange, After, Added, BagToSet, (+)

(* The records of a change that names each record once. *)
OnceEach(change) == \A v \in DOMAIN change.records : change.records[v] = 1

LEMMA ApplyOnce ==
  ASSUME NEW records, NEW change, OnceEach(change)
  PROVE  ApplyChange(SetToBag(records), change) = SetToBag(After(records, change))
<1> DEFINE kept == {r \in records : ~Concerns(change, r)}
           D == Added(change)
           K == [r \in kept |-> 1]
           A == [r \in D |-> 1]
<1>1. [r \in {r \in BagToSet(SetToBag(records)) : ~Concerns(change, r)}
          |-> SetToBag(records)[r]] = K
  BY DEF BagToSet, SetToBag
<1>2. [r \in Added(change) |-> change.records[r.value]] = A
  BY AddedAreConcerned DEF OnceEach, BagToSet
<1>3. ApplyChange(SetToBag(records), change) = K (+) A
  BY <1>1, <1>2 DEF ApplyChange, Added
<1>4. kept \cap D = {}
  BY AddedAreConcerned
<1>5. K (+) A = [r \in kept \cup D |-> 1]
  <2> HIDE DEF kept, D
  <2>1. DOMAIN K = kept /\ DOMAIN A = D
    OBVIOUS
  <2>2. ASSUME NEW r \in kept \cup D
        PROVE  (IF r \in kept THEN K[r] ELSE 0) + (IF r \in D THEN A[r] ELSE 0) = 1
    <3>1. CASE r \in kept
      <4>1. r \notin D
        BY <1>4, <3>1
      <4>2. K[r] = 1
        BY <3>1
      <4>3. QED
        BY <3>1, <4>1, <4>2
    <3>2. CASE r \in D
      <4>1. r \notin kept
        BY <1>4, <3>2
      <4>2. A[r] = 1
        BY <3>2
      <4>3. QED
        BY <3>2, <4>1, <4>2
    <3>3. QED
      BY <3>1, <3>2
  <2> HIDE DEF K, A
  <2>3. K (+) A = [r \in kept \cup D |->
                     (IF r \in kept THEN K[r] ELSE 0) + (IF r \in D THEN A[r] ELSE 0)]
    BY <2>1 DEF (+)
  <2>4. QED
    BY <2>2, <2>3
<1>6. QED
  BY <1>3, <1>5 DEF SetToBag, After

(* The sets that the loop of Edited goes through. *)
Stepped(s, version, changes, n) ==
  s[0] = version /\ \A i \in 1..n : s[i] = After(s[i - 1], changes[i])

LEMMA EditedSteps ==
  ASSUME NEW version, NEW changes, Len(changes) \in Nat
  PROVE  \E s : /\ Stepped(s, version, changes, Len(changes))
                /\ BagToSet(Edited(version, changes)) = s[Len(changes)]
<1> DEFINE N == Len(changes)
<1>0. N \in Nat
  OBVIOUS
<1>1. PICK g : Looped(g, version, changes, N) /\ Edited(version, changes) = g[N]
  BY EditedLoop
<1> HIDE DEF N
<1> DEFINE s == [i \in 0..N |-> BagToSet(g[i])]
<1>2. s[0] = version
  BY <1>0, <1>1 DEF Looped, BagToSet, SetToBag
<1>3. ASSUME NEW i \in 1..N
      PROVE  s[i] = After(s[i - 1], changes[i])
  <2>1. i \in 0..N /\ i - 1 \in 0..N
    BY <1>0
  <2>2. g[i] = ApplyChange(g[i - 1], changes[i])
    BY <1>1 DEF Looped
  <2>3. BagToSet(g[i]) = After(BagToSet(g[i - 1]), changes[i])
    BY <2>2, ApplyToSet
  <2>4. QED
    BY <2>1, <2>3
<1>4. s[N] = BagToSet(Edited(version, changes))
  BY <1>0, <1>1
<1> HIDE DEF s
<1>5. Stepped(s, version, changes, N)
  BY <1>2, <1>3 DEF Stepped
<1>6. QED
  BY <1>4, <1>5 DEF N

LEMMA EditedOnce ==
  ASSUME NEW version, NEW changes, Len(changes) \in Nat,
         \A i \in 1..Len(changes) : OnceEach(changes[i])
  PROVE  Edited(version, changes) = SetToBag(BagToSet(Edited(version, changes)))
<1> DEFINE N == Len(changes)
<1>0. N \in Nat /\ \A i \in 1..N : OnceEach(changes[i])
  OBVIOUS
<1>1. PICK g : Looped(g, version, changes, N) /\ Edited(version, changes) = g[N]
  BY EditedLoop
<1> HIDE DEF N
<1> DEFINE S == {i \in 0..N : g[i] = SetToBag(BagToSet(g[i]))}
<1>2. 0 \in S
  BY <1>0, <1>1 DEF Looped, BagToSet, SetToBag
<1>3. ASSUME NEW i \in 1..N, i - 1 \in S
      PROVE  i \in S
  <2>1. i \in 0..N
    OBVIOUS
  <2>2. g[i] = ApplyChange(g[i - 1], changes[i])
    BY <1>1 DEF Looped
  <2>3. g[i - 1] = SetToBag(BagToSet(g[i - 1]))
    BY <1>3
  <2>4. g[i] = SetToBag(After(BagToSet(g[i - 1]), changes[i]))
    BY <2>2, <2>3, <1>0, ApplyOnce
  <2>5. BagToSet(g[i]) = After(BagToSet(g[i - 1]), changes[i])
    BY <2>4 DEF BagToSet, SetToBag
  <2>6. QED
    BY <2>1, <2>4, <2>5
<1> HIDE DEF S
<1>4. \A i \in 0..N : i \in S
  BY <1>0, <1>2, <1>3, SetInduction
<1>5. N \in S
  BY <1>0, <1>4
<1>6. QED
  BY <1>1, <1>5 DEF S

(* Changes of which no two concern the same RRset, unless they are the     *)
(* same change.                                                            *)
Separate(changes) ==
  \A i, j \in 1..Len(changes) :
    Concerns(changes[i], changes[j]) => changes[i] = changes[j]

Elements(q) == {q[i] : i \in 1..Len(q)}

EditedApart(version, C) ==
  {r \in version : \A c \in C : ~Concerns(c, r)} \cup UNION {Added(c) : c \in C}

(* The changes of a request that are separate act independently. *)
LEMMA EditedSeparately ==
  ASSUME NEW version, NEW changes, Len(changes) \in Nat, Separate(changes)
  PROVE  BagToSet(Edited(version, changes)) =
           EditedApart(version, Elements(changes))
<1> DEFINE N == Len(changes)
           C(n) == {changes[i] : i \in 1..n}
<1>0. N \in Nat
  OBVIOUS
<1>1. PICK s : Stepped(s, version, changes, N) /\ BagToSet(Edited(version, changes)) = s[N]
  BY EditedSteps
<1>s. \A i, j \in 1..N : Concerns(changes[i], changes[j]) => changes[i] = changes[j]
  BY DEF Separate
<1> HIDE DEF N
<1> DEFINE S == {n \in 0..N : s[n] = EditedApart(version, C(n))}
<1>2. 0 \in S
  <2>1. C(0) = {}
    OBVIOUS
  <2>2. EditedApart(version, C(0)) = version
    BY <2>1 DEF EditedApart
  <2>3. QED
    BY <2>2, <1>0, <1>1 DEF Stepped
<1>3. ASSUME NEW n \in 1..N, n - 1 \in S
      PROVE  n \in S
  <2> DEFINE c == changes[n]
  <2>1. n \in 0..N /\ n - 1 \in 0..N
    BY <1>0
  <2>2. s[n] = After(EditedApart(version, C(n - 1)), c)
    <3>1. s[n - 1] = EditedApart(version, C(n - 1))
      BY <1>3
    <3>2. s[n] = After(s[n - 1], changes[n])
      BY <1>1 DEF Stepped
    <3>3. QED
      BY <3>1, <3>2, Zenon
  <2>3. C(n) = C(n - 1) \cup {c}
    <3>1. 1..n = (1..(n - 1)) \cup {n}
      OBVIOUS
    <3>2. QED
      BY <3>1
  <2>4. ASSUME NEW d \in C(n - 1), NEW r \in Added(d)
        PROVE  ~Concerns(c, r) \/ r \in Added(c)
    <3>0. \E i \in 1..(n - 1) : d = changes[i]
      <4>1. d \in {changes[i] : i \in 1..(n - 1)}
        BY <2>4
      <4>2. QED
        BY <4>1
    <3>1. PICK i \in 1..(n - 1) : d = changes[i]
      BY <3>0
    <3>2. i \in 1..N
      BY <3>1, <1>0
    <3>3. r.name = d.name /\ r.type = d.type
      BY AddedAreConcerned
    <3>4. Concerns(c, r) => Concerns(c, d)
      BY <3>3 DEF Concerns
    <3>5. Concerns(c, d) => c = d
      BY <3>1, <3>2, <1>s
    <3>6. QED
      BY <3>4, <3>5
  <2> DEFINE D == C(n - 1)
  <2>5. \A d \in D : \A r \in Added(d) : ~Concerns(c, r) \/ r \in Added(c)
    BY <2>4
  <2>6. After(EditedApart(version, D), c) = EditedApart(version, D \cup {c})
    <3> HIDE DEF D, c, C
    <3>1. QED
      BY <2>5 DEF After, EditedApart
  <2>7. QED
    BY <2>1, <2>2, <2>3, <2>6
<1> HIDE DEF S
<1>4. \A i \in 0..N : i \in S
  BY <1>0, <1>2, <1>3, SetInduction
<1>5. N \in S
  BY <1>0, <1>4
<1>6. QED
  BY <1>1, <1>5 DEF S, N, Elements

-----------------------------------------------------------------------------
(* Finite sets and their sequences                                         *)

LEMMA ImageIsFinite ==
  ASSUME NEW S, IsFiniteSet(S), NEW f
  PROVE  IsFiniteSet({f[x] : x \in S})
<1> DEFINE T == {f[x] : x \in S}
           g == [x \in S |-> f[x]]
<1>1. g \in Surjection(S, T)
  BY DEF Surjection
<1> HIDE DEF g, T
<1>2. QED
  BY <1>1, FS_Surjection DEF T

LEMMA SeqOfSet ==
  ASSUME NEW S, IsFiniteSet(S)
  PROVE  /\ SetToSeq(S) \in Seq(S)
         /\ Len(SetToSeq(S)) = Cardinality(S)
         /\ Elements(SetToSeq(S)) = S
<1> DEFINE n == Cardinality(S)
           q == SetToSeq(S)
<1>1. n \in Nat /\ ExistsBijection(1..n, S)
  BY FS_CardinalityType
<1>2. PICK f \in Bijection(1..n, S) : TRUE
  BY <1>1 DEF ExistsBijection
<1>3. f \in [1..n -> S] /\ IsInjective(f)
  BY <1>2 DEF Bijection, Injection, IsInjective
<1>4. q \in [1..n -> S] /\ IsInjective(q)
  BY <1>3 DEF SetToSeq
<1>5. q \in Seq(S) /\ Len(q) = n
  BY <1>1, <1>4
<1>6. IsFiniteSet(1..n) /\ Cardinality(1..n) = n
  <2> HIDE DEF n
  <2>1. QED
    BY <1>1, FS_Interval
<1>7. q \in Injection(1..n, S)
  BY <1>4 DEF Injection, IsInjective
<1>8. q \in Surjection(1..n, S)
  <2> HIDE DEF q
  <2>1. QED
    BY <1>6, <1>7, FS_Injection
<1>9. {q[i] : i \in 1..n} = S
  <2>1. \A x \in S : \E i \in 1..n : q[i] = x
    BY <1>8 DEF Surjection
  <2>2. \A i \in 1..n : q[i] \in S
    BY <1>4
  <2> HIDE DEF q, n
  <2>3. QED
    BY <2>1, <2>2
<1>10. QED
  BY <1>5, <1>9 DEF Elements

(* The elements of a list made of two sets are those of the sets. *)
LEMMA SeqOfTwoSets ==
  ASSUME NEW S, IsFiniteSet(S), NEW T, IsFiniteSet(T),
         NEW q, q = SetToSeq(S) \o SetToSeq(T)
  PROVE  Len(q) \in Nat /\ Elements(q) = S \cup T
<1> DEFINE s == SetToSeq(S)
           t == SetToSeq(T)
           U == S \cup T
<1>1. s \in Seq(S) /\ {s[i] : i \in 1..Len(s)} = S
  BY SeqOfSet DEF Elements
<1>2. t \in Seq(T) /\ {t[i] : i \in 1..Len(t)} = T
  BY SeqOfSet DEF Elements
<1>3. q = s \o t
  OBVIOUS
<1> HIDE DEF s, t
<1>4. s \in Seq(U) /\ t \in Seq(U)
  BY <1>1, <1>2, SeqMonotonic
<1>5. Len(s) \in Nat /\ Len(t) \in Nat
  BY <1>1, <1>2, LenProperties
<1>6. /\ Len(q) = Len(s) + Len(t)
      /\ \A i \in 1..Len(s) + Len(t) : q[i] = IF i <= Len(s) THEN s[i] ELSE t[i - Len(s)]
  <2> HIDE DEF U
  <2>1. QED
    BY <1>3, <1>4, ConcatProperties
<1>7. ASSUME NEW x \in S
      PROVE  \E i \in 1..Len(q) : q[i] = x
  <2>0. \E i \in 1..Len(s) : s[i] = x
    <3>1. x \in {s[i] : i \in 1..Len(s)}
      BY <1>1
    <3>2. QED
      BY <3>1
  <2>1. PICK i \in 1..Len(s) : s[i] = x
    BY <2>0
  <2>2. i \in 1..Len(s) + Len(t) /\ i <= Len(s)
    BY <1>5
  <2>3. QED
    BY <2>1, <2>2, <1>6
<1>8. ASSUME NEW x \in T
      PROVE  \E i \in 1..Len(q) : q[i] = x
  <2>0. \E i \in 1..Len(t) : t[i] = x
    <3>1. x \in {t[i] : i \in 1..Len(t)}
      BY <1>2
    <3>2. QED
      BY <3>1
  <2>1. PICK i \in 1..Len(t) : t[i] = x
    BY <2>0
  <2>2. /\ i + Len(s) \in 1..Len(s) + Len(t) /\ ~(i + Len(s) <= Len(s))
        /\ i + Len(s) - Len(s) = i
    BY <1>5
  <2>3. q[i + Len(s)] = t[i]
    BY <2>2, <1>6
  <2>4. QED
    BY <2>1, <2>2, <2>3, <1>6
<1>9. ASSUME NEW i \in 1..Len(q)
      PROVE  q[i] \in U
  <2>1. CASE i <= Len(s)
    <3>1. i \in 1..Len(s) /\ i \in 1..Len(s) + Len(t)
      BY <2>1, <1>5, <1>6
    <3>2. q[i] = s[i]
      BY <3>1, <2>1, <1>6
    <3>3. s[i] \in U
      BY <3>1, <1>4, ElementOfSeq
    <3>4. QED
      BY <3>2, <3>3
  <2>2. CASE ~(i <= Len(s))
    <3>1. i - Len(s) \in 1..Len(t) /\ i \in 1..Len(s) + Len(t)
      BY <2>2, <1>5, <1>6
    <3>2. q[i] = t[i - Len(s)]
      BY <3>1, <2>2, <1>6
    <3>3. t[i - Len(s)] \in U
      BY <3>1, <1>4, ElementOfSeq
    <3>4. QED
      BY <3>2, <3>3
  <2>3. QED
    BY <2>1, <2>2
<1>10. Len(q) \in Nat
  BY <1>5, <1>6
<1>11. Elements(q) = S \cup T
  BY <1>7, <1>8, <1>9 DEF Elements
<1>12. QED
  BY <1>10, <1>11

-----------------------------------------------------------------------------
(* Differences                                                             *)

(* A version has a value of an RRset. *)
Has(version, name, type, value) ==
  \E r \in version : r.name = name /\ r.type = type /\ r.value = value

(* Contents are determined by the values of the RRsets. *)
LEMMA SameContents ==
  ASSUME NEW S, NEW T,
         \A name, type, value : Has(S, name, type, value) <=> Has(T, name, type, value)
  PROVE  Contents(S) = Contents(T)
<1>1. ASSUME NEW A, NEW B,
             \A name, type, value : Has(A, name, type, value) => Has(B, name, type, value),
             NEW r \in A
      PROVE  [name |-> r.name, type |-> r.type, value |-> r.value] \in Contents(B)
  <2>1. Has(A, r.name, r.type, r.value)
    BY DEF Has
  <2>2. Has(B, r.name, r.type, r.value)
    BY <1>1, <2>1
  <2>3. PICK q \in B : q.name = r.name /\ q.type = r.type /\ q.value = r.value
    BY <2>2 DEF Has
  <2>4. [name |-> r.name, type |-> r.type, value |-> r.value]
          = [name |-> q.name, type |-> q.type, value |-> q.value]
    BY <2>3
  <2>5. QED
    BY <2>4 DEF Contents
<1>2. \A c \in Contents(S) : c \in Contents(T)
  BY <1>1 DEF Contents
<1>3. \A c \in Contents(T) : c \in Contents(S)
  BY <1>1 DEF Contents
<1>4. QED
  BY <1>2, <1>3

LEMMA ContentsHas ==
  ASSUME NEW S, NEW T, Contents(S) = Contents(T), NEW name, NEW type, NEW value,
         Has(S, name, type, value)
  PROVE  Has(T, name, type, value)
<1>1. PICK r \in S : r.name = name /\ r.type = type /\ r.value = value
  BY DEF Has
<1>2. [name |-> name, type |-> type, value |-> value] \in Contents(S)
  BY <1>1 DEF Contents
<1>3. \E q \in T : [name |-> name, type |-> type, value |-> value]
                     = [name |-> q.name, type |-> q.type, value |-> q.value]
  BY <1>2 DEF Contents
<1>4. PICK q \in T : [name |-> name, type |-> type, value |-> value]
                       = [name |-> q.name, type |-> q.type, value |-> q.value]
  BY <1>3
<1>5. q.name = name /\ q.type = type /\ q.value = value
  BY <1>4
<1>6. QED
  BY <1>5 DEF Has

LEMMA RRsetFacts ==
  ASSUME NEW version, NEW name, NEW type
  PROVE  LET s == RRset(version, name, type)  IN
         /\ s.name = name /\ s.type = type
         /\ \A v : v \in DOMAIN s.records <=> Has(version, name, type, v)
BY DEF RRset, Has

LEMMA RRsetTtl ==
  ASSUME NEW version, OneTtl(version), NEW r \in version, r.ttl \in Nat
  PROVE  RRset(version, r.name, r.type).ttl = r.ttl
<1> DEFINE set == {q \in version : q.name = r.name /\ q.type = r.type}
<1>1. \A q \in set : q.ttl = r.ttl
  BY DEF OneTtl, Concerns
<1>2. {q.ttl : q \in set} = {r.ttl}
  <2>1. r \in set
    OBVIOUS
  <2> HIDE DEF set
  <2>2. QED
    BY <1>1, <2>1
<1>3. Min({r.ttl}) = r.ttl
  BY DEF Min
<1>4. RRset(version, r.name, r.type).ttl = Min({q.ttl : q \in set})
  BY DEF RRset
<1> HIDE DEF set
<1>5. QED
  BY <1>2, <1>3, <1>4

LEMMA RRsetsFacts ==
  ASSUME NEW version
  PROVE  /\ \A s \in RRsets(version) :
              /\ s = RRset(version, s.name, s.type)
              /\ \E r \in version : r.name = s.name /\ r.type = s.type
         /\ \A r \in version : RRset(version, r.name, r.type) \in RRsets(version)
<1>1. ASSUME NEW s \in RRsets(version)
      PROVE  /\ s = RRset(version, s.name, s.type)
             /\ \E r \in version : r.name = s.name /\ r.type = s.type
  <2>1. \E r \in version : s = RRset(version, r.name, r.type)
    BY DEF RRsets
  <2>2. PICK r \in version : s = RRset(version, r.name, r.type)
    BY <2>1
  <2>3. s.name = r.name /\ s.type = r.type
    BY <2>2, RRsetFacts
  <2>4. QED
    BY <2>2, <2>3
<1>2. \A r \in version : RRset(version, r.name, r.type) \in RRsets(version)
  BY DEF RRsets
<1>3. QED
  BY <1>1, <1>2

LEMMA RRsetsAreFinite ==
  ASSUME NEW version, IsFiniteSet(version)
  PROVE  IsFiniteSet(RRsets(version))
<1> DEFINE f == [r \in version |-> RRset(version, r.name, r.type)]
<1>1. RRsets(version) = {f[r] : r \in version}
  BY DEF RRsets
<1> HIDE DEF f
<1>2. QED
  BY <1>1, ImageIsFinite

(* The changes of a difference, as two sets. *)
UpsertOf(s) == [action |-> "upsert", name |-> s.name, type |-> s.type,
                ttl |-> s.ttl, records |-> s.records]

DeleteOf(s) == [action |-> "delete", name |-> s.name, type |-> s.type,
                ttl |-> 0, records |-> EmptyBag]

Upserted(from, to) == {s \in RRsets(to) : s.type # "SOA" /\ s \notin RRsets(from)}

Deleted(from, to) ==
  {s \in RRsets(from) : s.type # "SOA" /\ \A new \in RRsets(to) : ~Concerns(s, new)}

Diff(from, to) ==
  {UpsertOf(s) : s \in Upserted(from, to)} \cup {DeleteOf(s) : s \in Deleted(from, to)}

LEMMA DiffOfSets ==
  ASSUME NEW from, NEW to, IsFiniteSet(from), IsFiniteSet(to),
         NEW changes, changes = DiffRRsets(from, to)
  PROVE  /\ Len(changes) \in Nat
         /\ Elements(changes) = Diff(from, to)
<1> DEFINE U == {UpsertOf(s) : s \in Upserted(from, to)}
           D == {DeleteOf(s) : s \in Deleted(from, to)}
           u == [s \in Upserted(from, to) |-> UpsertOf(s)]
           d == [s \in Deleted(from, to) |-> DeleteOf(s)]
<1>1. IsFiniteSet(Upserted(from, to)) /\ IsFiniteSet(Deleted(from, to))
  BY RRsetsAreFinite, FS_Subset DEF Upserted, Deleted
<1>2. U = {u[s] : s \in Upserted(from, to)} /\ D = {d[s] : s \in Deleted(from, to)}
  OBVIOUS
<1>3. IsFiniteSet(U) /\ IsFiniteSet(D)
  <2> HIDE DEF u, d, U, D
  <2>1. QED
    BY <1>1, <1>2, ImageIsFinite
<1>4. changes = SetToSeq(U) \o SetToSeq(D)
  <2> DEFINE A == {[action |-> "upsert", name |-> s.name, type |-> s.type,
                    ttl |-> s.ttl, records |-> s.records] : s \in Upserted(from, to)}
             B == {[action |-> "delete", name |-> s.name, type |-> s.type,
                    ttl |-> 0, records |-> EmptyBag] : s \in Deleted(from, to)}
  <2>1. U = A /\ D = B
    BY DEF UpsertOf, DeleteOf
  <2>2. changes = SetToSeq(A) \o SetToSeq(B)
    BY DEF DiffRRsets, Upserted, Deleted
  <2> HIDE DEF U, D, A, B
  <2>3. QED
    BY <2>1, <2>2
<1> HIDE DEF U, D
<1>5. Len(changes) \in Nat /\ Elements(changes) = U \cup D
  BY <1>3, <1>4, SeqOfTwoSets
<1>6. QED
  BY <1>5 DEF Diff, U, D

(* What a change of a difference stands for. *)
LEMMA DiffChange ==
  ASSUME NEW from, NEW to, NEW c \in Diff(from, to)
  PROVE  \/ \E s \in RRsets(to) : /\ c = UpsertOf(s) /\ s.type # "SOA"
                                  /\ s = RRset(to, c.name, c.type)
                                  /\ c.name = s.name /\ c.type = s.type
                                  /\ c.ttl = s.ttl /\ c.records = s.records
         \/ /\ c.type # "SOA"
            /\ c = [action |-> "delete", name |-> c.name, type |-> c.type,
                    ttl |-> 0, records |-> EmptyBag]
            /\ c.records = EmptyBag
            /\ \A r \in to : ~(r.name = c.name /\ r.type = c.type)
<1>0. (\E s \in Upserted(from, to) : c = UpsertOf(s))
        \/ \E s \in Deleted(from, to) : c = DeleteOf(s)
  BY DEF Diff
<1>1. ASSUME NEW s \in Upserted(from, to), c = UpsertOf(s)
      PROVE  /\ s \in RRsets(to) /\ s.type # "SOA" /\ s = RRset(to, c.name, c.type)
             /\ c.name = s.name /\ c.type = s.type
             /\ c.ttl = s.ttl /\ c.records = s.records
  <2>1. c.name = s.name /\ c.type = s.type /\ c.ttl = s.ttl /\ c.records = s.records
    BY <1>1 DEF UpsertOf
  <2>2. s \in RRsets(to) /\ s.type # "SOA"
    BY DEF Upserted
  <2>3. QED
    BY <2>1, <2>2, RRsetsFacts
<1>2. ASSUME NEW s \in Deleted(from, to), c = DeleteOf(s)
      PROVE  /\ c.type # "SOA"
             /\ c = [action |-> "delete", name |-> c.name, type |-> c.type,
                     ttl |-> 0, records |-> EmptyBag]
             /\ c.records = EmptyBag
             /\ \A r \in to : ~(r.name = c.name /\ r.type = c.type)
  <2>1. c.name = s.name /\ c.type = s.type /\ c.records = EmptyBag
    BY <1>2 DEF DeleteOf
  <2>2. c = [action |-> "delete", name |-> c.name, type |-> c.type,
             ttl |-> 0, records |-> EmptyBag]
    BY <1>2, <2>1 DEF DeleteOf
  <2>3. s.type # "SOA" /\ \A new \in RRsets(to) : ~Concerns(s, new)
    BY DEF Deleted
  <2>4. ASSUME NEW r \in to, r.name = c.name, r.type = c.type
        PROVE  FALSE
    <3>1. RRset(to, r.name, r.type) \in RRsets(to)
      BY RRsetsFacts
    <3>2. Concerns(s, RRset(to, r.name, r.type))
      BY <2>1, <2>4, RRsetFacts DEF Concerns
    <3>3. QED
      BY <2>3, <3>1, <3>2
  <2>5. QED
    BY <2>1, <2>2, <2>3, <2>4
<1>3. QED
  <2>1. CASE \E s \in Upserted(from, to) : c = UpsertOf(s)
    BY <2>1, <1>1
  <2>2. CASE \E s \in Deleted(from, to) : c = DeleteOf(s)
    BY <2>2, <1>2
  <2>3. QED
    BY <1>0, <2>1, <2>2

LEMMA DiffIsSeparate ==
  ASSUME NEW from, NEW to, NEW c \in Diff(from, to), NEW d \in Diff(from, to),
         Concerns(c, d)
  PROVE  c = d
<1>1. c.name = d.name /\ c.type = d.type
  BY DEF Concerns
<1> DEFINE Up(e) == \E s \in RRsets(to) : /\ e = UpsertOf(s) /\ s = RRset(to, e.name, e.type)
                                          /\ \E r \in to : r.name = e.name /\ r.type = e.type
           Down(e) == /\ e = [action |-> "delete", name |-> e.name, type |-> e.type,
                              ttl |-> 0, records |-> EmptyBag]
                      /\ \A r \in to : ~(r.name = e.name /\ r.type = e.type)
<1>2. ASSUME NEW e \in Diff(from, to)
      PROVE  Up(e) \/ Down(e)
  BY DiffChange, RRsetsFacts
<1>3. CASE Up(c) /\ Up(d)
  BY <1>1, <1>3
<1>4. CASE Down(c) /\ Down(d)
  BY <1>1, <1>4
<1>5. ~(Up(c) /\ Down(d)) /\ ~(Down(c) /\ Up(d))
  BY <1>1
<1>6. QED
  BY <1>2, <1>3, <1>4, <1>5

(* The values of an RRset that a change of a difference concerns. *)
LEMMA DiffValues ==
  ASSUME NEW from, NEW to, NEW c \in Diff(from, to), NEW v
  PROVE  v \in BagToSet(c.records) <=> Has(to, c.name, c.type, v)
<1>1. CASE \E s \in RRsets(to) : s = RRset(to, c.name, c.type) /\ c.records = s.records
  <2>1. c.records = RRset(to, c.name, c.type).records
    BY <1>1
  <2>2. QED
    BY <2>1, RRsetFacts DEF BagToSet
<1>2. CASE /\ c.records = EmptyBag
           /\ \A r \in to : ~(r.name = c.name /\ r.type = c.type)
  <2>1. BagToSet(c.records) = {}
    BY <1>2 DEF BagToSet, EmptyBag, SetToBag
  <2>2. ~Has(to, c.name, c.type, v)
    BY <1>2 DEF Has
  <2>3. QED
    BY <2>1, <2>2
<1>3. QED
  BY <1>1, <1>2, DiffChange

(* An RRset that no change concerns is the same in both versions. *)
LEMMA DiffOfNone ==
  ASSUME NEW from, NEW to, NEW name, NEW type, type # "SOA",
         \A c \in Diff(from, to) : ~(c.name = name /\ c.type = type)
  PROVE  \/ RRset(to, name, type) = RRset(from, name, type)
         \/ \A r \in from \cup to : ~(r.name = name /\ r.type = type)
<1>1. ASSUME NEW r \in to, r.name = name, r.type = type
      PROVE  RRset(to, name, type) = RRset(from, name, type)
  <2> DEFINE s == RRset(to, name, type)
  <2>1. s \in RRsets(to) /\ s.name = name /\ s.type = type
    BY <1>1, RRsetsFacts, RRsetFacts
  <2> HIDE DEF s
  <2>2. s \in RRsets(from)
    <3> SUFFICES ASSUME s \notin RRsets(from) PROVE FALSE
      OBVIOUS
    <3>1. UpsertOf(s) \in Diff(from, to)
      BY <2>1 DEF Diff, Upserted
    <3>2. UpsertOf(s).name = name /\ UpsertOf(s).type = type
      BY <2>1 DEF UpsertOf
    <3>3. QED
      BY <3>1, <3>2
  <2>3. s = RRset(from, s.name, s.type)
    BY <2>2, RRsetsFacts
  <2>4. QED
    BY <2>1, <2>3 DEF s
<1>2. ASSUME NEW r \in from, r.name = name, r.type = type,
             \A q \in to : ~(q.name = name /\ q.type = type)
      PROVE  FALSE
  <2> DEFINE s == RRset(from, name, type)
  <2>1. s \in RRsets(from) /\ s.name = name /\ s.type = type
    BY <1>2, RRsetsFacts, RRsetFacts
  <2> HIDE DEF s
  <2>2. ASSUME NEW new \in RRsets(to)
        PROVE  ~Concerns(s, new)
    BY <1>2, <2>1, RRsetsFacts DEF Concerns
  <2>3. DeleteOf(s) \in Diff(from, to)
    BY <2>1, <2>2 DEF Diff, Deleted
  <2>4. DeleteOf(s).name = name /\ DeleteOf(s).type = type
    BY <2>1 DEF DeleteOf
  <2>5. QED
    BY <2>3, <2>4
<1>3. QED
  BY <1>1, <1>2

-----------------------------------------------------------------------------
(* Replaying                                                               *)

LEMMA HasAfter ==
  ASSUME NEW records, NEW change, NEW name, NEW type, NEW value
  PROVE  Has(After(records, change), name, type, value)
           <=> IF change.name = name /\ change.type = type
               THEN value \in BagToSet(change.records)
               ELSE Has(records, name, type, value)
<1>1. ASSUME Has(After(records, change), name, type, value)
      PROVE  IF change.name = name /\ change.type = type
             THEN value \in BagToSet(change.records)
             ELSE Has(records, name, type, value)
  <2>1. PICK r \in After(records, change) : r.name = name /\ r.type = type /\ r.value = value
    BY <1>1 DEF Has
  <2>2. CASE r \in Added(change)
    BY <2>1, <2>2, AddedAreConcerned
  <2>3. CASE r \in records /\ ~Concerns(change, r)
    BY <2>1, <2>3 DEF Concerns, Has
  <2>4. QED
    BY <2>1, <2>2, <2>3 DEF After
<1>2. ASSUME change.name = name, change.type = type, value \in BagToSet(change.records)
      PROVE  Has(After(records, change), name, type, value)
  <2> DEFINE r == [name |-> name, type |-> type, ttl |-> change.ttl, value |-> value]
  <2>1. r \in After(records, change)
    BY <1>2 DEF After, Added
  <2>2. r.name = name /\ r.type = type /\ r.value = value
    OBVIOUS
  <2> HIDE DEF r
  <2>3. QED
    BY <2>1, <2>2 DEF Has
<1>3. ASSUME ~(change.name = name /\ change.type = type), Has(records, name, type, value)
      PROVE  Has(After(records, change), name, type, value)
  BY <1>3 DEF Has, After, Concerns
<1>4. QED
  BY <1>1, <1>2, <1>3

LEMMA HasWithoutSOA ==
  ASSUME NEW records, NEW name, NEW type, NEW value
  PROVE  Has(WithoutSOA(records), name, type, value)
           <=> type # "SOA" /\ Has(records, name, type, value)
BY DEF Has, WithoutSOA

(* One turn of the loop of Apply, over the zone and over the audit log. *)
LEMMA TurnKeepsContents ==
  ASSUME NEW R, NEW F, Contents(R) = Contents(WithoutSOA(F)),
         NEW change, change.type # "SOA"
  PROVE  Contents(After(R, change)) = Contents(WithoutSOA(After(F, change)))
<1>1. ASSUME NEW name, NEW type, NEW value
      PROVE  Has(After(R, change), name, type, value)
               <=> Has(WithoutSOA(After(F, change)), name, type, value)
  <2>1. Has(R, name, type, value) <=> type # "SOA" /\ Has(F, name, type, value)
    BY ContentsHas, HasWithoutSOA
  <2>2. Has(WithoutSOA(After(F, change)), name, type, value)
          <=> type # "SOA" /\ Has(After(F, change), name, type, value)
    BY HasWithoutSOA
  <2>3. QED
    BY <2>1, <2>2, HasAfter
<1>2. QED
  BY <1>1, SameContents

LEMMA TurnKeepsRecords ==
  ASSUME NEW F, NEW change, change.type # "SOA"
  PROVE  After(WithoutSOA(F), change) = WithoutSOA(After(F, change))
<1>1. \A r \in Added(change) : r.type # "SOA"
  BY AddedAreConcerned
<1>2. QED
  BY <1>1 DEF After, WithoutSOA

LEMMA ApplyReplays ==
  ASSUME NEW R, NEW F, NEW changes, Len(changes) \in Nat,
         \A i \in 1..Len(changes) : changes[i].type # "SOA"
  PROVE  /\ Contents(R) = Contents(WithoutSOA(F))
              => Contents(BagToSet(Edited(R, changes)))
                   = Contents(WithoutSOA(BagToSet(Edited(F, changes))))
         /\ R = WithoutSOA(F)
              => BagToSet(Edited(R, changes)) = WithoutSOA(BagToSet(Edited(F, changes)))
<1> DEFINE N == Len(changes)
<1>0. N \in Nat /\ \A i \in 1..N : changes[i].type # "SOA"
  OBVIOUS
<1>1. PICK s : Stepped(s, R, changes, N) /\ BagToSet(Edited(R, changes)) = s[N]
  BY EditedSteps
<1>2. PICK t : Stepped(t, F, changes, N) /\ BagToSet(Edited(F, changes)) = t[N]
  BY EditedSteps
<1> HIDE DEF N
<1>3. s[0] = R /\ \A i \in 1..N : s[i] = After(s[i - 1], changes[i])
  BY <1>1 DEF Stepped
<1>4. t[0] = F /\ \A i \in 1..N : t[i] = After(t[i - 1], changes[i])
  BY <1>2 DEF Stepped
<1>5. ASSUME Contents(R) = Contents(WithoutSOA(F))
      PROVE  Contents(s[N]) = Contents(WithoutSOA(t[N]))
  <2> DEFINE S == {i \in 0..N : Contents(s[i]) = Contents(WithoutSOA(t[i]))}
  <2>1. 0 \in S
    BY <1>0, <1>3, <1>4, <1>5
  <2>2. ASSUME NEW i \in 1..N, i - 1 \in S
        PROVE  i \in S
    <3>1. Contents(s[i - 1]) = Contents(WithoutSOA(t[i - 1])) /\ changes[i].type # "SOA"
      BY <2>2, <1>0
    <3>2. Contents(After(s[i - 1], changes[i])) = Contents(WithoutSOA(After(t[i - 1], changes[i])))
      BY <3>1, TurnKeepsContents
    <3>3. i \in 0..N
      BY <1>0
    <3>4. QED
      BY <3>2, <3>3, <1>3, <1>4
  <2>3. \A i \in 0..N : i \in S
    <3> HIDE DEF S
    <3>1. QED
      BY <1>0, <2>1, <2>2, SetInduction
  <2>4. QED
    BY <1>0, <2>3
<1>6. ASSUME R = WithoutSOA(F)
      PROVE  s[N] = WithoutSOA(t[N])
  <2> DEFINE S == {i \in 0..N : s[i] = WithoutSOA(t[i])}
  <2>1. 0 \in S
    BY <1>0, <1>3, <1>4, <1>6
  <2>2. ASSUME NEW i \in 1..N, i - 1 \in S
        PROVE  i \in S
    <3>1. s[i - 1] = WithoutSOA(t[i - 1]) /\ changes[i].type # "SOA"
      BY <2>2, <1>0
    <3>2. After(WithoutSOA(t[i - 1]), changes[i]) = WithoutSOA(After(t[i - 1], changes[i]))
      BY <3>1, TurnKeepsRecords
    <3>3. i \in 0..N
      BY <1>0
    <3>4. QED
      BY <3>1, <3>2, <3>3, <1>3, <1>4
  <2>3. \A i \in 0..N : i \in S
    <3> HIDE DEF S
    <3>1. QED
      BY <1>0, <2>1, <2>2, SetInduction
  <2>4. QED
    BY <1>0, <2>3
<1>7. QED
  BY <1>1, <1>2, <1>5, <1>6

(* The changes that a rollback audits can be carried out independently. *)
LEMMA RollbackEdits ==
  ASSUME NEW R, NEW from, NEW to, IsFiniteSet(from), IsFiniteSet(to)
  PROVE  BagToSet(Edited(R, DiffRRsets(from, to))) = EditedApart(R, Diff(from, to))
<1> DEFINE changes == DiffRRsets(from, to)
<1>1. Len(changes) \in Nat /\ Elements(changes) = Diff(from, to)
  BY DiffOfSets
<1>2. \A i \in 1..Len(changes) : changes[i] \in Diff(from, to)
  BY <1>1 DEF Elements
<1>3. Separate(changes)
  BY <1>2, DiffIsSeparate DEF Separate
<1> HIDE DEF changes
<1>4. QED
  BY <1>1, <1>3, EditedSeparately DEF changes

LEMMA HasApart ==
  ASSUME NEW R, NEW C, NEW name, NEW type, NEW value
  PROVE  Has(EditedApart(R, C), name, type, value)
           <=> \/ /\ Has(R, name, type, value)
                  /\ \A c \in C : ~(c.name = name /\ c.type = type)
               \/ \E c \in C : /\ c.name = name /\ c.type = type
                               /\ value \in BagToSet(c.records)
<1>1. ASSUME Has(EditedApart(R, C), name, type, value)
      PROVE  \/ /\ Has(R, name, type, value)
                /\ \A c \in C : ~(c.name = name /\ c.type = type)
             \/ \E c \in C : /\ c.name = name /\ c.type = type
                             /\ value \in BagToSet(c.records)
  <2>1. PICK r \in EditedApart(R, C) : r.name = name /\ r.type = type /\ r.value = value
    BY <1>1 DEF Has
  <2>2. CASE r \in R /\ \A c \in C : ~Concerns(c, r)
    BY <2>1, <2>2 DEF Has, Concerns
  <2>3. CASE \E c \in C : r \in Added(c)
    BY <2>1, <2>3, AddedAreConcerned
  <2>4. QED
    BY <2>1, <2>2, <2>3 DEF EditedApart
<1>2. ASSUME Has(R, name, type, value), \A c \in C : ~(c.name = name /\ c.type = type)
      PROVE  Has(EditedApart(R, C), name, type, value)
  BY <1>2 DEF Has, EditedApart, Concerns
<1>3. ASSUME NEW c \in C, c.name = name, c.type = type, value \in BagToSet(c.records)
      PROVE  Has(EditedApart(R, C), name, type, value)
  <2> DEFINE r == [name |-> name, type |-> type, ttl |-> c.ttl, value |-> value]
  <2>1. r \in Added(c)
    BY <1>3 DEF Added
  <2>2. r.name = name /\ r.type = type /\ r.value = value
    OBVIOUS
  <2> HIDE DEF r
  <2>3. QED
    BY <2>1, <2>2 DEF Has, EditedApart
<1>4. QED
  BY <1>1, <1>2, <1>3

LEMMA RollbackReplaysContents ==
  ASSUME NEW R, NEW from, NEW to, Contents(R) = Contents(WithoutSOA(from))
  PROVE  Contents(EditedApart(R, Diff(from, to))) = Contents(WithoutSOA(to))
<1> DEFINE C == Diff(from, to)
<1>1. ASSUME NEW name, NEW type, NEW value
      PROVE  Has(EditedApart(R, C), name, type, value)
               <=> Has(WithoutSOA(to), name, type, value)
  <2>1. Has(R, name, type, value) <=> type # "SOA" /\ Has(from, name, type, value)
    BY ContentsHas, HasWithoutSOA
  <2>2. Has(WithoutSOA(to), name, type, value)
          <=> type # "SOA" /\ Has(to, name, type, value)
    BY HasWithoutSOA
  <2>3. CASE \E c \in C : c.name = name /\ c.type = type
    <3>1. PICK c \in C : c.name = name /\ c.type = type
      BY <2>3
    <3>2. type # "SOA"
      BY <3>1, DiffChange
    <3>3. \A d \in C : d.name = name /\ d.type = type =>
            (value \in BagToSet(d.records) <=> Has(to, name, type, value))
      BY DiffValues
    <3>4. QED
      BY <2>2, <2>3, <3>2, <3>3, HasApart
  <2>4. CASE (\A c \in C : ~(c.name = name /\ c.type = type)) /\ type # "SOA"
    <3>1. CASE RRset(to, name, type) = RRset(from, name, type)
      <4>1. Has(to, name, type, value) <=> Has(from, name, type, value)
        BY <3>1, RRsetFacts
      <4>2. QED
        BY <2>1, <2>2, <2>4, <4>1, HasApart
    <3>2. CASE \A r \in from \cup to : ~(r.name = name /\ r.type = type)
      <4>1. ~Has(to, name, type, value) /\ ~Has(from, name, type, value)
        BY <3>2 DEF Has
      <4>2. QED
        BY <2>1, <2>2, <2>4, <4>1, HasApart
    <3>3. QED
      BY <2>4, <3>1, <3>2, DiffOfNone
  <2>5. CASE (\A c \in C : ~(c.name = name /\ c.type = type)) /\ type = "SOA"
    BY <2>1, <2>2, <2>5, HasApart
  <2>6. QED
    BY <2>3, <2>4, <2>5
<1>2. QED
  BY <1>1, SameContents

(* The TTL of a change is that of the records it makes. *)
LEMMA DiffTtl ==
  ASSUME NEW from, NEW to, NEW c \in Diff(from, to), OneTtl(to),
         NEW q \in to, IsRecord(q), q.name = c.name, q.type = c.type
  PROVE  c.ttl = q.ttl
<1>1. \E s \in RRsets(to) : s = RRset(to, c.name, c.type) /\ c.ttl = s.ttl
  BY DiffChange
<1>2. RRset(to, q.name, q.type).ttl = q.ttl
  BY RRsetTtl DEF IsRecord
<1>3. QED
  BY <1>1, <1>2

LEMMA SameRecord ==
  ASSUME NEW r, NEW q, r.name = q.name, r.type = q.type, r.ttl = q.ttl, r.value = q.value,
         r = [name |-> r.name, type |-> r.type, ttl |-> r.ttl, value |-> r.value],
         q = [name |-> q.name, type |-> q.type, ttl |-> q.ttl, value |-> q.value]
  PROVE  r = q
OBVIOUS

(* An RRset that both versions have alike, and with one TTL, is the same. *)
LEMMA SameRRset ==
  ASSUME NEW from, NEW to, OneTtl(from), OneTtl(to),
         \A r \in from \cup to : IsRecord(r),
         NEW r \in from, RRset(to, r.name, r.type) = RRset(from, r.name, r.type)
  PROVE  r \in to
<1>1. Has(from, r.name, r.type, r.value)
  BY DEF Has
<1>2. Has(to, r.name, r.type, r.value)
  BY <1>1, RRsetFacts
<1>3. PICK q \in to : q.name = r.name /\ q.type = r.type /\ q.value = r.value
  BY <1>2 DEF Has
<1>4. RRset(from, r.name, r.type).ttl = r.ttl
  BY RRsetTtl DEF IsRecord
<1>5. RRset(to, q.name, q.type).ttl = q.ttl
  BY RRsetTtl DEF IsRecord
<1>6. r = q
  BY <1>3, <1>4, <1>5, SameRecord DEF IsRecord
<1>7. QED
  BY <1>6

LEMMA RollbackReplays ==
  ASSUME NEW from, NEW to, OneTtl(from), OneTtl(to),
         \A r \in from \cup to : IsRecord(r)
  PROVE  EditedApart(WithoutSOA(from), Diff(from, to)) = WithoutSOA(to)
<1> DEFINE C == Diff(from, to)
           X == EditedApart(WithoutSOA(from), C)
<1>1. ASSUME NEW r \in from, r.type # "SOA", \A c \in C : ~Concerns(c, r)
      PROVE  r \in to
  <2>1. \A c \in C : ~(c.name = r.name /\ c.type = r.type)
    BY <1>1 DEF Concerns
  <2>2. RRset(to, r.name, r.type) = RRset(from, r.name, r.type)
    BY <1>1, <2>1, DiffOfNone
  <2>3. QED
    BY <2>2, SameRRset
<1>2. ASSUME NEW c \in C, NEW r \in Added(c)
      PROVE  r \in to /\ r.type # "SOA"
  <2>1. /\ r.name = c.name /\ r.type = c.type /\ r.ttl = c.ttl
        /\ r.value \in BagToSet(c.records)
        /\ r = [name |-> r.name, type |-> r.type, ttl |-> r.ttl, value |-> r.value]
    BY AddedAreConcerned
  <2>2. Has(to, r.name, r.type, r.value)
    BY <2>1, DiffValues
  <2>3. PICK q \in to : q.name = r.name /\ q.type = r.type /\ q.value = r.value
    BY <2>2 DEF Has
  <2>4. c.ttl = q.ttl
    BY <2>1, <2>3, DiffTtl
  <2>5. r = q
    BY <2>1, <2>3, <2>4, SameRecord DEF IsRecord
  <2>6. c.type # "SOA"
    BY DiffChange
  <2>7. QED
    BY <2>1, <2>5, <2>6
<1>3. ASSUME NEW q \in to, q.type # "SOA"
      PROVE  q \in X
  <2>1. CASE \E c \in C : Concerns(c, q)
    <3>1. PICK c \in C : Concerns(c, q)
      BY <2>1
    <3>2. Has(to, c.name, c.type, q.value) /\ q.name = c.name /\ q.type = c.type
      BY <3>1 DEF Has, Concerns
    <3>3. q.value \in BagToSet(c.records)
      BY <3>2, DiffValues
    <3>4. c.ttl = q.ttl
      BY <3>2, DiffTtl
    <3>5. q = [name |-> c.name, type |-> c.type, ttl |-> c.ttl, value |-> q.value]
      BY <3>2, <3>4 DEF IsRecord
    <3>6. q \in Added(c)
      BY <3>3, <3>5 DEF Added
    <3>7. QED
      BY <3>6 DEF EditedApart
  <2>2. CASE \A c \in C : ~Concerns(c, q)
    <3>1. \A c \in C : ~(c.name = q.name /\ c.type = q.type)
      BY <2>2 DEF Concerns
    <3>2. RRset(from, q.name, q.type) = RRset(to, q.name, q.type)
      BY <1>3, <3>1, DiffOfNone
    <3>3. q \in from
      BY <3>2, SameRRset
    <3>4. QED
      BY <1>3, <2>2, <3>3 DEF EditedApart, WithoutSOA
  <2>3. QED
    BY <2>1, <2>2
<1>4. ASSUME NEW r \in X
      PROVE  r \in WithoutSOA(to)
  <2>1. CASE r \in WithoutSOA(from) /\ \A c \in C : ~Concerns(c, r)
    BY <2>1, <1>1 DEF WithoutSOA
  <2>2. CASE \E c \in C : r \in Added(c)
    BY <2>2, <1>2 DEF WithoutSOA
  <2>3. QED
    BY <2>1, <2>2 DEF EditedApart
<1>5. QED
  BY <1>3, <1>4 DEF WithoutSOA

-----------------------------------------------------------------------------
(* The versions that are published and kept                                *)

Sound(z, version) ==
  /\ IsFiniteSet(version)
  /\ \A r \in version : IsRecord(r)
  /\ Validate(z, SetToBag(version))

VersionsAreSound ==
  /\ DOMAIN file = Zones /\ DOMAIN history = Zones
  /\ \A z \in Zones : file[z] # None => Sound(z, file[z])
  /\ \A z \in Zones : \A v \in history[z] : Sound(z, v)

LEMMA RequestFacts ==
  ASSUME NEW z \in Zones, NEW changes \in Requests[z]
  PROVE  /\ Len(changes) \in Nat /\ DOMAIN changes = 1..Len(changes)
         /\ \A i \in 1..Len(changes) : IsChange(changes[i])
<1>1. changes \in Seq(Range(changes)) /\ \A i \in DOMAIN changes : IsChange(changes[i])
  BY RecordsAssumption
<1>2. Len(changes) \in Nat /\ DOMAIN changes = 1..Len(changes)
  BY <1>1, LenProperties
<1>3. QED
  BY <1>1, <1>2

LEMMA EditedIsSound ==
  ASSUME NEW version, IsFiniteSet(version), \A r \in version : IsRecord(r),
         NEW changes, Len(changes) \in Nat,
         \A i \in 1..Len(changes) : IsChange(changes[i])
  PROVE  /\ IsFiniteSet(BagToSet(Edited(version, changes)))
         /\ \A r \in BagToSet(Edited(version, changes)) : IsRecord(r)
<1> DEFINE N == Len(changes)
<1>0. N \in Nat /\ \A i \in 1..N : IsChange(changes[i])
  OBVIOUS
<1>1. PICK s : Stepped(s, version, changes, N) /\ BagToSet(Edited(version, changes)) = s[N]
  BY EditedSteps
<1> HIDE DEF N
<1> DEFINE S == {i \in 0..N : IsFiniteSet(s[i]) /\ \A r \in s[i] : IsRecord(r)}
<1>2. 0 \in S
  BY <1>0, <1>1 DEF Stepped
<1>3. ASSUME NEW i \in 1..N, i - 1 \in S
      PROVE  i \in S
  <2> DEFINE c == changes[i]
             f == [v \in BagToSet(c.records) |->
                     [name |-> c.name, type |-> c.type, ttl |-> c.ttl, value |-> v]]
  <2>1. IsFiniteSet(s[i - 1]) /\ \A r \in s[i - 1] : IsRecord(r)
    BY <1>3
  <2>2. s[i] = After(s[i - 1], c)
    BY <1>1 DEF Stepped
  <2>3. IsChange(c)
    BY <1>0
  <2>4. Added(c) = {f[v] : v \in BagToSet(c.records)}
    BY DEF Added
  <2>5. IsFiniteSet(Added(c))
    <3> HIDE DEF f, c
    <3>1. IsFiniteSet(BagToSet(c.records))
      BY <2>3 DEF IsChange, BagToSet
    <3>2. QED
      BY <2>4, <3>1, ImageIsFinite
  <2>6. \A r \in Added(c) : IsRecord(r)
    <3> HIDE DEF c
    <3>1. QED
      BY <2>3, AddedAreConcerned DEF IsRecord, IsChange
  <2> DEFINE kept == {r \in s[i - 1] : ~Concerns(c, r)}
  <2>7. IsFiniteSet(kept)
    BY <2>1, FS_Subset
  <2>8. s[i] = kept \cup Added(c)
    BY <2>2 DEF After
  <2>9. IsFiniteSet(s[i])
    <3> HIDE DEF kept, c
    <3>1. QED
      BY <2>5, <2>7, <2>8, FS_Union
  <2>10. \A r \in s[i] : IsRecord(r)
    BY <2>1, <2>6, <2>8
  <2>11. i \in 0..N
    BY <1>0
  <2>12. QED
    BY <2>9, <2>10, <2>11
<1>4. \A i \in 0..N : i \in S
  <2> HIDE DEF S
  <2>1. QED
    BY <1>0, <1>2, <1>3, SetInduction
<1>5. QED
  BY <1>0, <1>1, <1>4

LEMMA ValidRecordsAreOnce ==
  ASSUME NEW z, NEW rrs, Validate(z, rrs)
  PROVE  Validate(z, SetToBag(BagToSet(rrs)))
<1>1. BagToSet(SetToBag(BagToSet(rrs))) = BagToSet(rrs)
  BY DEF BagToSet, SetToBag
<1>2. \A r \in BagToSet(rrs) : SetToBag(BagToSet(rrs))[r] = 1
  BY DEF SetToBag
<1>3. QED
  BY <1>1, <1>2 DEF Validate

LEMMA ApplyIsSound ==
  ASSUME VersionsAreSound, NEW z \in Zones, NEW changes \in Requests[z],
         file[z] # None, Publishable(z, file[z], changes)
  PROVE  Sound(z, BagToSet(Edited(file[z], changes)))
<1>1. IsFiniteSet(file[z]) /\ \A r \in file[z] : IsRecord(r)
  BY DEF VersionsAreSound, Sound
<1>2. Validate(z, Edited(file[z], changes))
  BY DEF Publishable
<1>3. QED
  BY <1>1, <1>2, EditedIsSound, RequestFacts, ValidRecordsAreOnce DEF Sound

LEMMA CommitKeepsSound ==
  ASSUME VersionsAreSound, NEW z \in Zones, file[z] # None,
         NEW version, Sound(z, version), NEW changes, Commit(z, version, changes)
  PROVE  VersionsAreSound'
<1>1. Sound(z, file[z])
  BY DEF VersionsAreSound
<1>2. file' = [file EXCEPT ![z] = version]
      /\ history' = [history EXCEPT ![z] = @ \cup {file[z]}]
  BY DEF Commit
<1>3. ASSUME NEW y \in Zones
      PROVE  /\ file'[y] # None => Sound(y, file'[y])
             /\ \A v \in history'[y] : Sound(y, v)
  <2>1. CASE y = z
    BY <1>1, <1>2, <2>1 DEF VersionsAreSound
  <2>2. CASE y # z
    <3>1. file'[y] = file[y] /\ history'[y] = history[y]
      BY <1>2, <2>2 DEF VersionsAreSound
    <3>2. QED
      BY <3>1 DEF VersionsAreSound
  <2>3. QED
    BY <2>1, <2>2
<1>4. DOMAIN file' = Zones /\ DOMAIN history' = Zones
  BY <1>2 DEF VersionsAreSound
<1>5. QED
  BY <1>3, <1>4 DEF VersionsAreSound, Sound

LEMMA SoundStep == VersionsAreSound /\ [Next]_vars => VersionsAreSound'
<1> SUFFICES ASSUME VersionsAreSound, [Next]_vars PROVE VersionsAreSound'
  OBVIOUS
<1>1. ASSUME NEW z \in Zones, NEW text \in Texts[z], Create(z, text)
      PROVE  VersionsAreSound'
  <2>1. Sound(z, text)
    BY <1>1, RecordsAssumption DEF Create, Sound
  <2>2. file' = [file EXCEPT ![z] = text] /\ history' = history
    BY <1>1 DEF Create
  <2>3. ASSUME NEW y \in Zones
        PROVE  file'[y] # None => Sound(y, file'[y])
    BY <2>1, <2>2 DEF VersionsAreSound
  <2>4. QED
    BY <2>2, <2>3 DEF VersionsAreSound, Sound
<1>2. ASSUME NEW z \in Zones, NEW changes \in Requests[z], Apply(z, changes)
      PROVE  VersionsAreSound'
  <2>1. /\ file[z] # None /\ Publishable(z, file[z], changes)
        /\ Commit(z, BagToSet(Edited(file[z], changes)), changes)
    BY <1>2 DEF Apply
  <2>2. QED
    BY <2>1, ApplyIsSound, CommitKeepsSound
<1>3. ASSUME NEW z \in Zones, NEW target \in history[z], Rollback(z, target)
      PROVE  VersionsAreSound'
  <2>1. file[z] # None /\ Commit(z, target, DiffRRsets(file[z], target))
    BY <1>3 DEF Rollback
  <2>2. Sound(z, target)
    BY DEF VersionsAreSound
  <2>3. QED
    BY <2>1, <2>2, CommitKeepsSound
<1>4. ASSUME NEW z \in Zones, Delete(z)
      PROVE  VersionsAreSound'
  <2>1. file[z] # None /\ file' = [file EXCEPT ![z] = None]
        /\ history' = [history EXCEPT ![z] = @ \cup {file[z]}]
    BY <1>4 DEF Delete
  <2>2. ASSUME NEW y \in Zones
        PROVE  file'[y] # None => Sound(y, file'[y])
    BY <2>1 DEF VersionsAreSound
  <2>3. ASSUME NEW y \in Zones, NEW v \in history'[y]
        PROVE  Sound(y, v)
    <3>1. v \in history[y] \/ (y = z /\ v = file[z])
      BY <2>1, <2>3 DEF VersionsAreSound
    <3>2. QED
      BY <2>1, <3>1 DEF VersionsAreSound
  <2>4. DOMAIN file' = Zones /\ DOMAIN history' = Zones
    BY <2>1 DEF VersionsAreSound
  <2>5. QED
    BY <2>2, <2>3, <2>4 DEF VersionsAreSound, Sound
<1>5. CASE UNCHANGED vars
  BY <1>5 DEF vars, VersionsAreSound, Sound
<1>6. QED
  BY <1>1, <1>2, <1>3, <1>4, <1>5 DEF Next

(* Every published version and every one that is kept in history is a      *)
(* valid zone: changes and imports are validated before they are published *)
(* (validate), so that no Rollback is refused for what it takes from       *)
(* history.                                                                *)
THEOREM AlwaysSound == Spec => []VersionsAreSound
<1>1. Init => VersionsAreSound
  BY DEF Init, VersionsAreSound
<1>2. QED
  BY <1>1, SoundStep, PTL DEF Spec

-----------------------------------------------------------------------------
(* The audit log                                                           *)

(* The versions of a zone that history and the zone file hold. *)
Kept(z) == history[z] \cup (IF file[z] = None THEN {} ELSE {file[z]})

(* The records that a replay gives are those of a version. *)
Gives(records, version, kept) ==
  /\ Contents(records) = Contents(WithoutSOA(version))
  /\ (\A v \in kept : OneTtl(v)) => records = WithoutSOA(version)

(* A log without a gap gives the version that its last event names, which  *)
(* need not be the one that is published.                                  *)
LogGivesLast ==
  /\ DOMAIN last = Zones /\ DOMAIN linked = Zones /\ DOMAIN replayed = Zones
  /\ \A z \in Zones : linked[z] /\ last[z] # None => Gives(replayed[z], last[z], Kept(z))

LEMMA GivesMore ==
  ASSUME NEW records, NEW version, NEW kept, NEW more, kept \subseteq more,
         Gives(records, version, kept)
  PROVE  Gives(records, version, more)
BY DEF Gives

LEMMA UnauditedStep ==
  ASSUME LogGivesLast, Unaudited, \A z \in Zones : Kept(z) \subseteq Kept(z)'
  PROVE  LogGivesLast'
<1>1. last' = last /\ linked' = linked /\ replayed' = replayed
  BY DEF Unaudited, audit
<1>2. ASSUME NEW z \in Zones, linked[z], last[z] # None
      PROVE  Gives(replayed[z], last[z], Kept(z)')
  <2>1. Gives(replayed[z], last[z], Kept(z))
    BY <1>2 DEF LogGivesLast
  <2>2. QED
    BY <2>1, GivesMore
<1>3. ASSUME NEW z \in Zones, linked'[z], last'[z] # None
      PROVE  Gives(replayed'[z], last'[z], Kept(z)')
  BY <1>1, <1>2, <1>3
<1>4. DOMAIN last' = Zones /\ DOMAIN linked' = Zones /\ DOMAIN replayed' = Zones
  BY <1>1 DEF LogGivesLast
<1>5. QED
  BY <1>3, <1>4 DEF LogGivesLast, Gives, Contents, WithoutSOA, OneTtl, Concerns

LEMMA AuditedStep ==
  ASSUME LogGivesLast, NEW z \in Zones, NEW revision, NEW follows, NEW records,
         Audited(z, revision, follows, records),
         \A y \in Zones : Kept(y) \subseteq Kept(y)',
         follows /\ revision # None => Gives(records, revision, Kept(z)')
  PROVE  LogGivesLast'
<1>0. DOMAIN last = Zones /\ DOMAIN linked = Zones /\ DOMAIN replayed = Zones
  BY DEF LogGivesLast
<1>1. /\ last' = [last EXCEPT ![z] = revision]
      /\ linked' = [linked EXCEPT ![z] = follows]
      /\ replayed' = [replayed EXCEPT ![z] = records]
  BY DEF Audited
<1>2. last'[z] = revision /\ linked'[z] = follows /\ replayed'[z] = records
  BY <1>0, <1>1
<1>3. \A y \in Zones : y # z =>
        last'[y] = last[y] /\ linked'[y] = linked[y] /\ replayed'[y] = replayed[y]
  BY <1>0, <1>1
<1>4. ASSUME NEW y \in Zones, linked'[y], last'[y] # None
      PROVE  Gives(replayed'[y], last'[y], Kept(y)')
  <2>1. CASE y = z
    <3>1. follows /\ revision # None
      BY <1>2, <1>4, <2>1
    <3>2. QED
      BY <1>2, <2>1, <3>1
  <2>2. CASE y # z
    <3>1. last'[y] = last[y] /\ last[y] # None /\ linked[y] /\ replayed'[y] = replayed[y]
      BY <1>3, <1>4, <2>2
    <3>2. Gives(replayed[y], last[y], Kept(y))
      BY <3>1 DEF LogGivesLast
    <3>3. Gives(replayed[y], last[y], Kept(y)')
      BY <3>2, GivesMore
    <3>4. QED
      BY <3>1, <3>3
  <2>3. QED
    BY <2>1, <2>2
<1>5. DOMAIN last' = Zones /\ DOMAIN linked' = Zones /\ DOMAIN replayed' = Zones
  BY <1>0, <1>1
<1>6. QED
  BY <1>4, <1>5 DEF LogGivesLast, Gives, Contents, WithoutSOA, OneTtl, Concerns

(* A commit whose changes turn the current version into the new one. *)
LEMMA CommitReplays ==
  ASSUME VersionsAreSound, LogGivesLast, NEW z \in Zones, file[z] # None,
         NEW version, NEW changes, Commit(z, version, changes),
         LET R == BagToSet(Edited(replayed[z], changes))  IN
         Contents(replayed[z]) = Contents(WithoutSOA(file[z]))
           => /\ Contents(R) = Contents(WithoutSOA(version))
              /\ /\ replayed[z] = WithoutSOA(file[z])
                 /\ OneTtl(file[z]) /\ OneTtl(version)
                 => R = WithoutSOA(version)
  PROVE  LogGivesLast'
<1> DEFINE R == BagToSet(Edited(replayed[z], changes))
           follows == linked[z] /\ last[z] = file[z]
<1>1. /\ file' = [file EXCEPT ![z] = version]
      /\ history' = [history EXCEPT ![z] = @ \cup {file[z]}]
      /\ Audited(z, version, follows, R) \/ Unaudited
  BY DEF Commit
<1>2. Contents(replayed[z]) = Contents(WithoutSOA(file[z]))
        => /\ Contents(R) = Contents(WithoutSOA(version))
           /\ /\ replayed[z] = WithoutSOA(file[z])
              /\ OneTtl(file[z]) /\ OneTtl(version)
              => R = WithoutSOA(version)
  OBVIOUS
<1> HIDE DEF R
<1>3. file'[z] = version /\ history'[z] = history[z] \cup {file[z]}
  BY <1>1 DEF VersionsAreSound
<1>4. \A y \in Zones : y # z => file'[y] = file[y] /\ history'[y] = history[y]
  BY <1>1 DEF VersionsAreSound
<1>5. /\ Kept(z) = history[z] \cup {file[z]} /\ Kept(z) \subseteq Kept(z)'
      /\ version # None => version \in Kept(z)'
  BY <1>3 DEF Kept
<1>6. \A y \in Zones : Kept(y) \subseteq Kept(y)'
  BY <1>4, <1>5 DEF Kept
<1>7. ASSUME follows, version # None
      PROVE  Gives(R, version, Kept(z)')
  <2>1. linked[z] /\ last[z] = file[z]
    BY <1>7
  <2>2. Gives(replayed[z], file[z], Kept(z))
    BY <2>1 DEF LogGivesLast
  <2>3. Contents(R) = Contents(WithoutSOA(version))
    BY <1>2, <2>2 DEF Gives
  <2>4. ASSUME \A v \in Kept(z)' : OneTtl(v)
        PROVE  R = WithoutSOA(version)
    <3>1. (\A v \in Kept(z) : OneTtl(v)) /\ OneTtl(file[z]) /\ OneTtl(version)
      BY <1>5, <1>7, <2>4
    <3>2. replayed[z] = WithoutSOA(file[z])
      BY <2>2, <3>1 DEF Gives
    <3>3. QED
      BY <1>2, <2>2, <3>1, <3>2 DEF Gives
  <2>5. QED
    BY <2>3, <2>4 DEF Gives
<1> HIDE DEF follows
<1>8. QED
  BY <1>1, <1>6, <1>7, AuditedStep, UnauditedStep

LEMMA ReplayStep ==
  ASSUME VersionsAreSound, LogGivesLast, [Next]_vars
  PROVE  LogGivesLast'
<1>1. ASSUME NEW z \in Zones, NEW text \in Texts[z], Create(z, text)
      PROVE  LogGivesLast'
  <2>1. /\ file[z] = None /\ file' = [file EXCEPT ![z] = text] /\ history' = history
        /\ Audited(z, text, TRUE, WithoutSOA(text)) \/ Unaudited
    BY <1>1 DEF Create
  <2>2. \A y \in Zones : y # z => file'[y] = file[y] /\ history'[y] = history[y]
    BY <2>1 DEF VersionsAreSound
  <2>3. Kept(z) \subseteq Kept(z)'
    BY <2>1 DEF Kept
  <2>4. \A y \in Zones : Kept(y) \subseteq Kept(y)'
    BY <2>2, <2>3 DEF Kept
  <2>5. Gives(WithoutSOA(text), text, Kept(z)')
    BY DEF Gives
  <2>6. QED
    BY <2>1, <2>4, <2>5, AuditedStep, UnauditedStep
<1>2. ASSUME NEW z \in Zones, NEW changes \in Requests[z], Apply(z, changes)
      PROVE  LogGivesLast'
  <2> DEFINE version == BagToSet(Edited(file[z], changes))
             R == BagToSet(Edited(replayed[z], changes))
  <2>1. file[z] # None /\ Publishable(z, file[z], changes) /\ Commit(z, version, changes)
    BY <1>2 DEF Apply
  <2>2. Len(changes) \in Nat /\ DOMAIN changes = 1..Len(changes)
    BY RequestFacts
  <2>3. \A i \in 1..Len(changes) : changes[i].type # "SOA"
    BY <2>1, <2>2 DEF Publishable, Accepted
  <2>4. /\ Contents(replayed[z]) = Contents(WithoutSOA(file[z]))
             => Contents(R) = Contents(WithoutSOA(version))
        /\ replayed[z] = WithoutSOA(file[z]) => R = WithoutSOA(version)
    BY <2>2, <2>3, ApplyReplays
  <2>5. QED
    BY <2>1, <2>4, CommitReplays
<1>3. ASSUME NEW z \in Zones, NEW target \in history[z], Rollback(z, target)
      PROVE  LogGivesLast'
  <2> DEFINE changes == DiffRRsets(file[z], target)
             R == BagToSet(Edited(replayed[z], changes))
  <2>1. file[z] # None /\ Commit(z, target, changes)
    BY <1>3 DEF Rollback
  <2>2. Sound(z, file[z]) /\ Sound(z, target)
    BY <2>1 DEF VersionsAreSound
  <2>3. R = EditedApart(replayed[z], Diff(file[z], target))
    BY <2>2, RollbackEdits DEF Sound
  <2>4. ASSUME Contents(replayed[z]) = Contents(WithoutSOA(file[z]))
        PROVE  Contents(R) = Contents(WithoutSOA(target))
    BY <2>3, <2>4, RollbackReplaysContents
  <2>5. ASSUME replayed[z] = WithoutSOA(file[z]), OneTtl(file[z]), OneTtl(target)
        PROVE  R = WithoutSOA(target)
    BY <2>2, <2>3, <2>5, RollbackReplays DEF Sound
  <2> HIDE DEF changes
  <2>6. QED
    BY <2>1, <2>4, <2>5, CommitReplays
<1>4. ASSUME NEW z \in Zones, Delete(z)
      PROVE  LogGivesLast'
  <2>1. /\ file[z] # None /\ file' = [file EXCEPT ![z] = None]
        /\ history' = [history EXCEPT ![z] = @ \cup {file[z]}]
        /\ Audited(z, None, FALSE, {}) \/ Unaudited
    BY <1>4 DEF Delete
  <2>2. file'[z] = None /\ history'[z] = history[z] \cup {file[z]}
    BY <2>1 DEF VersionsAreSound
  <2>3. \A y \in Zones : y # z => file'[y] = file[y] /\ history'[y] = history[y]
    BY <2>1 DEF VersionsAreSound
  <2>4. Kept(z) \subseteq Kept(z)'
    BY <2>1, <2>2 DEF Kept
  <2>5. \A y \in Zones : Kept(y) \subseteq Kept(y)'
    BY <2>3, <2>4 DEF Kept
  <2>6. QED
    BY <2>1, <2>5, AuditedStep, UnauditedStep
<1>5. CASE UNCHANGED vars
  BY <1>5 DEF vars, audit, LogGivesLast, Gives, Kept, WithoutSOA, Contents, OneTtl, Concerns
<1>6. QED
  BY <1>1, <1>2, <1>3, <1>4, <1>5 DEF Next

(* Whoever replays an audit log whose events link up, over the imported    *)
(* text, arrives at the published records when the last event names them,  *)
(* whatever was changed and rolled back in between and whichever events    *)
(* were lost before (commit, appendAudit, diffRRsets, applyChange).        *)
THEOREM LogReplaysToZone == Spec => []AuditReplays
<1>1. Init => LogGivesLast
  BY DEF Init, LogGivesLast
<1>2. LogGivesLast => AuditReplays
  <2> SUFFICES ASSUME LogGivesLast, NEW z \in Zones, file[z] # None, linked[z],
                      last[z] = file[z]
               PROVE  /\ Contents(replayed[z]) = Contents(WithoutSOA(file[z]))
                      /\ (\A v \in history[z] \cup {file[z]} : OneTtl(v))
                           => replayed[z] = WithoutSOA(file[z])
    BY DEF AuditReplays
  <2>1. Gives(replayed[z], file[z], Kept(z)) /\ Kept(z) = history[z] \cup {file[z]}
    BY DEF LogGivesLast, Kept
  <2>2. QED
    BY <2>1 DEF Gives
<1>3. VersionsAreSound /\ LogGivesLast /\ [Next]_vars => LogGivesLast'
  BY ReplayStep
<1>4. QED
  BY <1>1, <1>2, <1>3, AlwaysSound, PTL DEF Spec

-----------------------------------------------------------------------------
(* The order of changes                                                    *)

Counts(rrs) == \A r \in DOMAIN rrs : rrs[r] \in Nat

Applied(rrs, c) ==
  [r \in After(DOMAIN rrs, c) |-> IF Concerns(c, r) THEN c.records[r.value] ELSE rrs[r]]

(* What ApplyChange makes of the number of times that records occur. *)
LEMMA ApplyCounts ==
  ASSUME NEW rrs, Counts(rrs), NEW c, IsChange(c)
  PROVE  ApplyChange(rrs, c) = Applied(rrs, c) /\ Counts(ApplyChange(rrs, c))
<1> DEFINE kept == {r \in DOMAIN rrs : ~Concerns(c, r)}
           D == Added(c)
           K == [r \in kept |-> rrs[r]]
           A == [r \in D |-> c.records[r.value]]
           V(r) == IF Concerns(c, r) THEN c.records[r.value] ELSE rrs[r]
<1>1. \A v \in DOMAIN c.records : c.records[v] \in Nat
  BY DEF IsChange, IsABag
<1>2. \A r \in D : Concerns(c, r) /\ r.value \in DOMAIN c.records
  BY AddedAreConcerned DEF BagToSet
<1>3. ApplyChange(rrs, c) = K (+) A
  BY DEF ApplyChange, Added, BagToSet
<1>4. ASSUME NEW r \in kept \cup D
      PROVE  /\ (IF r \in kept THEN K[r] ELSE 0) + (IF r \in D THEN A[r] ELSE 0) = V(r)
             /\ V(r) \in Nat
  <2>1. CASE r \in kept
    <3>1. ~Concerns(c, r) /\ r \in DOMAIN rrs
      BY <2>1
    <3>2. r \notin D
      BY <1>2, <3>1
    <3>3. K[r] = rrs[r] /\ rrs[r] \in Nat /\ V(r) = rrs[r]
      BY <2>1, <3>1 DEF Counts
    <3> HIDE DEF kept, D, K, A, V
    <3>4. QED
      BY <2>1, <3>2, <3>3
  <2>2. CASE r \in D
    <3>1. Concerns(c, r) /\ r.value \in DOMAIN c.records
      BY <1>2, <2>2
    <3>2. r \notin kept
      BY <3>1
    <3>3. A[r] = c.records[r.value] /\ c.records[r.value] \in Nat /\ V(r) = c.records[r.value]
      BY <1>1, <2>2, <3>1
    <3> HIDE DEF kept, D, K, A, V
    <3>4. QED
      BY <2>2, <3>2, <3>3
  <2>3. QED
    BY <2>1, <2>2
<1>5. DOMAIN K = kept /\ DOMAIN A = D
  OBVIOUS
<1>6. After(DOMAIN rrs, c) = kept \cup D
  BY DEF After
<1> HIDE DEF kept, D, K, A
<1>7. K (+) A = [r \in kept \cup D |->
                   (IF r \in kept THEN K[r] ELSE 0) + (IF r \in D THEN A[r] ELSE 0)]
  BY <1>5 DEF (+)
<1>8. ApplyChange(rrs, c) = [r \in kept \cup D |-> V(r)]
  BY <1>3, <1>4, <1>7
<1>9. Counts(ApplyChange(rrs, c))
  <2> HIDE DEF V
  <2>1. QED
    BY <1>4, <1>8 DEF Counts
<1>10. QED
  BY <1>6, <1>8, <1>9 DEF Applied

LEMMA ChangesCommute ==
  ASSUME NEW rrs, Counts(rrs), NEW c, IsChange(c), NEW d, IsChange(d), ~Concerns(c, d)
  PROVE  ApplyChange(ApplyChange(rrs, c), d) = ApplyChange(ApplyChange(rrs, d), c)
<1> DEFINE S == DOMAIN rrs
           V(e, f, r) == IF Concerns(e, r) THEN e.records[r.value] ELSE f[r]
<1>1. \A r : ~(Concerns(c, r) /\ Concerns(d, r))
  BY DEF Concerns
<1>2. ASSUME NEW a, NEW b, IsChange(a), IsChange(b),
             \A r : ~(Concerns(a, r) /\ Concerns(b, r))
      PROVE  ApplyChange(ApplyChange(rrs, a), b) =
               [r \in {r \in S : ~Concerns(a, r) /\ ~Concerns(b, r)} \cup Added(a) \cup Added(b)
                  |-> IF Concerns(b, r) THEN b.records[r.value]
                      ELSE IF Concerns(a, r) THEN a.records[r.value] ELSE rrs[r]]
  <2> DEFINE B == ApplyChange(rrs, a)
  <2>1. /\ B = [r \in After(S, a) |-> IF Concerns(a, r) THEN a.records[r.value] ELSE rrs[r]]
        /\ Counts(B)
    BY <1>2, ApplyCounts DEF Applied
  <2> HIDE DEF B
  <2>2. ApplyChange(B, b) = [r \in After(DOMAIN B, b) |->
                               IF Concerns(b, r) THEN b.records[r.value] ELSE B[r]]
    <3>1. ApplyChange(B, b) = Applied(B, b)
      BY <1>2, <2>1, ApplyCounts
    <3>2. QED
      BY <3>1 DEF Applied
  <2>3. DOMAIN B = After(S, a)
    BY <2>1
  <2>4. After(After(S, a), b) =
          {r \in S : ~Concerns(a, r) /\ ~Concerns(b, r)} \cup Added(a) \cup Added(b)
    BY <1>2, AddedAreConcerned DEF After
  <2>5. ASSUME NEW r \in After(After(S, a), b), ~Concerns(b, r)
        PROVE  B[r] = IF Concerns(a, r) THEN a.records[r.value] ELSE rrs[r]
    <3>1. r \in After(S, a)
      BY <2>5, AddedAreConcerned DEF After
    <3>2. QED
      BY <2>1, <3>1
  <2>6. ApplyChange(B, b) = [r \in After(After(S, a), b) |->
                               IF Concerns(b, r) THEN b.records[r.value]
                               ELSE IF Concerns(a, r) THEN a.records[r.value] ELSE rrs[r]]
    BY <2>2, <2>3, <2>5
  <2>7. QED
    BY <2>4, <2>6 DEF B
<1> DEFINE U == {r \in S : ~Concerns(c, r) /\ ~Concerns(d, r)} \cup Added(c) \cup Added(d)
           W == {r \in S : ~Concerns(d, r) /\ ~Concerns(c, r)} \cup Added(d) \cup Added(c)
           f == [r \in U |-> IF Concerns(d, r) THEN d.records[r.value]
                             ELSE IF Concerns(c, r) THEN c.records[r.value] ELSE rrs[r]]
           g == [r \in W |-> IF Concerns(c, r) THEN c.records[r.value]
                             ELSE IF Concerns(d, r) THEN d.records[r.value] ELSE rrs[r]]
<1>3. ApplyChange(ApplyChange(rrs, c), d) = f
  BY <1>1, <1>2
<1>4. ApplyChange(ApplyChange(rrs, d), c) = g
  BY <1>1, <1>2
<1>5. U = W
  OBVIOUS
<1>6. f = g
  <2> HIDE DEF U, W
  <2>1. QED
    BY <1>1, <1>5
<1>7. QED
  BY <1>3, <1>4, <1>6

LEMMA EditedTwice ==
  ASSUME NEW version, NEW changes, Len(changes) = 2
  PROVE  Edited(version, changes) =
           ApplyChange(ApplyChange(SetToBag(version), changes[1]), changes[2])
<1>1. PICK g : Looped(g, version, changes, 2) /\ Edited(version, changes) = g[2]
  <2>0. Len(changes) \in Nat
    OBVIOUS
  <2>1. PICK g : Looped(g, version, changes, Len(changes))
                 /\ Edited(version, changes) = g[Len(changes)]
    BY <2>0, EditedLoop
  <2>2. QED
    BY <2>1
<1>2. 1 \in 1..2 /\ 2 \in 1..2 /\ 1 - 1 = 0 /\ 2 - 1 = 1
  OBVIOUS
<1>3. g[1] = ApplyChange(g[0], changes[1]) /\ g[2] = ApplyChange(g[1], changes[2])
      /\ g[0] = SetToBag(version)
  BY <1>1, <1>2 DEF Looped
<1>4. QED
  BY <1>1, <1>3

LEMMA ReverseOfTwo ==
  ASSUME NEW q, Len(q) = 2, DOMAIN q = 1..2
  PROVE  /\ Len(Reverse(q)) = 2 /\ DOMAIN Reverse(q) = 1..2
         /\ Reverse(q)[1] = q[2] /\ Reverse(q)[2] = q[1]
<1> DEFINE S == {q[1], q[2]}
           r == [i \in 1..2 |-> q[2 - i + 1]]
<1>1. Reverse(q) = r
  BY DEF Reverse
<1>2. r[1] = q[2] /\ r[2] = q[1]
  OBVIOUS
<1>3. r \in [1..2 -> S]
  OBVIOUS
<1>4. Len(r) = 2 /\ DOMAIN r = 1..2
  <2> HIDE DEF r
  <2>1. QED
    BY <1>3
<1>5. QED
  BY <1>1, <1>2, <1>4

LEMMA NoOrder == OrderIsFree
<1> SUFFICES ASSUME NEW z \in Zones, NEW q \in Requests[z], Len(q) = 2, ~Concerns(q[1], q[2])
             PROVE  Published(z, q) = Published(z, Reverse(q))
  BY DEF OrderIsFree
<1> DEFINE p == Reverse(q)
<1>1. DOMAIN q = 1..2 /\ IsChange(q[1]) /\ IsChange(q[2])
  <2>1. DOMAIN q = 1..Len(q) /\ \A i \in 1..Len(q) : IsChange(q[i])
    BY RequestFacts, Zenon
  <2>2. 1 \in 1..Len(q) /\ 2 \in 1..Len(q)
    OBVIOUS
  <2>3. QED
    BY <2>1, <2>2
<1>2. Len(p) = 2 /\ DOMAIN p = 1..2 /\ p[1] = q[2] /\ p[2] = q[1]
  BY <1>1, ReverseOfTwo
<1> HIDE DEF p
<1>3. Counts(SetToBag(file[z]))
  BY DEF Counts, SetToBag
<1>4. Edited(file[z], q) = Edited(file[z], p)
  <2>1. Edited(file[z], q) = ApplyChange(ApplyChange(SetToBag(file[z]), q[1]), q[2])
    BY EditedTwice
  <2>2. Edited(file[z], p) = ApplyChange(ApplyChange(SetToBag(file[z]), q[2]), q[1])
    BY <1>2, EditedTwice
  <2>3. QED
    BY <1>1, <1>3, <2>1, <2>2, ChangesCommute
<1>5. q # <<>> /\ p # <<>>
  <2>1. DOMAIN <<>> = {} /\ 1 \in DOMAIN q /\ 1 \in DOMAIN p
    BY <1>1, <1>2
  <2>2. QED
    BY <2>1
<1>6. (\A i \in DOMAIN q : Accepted(z, q[i])) <=> (\A i \in DOMAIN p : Accepted(z, p[i]))
  <2>1. \A i \in 1..2 : i = 1 \/ i = 2
    OBVIOUS
  <2>2. 1 \in 1..2 /\ 2 \in 1..2
    OBVIOUS
  <2>3. QED
    BY <1>1, <1>2, <2>1, <2>2
<1>7. Publishable(z, file[z], q) <=> Publishable(z, file[z], p)
  BY <1>4, <1>5, <1>6 DEF Publishable
<1>8. QED
  BY <1>4, <1>7 DEF Published, p

(* Two changes of different RRsets give the same zone, or are refused, in  *)
(* either order (Apply validates the result and not each step).            *)
THEOREM OrderNeverMatters == Spec => []OrderIsFree
BY NoOrder, PTL

-----------------------------------------------------------------------------
(* The report                                                              *)

LEMMA KindFacts ==
  ASSUME NEW zones, NEW ip, NEW ptr
  PROVE  /\ PtrKind(zones, ip, ptr) # "upsert_ptr"
         /\ PtrKind(zones, ip, ptr) = "aligned"
              <=> ptr \in Permitted /\ Confirmed(zones, ip, ptr)
         /\ MissingPtr(zones, ip) # "aligned"
<1>1. PtrKind(zones, ip, ptr) # "upsert_ptr"
  BY DEF PtrKind
<1>2. PtrKind(zones, ip, ptr) = "aligned" <=> ptr \in Permitted /\ Confirmed(zones, ip, ptr)
  BY DEF PtrKind
<1>3. MissingPtr(zones, ip) # "aligned"
  BY DEF MissingPtr
<1>4. QED
  BY <1>1, <1>2, <1>3

LEMMA ProposalFacts ==
  ASSUME NEW zones, NEW ip \in Subnet
  PROVE  (\E p \in Proposals(zones) : p.ip = ip)
           <=> /\ ForwardByIP(zones, ip) # {} /\ PtrByIP(zones, ip) = {}
               /\ MissingPtr(zones, ip) = "upsert_ptr"
<1> DEFINE I == {i \in Named(zones) : /\ PtrByIP(zones, i) = {}
                                      /\ MissingPtr(zones, i) = "upsert_ptr"}
<1>1. (\E p \in Proposals(zones) : p.ip = ip) <=> ip \in I
  <2> DEFINE Name(i) == CHOOSE n \in Eligible(ForwardByIP(zones, i)) : TRUE
  <2>1. Proposals(zones) = {[ip |-> i, name |-> Name(i)] : i \in I}
    BY DEF Proposals
  <2> HIDE DEF I, Name
  <2>2. ASSUME NEW p \in Proposals(zones), p.ip = ip
        PROVE  ip \in I
    BY <2>1, <2>2
  <2>3. ASSUME ip \in I
        PROVE  \E p \in Proposals(zones) : p.ip = ip
    <3>1. [ip |-> ip, name |-> Name(ip)] \in Proposals(zones)
      BY <2>1, <2>3
    <3>2. [ip |-> ip, name |-> Name(ip)].ip = ip
      OBVIOUS
    <3>3. QED
      BY <3>1, <3>2
  <2>4. QED
    BY <2>2, <2>3
<1>2. QED
  BY <1>1 DEF Named

LEMMA FindingsFacts ==
  ASSUME NEW zones, NEW ip
  PROVE  LET names == ForwardByIP(zones, ip)
             ptrs  == PtrByIP(zones, ip)  IN
         /\ names = {} /\ ptrs = {} => Findings(zones, ip) = {}
         /\ names # {} /\ ptrs = {}
              => Findings(zones, ip) = {MissingPtr(zones, ip)} \ {"upsert_ptr", "aligned"}
         /\ names = {} /\ ptrs # {} => Findings(zones, ip) # {}
         /\ names # {} /\ ptrs # {}
              => Findings(zones, ip) =
                   ({PtrKind(zones, ip, ptr) : ptr \in ptrs}
                      \cup (IF Cardinality(ptrs) > 1 THEN {"multiple_ptr"} ELSE {}))
                   \ {"upsert_ptr", "aligned"}
<1> DEFINE names == ForwardByIP(zones, ip)
           ptrs  == PtrByIP(zones, ip)
<1>1. CASE names = {} /\ ptrs = {}
  <2>1. Findings(zones, ip) = {} \ {"upsert_ptr", "aligned"}
    BY <1>1 DEF Findings
  <2>2. QED
    BY <1>1, <2>1
<1>2. CASE names # {} /\ ptrs = {}
  BY <1>2 DEF Findings
<1>3. CASE names = {} /\ ptrs # {}
  <2>1. Findings(zones, ip) =
          {IF \E ptr \in ptrs : ForwardIPs(zones, ptr) # {}
           THEN "ptr_a_mismatch" ELSE "ptr_without_forward_address"} \ {"upsert_ptr", "aligned"}
    BY <1>3 DEF Findings
  <2>2. QED
    BY <1>3, <2>1
<1>4. CASE names # {} /\ ptrs # {}
  BY <1>4 DEF Findings
<1>5. QED
  BY <1>1, <1>2, <1>3, <1>4

LEMMA PtrsAreFinite ==
  ASSUME NEW zones, IsFiniteSet(zones[ReverseZone]), NEW ip
  PROVE  IsFiniteSet(PtrByIP(zones, ip))
<1> DEFINE S == {r \in zones[ReverseZone] : /\ r.type = "PTR" /\ r.name \in DOMAIN Address
                                            /\ Address[r.name] = ip}
           f == [r \in S |-> r.value]
<1>1. IsFiniteSet(S)
  BY FS_Subset
<1>2. PtrByIP(zones, ip) = {f[r] : r \in S}
  BY DEF PtrByIP
<1> HIDE DEF f, S
<1>3. QED
  BY <1>1, <1>2, ImageIsFinite

LEMMA Silence ==
  ASSUME VersionsAreSound
  PROVE  SilenceIsConfirmed
<1> SUFFICES ASSUME Readable(file), NEW ip \in Subnet
             PROVE  LET ptrs == PtrByIP(file, ip)
                    IN  (Findings(file, ip) = {} /\ \A p \in Proposals(file) : p.ip # ip)
                          <=> \/ ForwardByIP(file, ip) = {} /\ ptrs = {}
                              \/ \E name \in Permitted : /\ ptrs = {name}
                                                         /\ name \in ForwardByIP(file, ip)
  BY DEF SilenceIsConfirmed
<1> DEFINE names == ForwardByIP(file, ip)
           ptrs  == PtrByIP(file, ip)
           silent == Findings(file, ip) = {} /\ \A p \in Proposals(file) : p.ip # ip
           agree == \/ names = {} /\ ptrs = {}
                    \/ \E name \in Permitted : ptrs = {name} /\ name \in names
<1>1. CASE names = {} /\ ptrs = {}
  BY <1>1, FindingsFacts, ProposalFacts
<1>2. CASE names # {} /\ ptrs = {}
  <2>1. Findings(file, ip) = {MissingPtr(file, ip)} \ {"upsert_ptr", "aligned"}
    BY <1>2, FindingsFacts
  <2>2. ~silent
    <3>1. CASE MissingPtr(file, ip) = "upsert_ptr"
      BY <1>2, <3>1, ProposalFacts
    <3>2. CASE MissingPtr(file, ip) # "upsert_ptr"
      BY <2>1, <3>2, KindFacts
    <3>3. QED
      BY <3>1, <3>2
  <2>3. ~agree
    BY <1>2
  <2>4. QED
    BY <2>2, <2>3
<1>3. CASE names = {} /\ ptrs # {}
  <2>1. ~silent
    BY <1>3, FindingsFacts
  <2>2. ~agree
    BY <1>3
  <2>3. QED
    BY <2>1, <2>2
<1>4. CASE names # {} /\ ptrs # {}
  <2>1. Findings(file, ip) = ({PtrKind(file, ip, ptr) : ptr \in ptrs}
                                \cup (IF Cardinality(ptrs) > 1 THEN {"multiple_ptr"} ELSE {}))
                             \ {"upsert_ptr", "aligned"}
    BY <1>4, FindingsFacts
  <2>2. \A p \in Proposals(file) : p.ip # ip
    BY <1>4, ProposalFacts
  <2>3. ASSUME NEW ptr
        PROVE  PtrKind(file, ip, ptr) = "aligned" <=> ptr \in Permitted /\ ptr \in names
    BY KindFacts DEF Confirmed, ForwardIPs
  <2>4. IsFiniteSet(ptrs)
    BY PtrsAreFinite, ReconcileAssumption DEF VersionsAreSound, Sound, Readable
  <2>5. ASSUME Findings(file, ip) = {}
        PROVE  agree
    <3>1. PICK name : name \in ptrs
      BY <1>4
    <3>2. \A ptr \in ptrs : PtrKind(file, ip, ptr) = "aligned"
      BY <2>1, <2>5, KindFacts
    <3>3. ~(Cardinality(ptrs) > 1)
      BY <2>1, <2>5
    <3>4. Cardinality(ptrs) \in Nat /\ (Cardinality(ptrs) = 0 <=> ptrs = {})
      <4> HIDE DEF ptrs
      <4>1. QED
        BY <2>4, FS_CardinalityType, FS_EmptySet
    <3>5. Cardinality(ptrs) = 1
      BY <1>4, <3>3, <3>4
    <3>6. \E x : ptrs = {x}
      <4> HIDE DEF ptrs
      <4>1. QED
        BY <2>4, <3>5, FS_Singleton
    <3>7. ptrs = {name}
      BY <3>1, <3>6
    <3>8. QED
      BY <2>3, <3>1, <3>2, <3>7
  <2>6. ASSUME agree
        PROVE  Findings(file, ip) = {}
    <3>0. \E name \in Permitted : ptrs = {name} /\ name \in names
      BY <1>4, <2>6
    <3>1. PICK name \in Permitted : ptrs = {name} /\ name \in names
      BY <3>0
    <3>2. PtrKind(file, ip, name) = "aligned"
      BY <2>3, <3>1
    <3>3. Cardinality(ptrs) = 1
      <4> HIDE DEF ptrs
      <4>1. QED
        BY <3>1, FS_Singleton
    <3>4. \A ptr \in ptrs : PtrKind(file, ip, ptr) = "aligned"
      BY <3>1, <3>2
    <3> HIDE DEF ptrs
    <3>5. QED
      BY <2>1, <3>3, <3>4
  <2>7. QED
    BY <2>2, <2>5, <2>6
<1>5. QED
  BY <1>1, <1>2, <1>3, <1>4

(* rill-reconcile says nothing of an address just if its records confirm   *)
(* each other: no early continue of reconcile leaves out anything.         *)
THEOREM SilenceMeansAgreement == Spec => []SilenceIsConfirmed
BY AlwaysSound, Silence, PTL

-----------------------------------------------------------------------------
(* Proposals                                                               *)

Candidate(zones, ip) == CHOOSE n \in Eligible(ForwardByIP(zones, ip)) : TRUE

LEMMA ProposalOf ==
  ASSUME NEW zones, NEW p \in Proposals(zones)
  PROVE  /\ p.ip \in Subnet /\ p = [ip |-> p.ip, name |-> p.name]
         /\ ForwardByIP(zones, p.ip) # {} /\ PtrByIP(zones, p.ip) = {}
         /\ MissingPtr(zones, p.ip) = "upsert_ptr"
         /\ p.name = Candidate(zones, p.ip)
         /\ p.name \in Permitted /\ p.name \in ForwardByIP(zones, p.ip)
<1> DEFINE Name(i) == CHOOSE n \in Eligible(ForwardByIP(zones, i)) : TRUE
           I == {i \in Named(zones) : /\ PtrByIP(zones, i) = {}
                                      /\ MissingPtr(zones, i) = "upsert_ptr"}
<1>1. \E i \in I : p = [ip |-> i, name |-> Name(i)]
  BY DEF Proposals
<1>2. p.ip \in I /\ p = [ip |-> p.ip, name |-> p.name] /\ p.name = Name(p.ip)
  <2> HIDE DEF I, Name
  <2>1. QED
    BY <1>1
<1>3. /\ p.ip \in Subnet /\ ForwardByIP(zones, p.ip) # {} /\ PtrByIP(zones, p.ip) = {}
      /\ MissingPtr(zones, p.ip) = "upsert_ptr"
  BY <1>2 DEF Named
<1>4. Eligible(ForwardByIP(zones, p.ip)) # {}
  BY <1>3 DEF MissingPtr
<1>5. p.name \in Eligible(ForwardByIP(zones, p.ip))
  <2> DEFINE E == Eligible(ForwardByIP(zones, p.ip))
  <2>1. p.name = CHOOSE n \in E : TRUE
    BY <1>2
  <2>2. E # {}
    BY <1>4
  <2> HIDE DEF E
  <2>3. p.name \in E
    BY <2>1, <2>2
  <2>4. QED
    BY <2>3 DEF E
<1>6. p.name \in Permitted /\ p.name \in ForwardByIP(zones, p.ip)
  BY <1>5 DEF Eligible
<1>7. QED
  BY <1>2, <1>3, <1>6 DEF Candidate

LEMMA ProposalsDiffer ==
  ASSUME NEW zones, NEW p \in Proposals(zones), NEW q \in Proposals(zones), p.ip = q.ip
  PROVE  p = q
<1>1. p.name = Candidate(zones, p.ip) /\ q.name = Candidate(zones, q.ip)
  BY ProposalOf
<1>2. p = [ip |-> p.ip, name |-> p.name] /\ q = [ip |-> q.ip, name |-> q.name]
  BY ProposalOf
<1>3. QED
  BY <1>1, <1>2

LEMMA ReverseNameFacts ==
  ASSUME NEW ip, Covered(ip)
  PROVE  /\ ReverseName(ip) \in DOMAIN Address /\ Address[ReverseName(ip)] = ip
         /\ ReverseName(ip) \in Owners[ReverseZone]
<1>1. \E name \in DOMAIN Address : Address[name] = ip
  BY DEF Covered
<1>2. ReverseName(ip) \in DOMAIN Address /\ Address[ReverseName(ip)] = ip
  BY <1>1 DEF ReverseName
<1>3. QED
  BY <1>2, ReconcileAssumption

LEMMA AcceptableFacts ==
  ASSUME NEW zones, NEW p \in Acceptable(zones)
  PROVE  /\ p \in Proposals(zones) /\ Covered(p.ip) /\ ~Delegated(zones, p.ip)
         /\ ReverseName(p.ip) \in DOMAIN Address /\ Address[ReverseName(p.ip)] = p.ip
         /\ ReverseName(p.ip) \in Owners[ReverseZone]
<1>1. p \in Proposals(zones) /\ Covered(p.ip) /\ ~Delegated(zones, p.ip)
  BY DEF Acceptable
<1>2. QED
  BY <1>1, ReverseNameFacts

(* The change and the record that carry out a proposal. *)
ChangeFor(p) ==
  [action |-> "upsert", name |-> ReverseName(p.ip), type |-> "PTR",
   ttl |-> 1, records |-> SetToBag({p.name})]

RecordFor(p) ==
  [name |-> ReverseName(p.ip), type |-> "PTR", ttl |-> 1, value |-> p.name]

ChangesFor(zones) == {ChangeFor(p) : p \in Acceptable(zones)}

LEMMA ChangeForFacts ==
  ASSUME NEW p
  PROVE  /\ Added(ChangeFor(p)) = {RecordFor(p)}
         /\ OnceEach(ChangeFor(p))
         /\ \A r : Concerns(ChangeFor(p), r) <=> r.name = ReverseName(p.ip) /\ r.type = "PTR"
<1>1. BagToSet(ChangeFor(p).records) = {p.name}
  BY DEF ChangeFor, BagToSet, SetToBag
<1>2. OnceEach(ChangeFor(p))
  BY DEF OnceEach, ChangeFor, SetToBag
<1>3. Added(ChangeFor(p)) = {RecordFor(p)}
  <2>1. Added(ChangeFor(p)) = {[name |-> ReverseName(p.ip), type |-> "PTR", ttl |-> 1,
                                value |-> v] : v \in {p.name}}
    BY <1>1 DEF Added, ChangeFor
  <2>2. QED
    BY <2>1 DEF RecordFor
<1>4. \A r : Concerns(ChangeFor(p), r) <=> r.name = ReverseName(p.ip) /\ r.type = "PTR"
  BY DEF Concerns, ChangeFor
<1>5. QED
  BY <1>2, <1>3, <1>4

LEMMA AcceptingFacts ==
  ASSUME NEW zones
  PROVE  /\ Len(Accepting(zones)) \in Nat
         /\ DOMAIN Accepting(zones) = 1..Len(Accepting(zones))
         /\ Elements(Accepting(zones)) = ChangesFor(zones)
         /\ Acceptable(zones) # {} => Accepting(zones) # <<>>
<1> DEFINE f == [p \in Acceptable(zones) |-> ChangeFor(p)]
           q == Accepting(zones)
           C == ChangesFor(zones)
<1>1. IsFiniteSet(Proposals(zones))
  <2> DEFINE Name(i) == CHOOSE n \in Eligible(ForwardByIP(zones, i)) : TRUE
             I == {i \in Named(zones) : /\ PtrByIP(zones, i) = {}
                                        /\ MissingPtr(zones, i) = "upsert_ptr"}
             g == [i \in I |-> [ip |-> i, name |-> Name(i)]]
  <2>1. I \in SUBSET Subnet
    BY DEF Named
  <2>2. Proposals(zones) = {g[i] : i \in I}
    BY DEF Proposals
  <2> HIDE DEF I, g
  <2>3. IsFiniteSet(I)
    BY <2>1, FS_Subset, ReconcileAssumption
  <2>4. QED
    BY <2>2, <2>3, ImageIsFinite
<1>a. IsFiniteSet(Acceptable(zones))
  <2>1. Acceptable(zones) \in SUBSET Proposals(zones)
    BY DEF Acceptable
  <2>2. QED
    BY <1>1, <2>1, FS_Subset
<1>2. C = {f[p] : p \in Acceptable(zones)}
  BY DEF ChangesFor
<1>3. IsFiniteSet(C)
  <2> HIDE DEF f, C
  <2>1. QED
    BY <1>a, <1>2, ImageIsFinite
<1>4. q = SetToSeq(C)
  BY DEF Accepting, ChangesFor, ChangeFor
<1> HIDE DEF q, C
<1>5. q \in Seq(C) /\ Elements(q) = C
  BY <1>3, <1>4, SeqOfSet
<1>6. Len(q) \in Nat /\ DOMAIN q = 1..Len(q)
  BY <1>5, LenProperties
<1>7. ASSUME Acceptable(zones) # {}
      PROVE  q # <<>>
  <2>1. C # {}
    BY <1>2, <1>7
  <2>2. PICK i \in 1..Len(q) : TRUE
    BY <1>5, <2>1 DEF Elements
  <2>3. i \in DOMAIN q /\ DOMAIN <<>> = {}
    BY <1>6
  <2>4. QED
    BY <2>3
<1>8. QED
  BY <1>5, <1>6, <1>7 DEF q, C

LEMMA ChangesForApart ==
  ASSUME NEW zones, NEW c \in ChangesFor(zones), NEW d \in ChangesFor(zones), Concerns(c, d)
  PROVE  c = d
<1>1. PICK p \in Acceptable(zones) : c = ChangeFor(p)
  BY DEF ChangesFor
<1>2. PICK q \in Acceptable(zones) : d = ChangeFor(q)
  BY DEF ChangesFor
<1>3. ReverseName(p.ip) = ReverseName(q.ip)
  BY <1>1, <1>2 DEF Concerns, ChangeFor
<1>4. p.ip = q.ip
  BY <1>3, AcceptableFacts
<1>5. QED
  BY <1>1, <1>2, <1>4, AcceptableFacts, ProposalsDiffer

(* The reverse zone once all proposals are carried out. *)
Settled(zones) ==
  {r \in zones[ReverseZone] :
     \A p \in Acceptable(zones) : ~(r.name = ReverseName(p.ip) /\ r.type = "PTR")}
  \cup {RecordFor(p) : p \in Acceptable(zones)}

LEMMA AcceptingSettles ==
  ASSUME NEW zones
  PROVE  Edited(zones[ReverseZone], Accepting(zones)) = SetToBag(Settled(zones))
<1> DEFINE q == Accepting(zones)
           F == zones[ReverseZone]
<1>1. Len(q) \in Nat /\ Elements(q) = ChangesFor(zones)
  BY AcceptingFacts
<1> HIDE DEF q, F
<1>2. \A i \in 1..Len(q) : q[i] \in ChangesFor(zones)
  BY <1>1 DEF Elements
<1>3. Separate(q)
  BY <1>2, ChangesForApart DEF Separate
<1>4. \A i \in 1..Len(q) : OnceEach(q[i])
  BY <1>2, ChangeForFacts DEF ChangesFor
<1>5. BagToSet(Edited(F, q)) = EditedApart(F, ChangesFor(zones))
  BY <1>1, <1>3, EditedSeparately
<1>6. EditedApart(F, ChangesFor(zones)) = Settled(zones)
  <2>1. \A r : (\A c \in ChangesFor(zones) : ~Concerns(c, r))
               <=> \A p \in Acceptable(zones) : ~(r.name = ReverseName(p.ip) /\ r.type = "PTR")
    BY ChangeForFacts DEF ChangesFor
  <2>2. UNION {Added(c) : c \in ChangesFor(zones)} = {RecordFor(p) : p \in Acceptable(zones)}
    <3>1. UNION {Added(c) : c \in ChangesFor(zones)}
            = UNION {Added(ChangeFor(p)) : p \in Acceptable(zones)}
      BY DEF ChangesFor
    <3>2. \A p \in Acceptable(zones) : Added(ChangeFor(p)) = {RecordFor(p)}
      BY ChangeForFacts
    <3>3. QED
      BY <3>1, <3>2
  <2>3. QED
    BY <2>1, <2>2 DEF EditedApart, Settled, F
<1>7. Edited(F, q) = SetToBag(BagToSet(Edited(F, q)))
  BY <1>1, <1>4, EditedOnce
<1>8. QED
  BY <1>5, <1>6, <1>7 DEF q, F

LEMMA SettledMembers ==
  ASSUME NEW zones, NEW r \in Settled(zones)
  PROVE  \/ r \in zones[ReverseZone]
         \/ \E p \in Acceptable(zones) : /\ r = RecordFor(p) /\ r.name = ReverseName(p.ip)
                                        /\ r.type = "PTR" /\ r.value = p.name
BY DEF Settled, RecordFor

(* The zone store accepts the proposals. *)
LEMMA AcceptingIsPublishable ==
  ASSUME VersionsAreSound, file[ReverseZone] # None, Acceptable(file) # {}
  PROVE  Publishable(ReverseZone, file[ReverseZone], Accepting(file))
<1> DEFINE R == ReverseZone
           F == file[R]
           A == Settled(file)
           q == Accepting(file)
<1>1. Validate(R, SetToBag(F))
  BY ReconcileAssumption DEF VersionsAreSound, Sound
<1>2. BagToSet(SetToBag(F)) = F /\ BagToSet(SetToBag(A)) = A
  BY DEF BagToSet, SetToBag
<1>3. \A r \in A : SetToBag(A)[r] = 1
  BY DEF SetToBag
<1>4. /\ \A r \in F : r.name \in Owners[R]
      /\ Cardinality({r \in F : r.type = "SOA"}) = 1
      /\ \A r \in {r \in F : r.type = "SOA"} : r.name = R
      /\ \E r \in F : r.type = "NS" /\ r.name = R
      /\ \A r, s \in F : r.type = "CNAME" /\ s.name = r.name => s.type \in {"CNAME"} \cup Signatures
  BY <1>1, <1>2 DEF Validate
<1>5. \A r \in F : r.type # "PTR" => r \in A
  BY DEF Settled
<1>6. \A r \in A : r.type # "PTR" => r \in F
  BY SettledMembers
<1>7. {r \in A : r.type = "SOA"} = {r \in F : r.type = "SOA"}
  BY <1>5, <1>6
<1>8. \A r \in A : r.name \in Owners[R]
  BY <1>4, SettledMembers, AcceptableFacts
<1>9. \E r \in A : r.type = "NS" /\ r.name = R
  BY <1>4, <1>5
<1>10. ASSUME NEW r \in A, NEW s \in A, r.type = "CNAME", s.name = r.name
       PROVE  s.type \in {"CNAME"} \cup Signatures
  <2>1. r \in F
    BY <1>6, <1>10
  <2>2. s \in F
    <3>1. ASSUME NEW p \in Acceptable(file), s.name = ReverseName(p.ip)
          PROVE  FALSE
      BY <1>10, <2>1, <3>1, AcceptableFacts DEF Delegated
    <3>2. QED
      BY <3>1, SettledMembers
  <2>3. QED
    BY <1>4, <1>10, <2>1, <2>2
<1>11. Validate(R, SetToBag(A))
  <2> HIDE DEF A, F
  <2>1. QED
    BY <1>2, <1>3, <1>4, <1>7, <1>8, <1>9, <1>10 DEF Validate
<1>12. Validate(R, Edited(F, q))
  BY <1>11, AcceptingSettles
<1>13. q # <<>> /\ DOMAIN q = 1..Len(q) /\ Elements(q) = ChangesFor(file)
  BY AcceptingFacts
<1>14. ASSUME NEW i \in DOMAIN q
       PROVE  Accepted(R, q[i])
  <2>1. q[i] \in ChangesFor(file)
    BY <1>13 DEF Elements
  <2>2. PICK p \in Acceptable(file) : q[i] = ChangeFor(p)
    BY <2>1 DEF ChangesFor
  <2>3. ReverseName(p.ip) \in Owners[R]
    BY AcceptableFacts
  <2>4. SetToBag({p.name}) # EmptyBag
    <3>1. DOMAIN SetToBag({p.name}) = {p.name} /\ DOMAIN EmptyBag = {}
      BY DEF SetToBag, EmptyBag
    <3>2. QED
      BY <3>1
  <2>5. Accepted(R, ChangeFor(p))
    BY <2>3, <2>4 DEF Accepted, ChangeFor
  <2>6. QED
    BY <2>2, <2>5
<1>15. QED
  BY <1>12, <1>13, <1>14 DEF Publishable

-----------------------------------------------------------------------------
(* The next report                                                         *)

(* Two states of the zones with the same forward zones. *)
LEMMA SameForward ==
  ASSUME NEW zones, NEW after, \A z \in Forward : after[z] = zones[z]
  PROVE  /\ \A ip : ForwardByIP(after, ip) = ForwardByIP(zones, ip)
         /\ \A name : ForwardIPs(after, name) = ForwardIPs(zones, name)
         /\ \A ip : MissingPtr(after, ip) = MissingPtr(zones, ip)
         /\ \A ip, ptr : PtrKind(after, ip, ptr) = PtrKind(zones, ip, ptr)
         /\ Named(after) = Named(zones)
<1>1. {after[z] : z \in Forward} = {zones[z] : z \in Forward}
  OBVIOUS
<1>2. \A ip : ForwardByIP(after, ip) = ForwardByIP(zones, ip)
  BY <1>1 DEF ForwardByIP
<1>3. \A name : ForwardIPs(after, name) = ForwardIPs(zones, name)
  BY <1>2 DEF ForwardIPs
<1>4. \A ip : MissingPtr(after, ip) = MissingPtr(zones, ip)
  BY <1>2, <1>3 DEF MissingPtr
<1>5. \A ip, ptr : PtrKind(after, ip, ptr) = PtrKind(zones, ip, ptr)
  BY <1>3 DEF PtrKind, Confirmed
<1>6. Named(after) = Named(zones)
  BY <1>2 DEF Named
<1>7. QED
  BY <1>2, <1>3, <1>4, <1>5, <1>6

LEMMA PtrsAfter ==
  ASSUME NEW zones, NEW after, after[ReverseZone] = Settled(zones)
  PROVE  /\ \A p \in Acceptable(zones) : PtrByIP(after, p.ip) = {p.name}
         /\ \A ip \in Subnet : (\A p \in Acceptable(zones) : p.ip # ip)
              => PtrByIP(after, ip) = PtrByIP(zones, ip)
<1> DEFINE Of(z, ip, r) == r \in z[ReverseZone] /\ r.type = "PTR" /\ r.name \in DOMAIN Address
                           /\ Address[r.name] = ip
<1>1. \A z, ip, v : v \in PtrByIP(z, ip) <=> \E r : Of(z, ip, r) /\ r.value = v
  BY DEF PtrByIP
<1>2. ASSUME NEW p \in Acceptable(zones)
      PROVE  /\ ReverseName(p.ip) \in DOMAIN Address /\ Address[ReverseName(p.ip)] = p.ip
             /\ RecordFor(p).name = ReverseName(p.ip) /\ RecordFor(p).type = "PTR"
             /\ RecordFor(p).value = p.name /\ RecordFor(p) \in after[ReverseZone]
  <2>1. RecordFor(p) \in after[ReverseZone]
    BY DEF Settled
  <2>2. QED
    BY <2>1, AcceptableFacts DEF RecordFor
<1>3. ASSUME NEW p \in Acceptable(zones), NEW v
      PROVE  v \in PtrByIP(after, p.ip) <=> v = p.name
  <2>1. Of(after, p.ip, RecordFor(p))
    BY <1>2
  <2>2. ASSUME NEW r, Of(after, p.ip, r)
        PROVE  r.value = p.name
    <3>1. r \notin zones[ReverseZone]
      <4>1. PtrByIP(zones, p.ip) = {}
        BY ProposalOf, AcceptableFacts
      <4>2. ~Of(zones, p.ip, r)
        <5>1. r.value \notin PtrByIP(zones, p.ip)
          BY <4>1
        <5> HIDE DEF Of
        <5>2. QED
          BY <1>1, <5>1
      <4>3. QED
        BY <2>2, <4>2
    <3>2. PICK q \in Acceptable(zones) : r.name = ReverseName(q.ip) /\ r.value = q.name
      BY <2>2, <3>1, SettledMembers
    <3>3. q.ip = p.ip
      BY <1>2, <2>2, <3>2
    <3>4. QED
      BY <3>2, <3>3, AcceptableFacts, ProposalsDiffer
  <2>3. QED
    BY <1>1, <1>2, <2>1, <2>2
<1>4. ASSUME NEW ip \in Subnet, \A p \in Acceptable(zones) : p.ip # ip, NEW r
      PROVE  Of(after, ip, r) <=> Of(zones, ip, r)
  <2>1. ASSUME Of(after, ip, r)
        PROVE  Of(zones, ip, r)
    <3>1. \A q \in Acceptable(zones) : r.name # ReverseName(q.ip)
      BY <1>2, <1>4, <2>1
    <3>2. QED
      BY <2>1, <3>1, SettledMembers
  <2>2. ASSUME Of(zones, ip, r)
        PROVE  Of(after, ip, r)
    <3>1. \A q \in Acceptable(zones) : r.name # ReverseName(q.ip)
      BY <1>2, <1>4, <2>2
    <3>2. QED
      BY <2>2, <3>1 DEF Settled
  <2>3. QED
    BY <2>1, <2>2
<1> HIDE DEF Of
<1>5. \A p \in Acceptable(zones) : PtrByIP(after, p.ip) = {p.name}
  BY <1>3
<1>6. ASSUME NEW ip \in Subnet, \A p \in Acceptable(zones) : p.ip # ip
      PROVE  PtrByIP(after, ip) = PtrByIP(zones, ip)
  <2>1. \A v : v \in PtrByIP(after, ip) <=> v \in PtrByIP(zones, ip)
    BY <1>1, <1>4, <1>6
  <2>2. QED
    BY <2>1
<1>7. QED
  BY <1>5, <1>6

LEMMA SameFindings ==
  ASSUME NEW zones, NEW after, \A z \in Forward : after[z] = zones[z], NEW ip,
         PtrByIP(after, ip) = PtrByIP(zones, ip)
  PROVE  Findings(after, ip) = Findings(zones, ip)
<1>1. /\ ForwardByIP(after, ip) = ForwardByIP(zones, ip)
      /\ MissingPtr(after, ip) = MissingPtr(zones, ip)
      /\ \A name : ForwardIPs(after, name) = ForwardIPs(zones, name)
      /\ \A ptr : PtrKind(after, ip, ptr) = PtrKind(zones, ip, ptr)
  BY SameForward
<1>2. {PtrKind(after, ip, ptr) : ptr \in PtrByIP(after, ip)}
        = {PtrKind(zones, ip, ptr) : ptr \in PtrByIP(zones, ip)}
  BY <1>1
<1>3. QED
  BY <1>1, <1>2 DEF Findings

LEMMA Settles ==
  ASSUME VersionsAreSound
  PROVE  ProposalsSettle
<1> DEFINE changes == Accepting(file)
           after   == [file EXCEPT ![ReverseZone] = BagToSet(Edited(@, changes))]
           ips     == {p.ip : p \in Acceptable(file)}
<1> SUFFICES ASSUME Readable(file), ips # {}
             PROVE  /\ Publishable(ReverseZone, file[ReverseZone], changes)
                    /\ Proposals(after) = Proposals(file) \ Acceptable(file)
                    /\ Aligned(after) = Aligned(file) \cup ips
                    /\ \A ip \in Subnet : Findings(after, ip) = Findings(file, ip)
  BY DEF ProposalsSettle
<1>1. Publishable(ReverseZone, file[ReverseZone], changes)
  BY AcceptingIsPublishable DEF Readable
<1>2. after[ReverseZone] = Settled(file) /\ \A z \in Forward : after[z] = file[z]
  <2>1. BagToSet(Edited(file[ReverseZone], changes)) = Settled(file)
    BY AcceptingSettles DEF BagToSet, SetToBag
  <2>2. ReverseZone \in DOMAIN file /\ ReverseZone \notin Forward /\ Forward \subseteq DOMAIN file
    BY ReconcileAssumption DEF VersionsAreSound
  <2> HIDE DEF changes
  <2>3. QED
    BY <2>1, <2>2
<1> HIDE DEF after, changes
<1>3. /\ \A p \in Acceptable(file) : PtrByIP(after, p.ip) = {p.name}
      /\ \A ip \in Subnet : ip \notin ips => PtrByIP(after, ip) = PtrByIP(file, ip)
  <2>1. ASSUME NEW ip \in Subnet, ip \notin ips
        PROVE  PtrByIP(after, ip) = PtrByIP(file, ip)
    <3>1. \A p \in Acceptable(file) : p.ip # ip
      BY <2>1
    <3>2. QED
      BY <1>2, <3>1, PtrsAfter
  <2>2. \A p \in Acceptable(file) : PtrByIP(after, p.ip) = {p.name}
    BY <1>2, PtrsAfter
  <2>3. QED
    BY <2>1, <2>2
<1>4. /\ \A ip : ForwardByIP(after, ip) = ForwardByIP(file, ip)
      /\ \A ip : MissingPtr(after, ip) = MissingPtr(file, ip)
      /\ \A ip, ptr : PtrKind(after, ip, ptr) = PtrKind(file, ip, ptr)
      /\ Named(after) = Named(file)
  BY <1>2, SameForward
<1>5. Proposals(after) = Proposals(file) \ Acceptable(file)
  <2>0. \A ip : Candidate(after, ip) = Candidate(file, ip)
    BY <1>4 DEF Candidate
  <2>1. ASSUME NEW p \in Proposals(after)
        PROVE  p \in Proposals(file) /\ p \notin Acceptable(file)
    <3>1. /\ p.ip \in Subnet /\ ForwardByIP(file, p.ip) # {} /\ PtrByIP(after, p.ip) = {}
          /\ MissingPtr(file, p.ip) = "upsert_ptr"
      BY <1>4, ProposalOf
    <3>2. p.ip \notin ips
      BY <1>3, <3>1
    <3>3. PtrByIP(file, p.ip) = {}
      BY <1>3, <3>1, <3>2
    <3>4. PICK q \in Proposals(file) : q.ip = p.ip
      BY <3>1, <3>3, ProposalFacts
    <3>5. q = p
      <4>1. p = [ip |-> p.ip, name |-> p.name] /\ q = [ip |-> q.ip, name |-> q.name]
        BY ProposalOf
      <4>2. p.name = Candidate(after, p.ip) /\ q.name = Candidate(file, q.ip)
        BY ProposalOf
      <4>3. QED
        BY <2>0, <3>4, <4>1, <4>2
    <3>6. QED
      BY <3>2, <3>4, <3>5
  <2>2. ASSUME NEW p \in Proposals(file), p \notin Acceptable(file)
        PROVE  p \in Proposals(after)
    <3>1. /\ p.ip \in Subnet /\ ForwardByIP(file, p.ip) # {} /\ PtrByIP(file, p.ip) = {}
          /\ MissingPtr(file, p.ip) = "upsert_ptr"
      BY ProposalOf
    <3>2. p.ip \notin ips
      BY <2>2, AcceptableFacts, ProposalsDiffer
    <3>3. PICK q \in Proposals(after) : q.ip = p.ip
      BY <1>3, <1>4, <3>1, <3>2, ProposalFacts
    <3>4. q = p
      <4>1. p = [ip |-> p.ip, name |-> p.name] /\ q = [ip |-> q.ip, name |-> q.name]
        BY ProposalOf
      <4>2. q.name = Candidate(after, q.ip) /\ p.name = Candidate(file, p.ip)
        BY ProposalOf
      <4>3. QED
        BY <2>0, <3>3, <4>1, <4>2
    <3>5. QED
      BY <3>3, <3>4
  <2>3. QED
    BY <2>1, <2>2
<1>6. ASSUME NEW p \in Acceptable(file)
      PROVE  /\ PtrKind(file, p.ip, p.name) = "aligned"
             /\ p.ip \in Named(file)
  BY AcceptableFacts, ProposalOf, KindFacts DEF Confirmed, ForwardIPs, Named
<1>7. Aligned(after) = Aligned(file) \cup ips
  <2>1. ASSUME NEW ip \in Subnet, ip \notin ips
        PROVE  ip \in Aligned(after) <=> ip \in Aligned(file)
    BY <1>3, <1>4, <2>1 DEF Aligned
  <2>2. ASSUME NEW ip \in ips
        PROVE  ip \in Aligned(after)
    BY <1>3, <1>4, <1>6 DEF Aligned
  <2>3. Aligned(after) \subseteq Subnet /\ Aligned(file) \subseteq Subnet
    BY DEF Aligned, Named
  <2> HIDE DEF ips
  <2>4. QED
    BY <2>1, <2>2, <2>3
<1>8. ASSUME NEW ip \in Subnet
      PROVE  Findings(after, ip) = Findings(file, ip)
  <2>1. CASE ip \notin ips
    BY <1>2, <1>3, <2>1, SameFindings
  <2>2. CASE ip \in ips
    <3>1. PICK p \in Acceptable(file) : p.ip = ip
      BY <2>2
    <3>2. Findings(file, ip) = {}
      BY <3>1, AcceptableFacts, ProposalOf, FindingsFacts
    <3>3. ForwardByIP(after, ip) # {} /\ PtrByIP(after, ip) = {p.name}
      BY <1>3, <1>4, <3>1, AcceptableFacts, ProposalOf
    <3>4. ~(Cardinality({p.name}) > 1)
      <4>1. Cardinality({p.name}) = 1
        BY FS_Singleton
      <4>2. QED
        BY <4>1
    <3>5. PtrKind(after, ip, p.name) = "aligned"
      BY <1>4, <1>6, <3>1
    <3>6. Findings(after, ip) = ({PtrKind(after, ip, ptr) : ptr \in {p.name}}
             \cup (IF Cardinality({p.name}) > 1 THEN {"multiple_ptr"} ELSE {}))
             \ {"upsert_ptr", "aligned"}
      BY <3>3, FindingsFacts
    <3>7. Findings(after, ip) = {}
      BY <3>4, <3>5, <3>6
    <3>8. QED
      BY <3>2, <3>7
  <2>3. QED
    BY <2>1, <2>2
<1>9. QED
  BY <1>1, <1>5, <1>7, <1>8

(* The store accepts together the proposals of rill-reconcile whose        *)
(* reverse name is in the reverse zone and not a CNAME, and the next       *)
(* report counts them as aligned, repeats the others and has nothing new   *)
(* (reconcile).                                                            *)
THEOREM ProposalsAlwaysSettle == Spec => []ProposalsSettle
BY AlwaysSound, Settles, PTL
=============================================================================
