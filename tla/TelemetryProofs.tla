--------------------------- MODULE TelemetryProofs ---------------------------
(* Proofs about Telemetry: what the counters of rill-telemetry keep exactly *)
(* and how its ring of recent queries behaves, for every size of both.     *)
EXTENDS Telemetry, FiniteSetTheorems, FunctionTheorems, WellFoundedInduction, TLAPS

-----------------------------------------------------------------------------
(* The counters                                                            *)

(* The single counts that a map of counters stands for. *)
Units(counts) == {p \in Domains \X Nat : p[2] < counts[p[1]]}

(* Counters against the true counts of so many queries.  A query that is   *)
(* not counted takes a unit from at least Least counters: what is missed   *)
(* and what is still counted share the queries there were.  A restart      *)
(* with a smaller limit, which sets truncated, ends that.                  *)
Sound(counts, true, queries, truncated) ==
  /\ \A d \in Domains : counts[d] <= true[d]
  /\ ~truncated =>
       /\ IsFiniteSet(Units(counts))
       /\ \A d \in Domains :
            (Least + 1) * (true[d] - counts[d]) + Cardinality(Units(counts)) <= queries

(* A bucket against the true counts. *)
Exact(b, c) ==
  /\ b.queries = c.queries /\ b.blocked = c.blocked
  /\ ~b.truncated /\ ~c.truncated =>
       b.domains = c.domains /\ b.blockedDomains = c.blockedDomains
  /\ Sound(b.domains, c.domains, b.queries, c.truncated)
  /\ Sound(b.blockedDomains, c.blockedDomains, b.blocked, c.truncated)

(* Buckets against the true counts: exact as long as they have not expired, *)
(* and nothing is counted further ahead than Record lets a query be.       *)
Good(bs, ts) ==
  /\ bs \in [Starts -> Bucket] /\ ts \in [Starts -> Bucket]
  /\ \A s \in Starts : s > now + Width => bs[s] = Empty /\ ts[s] = Empty
  /\ \A s \in Starts : ~Expired(s, now) => Exact(bs[s], ts[s])

IInv ==
  /\ now \in 0..MaxTime /\ limit \in Limits
  /\ DOMAIN copy = Savers
  /\ Good(buckets, tally)
  /\ Good(disk.buckets, disk.tally)
  /\ \A w \in Savers : Good(copy[w].buckets, copy[w].tally)

LEMMA LeastNumber ==
  ASSUME NEW T, T \subseteq Nat, T # {}
  PROVE  \E m \in T : \A k \in T : m <= k
<1> DEFINE R == {p \in Nat \X Nat : p[1] < p[2]}
<1>1. IsWellFoundedOn(R, Nat)
  BY NatLessThanWellFounded DEF OpToRel
<1>2. \E m \in T : \A k \in T : ~(<<k, m>> \in R)
  <2> HIDE DEF R
  <2>1. QED
    BY <1>1, WFMin
<1>3. PICK m \in T : \A k \in T : ~(<<k, m>> \in R)
  BY <1>2
<1>4. ASSUME NEW k \in T
      PROVE  m <= k
  <2>1. ~(<<k, m>> \in R)
    BY <1>3
  <2>2. <<k, m>> \in Nat \X Nat /\ k \in Nat /\ m \in Nat
    OBVIOUS
  <2>3. ~(k < m)
    BY <2>1, <2>2
  <2>4. QED
    BY <2>2, <2>3
<1>5. QED
  BY <1>4

(* Induction on a set of numbers instead of a predicate. *)
LEMMA SetInduction ==
  ASSUME NEW S, 0 \in S, \A n \in Nat : n \in S => n + 1 \in S
  PROVE  Nat \subseteq S
<1> SUFFICES ASSUME Nat \ S # {} PROVE FALSE
  OBVIOUS
<1>1. PICK m \in Nat \ S : \A k \in Nat \ S : m <= k
  BY LeastNumber
<1>2. m # 0 /\ m - 1 \in Nat /\ m - 1 \in S
  BY <1>1
<1>3. m - 1 + 1 \in S /\ m - 1 + 1 = m
  BY <1>2
<1>4. QED
  BY <1>1, <1>3

(* Facts about the counters. *)
LEMMA LeastIsALimit == Least \in Limits /\ \A k \in Limits : Least <= k
<1>1. \E l \in Limits : \A k \in Limits : l <= k
  BY ConstantsAssumption, LeastNumber
<1>2. QED
  BY <1>1 DEF Least

LEMMA UnitsGrow ==
  ASSUME NEW c \in Counts, NEW d \in Domains, IsFiniteSet(Units(c))
  PROVE  /\ IsFiniteSet(Units(Increment(c, d)))
         /\ Cardinality(Units(Increment(c, d))) = Cardinality(Units(c)) + 1
<1>1. Units(Increment(c, d)) = Units(c) \cup {<<d, c[d]>>}
  BY DEF Units, Increment, Counts
<1>2. <<d, c[d]>> \notin Units(c)
  BY DEF Units, Counts
<1>3. QED
  BY <1>1, <1>2, FS_AddElement

LEMMA UnitsShrink ==
  ASSUME NEW c \in Counts, IsFiniteSet(Units(c)),
         NEW e, e = [d \in Domains |-> IF c[d] > 0 THEN c[d] - 1 ELSE 0]
  PROVE  /\ IsFiniteSet(Units(e))
         /\ Cardinality(Units(e)) = Cardinality(Units(c)) - Cardinality(Tracked(c))
<1> DEFINE top == [d \in Tracked(c) |-> <<d, c[d] - 1>>]
           Top == {<<d, c[d] - 1>> : d \in Tracked(c)}
<1>1. IsFiniteSet(Tracked(c))
  BY ConstantsAssumption, FS_Subset DEF Tracked
<1>2. \A d \in Domains : c[d] \in Nat
  BY DEF Counts
<1>3. Top \subseteq Units(c)
  BY <1>2 DEF Units, Tracked
<1>4. Units(e) = Units(c) \ Top
  <2>1. ASSUME NEW d \in Domains, NEW n \in Nat
        PROVE  <<d, n>> \in Units(e) <=> <<d, n>> \in Units(c) \ Top
    <3>1. <<d, n>> \in Top <=> c[d] > 0 /\ n = c[d] - 1
      BY DEF Tracked
    <3>2. <<d, n>> \in Units(c) <=> n < c[d]
      BY DEF Units
    <3>3. <<d, n>> \in Units(e) <=> n < e[d]
      BY DEF Units
    <3>4. e[d] = IF c[d] > 0 THEN c[d] - 1 ELSE 0
      OBVIOUS
    <3>5. QED
      BY <1>2, <3>1, <3>2, <3>3, <3>4
  <2>2. Units(e) \subseteq Domains \X Nat /\ Units(c) \subseteq Domains \X Nat
    BY DEF Units
  <2> HIDE DEF Top
  <2>3. \A p \in Domains \X Nat : p \in Units(e) <=> p \in Units(c) \ Top
    BY <2>1
  <2>4. QED
    BY <2>2, <2>3
<1>5. ExistsBijection(Tracked(c), Top)
  <2>1. top \in [Tracked(c) -> Top]
    OBVIOUS
  <2>2. \A d, f \in Tracked(c) : top[d] = top[f] => d = f
    OBVIOUS
  <2>3. \A p \in Top : \E d \in Tracked(c) : top[d] = p
    OBVIOUS
  <2> HIDE DEF top, Top
  <2>4. QED
    BY <2>1, <2>2, <2>3, Fun_IsBij, Fun_ExistsBij
<1> HIDE DEF Top
<1>6. Cardinality(Top) = Cardinality(Tracked(c)) /\ Units(c) \cap Top = Top
  BY <1>1, <1>3, <1>5, FS_Bijection
<1>7. /\ IsFiniteSet(Units(c) \ Top)
      /\ Cardinality(Units(c) \ Top) = Cardinality(Units(c)) - Cardinality(Units(c) \cap Top)
  BY FS_Difference
<1>8. QED
  BY <1>4, <1>6, <1>7

LEMMA OneMore ==
  ASSUME NEW L \in Nat, NEW x \in Nat
  PROVE  (L + 1) * (x + 1) = (L + 1) * x + L + 1 /\ (L + 1) * x \in Nat
OBVIOUS

LEMMA SoundTypes ==
  ASSUME NEW c \in Counts, NEW t \in Counts, NEW d \in Domains, c[d] <= t[d]
  PROVE  t[d] - c[d] \in Nat /\ (Least + 1) * (t[d] - c[d]) \in Nat /\ Least \in Nat
<1>1. Least \in Nat
  BY LeastIsALimit, ConstantsAssumption
<1>2. t[d] - c[d] \in Nat
  BY DEF Counts
<1>3. QED
  BY <1>1, <1>2, OneMore

LEMMA SoundIsBounded ==
  ASSUME NEW c \in Counts, NEW t \in Counts, NEW q \in Nat, NEW truncated,
         Sound(c, t, q, truncated), NEW d \in Domains
  PROVE  /\ c[d] <= t[d]
         /\ ~truncated => (Least + 1) * (t[d] - c[d]) <= q
<1>1. c[d] <= t[d]
  BY DEF Sound
<1>2. ASSUME ~truncated PROVE (Least + 1) * (t[d] - c[d]) <= q
  <2>1. /\ IsFiniteSet(Units(c))
        /\ (Least + 1) * (t[d] - c[d]) + Cardinality(Units(c)) <= q
    BY <1>2 DEF Sound
  <2>2. Cardinality(Units(c)) \in Nat /\ (Least + 1) * (t[d] - c[d]) \in Nat
    BY <1>1, <2>1, FS_CardinalityType, SoundTypes
  <2>3. QED
    BY <2>1, <2>2
<1>3. QED
  BY <1>1, <1>2

(* One query more keeps counters sound (incrementBounded). *)
LEMMA CountingIsSound ==
  ASSUME NEW c \in Counts, NEW t \in Counts, NEW q \in Nat, NEW truncated \in BOOLEAN,
         NEW d \in Domains, limit \in Limits, Sound(c, t, q, truncated)
  PROVE  Sound(IncrementBounded(c, d), Increment(t, d), q + 1, truncated)
<1> DEFINE n == IncrementBounded(c, d)
           u == Increment(t, d)
<1>1. \A x \in Domains : c[x] \in Nat /\ t[x] \in Nat /\ c[x] <= t[x]
  BY DEF Sound, Counts
<1>2. \A x \in Domains : u[x] = IF x = d THEN t[x] + 1 ELSE t[x]
  BY DEF Increment, Counts
<1>L. Least \in Nat /\ Least <= limit /\ limit \in Nat
  BY LeastIsALimit, ConstantsAssumption
<1>3. CASE c[d] > 0 \/ Cardinality(Tracked(c)) < limit
  <2>1. n = Increment(c, d)
    BY <1>3 DEF IncrementBounded, Increment
  <2>2. \A x \in Domains : n[x] = IF x = d THEN c[x] + 1 ELSE c[x]
    BY <2>1 DEF Increment, Counts
  <2>3. \A x \in Domains : n[x] <= u[x] /\ u[x] - n[x] = t[x] - c[x]
    BY <1>1, <1>2, <2>2
  <2>4. ASSUME ~truncated
        PROVE  /\ IsFiniteSet(Units(n))
               /\ \A x \in Domains :
                    (Least + 1) * (u[x] - n[x]) + Cardinality(Units(n)) <= q + 1
    <3>1. IsFiniteSet(Units(c))
      BY <2>4 DEF Sound
    <3>2. IsFiniteSet(Units(n)) /\ Cardinality(Units(n)) = Cardinality(Units(c)) + 1
      BY <2>1, <3>1, UnitsGrow
    <3>3. Cardinality(Units(c)) \in Nat
      BY <3>1, FS_CardinalityType
    <3>4. ASSUME NEW x \in Domains
          PROVE  (Least + 1) * (u[x] - n[x]) + Cardinality(Units(n)) <= q + 1
      <4>1. (Least + 1) * (t[x] - c[x]) + Cardinality(Units(c)) <= q
        BY <2>4 DEF Sound
      <4>2. (Least + 1) * (t[x] - c[x]) \in Nat
        BY <1>1, SoundTypes
      <4>3. u[x] - n[x] = t[x] - c[x]
        BY <2>3
      <4>4. QED
        BY <3>2, <3>3, <4>1, <4>2, <4>3
    <3>5. QED
      BY <3>2, <3>4
  <2>5. QED
    BY <2>3, <2>4 DEF Sound
<1>4. CASE ~(c[d] > 0 \/ Cardinality(Tracked(c)) < limit)
  <2>1. n = [x \in Domains |-> IF c[x] > 0 THEN c[x] - 1 ELSE 0]
    BY <1>4 DEF IncrementBounded
  <2>2. c[d] = 0
    BY <1>1, <1>4
  <2>3. ASSUME NEW x \in Domains
        PROVE  /\ n[x] \in Nat /\ n[x] <= u[x]
               /\ u[x] - n[x] = t[x] - c[x] \/ u[x] - n[x] = t[x] - c[x] + 1
    <3>1. n[x] = IF c[x] > 0 THEN c[x] - 1 ELSE 0
      BY <2>1
    <3>2. QED
      BY <1>1, <1>2, <2>2, <3>1
  <2> HIDE DEF n, u
  <2>4. ASSUME ~truncated
        PROVE  /\ IsFiniteSet(Units(n))
               /\ \A x \in Domains :
                    (Least + 1) * (u[x] - n[x]) + Cardinality(Units(n)) <= q + 1
    <3>1. IsFiniteSet(Units(c))
      BY <2>4 DEF Sound
    <3>2. IsFiniteSet(Units(n))
          /\ Cardinality(Units(n)) = Cardinality(Units(c)) - Cardinality(Tracked(c))
      BY <2>1, <3>1, UnitsShrink
    <3>3. /\ Cardinality(Units(c)) \in Nat /\ Cardinality(Units(n)) \in Nat
          /\ Cardinality(Tracked(c)) \in Nat
      <4>1. IsFiniteSet(Tracked(c))
        BY ConstantsAssumption, FS_Subset DEF Tracked
      <4>2. QED
        BY <3>1, <3>2, <4>1, FS_CardinalityType
    <3>4. Cardinality(Units(n)) + Least <= Cardinality(Units(c))
      BY <1>4, <1>L, <3>2, <3>3
    <3>5. ASSUME NEW x \in Domains
          PROVE  (Least + 1) * (u[x] - n[x]) + Cardinality(Units(n)) <= q + 1
      <4>1. (Least + 1) * (t[x] - c[x]) + Cardinality(Units(c)) <= q
        BY <2>4 DEF Sound
      <4>2. t[x] - c[x] \in Nat /\ (Least + 1) * (t[x] - c[x]) \in Nat
        BY <1>1, SoundTypes
      <4>3. (Least + 1) * (t[x] - c[x] + 1) = (Least + 1) * (t[x] - c[x]) + Least + 1
        BY <1>L, <4>2, OneMore
      <4>4. CASE u[x] - n[x] = t[x] - c[x]
        BY <1>L, <3>3, <3>4, <4>1, <4>2, <4>4
      <4>5. CASE u[x] - n[x] = t[x] - c[x] + 1
        BY <1>L, <3>3, <3>4, <4>1, <4>2, <4>3, <4>5
      <4>6. QED
        BY <2>3, <4>4, <4>5
    <3>6. QED
      BY <3>2, <3>5
  <2>5. QED
    BY <2>3, <2>4 DEF Sound, n, u
<1>5. QED
  BY <1>3, <1>4

LEMMA StartsAreNat == Starts \subseteq Nat
BY ConstantsAssumption DEF Starts

LEMMA TruncatesDown ==
  ASSUME NEW t \in Nat
  PROVE  Truncate(t) \in Int /\ Truncate(t) <= t
<1>1. t % Width \in Nat
  BY ConstantsAssumption
<1>2. QED
  BY <1>1 DEF Truncate

LEMMA EmptyIsBucket == Empty \in Bucket /\ Zero \in Counts
BY DEF Empty, Zero, Bucket, Counts

LEMMA EmptyIsExact == Exact(Empty, Empty)
<1>1. Units(Zero) = {}
  BY DEF Units, Zero
<1>2. Sound(Zero, Zero, 0, FALSE)
  <2>1. IsFiniteSet({}) /\ Cardinality({}) = 0
    BY FS_EmptySet
  <2>2. \A d \in Domains : Zero[d] = 0
    BY DEF Zero
  <2>3. (Least + 1) * (0 - 0) + 0 <= 0
    BY LeastIsALimit, ConstantsAssumption
  <2>4. QED
    BY <1>1, <2>1, <2>2, <2>3 DEF Sound
<1>3. QED
  BY <1>2 DEF Exact, Empty

LEMMA BlankIsGood == Good(NoBuckets, NoBuckets)
BY EmptyIsBucket, EmptyIsExact DEF Good, NoBuckets

(* What IncrementBounded does not report as a loss is exact. *)
LEMMA LossIsReported ==
  ASSUME NEW c \in Counts, NEW d \in Domains, limit \in Nat
  PROVE  /\ IncrementBounded(c, d) \in Counts /\ Increment(c, d) \in Counts
         /\ ~Lossy(c, d) => IncrementBounded(c, d) = Increment(c, d)
<1>1. Cardinality(Tracked(c)) \in Nat
  <2>1. IsFiniteSet(Tracked(c))
    BY ConstantsAssumption, FS_Subset DEF Tracked
  <2>2. QED
    BY <2>1, FS_CardinalityType
<1>2. IncrementBounded(c, d) \in Counts /\ Increment(c, d) \in Counts
  BY DEF IncrementBounded, Increment, Counts
<1>3. ~Lossy(c, d) => c[d] > 0 \/ Cardinality(Tracked(c)) < limit
  BY <1>1 DEF Lossy, Counts
<1>4. QED
  BY <1>2, <1>3 DEF IncrementBounded, Increment

(* Record keeps a bucket exact, or says that it is not. *)
LEMMA CountingIsExact ==
  ASSUME NEW b \in Bucket, NEW c \in Bucket, NEW d \in Domains,
         NEW blocked \in BOOLEAN, limit \in Limits
  PROVE  /\ Counted(b, d, blocked) \in Bucket
         /\ TrueCount(c, d, blocked) \in Bucket
         /\ Exact(b, c) => Exact(Counted(b, d, blocked), TrueCount(c, d, blocked))
<1>0. limit \in Nat
  BY ConstantsAssumption
<1>1. /\ b.domains \in Counts /\ b.blockedDomains \in Counts
      /\ c.domains \in Counts /\ c.blockedDomains \in Counts
      /\ b.queries \in Nat /\ b.blocked \in Nat /\ b.truncated \in BOOLEAN
      /\ c.queries \in Nat /\ c.blocked \in Nat /\ c.truncated \in BOOLEAN
  BY DEF Bucket
<1>2. Lossy(b.domains, d) \in BOOLEAN /\ Lossy(b.blockedDomains, d) \in BOOLEAN
  BY DEF Lossy
<1>3. Counted(b, d, blocked) \in Bucket
  BY <1>0, <1>1, <1>2, LossIsReported DEF Counted, Bucket
<1>4. TrueCount(c, d, blocked) \in Bucket
  BY <1>0, <1>1, LossIsReported DEF TrueCount, Bucket
<1>5. ASSUME Exact(b, c)
      PROVE  Exact(Counted(b, d, blocked), TrueCount(c, d, blocked))
  <2>1. /\ Counted(b, d, blocked).queries = TrueCount(c, d, blocked).queries
        /\ Counted(b, d, blocked).blocked = TrueCount(c, d, blocked).blocked
    BY <1>5 DEF Exact, Counted, TrueCount
  <2>2. ASSUME ~Counted(b, d, blocked).truncated,
               ~TrueCount(c, d, blocked).truncated
        PROVE  /\ Counted(b, d, blocked).domains = TrueCount(c, d, blocked).domains
               /\ Counted(b, d, blocked).blockedDomains
                    = TrueCount(c, d, blocked).blockedDomains
    <3>1. /\ ~b.truncated /\ ~c.truncated /\ ~Lossy(b.domains, d)
          /\ blocked => ~Lossy(b.blockedDomains, d)
      BY <2>2 DEF Counted, TrueCount
    <3>2. b.domains = c.domains /\ b.blockedDomains = c.blockedDomains
      BY <1>5, <3>1 DEF Exact
    <3>3. IncrementBounded(b.domains, d) = Increment(b.domains, d)
      BY <1>0, <1>1, <3>1, LossIsReported
    <3>4. blocked => IncrementBounded(b.blockedDomains, d)
                       = Increment(b.blockedDomains, d)
      BY <1>0, <1>1, <3>1, LossIsReported
    <3>5. QED
      BY <3>2, <3>3, <3>4 DEF Counted, TrueCount
  <2>3. Sound(Counted(b, d, blocked).domains, TrueCount(c, d, blocked).domains,
              Counted(b, d, blocked).queries, TrueCount(c, d, blocked).truncated)
    <3>1. Sound(b.domains, c.domains, b.queries, c.truncated)
      BY <1>5 DEF Exact
    <3>2. Sound(IncrementBounded(b.domains, d), Increment(c.domains, d),
                b.queries + 1, c.truncated)
      BY <1>1, <3>1, CountingIsSound
    <3>3. QED
      BY <3>2 DEF Counted, TrueCount
  <2>4. Sound(Counted(b, d, blocked).blockedDomains,
              TrueCount(c, d, blocked).blockedDomains,
              Counted(b, d, blocked).blocked, TrueCount(c, d, blocked).truncated)
    <3>1. Sound(b.blockedDomains, c.blockedDomains, b.blocked, c.truncated)
      BY <1>5 DEF Exact
    <3>2. Sound(IncrementBounded(b.blockedDomains, d), Increment(c.blockedDomains, d),
                b.blocked + 1, c.truncated)
      BY <1>1, <3>1, CountingIsSound
    <3>3. CASE blocked
      BY <3>2, <3>3 DEF Counted, TrueCount
    <3>4. CASE ~blocked
      BY <3>1, <3>4 DEF Counted, TrueCount
    <3>5. QED
      BY <3>3, <3>4
  <2>5. QED
    BY <2>1, <2>2, <2>3, <2>4 DEF Exact
<1>6. QED
  BY <1>3, <1>4, <1>5

(* Dropping what expired before now changes nothing that matters. *)
LEMMA PruningIsGood ==
  ASSUME NEW bs, NEW ts, Good(bs, ts), now \in Nat, NEW at \in Nat, at <= now
  PROVE  Good(Prune(bs, at), ts)
<1> USE StartsAreNat, ConstantsAssumption
<1>1. Prune(bs, at) \in [Starts -> Bucket]
  BY EmptyIsBucket DEF Good, Prune
<1>2. \A s \in Starts : s > now + Width => Prune(bs, at)[s] = Empty /\ ts[s] = Empty
  BY DEF Good, Prune
<1>3. \A s \in Starts : ~Expired(s, now) => Prune(bs, at)[s] = bs[s]
  BY DEF Prune, Expired
<1>4. QED
  BY <1>1, <1>2, <1>3 DEF Good

LEMMA InitIInv == Init => IInv
BY BlankIsGood, ConstantsAssumption DEF Init, IInv, Blank

LEMMA RecordStep ==
  ASSUME IInv, NEW query \in Queries, NEW at \in 0..MaxTime, Record(query, at)
  PROVE  IInv'
<1> DEFINE d == query.domain
           blocked == d \in rules
           start == Truncate(query.time)
           bs == Prune(buckets, at)
<1>1. /\ now \in Nat /\ at \in Nat /\ at <= now /\ limit \in Nat
      /\ limit \in Limits
      /\ d \in Domains /\ query.time \in Nat /\ blocked \in BOOLEAN
  BY ConstantsAssumption DEF IInv, Record
<1>2. start <= now + Width
  <2>1. query.time <= at + Width
    BY DEF Record
  <2>2. QED
    BY <1>1, <2>1, TruncatesDown, ConstantsAssumption
<1>3. Good(bs, tally)
  BY <1>1, PruningIsGood DEF IInv
<1>4. /\ buckets' = [bs EXCEPT ![start] = Counted(bs[start], d, blocked)]
      /\ tally' = [tally EXCEPT ![start] = TrueCount(tally[start], d, blocked)]
      /\ now' = now /\ limit' = limit /\ copy' = copy /\ disk' = disk
  <2>1. Observed(query).blocked = blocked
    BY DEF Observed
  <2>2. QED
    BY <2>1 DEF Record, Prune, watcher
<1> HIDE DEF start, bs, blocked, d
<1>5. start \in Starts =>
        /\ Counted(bs[start], d, blocked) \in Bucket
        /\ TrueCount(tally[start], d, blocked) \in Bucket
        /\ Exact(bs[start], tally[start]) =>
             Exact(Counted(bs[start], d, blocked), TrueCount(tally[start], d, blocked))
  BY <1>1, <1>3, CountingIsExact DEF Good
<1>6. Good(buckets, tally)'
  <2>1. buckets' \in [Starts -> Bucket] /\ tally' \in [Starts -> Bucket]
    BY <1>3, <1>4, <1>5 DEF Good
  <2>2. \A s \in Starts : s > now + Width => s # start
    BY <1>1, <1>2, StartsAreNat, ConstantsAssumption
  <2>3. \A s \in Starts : s # start => buckets'[s] = bs[s] /\ tally'[s] = tally[s]
    BY <1>3, <1>4 DEF Good
  <2>4. start \in Starts =>
          /\ buckets'[start] = Counted(bs[start], d, blocked)
          /\ tally'[start] = TrueCount(tally[start], d, blocked)
    BY <1>3, <1>4 DEF Good
  <2>5. \A s \in Starts : ~Expired(s, now) => Exact(buckets'[s], tally'[s])
    BY <1>3, <1>5, <2>3, <2>4 DEF Good
  <2>6. \A s \in Starts : s > now + Width => buckets'[s] = Empty /\ tally'[s] = Empty
    BY <1>3, <2>2, <2>3 DEF Good
  <2>7. QED
    BY <1>4, <2>1, <2>5, <2>6 DEF Good, Expired
<1>7. Good(disk.buckets, disk.tally)'
      /\ \A w \in Savers : Good(copy[w].buckets, copy[w].tally)'
  BY <1>4 DEF IInv, Good, Expired
<1>8. QED
  BY <1>4, <1>6, <1>7 DEF IInv

LEMMA SaveSteps ==
  ASSUME IInv, NEW w \in Savers,
         SaveStart(w) \/ SaveWrite(w) \/ SaveFails(w)
  PROVE  IInv'
<1>0. now \in Nat /\ Savers = {"timer", "main"}
  BY ConstantsAssumption DEF IInv, Savers
<1>n. now' = now
  BY DEF SaveStart, SaveWrite, SaveFails
<1>g. \A bs, ts : Good(bs, ts) => Good(bs, ts)'
  BY <1>n DEF Good, Expired
<1>b. Good(NoBuckets, NoBuckets)'
  BY <1>g, BlankIsGood
<1>1. CASE SaveStart(w)
  <2>1. /\ buckets' = Prune(buckets, now) /\ tally' = tally /\ disk' = disk
        /\ limit' = limit /\ DOMAIN copy' = Savers
        /\ \A v \in Savers : v # w => copy'[v] = copy[v]
        /\ copy'[w].buckets = Prune(buckets, now) /\ copy'[w].tally = tally
    BY <1>1 DEF SaveStart, IInv
  <2>2. Good(Prune(buckets, now), tally)
    BY <1>0, PruningIsGood DEF IInv
  <2>4. Good(buckets, tally)' /\ Good(copy[w].buckets, copy[w].tally)'
    BY <1>n, <2>1, <2>2 DEF Good, Expired
  <2>5. \A v \in Savers : v # w => Good(copy[v].buckets, copy[v].tally)'
    BY <1>n, <2>1 DEF Good, Expired, IInv
  <2>6. Good(disk.buckets, disk.tally)'
    BY <1>n, <2>1 DEF Good, Expired, IInv
  <2>7. QED
    BY <1>n, <2>1, <2>4, <2>5, <2>6 DEF IInv
<1>2. ASSUME SaveEnds(w), disk' \in {disk, copy[w]}, limit' = limit
      PROVE  IInv'
  <2>1. Good(disk.buckets, disk.tally)'
    BY <1>n, <1>2 DEF IInv, Good, Expired
  <2>2. CASE Dies
    <3>1. /\ buckets' = NoBuckets /\ tally' = NoBuckets
          /\ copy' = [v \in Savers |-> Blank]
      BY <2>2 DEF Dies
    <3>2. Good(buckets, tally)'
      BY <1>b, <3>1 DEF Good, NoBuckets, Expired
    <3>3. \A v \in Savers : copy'[v].buckets = NoBuckets /\ copy'[v].tally = NoBuckets
      BY <3>1 DEF Blank
    <3>4. \A v \in Savers : Good(copy[v].buckets, copy[v].tally)'
      BY <1>b, <3>3 DEF Good, NoBuckets, Expired
    <3>5. QED
      BY <1>2, <1>n, <2>1, <3>1, <3>2, <3>4 DEF IInv
  <2>3. CASE /\ copy' = [copy EXCEPT ![w] = Blank]
             /\ buckets' = buckets /\ tally' = tally
    <3>1. /\ buckets' = buckets /\ tally' = tally /\ limit' = limit
          /\ DOMAIN copy' = Savers
          /\ \A v \in Savers : v # w => copy'[v] = copy[v]
          /\ copy'[w].buckets = NoBuckets /\ copy'[w].tally = NoBuckets
      BY <1>2, <2>3 DEF IInv, Blank
    <3>2. Good(buckets, tally)'
      BY <1>n, <3>1 DEF Good, Expired, IInv
    <3>3. Good(copy[w].buckets, copy[w].tally)'
      BY <1>b, <3>1 DEF Good, NoBuckets, Expired
    <3>4. \A v \in Savers : v # w => Good(copy[v].buckets, copy[v].tally)'
      BY <1>n, <3>1 DEF Good, Expired, IInv
    <3>5. QED
      BY <1>n, <2>1, <3>1, <3>2, <3>3, <3>4 DEF IInv
  <2>4. QED
    BY <1>2, <2>2, <2>3 DEF SaveEnds
<1>3. QED
  BY <1>1, <1>2 DEF SaveWrite, SaveFails

LEMMA StartStep ==
  ASSUME IInv, NEW size \in Limits, Start(size)
  PROVE  IInv'
<1> DEFINE Kept(s) == ~Expired(s, now) /\ s <= now + Width
           Loaded(b) == [b EXCEPT !.domains = Trim(@, size),
                                  !.blockedDomains = Trim(@, size)]
           bs == disk.buckets
           ts == disk.tally
<1>0. now \in Nat /\ Good(bs, ts)
  BY DEF IInv
<1>1. /\ buckets' = [s \in Starts |-> IF Kept(s) THEN Loaded(bs[s]) ELSE Empty]
      /\ tally' = [s \in Starts |-> IF Loaded(bs[s]) # bs[s]
                                    THEN [ts[s] EXCEPT !.truncated = TRUE]
                                    ELSE ts[s]]
      /\ now' = now /\ limit' = size /\ copy' = copy /\ disk' = disk
  BY DEF Start
<1>2. \A c \in Counts : Trim(c, size) \in Counts
  BY DEF Trim, Counts
<1>3. ASSUME NEW b \in Bucket
      PROVE  /\ Loaded(b) \in Bucket
             /\ Loaded(b).queries = b.queries /\ Loaded(b).blocked = b.blocked
             /\ Loaded(b).truncated = b.truncated
  BY <1>2 DEF Bucket
<1>e. Loaded(Empty) = Empty
  <2>1. Trim(Zero, size) = Zero
    BY DEF Trim, Zero
  <2>2. Empty.domains = Zero /\ Empty.blockedDomains = Zero /\ Empty \in Bucket
    BY EmptyIsBucket DEF Empty
  <2>3. QED
    BY <2>1, <2>2 DEF Bucket
<1>4. ASSUME NEW c \in Bucket
      PROVE  LET t == [c EXCEPT !.truncated = TRUE]
             IN  /\ t \in Bucket /\ t.queries = c.queries
                 /\ t.blocked = c.blocked /\ t.truncated
  BY DEF Bucket
<1>t. ASSUME NEW b \in Bucket, NEW c \in Bucket, Exact(b, c)
      PROVE  LET t == [c EXCEPT !.truncated = TRUE]
             IN  \A d \in Domains :
                   /\ Loaded(b).domains[d] <= t.domains[d]
                   /\ Loaded(b).blockedDomains[d] <= t.blockedDomains[d]
  <2>1. \A n \in Counts, d \in Domains : Trim(n, size)[d] <= n[d]
    BY DEF Trim, Counts
  <2>2. \A d \in Domains : b.domains[d] <= c.domains[d]
                           /\ b.blockedDomains[d] <= c.blockedDomains[d]
    BY <1>t DEF Exact, Sound
  <2>3. /\ Loaded(b).domains = Trim(b.domains, size)
        /\ Loaded(b).blockedDomains = Trim(b.blockedDomains, size)
        /\ [c EXCEPT !.truncated = TRUE].domains = c.domains
        /\ [c EXCEPT !.truncated = TRUE].blockedDomains = c.blockedDomains
        /\ b.domains \in Counts /\ b.blockedDomains \in Counts
        /\ c.domains \in Counts /\ c.blockedDomains \in Counts
    BY DEF Bucket
  <2>4. QED
    BY <1>2, <2>1, <2>2, <2>3 DEF Counts
<1> HIDE DEF Loaded, bs, ts
<1>5. buckets' \in [Starts -> Bucket] /\ tally' \in [Starts -> Bucket]
  BY <1>0, <1>1, <1>3, <1>4, EmptyIsBucket DEF Good
<1>6. ASSUME NEW s \in Starts, s > now + Width
      PROVE  buckets'[s] = Empty /\ tally'[s] = Empty
  <2>1. bs[s] = Empty /\ ts[s] = Empty
    BY <1>0, <1>6 DEF Good
  <2>2. ~Kept(s)
    BY <1>0, <1>6, StartsAreNat, ConstantsAssumption
  <2>3. QED
    BY <1>1, <1>e, <2>1, <2>2
<1>7. ASSUME NEW s \in Starts, ~Expired(s, now)
      PROVE  Exact(buckets'[s], tally'[s])
  <2>1. Exact(bs[s], ts[s]) /\ bs[s] \in Bucket /\ ts[s] \in Bucket
    BY <1>0, <1>7 DEF Good
  <2>2. CASE s > now + Width
    BY <1>6, <2>2, EmptyIsExact
  <2>3. CASE ~(s > now + Width) /\ Loaded(bs[s]) = bs[s]
    <3>1. Kept(s)
      BY <1>0, <1>7, <2>3, StartsAreNat, ConstantsAssumption
    <3>2. QED
      BY <1>1, <2>1, <2>3, <3>1
  <2>4. CASE ~(s > now + Width) /\ Loaded(bs[s]) # bs[s]
    <3>1. Kept(s)
      BY <1>0, <1>7, <2>4, StartsAreNat, ConstantsAssumption
    <3>2. /\ buckets'[s] = Loaded(bs[s])
          /\ tally'[s] = [ts[s] EXCEPT !.truncated = TRUE]
      BY <1>1, <2>4, <3>1
    <3>3. tally'[s].truncated
      BY <1>4, <2>1, <3>2
    <3>4. Sound(buckets'[s].domains, tally'[s].domains, buckets'[s].queries,
                tally'[s].truncated)
      BY <1>t, <2>1, <3>2, <3>3 DEF Exact, Sound
    <3>5. Sound(buckets'[s].blockedDomains, tally'[s].blockedDomains,
                buckets'[s].blocked, tally'[s].truncated)
      BY <1>t, <2>1, <3>2, <3>3 DEF Exact, Sound
    <3>6. /\ buckets'[s].queries = tally'[s].queries
          /\ buckets'[s].blocked = tally'[s].blocked
      BY <1>3, <1>4, <2>1, <3>2 DEF Exact
    <3>7. QED
      BY <3>3, <3>4, <3>5, <3>6 DEF Exact
  <2>5. QED
    BY <2>2, <2>3, <2>4
<1>8. Good(buckets, tally)'
  BY <1>1, <1>5, <1>6, <1>7 DEF Good, Expired
<1>9. Good(disk.buckets, disk.tally)'
      /\ \A w \in Savers : Good(copy[w].buckets, copy[w].tally)'
  BY <1>1 DEF IInv, Good, Expired
<1>10. QED
  BY <1>1, <1>8, <1>9 DEF IInv

LEMMA FurtherAhead ==
  ASSUME NEW s \in Nat, NEW n \in Nat, NEW m \in Nat, NEW k \in Nat,
         n <= m, s > m + k
  PROVE  s > n + k
OBVIOUS

(* Steps that leave counters and copies alone. *)
LEMMA OtherSteps ==
  ASSUME IInv, now' \in 0..MaxTime, now <= now',
         UNCHANGED <<limit, buckets, tally, copy, disk>>
  PROVE  IInv'
<1>1. now \in Nat /\ now' \in Nat
  BY ConstantsAssumption DEF IInv
<1>2. \A s \in Starts : Expired(s, now) => Expired(s, now')
  BY <1>1, StartsAreNat, ConstantsAssumption DEF Expired
<1>3. ASSUME NEW s \in Starts, s > now' + Width
      PROVE  s > now + Width
  <2>1. s \in Nat /\ Width \in Nat
    BY StartsAreNat, ConstantsAssumption
  <2>2. QED
    BY <1>1, <1>3, <2>1, FurtherAhead
<1>4. QED
  BY <1>2, <1>3 DEF IInv, Good, Expired

LEMMA NextIInv == IInv /\ [Next]_vars => IInv'
<1> SUFFICES ASSUME IInv, [Next]_vars PROVE IInv'
  OBVIOUS
<1>n. now \in 0..MaxTime /\ now \in Nat
  BY ConstantsAssumption DEF IInv
<1>1. CASE \E query \in Queries, at \in 0..MaxTime : Record(query, at)
  BY <1>1, RecordStep
<1>2. CASE Snapshot
  <2>1. Good(Prune(buckets, now), tally)
    BY <1>n, PruningIsGood DEF IInv
  <2>2. /\ buckets' = Prune(buckets, now)
        /\ UNCHANGED <<now, limit, tally, copy, disk>>
    BY <1>2 DEF Snapshot
  <2>3. Good(buckets, tally)'
    BY <2>1, <2>2 DEF Good, Expired
  <2>4. QED
    BY <2>2, <2>3 DEF IInv, Good, Expired
<1>3. CASE \E w \in Savers : SaveStart(w) \/ SaveWrite(w) \/ SaveFails(w)
  BY <1>3, SaveSteps
<1>4. CASE \E size \in Limits : Start(size)
  BY <1>4, StartStep
<1>5. CASE Crash
  <2>1. /\ buckets' = NoBuckets /\ tally' = NoBuckets
        /\ copy' = [w \in Savers |-> Blank]
        /\ UNCHANGED <<now, limit, disk>>
    BY <1>5 DEF Crash, Dies
  <2>2. \A w \in Savers : copy'[w].buckets = NoBuckets /\ copy'[w].tally = NoBuckets
    BY <2>1 DEF Blank
  <2>3. Good(buckets, tally)' /\ \A w \in Savers : Good(copy[w].buckets, copy[w].tally)'
    BY <2>1, <2>2, BlankIsGood DEF Good, NoBuckets, Expired
  <2>4. Good(disk.buckets, disk.tally)'
    BY <2>1 DEF IInv, Good, Expired
  <2>5. QED
    BY <2>1, <2>3, <2>4 DEF IInv
<1>6. CASE \/ Stop \/ (\E l \in Lists : Publish(l))
           \/ Stat \/ LoadBlocklist \/ LoadBlocklistFails
  <2>1. UNCHANGED <<now, limit, buckets, tally, copy, disk>>
    BY <1>6 DEF Stop, Publish, Stat, LoadBlocklist, LoadBlocklistFails, analytics
  <2>2. QED
    BY <1>n, <2>1, OtherSteps
<1>7. CASE Tick
  <2>1. now' \in 0..MaxTime /\ now <= now'
        /\ UNCHANGED <<limit, buckets, tally, copy, disk>>
    BY <1>7, <1>n, ConstantsAssumption DEF Tick, analytics
  <2>2. QED
    BY <2>1, OtherSteps
<1>8. CASE UNCHANGED vars
  <2>1. UNCHANGED <<now, limit, buckets, tally, copy, disk>>
    BY <1>8 DEF vars, analytics
  <2>2. QED
    BY <1>n, <2>1, OtherSteps
<1>9. QED
  BY <1>1, <1>2, <1>3, <1>4, <1>5, <1>6, <1>7, <1>8 DEF Next

LEMMA StatesAreGood ==
  ASSUME IInv, NEW state \in States
  PROVE  Good(state.buckets, state.tally)
BY DEF IInv, States

(* A bucket that does not admit to be truncated is exact, in memory, in    *)
(* every copy that Save took and in the file, for every number of domains, *)
(* limit, retention and sequence of queries, saves, crashes and restarts   *)
(* (incrementBounded, Record, Save, Load).                                 *)
THEOREM TruncationIsReported == Spec => []ExactUnlessTruncated
<1>1. IInv => ExactUnlessTruncated
  <2> SUFFICES ASSUME IInv, NEW state \in States, NEW s \in Live,
                      ~state.buckets[s].truncated, ~state.tally[s].truncated
               PROVE  /\ state.buckets[s].domains = state.tally[s].domains
                      /\ state.buckets[s].blockedDomains = state.tally[s].blockedDomains
    BY DEF ExactUnlessTruncated
  <2>1. Exact(state.buckets[s], state.tally[s])
    BY StatesAreGood DEF Good, Live
  <2>2. QED
    BY <2>1 DEF Exact
<1>2. QED
  BY <1>1, InitIInv, NextIInv, PTL DEF Spec

(* The counters never count too much and miss at most one query in limit + *)
(* 1, with exact totals, for every number of domains, every limit and any  *)
(* sequence of queries, saves, crashes and restarts: the guarantee of the  *)
(* frequent-items algorithm in incrementBounded, kept through Save, Load   *)
(* and pruneLocked.                                                        *)
THEOREM CountersStaySound == Spec => []CountersAreSound
<1>1. IInv => CountersAreSound
  <2> SUFFICES ASSUME IInv, NEW state \in States, NEW s \in Live
               PROVE  LET b == state.buckets[s]
                          c == state.tally[s]
                      IN  /\ b.queries = c.queries /\ b.blocked = c.blocked
                          /\ \A d \in Domains :
                               /\ b.domains[d] <= c.domains[d]
                               /\ b.blockedDomains[d] <= c.blockedDomains[d]
                               /\ ~c.truncated =>
                                    /\ (Least + 1) * (c.domains[d] - b.domains[d])
                                         <= b.queries
                                    /\ (Least + 1)
                                         * (c.blockedDomains[d] - b.blockedDomains[d])
                                         <= b.blocked
    BY DEF CountersAreSound
  <2> DEFINE b == state.buckets[s]
             c == state.tally[s]
  <2>1. Exact(b, c) /\ b \in Bucket /\ c \in Bucket
    BY StatesAreGood DEF Good, Live
  <2> HIDE DEF b, c
  <2>2. /\ b.domains \in Counts /\ b.blockedDomains \in Counts
        /\ c.domains \in Counts /\ c.blockedDomains \in Counts
        /\ b.queries \in Nat /\ b.blocked \in Nat
    BY <2>1 DEF Bucket
  <2>3. /\ Sound(b.domains, c.domains, b.queries, c.truncated)
        /\ Sound(b.blockedDomains, c.blockedDomains, b.blocked, c.truncated)
        /\ b.queries = c.queries /\ b.blocked = c.blocked
    BY <2>1 DEF Exact
  <2>4. QED
    BY <2>2, <2>3, SoundIsBounded DEF b, c
<1>2. QED
  BY <1>1, InitIInv, NextIInv, PTL DEF Spec

(* A snapshot over a range up to the retention adds up every bucket of the *)
(* range in which a query was recorded, also after a restart (pruneLocked, *)
(* Snapshot, Load).                                                        *)
THEOREM NothingForgottenEarly == Spec => []SnapshotIsComplete
<1>1. IInv => SnapshotIsComplete
  <2> SUFFICES ASSUME IInv, NEW state \in States, NEW range \in 0..Retention,
                      NEW s \in Starts, state.tally[s].queries > 0, s <= now,
                      s + Width + range > now
               PROVE  state.buckets[s].queries > 0
    BY DEF SnapshotIsComplete, Window
  <2>1. now \in Nat /\ s \in Nat /\ range \in Nat /\ range <= Retention
    BY StartsAreNat, ConstantsAssumption DEF IInv
  <2>2. ~Expired(s, now)
    BY <2>1, ConstantsAssumption DEF Expired
  <2>3. Exact(state.buckets[s], state.tally[s])
    BY <2>2, StatesAreGood DEF Good
  <2>4. QED
    BY <2>3 DEF Exact
<1>2. QED
  BY <1>1, InitIInv, NextIInv, PTL DEF Spec
-----------------------------------------------------------------------------
(* The ring of recent queries                                              *)

LEMMA NextSlot ==
  ASSUME NEW N \in Nat \ {0}, NEW k \in 0..N - 1
  PROVE  (k + 1) % N = IF k + 1 = N THEN 0 ELSE k + 1
<1>1. CASE k + 1 = N
  <2>1. N % N = 0
    OBVIOUS
  <2>2. QED
    BY <1>1, <2>1
<1>2. CASE k + 1 # N
  <2>1. k + 1 \in 0..N - 1
    BY <1>2
  <2>2. \A i \in 0..N - 1 : i % N = i
    OBVIOUS
  <2>3. QED
    BY <1>2, <2>1, <2>2
<1>3. QED
  BY <1>1, <1>2

(* The i-th of the recent queries in order, for a full ring. *)
LEMMA OrderedElements ==
  ASSUME NEW E, NEW r \in Seq(E), Len(r) = RecentQueries,
         NEW k \in 0..RecentQueries - 1
  PROVE  /\ Ordered(r, k) \in Seq(E) /\ Len(Ordered(r, k)) = RecentQueries
         /\ \A i \in 1..RecentQueries :
              Ordered(r, k)[i] = IF i <= RecentQueries - k THEN r[k + i]
                                 ELSE r[i - (RecentQueries - k)]
<1> DEFINE N == RecentQueries
<1>1. N \in Nat \ {0} /\ k \in Nat /\ k <= N - 1
  BY ConstantsAssumption
<1>2. CASE k = 0
  BY <1>1, <1>2 DEF Ordered
<1>3. CASE k # 0
  <2> DEFINE a == SubSeq(r, k + 1, N)
             b == SubSeq(r, 1, k)
  <2>1. a \in Seq(E) /\ Len(a) = N - k /\ \A i \in 1..N - k : a[i] = r[k + i]
    BY <1>1
  <2>2. b \in Seq(E) /\ Len(b) = k /\ \A i \in 1..k : b[i] = r[i]
    BY <1>1
  <2>3. Ordered(r, k) = a \o b
    BY <1>1, <1>3 DEF Ordered
  <2> HIDE DEF a, b
  <2>4. a \o b \in Seq(E) /\ Len(a \o b) = N
    BY <1>1, <2>1, <2>2
  <2>5. ASSUME NEW i \in 1..N
        PROVE  (a \o b)[i] = IF i <= N - k THEN r[k + i] ELSE r[i - (N - k)]
    <3>1. CASE i <= N - k
      BY <1>1, <2>1, <2>2, <3>1
    <3>2. CASE ~(i <= N - k)
      <4>1. i - (N - k) \in 1..k
        BY <1>1, <3>2
      <4>2. (a \o b)[i] = b[i - (N - k)]
        <5>1. i \in Len(a) + 1 .. Len(a) + Len(b)
          BY <1>1, <2>1, <2>2, <3>2
        <5>2. (a \o b)[i] = b[i - Len(a)]
          BY <2>1, <2>2, <5>1
        <5>3. QED
          BY <2>1, <5>2
      <4>3. QED
        BY <2>2, <3>2, <4>1, <4>2
    <3>3. QED
      BY <3>1, <3>2
  <2>6. QED
    BY <2>3, <2>4, <2>5
<1>4. QED
  BY <1>2, <1>3

(* The last of a full queue and one more. *)
LEMMA LastElements ==
  ASSUME NEW E, NEW o \in Seq(E), Len(o) = RecentQueries, NEW e \in E
  PROVE  /\ LastOf(Append(o, e)) \in Seq(E)
         /\ Len(LastOf(Append(o, e))) = RecentQueries
         /\ \A i \in 1..RecentQueries :
              LastOf(Append(o, e))[i] = IF i < RecentQueries THEN o[i + 1] ELSE e
<1> DEFINE N == RecentQueries
           q == Append(o, e)
<1>1. N \in Nat \ {0}
  BY ConstantsAssumption
<1>2. /\ q \in Seq(E) /\ Len(q) = N + 1 /\ q[N + 1] = e
      /\ \A i \in 1..N : q[i] = o[i]
  BY <1>1
<1>3. LastOf(q) = SubSeq(q, 2, N + 1)
  BY <1>1, <1>2 DEF LastOf
<1> HIDE DEF q
<1>4. /\ SubSeq(q, 2, N + 1) \in Seq(E) /\ Len(SubSeq(q, 2, N + 1)) = N
      /\ \A i \in 1..N : SubSeq(q, 2, N + 1)[i] = q[i + 1]
  BY <1>1, <1>2
<1>5. \A i \in 1..N : q[i + 1] = IF i < N THEN o[i + 1] ELSE e
  BY <1>1, <1>2
<1>6. QED
  BY <1>3, <1>4, <1>5 DEF q

(* The ring is a queue of the last queries: adding one to the ring, read   *)
(* in order, is adding it to the queue and dropping what is too old, for   *)
(* every size of the ring and wherever its next slot is (addRecentLocked,  *)
(* orderedRecentLocked).                                                   *)
THEOREM RingIsAQueue ==
  ASSUME NEW E, NEW e \in E, recent \in Seq(E), Len(recent) <= RecentQueries,
         recentNext \in 0..RecentQueries - 1,
         Len(recent) < RecentQueries => recentNext = 0,
         AddRecent(e)
  PROVE  /\ recent' \in Seq(E) /\ Len(recent') <= RecentQueries
         /\ recentNext' \in 0..RecentQueries - 1
         /\ Len(recent') < RecentQueries => recentNext' = 0
         /\ Ordered(recent', recentNext')
              = LastOf(Append(Ordered(recent, recentNext), e))
<1> DEFINE N == RecentQueries
<1>1. N \in Nat \ {0} /\ Len(recent) \in Nat
  BY ConstantsAssumption
<1>2. CASE Len(recent) < N
  <2>1. recent' = Append(recent, e) /\ recentNext' = 0 /\ recentNext = 0
    BY <1>2 DEF AddRecent
  <2>2. recent' \in Seq(E) /\ Len(recent') = Len(recent) + 1
    BY <2>1
  <2>3. Ordered(recent, recentNext) = recent /\ Ordered(recent', recentNext') = recent'
    BY <2>1 DEF Ordered
  <2>4. LastOf(Append(recent, e)) = recent'
    BY <1>1, <1>2, <2>1, <2>2 DEF LastOf
  <2>5. QED
    BY <1>1, <1>2, <2>1, <2>2, <2>3, <2>4
<1>3. CASE Len(recent) = N
  <2> DEFINE k == recentNext
             r == recent
             s == recent'
             j == recentNext'
             o == Ordered(r, k)
  <2>1. s = [r EXCEPT ![k + 1] = e] /\ j = (k + 1) % N
    BY <1>1, <1>3 DEF AddRecent
  <2>2. k \in 0..N - 1 /\ k + 1 \in 1..N
    BY <1>1
  <2>3. s \in Seq(E) /\ Len(s) = N
    BY <1>1, <1>3, <2>1, <2>2
  <2>4. \A i \in 1..N : s[i] = IF i = k + 1 THEN e ELSE r[i]
    BY <1>1, <1>3, <2>1, <2>2
  <2>5. j = IF k + 1 = N THEN 0 ELSE k + 1
    BY <1>1, <2>1, <2>2, NextSlot
  <2>6. j \in 0..N - 1
    BY <1>1, <2>2, <2>5
  <2>7. /\ o \in Seq(E) /\ Len(o) = N
        /\ \A i \in 1..N : o[i] = IF i <= N - k THEN r[k + i] ELSE r[i - (N - k)]
    BY <1>3, <2>2, OrderedElements
  <2>8. /\ Ordered(s, j) \in Seq(E) /\ Len(Ordered(s, j)) = N
        /\ \A i \in 1..N :
             Ordered(s, j)[i] = IF i <= N - j THEN s[j + i] ELSE s[i - (N - j)]
    BY <2>3, <2>6, OrderedElements
  <2>9. /\ LastOf(Append(o, e)) \in Seq(E) /\ Len(LastOf(Append(o, e))) = N
        /\ \A i \in 1..N : LastOf(Append(o, e))[i] = IF i < N THEN o[i + 1] ELSE e
    <3>1. \A q \in Seq(E) : Len(q) = N =>
            /\ LastOf(Append(q, e)) \in Seq(E) /\ Len(LastOf(Append(q, e))) = N
            /\ \A i \in 1..N :
                 LastOf(Append(q, e))[i] = IF i < N THEN q[i + 1] ELSE e
      BY LastElements
    <3>2. o \in Seq(E) /\ Len(o) = N
      BY <2>7
    <3> HIDE DEF o
    <3>3. QED
      BY <3>1, <3>2, Zenon
  <2> HIDE DEF o, s, j, k, r
  <2>10. ASSUME NEW i \in 1..N
         PROVE  Ordered(s, j)[i] = LastOf(Append(o, e))[i]
    <3>0. i \in Nat /\ k \in Nat /\ N \in Nat /\ i >= 1 /\ i <= N /\ k <= N - 1
      BY <1>1, <2>2
    <3>1. CASE i = N
      <4>1. k + 1 = N => Ordered(s, j)[i] = s[N]
        BY <3>0, <2>5, <2>8, <3>1
      <4>2. k + 1 # N => Ordered(s, j)[i] = s[k + 1]
        BY <3>0, <2>5, <2>8, <3>1
      <4>3. s[k + 1] = e
        BY <2>2, <2>4
      <4>4. QED
        BY <2>9, <3>1, <4>1, <4>2, <4>3
    <3>2. CASE i # N
      <4>1. LastOf(Append(o, e))[i] = o[i + 1] /\ i + 1 \in 1..N
        BY <2>9, <3>0, <3>2
      <4>2. CASE i + 1 <= N - k
        <5>1. o[i + 1] = r[k + i + 1]
          BY <2>7, <3>0, <4>1, <4>2
        <5>2. k + 1 # N /\ j = k + 1 /\ i <= N - j
          BY <2>5, <3>0, <4>2
        <5>3. Ordered(s, j)[i] = s[k + 1 + i]
          BY <2>8, <5>2
        <5>4. k + 1 + i \in 1..N /\ k + 1 + i # k + 1 /\ k + 1 + i = k + i + 1
          BY <3>0, <4>2
        <5>5. QED
          BY <2>4, <4>1, <5>1, <5>3, <5>4
      <4>3. CASE ~(i + 1 <= N - k)
        <5>1. o[i + 1] = r[i + 1 - (N - k)]
          BY <2>7, <3>0, <4>1, <4>3
        <5>2. i + 1 - (N - k) \in 1..N /\ i + 1 - (N - k) # k + 1
          BY <3>0, <3>2, <4>3
        <5>3. s[i + 1 - (N - k)] = r[i + 1 - (N - k)]
          BY <2>4, <5>2
        <5>4. Ordered(s, j)[i] = s[i + 1 - (N - k)]
          <6>1. CASE k + 1 = N
            <7>1. j = 0 /\ i <= N - j /\ j + i = i /\ i + 1 - (N - k) = i
              BY <2>5, <3>0, <6>1
            <7>2. QED
              BY <2>8, <7>1
          <6>2. CASE k + 1 # N
            <7>1. j = k + 1 /\ ~(i <= N - j) /\ i - (N - j) = i + 1 - (N - k)
              BY <2>5, <3>0, <4>3, <6>2
            <7>2. QED
              BY <2>8, <7>1
          <6>3. QED
            BY <6>1, <6>2
        <5>5. QED
          BY <4>1, <5>1, <5>3, <5>4
      <4>4. QED
        BY <4>2, <4>3
    <3>3. QED
      BY <3>1, <3>2
  <2>11. Ordered(s, j) = LastOf(Append(o, e))
    BY <2>8, <2>9, <2>10
  <2>12. Len(s) = N /\ s \in Seq(E) /\ j \in 0..N - 1
    BY <2>3, <2>6
  <2>13. QED
    BY <1>1, <2>11, <2>12 DEF o, s, j, k, r
<1>4. QED
  BY <1>1, <1>2, <1>3

-----------------------------------------------------------------------------
(* The ring through saves and restarts                                     *)

(* The loop of Load ends with a sequence no longer than the one it read. *)
LEMMA ReloadedIsShort ==
  ASSUME NEW E, NEW s \in Seq(E)
  PROVE  Reloaded(s) \in Seq(E) /\ Len(Reloaded(s)) <= Len(s)
<1> DEFINE N == Len(s)
           fits(i) == s[i].time + Retention > now /\ s[i].time <= now
           Grown(f, i) == IF fits(i) THEN Append(f[i - 1], s[i]) ELSE f[i - 1]
           Grows(f, n) == f[0] = <<>> /\ \A i \in 1..n : f[i] = Grown(f, i)
           Runs(n) == n <= N => \E f \in [0..n -> Seq(E)] : Grows(f, n)
<1>1. N \in Nat /\ \A i \in 1..N : s[i] \in E
  OBVIOUS
<1>g. \A f : \A n \in Nat : \/ Grown(f, n + 1) = f[n]
                            \/ Grown(f, n + 1) = Append(f[n], s[n + 1])
  OBVIOUS
<1>a. \A q \in Seq(E) : \A e \in E : Append(q, e) \in Seq(E) /\ Len(Append(q, e)) = Len(q) + 1
  OBVIOUS
<1>h. \A f, h, i : f[i - 1] = h[i - 1] => Grown(f, i) = Grown(h, i)
  OBVIOUS
<1> HIDE DEF Grown
<1>2. Runs(0)
  <2> DEFINE f == [i \in 0..0 |-> <<>>]
  <2>1. f \in [0..0 -> Seq(E)] /\ Grows(f, 0)
    OBVIOUS
  <2>2. QED
    BY <2>1
<1>3. ASSUME NEW n \in Nat, Runs(n)
      PROVE  Runs(n + 1)
  <2> SUFFICES ASSUME n + 1 <= N
               PROVE  \E f \in [0..n + 1 -> Seq(E)] : Grows(f, n + 1)
    OBVIOUS
  <2>1. n <= N /\ n + 1 \in 1..N
    BY <1>1
  <2>2. PICK f \in [0..n -> Seq(E)] : Grows(f, n)
    BY <1>3, <2>1
  <2> DEFINE g == [i \in 0..n + 1 |-> IF i = n + 1 THEN Grown(f, n + 1) ELSE f[i]]
  <2>3. f[n] \in Seq(E) /\ s[n + 1] \in E
    BY <1>1, <2>1
  <2>4. Grown(f, n + 1) \in Seq(E)
    <3>1. Grown(f, n + 1) = f[n] \/ Grown(f, n + 1) = Append(f[n], s[n + 1])
      BY <1>g, Zenon
    <3>2. QED
      BY <1>a, <2>3, <3>1, Zenon
  <2>5. g \in [0..n + 1 -> Seq(E)]
    BY <2>4
  <2>6. g[n + 1] = Grown(f, n + 1) /\ \A i \in 0..n : g[i] = f[i]
    OBVIOUS
  <2> HIDE DEF g
  <2>7. ASSUME NEW i \in 1..n + 1
        PROVE  g[i] = Grown(g, i)
    <3>1. i - 1 \in 0..n /\ g[i - 1] = f[i - 1]
      BY <2>6
    <3>2. Grown(g, i) = Grown(f, i)
      BY <1>h, <3>1
    <3>3. CASE i = n + 1
      BY <2>6, <3>2, <3>3
    <3>4. CASE i # n + 1
      <4>1. i \in 1..n /\ i \in 0..n
        BY <3>4
      <4>2. QED
        BY <2>2, <2>6, <3>2, <4>1
    <3>5. QED
      BY <3>3, <3>4
  <2>8. Grows(g, n + 1)
    BY <2>2, <2>6, <2>7
  <2>9. QED
    BY <2>5, <2>8
<1>4. \A n \in Nat : Runs(n)
  <2> HIDE DEF Runs
  <2> DEFINE S == {n \in Nat : Runs(n)}
  <2>1. 0 \in S /\ \A n \in Nat : n \in S => n + 1 \in S
    BY <1>2, <1>3
  <2> HIDE DEF S
  <2>2. Nat \subseteq S
    BY <2>1, SetInduction
  <2>3. QED
    BY <2>2 DEF S
<1>5. PICK f \in [0..N -> Seq(E)] : Grows(f, N)
  <2>1. Runs(N)
    <3> HIDE DEF Runs
    <3>1. QED
      BY <1>1, <1>4
  <2>2. QED
    BY <1>1, <2>1
<1> DEFINE Is(h) == h = [i \in 0..N |-> IF i = 0 THEN <<>> ELSE Grown(h, i)]
<1>6. Is(f)
  <2>1. \A i \in 0..N : f[i] = IF i = 0 THEN <<>> ELSE Grown(f, i)
    BY <1>1, <1>5
  <2>2. f = [i \in 0..N |-> f[i]]
    OBVIOUS
  <2>3. QED
    BY <2>1, <2>2
<1> DEFINE F == CHOOSE h : Is(h)
<1>7. Is(F)
  <2> HIDE DEF Is
  <2>1. QED
    BY <1>6
<1>8. Reloaded(s) = F[N]
  BY Zenon DEF Reloaded, Grown, fits, Is, F
<1> HIDE DEF F
<1>9. F[0] = <<>> /\ \A i \in 1..N : F[i] = Grown(F, i)
  <2> DEFINE G == [i \in 0..N |-> IF i = 0 THEN <<>> ELSE Grown(F, i)]
  <2>1. G[0] = <<>> /\ \A i \in 1..N : G[i] = Grown(F, i)
    BY <1>1
  <2>2. F = G
    BY <1>7
  <2> HIDE DEF G
  <2>3. QED
    BY <2>1, <2>2
<1> DEFINE Typed(n) == n <= N => F[n] \in Seq(E) /\ Len(F[n]) <= n
<1>10. Typed(0)
  BY <1>9
<1>11. ASSUME NEW n \in Nat, Typed(n)
       PROVE  Typed(n + 1)
  <2> SUFFICES ASSUME n + 1 <= N
               PROVE  F[n + 1] \in Seq(E) /\ Len(F[n + 1]) <= n + 1
    OBVIOUS
  <2>1. F[n] \in Seq(E) /\ Len(F[n]) <= n /\ n + 1 \in 1..N /\ s[n + 1] \in E
    BY <1>1, <1>11
  <2>2. F[n + 1] = F[n] \/ F[n + 1] = Append(F[n], s[n + 1])
    <3>1. F[n + 1] = Grown(F, n + 1)
      BY <1>9, <2>1
    <3>2. QED
      BY <1>g, <3>1, Zenon
  <2>3. F[n + 1] \in Seq(E) /\ (Len(F[n + 1]) = Len(F[n]) \/ Len(F[n + 1]) = Len(F[n]) + 1)
    BY <1>a, <2>1, <2>2, Zenon
  <2>4. QED
    BY <2>1, <2>3
<1>12. \A n \in Nat : Typed(n)
  <2> HIDE DEF Typed
  <2> DEFINE S == {n \in Nat : Typed(n)}
  <2>1. 0 \in S /\ \A n \in Nat : n \in S => n + 1 \in S
    BY <1>10, <1>11
  <2> HIDE DEF S
  <2>2. Nat \subseteq S
    BY <2>1, SetInduction
  <2>3. QED
    BY <2>2 DEF S
<1>13. QED
  BY <1>1, <1>8, <1>12

LEMMA BlankIsSaved == Blank \in Saved
<1>1. NoBuckets \in [Starts -> Bucket] /\ <<>> \in Seq(Event)
  BY EmptyIsBucket DEF NoBuckets
<1>2. QED
  BY <1>1 DEF Blank, Saved

(* The ring in memory: filled from the front, and only a full ring wraps. *)
RingInv ==
  /\ Len(recent) < RecentQueries => recentNext = 0
  /\ shown = Ordered(recent, recentNext)

LEMMA LastOfIsShort ==
  ASSUME NEW E, NEW s \in Seq(E)
  PROVE  LastOf(s) \in Seq(E) /\ Len(LastOf(s)) <= RecentQueries
<1>1. RecentQueries \in Nat \ {0} /\ Len(s) \in Nat
  BY ConstantsAssumption
<1>2. CASE Len(s) <= RecentQueries
  BY <1>2 DEF LastOf
<1>3. CASE ~(Len(s) <= RecentQueries)
  <2> DEFINE m == Len(s) - RecentQueries + 1
  <2>1. LastOf(s) = SubSeq(s, m, Len(s))
    BY <1>3 DEF LastOf
  <2>2. m \in 1..Len(s) /\ Len(s) - m + 1 = RecentQueries
    BY <1>1, <1>3
  <2> HIDE DEF m
  <2>3. SubSeq(s, m, Len(s)) \in Seq(E) /\ Len(SubSeq(s, m, Len(s))) = Len(s) - m + 1
    BY <1>1, <2>2
  <2>4. QED
    BY <1>1, <2>1, <2>2, <2>3
<1>4. QED
  BY <1>2, <1>3

LEMMA OrderedIsSeq ==
  ASSUME NEW E, NEW r \in Seq(E), NEW k \in 0..RecentQueries - 1,
         Len(r) <= RecentQueries
  PROVE  Ordered(r, k) \in Seq(E)
<1>1. CASE Len(r) < RecentQueries
  BY <1>1 DEF Ordered
<1>2. CASE Len(r) = RecentQueries
  BY <1>2, OrderedElements
<1>3. QED
  BY <1>1, <1>2, ConstantsAssumption

(* What the steps do to the ring. *)
RingTypes ==
  /\ recent \in Seq(Event) /\ Len(recent) <= RecentQueries
  /\ recentNext \in 0..RecentQueries - 1
  /\ shown \in Seq(Event)

(* What they do to the copies and the file, whose buckets IInv speaks of. *)
SavedTypes == copy \in [Savers -> Saved] /\ disk \in Saved

(* And to the rest. *)
OtherTypes ==
  /\ now \in 0..MaxTime
  /\ phase \in {"up", "stopping", "down"}
  /\ limit \in Limits
  /\ buckets \in [Starts -> Bucket] /\ tally \in [Starts -> Bucket]
  /\ busy \subseteq Savers
  /\ list \in Lists
  /\ rules \in Lists \cup {None}
  /\ reload \in BOOLEAN /\ changed \in BOOLEAN
  /\ events \in 0..MaxEvents
  /\ faults \in 0..MaxFaults

LEMMA TypeParts == TypeOK <=> RingTypes /\ SavedTypes /\ OtherTypes
BY DEF TypeOK, RingTypes, SavedTypes, OtherTypes

LEMMA InitTypeOK == Init => TypeOK /\ RingInv
<1> SUFFICES ASSUME Init PROVE TypeOK /\ RingInv
  OBVIOUS
<1>1. NoBuckets \in [Starts -> Bucket]
  BY EmptyIsBucket DEF NoBuckets
<1>2. [w \in Savers |-> Blank] \in [Savers -> Saved]
  BY BlankIsSaved
<1>r. <<>> \in Seq(Event) /\ Len(<<>>) <= RecentQueries /\ 0 \in 0..RecentQueries - 1
  BY ConstantsAssumption
<1>s. RingTypes
  BY <1>r DEF Init, RingTypes
<1>t. SavedTypes
  BY <1>2, BlankIsSaved DEF Init, SavedTypes
<1>n. 0 \in 0..MaxTime /\ 0 \in 0..MaxEvents /\ 0 \in 0..MaxFaults /\ FirstList \in Lists
  BY ConstantsAssumption
<1>u. OtherTypes
  BY <1>1, <1>n DEF Init, OtherTypes
<1>3. TypeOK
  BY <1>s, <1>t, <1>u, TypeParts
<1>4. RingInv
  BY DEF Init, RingInv, Ordered
<1>5. QED
  BY <1>3, <1>4

LEMMA RingStep ==
  ASSUME TypeOK, RingInv, [Next]_vars
  PROVE  (RingTypes /\ RingInv)'
<1>0. RingTypes /\ RingInv
  BY TypeParts
<1>e. <<>> \in Seq(Event) /\ Len(<<>>) <= RecentQueries /\ 0 \in 0..RecentQueries - 1
  BY ConstantsAssumption
<1>1. CASE UNCHANGED <<recent, recentNext, shown>>
  BY <1>0, <1>1 DEF RingTypes, RingInv
<1>2. ASSUME recent' = <<>>, recentNext' = 0, shown' = <<>>
      PROVE  (RingTypes /\ RingInv)'
  BY <1>2, <1>e DEF RingTypes, RingInv, Ordered
<1>3. ASSUME NEW query \in Queries, NEW at \in 0..MaxTime, Record(query, at)
      PROVE  (RingTypes /\ RingInv)'
  <2> DEFINE e == Observed(query)
  <2>1. e \in Event
    BY ConstantsAssumption DEF Observed, Event
  <2>2. AddRecent(e) /\ shown' = LastOf(Append(shown, e))
    BY <1>3 DEF Record
  <2> HIDE DEF e
  <2>3. /\ recent' \in Seq(Event) /\ Len(recent') <= RecentQueries
        /\ recentNext' \in 0..RecentQueries - 1
        /\ Len(recent') < RecentQueries => recentNext' = 0
        /\ Ordered(recent', recentNext')
             = LastOf(Append(Ordered(recent, recentNext), e))
    BY <1>0, <2>1, <2>2, RingIsAQueue DEF RingTypes, RingInv
  <2>4. shown' = Ordered(recent', recentNext')
    BY <1>0, <2>2, <2>3 DEF RingInv
  <2>5. shown' \in Seq(Event)
    BY <2>3, <2>4, OrderedIsSeq
  <2>6. QED
    BY <2>3, <2>4, <2>5 DEF RingTypes, RingInv
<1>4. ASSUME NEW size \in Limits, Start(size)
      PROVE  (RingTypes /\ RingInv)'
  <2> DEFINE saved == LastOf(disk.recent)
             ring == Reloaded(saved)
  <2>1. disk.recent \in Seq(Event)
    BY TypeParts DEF SavedTypes, Saved
  <2>2. saved \in Seq(Event) /\ Len(saved) <= RecentQueries
    BY <2>1, LastOfIsShort
  <2>3. recent' = ring /\ recentNext' = 0 /\ shown' = ring
    BY <1>4 DEF Start
  <2> HIDE DEF saved
  <2>4. ring \in Seq(Event) /\ Len(ring) <= Len(saved)
    BY <2>2, ReloadedIsShort
  <2> HIDE DEF ring
  <2>5. Len(ring) <= RecentQueries
    BY <2>2, <2>4, ConstantsAssumption
  <2>6. QED
    BY <1>e, <2>3, <2>4, <2>5 DEF RingTypes, RingInv, Ordered
<1>5. ASSUME NEW w \in Savers, SaveWrite(w) \/ SaveFails(w)
      PROVE  (RingTypes /\ RingInv)'
  <2>1. SaveEnds(w)
    BY <1>5 DEF SaveWrite, SaveFails
  <2>2. QED
    BY <1>1, <1>2, <2>1 DEF SaveEnds, Dies
<1>6. CASE Crash
  BY <1>2, <1>6 DEF Crash, Dies
<1>7. CASE \/ Snapshot \/ (\E w \in Savers : SaveStart(w)) \/ Stop
           \/ (\E l \in Lists : Publish(l))
           \/ Stat \/ LoadBlocklist \/ LoadBlocklistFails \/ Tick
  <2>1. UNCHANGED <<recent, recentNext, shown>>
    BY <1>7 DEF Snapshot, SaveStart, Stop, Publish, Stat, LoadBlocklist,
                LoadBlocklistFails, Tick, analytics
  <2>2. QED
    BY <1>1, <2>1
<1>8. CASE UNCHANGED vars
  BY <1>1, <1>8 DEF vars, analytics
<1>9. QED
  BY <1>3, <1>4, <1>5, <1>6, <1>7, <1>8 DEF Next

LEMMA SavedStep ==
  ASSUME TypeOK, RingInv, IInv, IInv', [Next]_vars
  PROVE  SavedTypes'
<1>0. SavedTypes /\ RingTypes
  BY TypeParts
<1>1. ASSUME NEW w \in Savers, SaveStart(w)
      PROVE  SavedTypes'
  <2> DEFINE new == [buckets |-> Prune(buckets, now),
                     recent |-> Ordered(recent, recentNext), tally |-> tally]
  <2>1. copy' = [copy EXCEPT ![w] = new] /\ disk' = disk
    BY <1>1 DEF SaveStart
  <2>2. Prune(buckets, now) \in [Starts -> Bucket]
    BY EmptyIsBucket DEF IInv, Good, Prune
  <2>3. tally \in [Starts -> Bucket]
    BY DEF IInv, Good
  <2>4. Ordered(recent, recentNext) \in Seq(Event)
    BY <1>0, OrderedIsSeq DEF RingTypes
  <2>5. new \in Saved
    BY <2>2, <2>3, <2>4 DEF Saved
  <2> HIDE DEF new
  <2>6. QED
    BY <1>0, <2>1, <2>5 DEF SavedTypes
<1>2. ASSUME NEW w \in Savers, SaveWrite(w) \/ SaveFails(w)
      PROVE  SavedTypes'
  <2>1. SaveEnds(w) /\ (disk' = copy[w] \/ disk' = disk)
    BY <1>2 DEF SaveWrite, SaveFails
  <2>2. copy' = [v \in Savers |-> Blank] \/ copy' = [copy EXCEPT ![w] = Blank]
    BY <2>1 DEF SaveEnds, Dies
  <2>3. copy' \in [Savers -> Saved]
    BY <1>0, <2>2, BlankIsSaved DEF SavedTypes
  <2>4. disk' \in Saved
    BY <1>0, <2>1 DEF SavedTypes
  <2>5. QED
    BY <2>3, <2>4 DEF SavedTypes
<1>3. CASE Crash
  BY <1>0, <1>3, BlankIsSaved DEF Crash, Dies, SavedTypes
<1>4. CASE UNCHANGED <<copy, disk>>
  BY <1>0, <1>4 DEF SavedTypes
<1>5. CASE \/ \E query \in Queries, at \in 0..MaxTime : Record(query, at)
           \/ Snapshot \/ (\E size \in Limits : Start(size)) \/ Stop
           \/ (\E l \in Lists : Publish(l))
           \/ Stat \/ LoadBlocklist \/ LoadBlocklistFails \/ Tick
  BY <1>4, <1>5 DEF Record, Snapshot, Start, Stop, Publish, Stat, LoadBlocklist,
                    LoadBlocklistFails, Tick
<1>6. CASE UNCHANGED vars
  BY <1>4, <1>6 DEF vars
<1>7. QED
  BY <1>1, <1>2, <1>3, <1>5, <1>6 DEF Next

LEMMA OtherStep ==
  ASSUME TypeOK, IInv', [Next]_vars
  PROVE  OtherTypes'
<1>0. OtherTypes
  BY TypeParts
<1>1. /\ now' \in 0..MaxTime /\ limit' \in Limits
      /\ buckets' \in [Starts -> Bucket] /\ tally' \in [Starts -> Bucket]
  BY DEF IInv, Good
<1> DEFINE Rest == /\ phase \in {"up", "stopping", "down"}
                   /\ busy \subseteq Savers
                   /\ list \in Lists
                   /\ rules \in Lists \cup {None}
                   /\ reload \in BOOLEAN /\ changed \in BOOLEAN
                   /\ events \in 0..MaxEvents
                   /\ faults \in 0..MaxFaults
<1>2. Rest
  BY <1>0 DEF OtherTypes
<1>3. ASSUME Fault PROVE faults' \in 0..MaxFaults
  BY <1>2, <1>3, ConstantsAssumption DEF Fault
<1>4. events < MaxEvents /\ events' = events + 1 => events' \in 0..MaxEvents
  BY <1>2, ConstantsAssumption
<1>5. CASE \E query \in Queries, at \in 0..MaxTime : Record(query, at)
  <2>1. Rest'
    BY <1>2, <1>4, <1>5 DEF Record, watcher
  <2>2. QED
    BY <1>1, <2>1 DEF OtherTypes
<1>6. CASE \/ Snapshot \/ (\E w \in Savers : SaveStart(w))
           \/ (\E size \in Limits : Start(size))
  <2>1. Rest'
    BY <1>2, <1>6 DEF Snapshot, SaveStart, Start, watcher
  <2>2. QED
    BY <1>1, <2>1 DEF OtherTypes
<1>7. CASE \E w \in Savers : SaveWrite(w) \/ SaveFails(w)
  <2>1. Rest'
    BY <1>2, <1>3, <1>7 DEF SaveWrite, SaveFails, SaveEnds, Dies
  <2>2. QED
    BY <1>1, <2>1 DEF OtherTypes
<1>8. CASE Stop \/ Crash
  <2>1. Rest'
    BY <1>2, <1>3, <1>8 DEF Stop, Crash, Dies, watcher
  <2>2. QED
    BY <1>1, <2>1 DEF OtherTypes
<1>9. CASE \/ (\E l \in Lists : Publish(l))
           \/ Stat \/ LoadBlocklist \/ LoadBlocklistFails \/ Tick
  <2>1. Rest'
    BY <1>2, <1>3, <1>4, <1>9 DEF Publish, Stat, LoadBlocklist, LoadBlocklistFails,
                                  Tick, watcher
  <2>2. QED
    BY <1>1, <2>1 DEF OtherTypes
<1>10. CASE UNCHANGED vars
  <2>1. Rest'
    BY <1>2, <1>10 DEF vars, watcher
  <2>2. QED
    BY <1>1, <2>1 DEF OtherTypes
<1>11. QED
  BY <1>5, <1>6, <1>7, <1>8, <1>9, <1>10 DEF Next

LEMMA NextTypeOK == TypeOK /\ RingInv /\ IInv /\ [Next]_vars => (TypeOK /\ RingInv)'
<1> SUFFICES ASSUME TypeOK, RingInv, IInv, [Next]_vars
             PROVE  (TypeOK /\ RingInv)'
  OBVIOUS
<1>1. IInv'
  BY NextIInv
<1>2. RingTypes' /\ RingInv'
  BY RingStep
<1>3. SavedTypes'
  BY <1>1, SavedStep
<1>4. OtherTypes'
  BY <1>1, OtherStep
<1>5. QED
  BY <1>2, <1>3, <1>4 DEF TypeOK, RingTypes, SavedTypes, OtherTypes

(* Every variable keeps its type; above all the ring never outgrows its    *)
(* limit and its next slot stays within it, also when it is filled from a  *)
(* file written by a process with any other history (addRecentLocked,      *)
(* Load).                                                                  *)
THEOREM TypeCorrect == Spec => []TypeOK
<1>1. QED
  BY InitTypeOK, NextTypeOK, InitIInv, NextIInv, PTL DEF Spec

(* The ring, read in order, is the last queries that were recorded or      *)
(* loaded, for every size of the ring, through saves, crashes and restarts *)
(* (addRecentLocked, orderedRecentLocked, Load).                           *)
THEOREM RingIsTheLastQueries == Spec => []RecentIsLast
<1>1. RingInv => RecentIsLast
  BY DEF RingInv, RecentIsLast
<1>2. QED
  BY <1>1, InitTypeOK, NextTypeOK, InitIInv, NextIInv, PTL DEF Spec
=============================================================================
