------------------------------ MODULE Telemetry ------------------------------
(***************************************************************************)
(* rill-telemetry (internal/querytelemetry, cmd/rill-telemetry): it counts *)
(* the queries that CoreDNS reports over dnstap in buckets of bounded      *)
(* counters and in a ring of recent queries, saves both to a state file    *)
(* once a minute and when it stops, loads the file when it starts, and     *)
(* follows the compiled blocklist that tells which queries were blocked.   *)
(*                                                                         *)
(* Clients and query types are counted by the same code as domains, each   *)
(* in maps of its own; the model keeps the domains.  A domain is a number, *)
(* so that names are ordered.                                              *)
(***************************************************************************)
EXTENDS Naturals, Sequences, FiniteSets

CONSTANTS
  Domains,        \* names asked for
  Lists,          \* compiled blocklists: sets of domains
  FirstList,      \* the one in place at first
  Queries,        \* what the queries ask for, and their timestamps
  Width,          \* bucketWidth
  Retention,      \* AnalyticsConfig.Retention
  Limits,         \* values of AnalyticsConfig.MaxDomains over restarts
  RecentQueries,  \* AnalyticsConfig.RecentQueries (detailed mode)
  MaxTime,        \* bound on the clock
  MaxEvents,      \* bound on the queries recorded and lists published
  MaxFaults,      \* bound on stops, crashes and failed calls
  None

Starts == {t \in 0..MaxTime + Width : t % Width = 0}

ASSUME ConstantsAssumption ==
  /\ Domains \subseteq Nat /\ IsFiniteSet(Domains)
  /\ Lists \subseteq SUBSET Domains /\ FirstList \in Lists
  /\ Queries \subseteq [domain : Domains, time : 0..MaxTime + Width]
  /\ Limits \subseteq Nat \ {0} /\ Limits # {}
  /\ Width \in Nat \ {0} /\ Retention \in Nat
  /\ RecentQueries \in Nat \ {0}
  /\ MaxTime \in Nat /\ MaxEvents \in Nat /\ MaxFaults \in Nat
  /\ None \notin Lists

VARIABLES
  now,         \* the clock
  phase,       \* "up", "stopping" once the context is done, or "down"
  limit,       \* MaxDomains of the running process
  buckets,     \* Analytics.buckets, Empty where there is no bucket
  recent,      \* Analytics.recent
  recentNext,  \* Analytics.recentNext, counted from 0
  busy,        \* the goroutines in Save that have released the lock
  copy,        \* what they are about to write
  disk,        \* the state file, Blank before the first save
  list,        \* merged.hosts
  rules,       \* Collector.blocked, None while the process is down
  reload,      \* the Reload goroutine: it has called Stat and found a change
  changed,     \* the modification time differs from lastMod
  tally,       \* history variable: the true counts, since the state loaded
  shown,       \* history variable: the last queries, as a simple queue
  events, faults

analytics == <<limit, buckets, recent, recentNext, tally, shown>>
watcher   == <<list, rules, reload, changed>>
vars == <<now, phase, analytics, busy, copy, disk, watcher, events, faults>>

Savers == {"timer", "main"}

(* A counter that is not in its map counts as 0, and a bucket has at least *)
(* one query: Empty is no bucket.                                          *)
Counts == [Domains -> Nat]
Bucket == [queries : Nat, blocked : Nat, domains : Counts,
           blockedDomains : Counts, truncated : BOOLEAN]
Event  == [time : 0..MaxTime + Width, domain : Domains, blocked : BOOLEAN]

(* persistedAnalytics, with the true counts that belong to it. *)
Saved == [buckets : [Starts -> Bucket], recent : Seq(Event),
          tally : [Starts -> Bucket]]

Zero  == [d \in Domains |-> 0]
Empty == [queries |-> 0, blocked |-> 0, domains |-> Zero,
          blockedDomains |-> Zero, truncated |-> FALSE]
NoBuckets == [s \in Starts |-> Empty]
Blank == [buckets |-> NoBuckets, recent |-> <<>>, tally |-> NoBuckets]

TypeOK ==
  /\ now \in 0..MaxTime
  /\ phase \in {"up", "stopping", "down"}
  /\ limit \in Limits
  /\ buckets \in [Starts -> Bucket]
  /\ recent \in Seq(Event) /\ Len(recent) <= RecentQueries
  /\ recentNext \in 0..RecentQueries - 1
  /\ busy \subseteq Savers
  /\ copy \in [Savers -> Saved]
  /\ disk \in Saved
  /\ list \in Lists
  /\ rules \in Lists \cup {None}
  /\ reload \in BOOLEAN /\ changed \in BOOLEAN
  /\ tally \in [Starts -> Bucket]
  /\ shown \in Seq(Event)
  /\ events \in 0..MaxEvents
  /\ faults \in 0..MaxFaults

Init ==
  /\ now = 0
  /\ phase = "down"
  /\ limit \in Limits
  /\ buckets = NoBuckets /\ tally = NoBuckets
  /\ recent = <<>> /\ recentNext = 0 /\ shown = <<>>
  /\ busy = {} /\ copy = [w \in Savers |-> Blank]
  /\ disk = Blank
  /\ list = FirstList
  /\ rules = None /\ reload = FALSE /\ changed = TRUE
  /\ events = 0 /\ faults = 0

-----------------------------------------------------------------------------
(* Helpers                                                                 *)

(* A definition whose comment calls it faulty is not used by Spec: it is a *)
(* plausible slip in the code, and shows that a property would catch it.   *)

Fault ==
  /\ faults < MaxFaults
  /\ faults' = faults + 1

Running == phase \in {"up", "stopping"}

Truncate(t) == t - (t % Width)

(* A bucket is forgotten when it ended a whole retention ago. *)
Expired(start, at) == start + Width + Retention <= at

(* pruneLocked (faulty: nothing is deleted). *)
PruneNothing(bs, at) == bs
Prune(bs, at) == [s \in Starts |-> IF Expired(s, at) THEN Empty ELSE bs[s]]

Tracked(counts) == {d \in Domains : counts[d] > 0}

(* Faulty: a domain that finds no free counter takes the others' place. *)
Evicting(counts, domain) ==
  IF counts[domain] > 0 \/ Cardinality(Tracked(counts)) < limit
  THEN [counts EXCEPT ![domain] = @ + 1]
  ELSE [Zero EXCEPT ![domain] = 1]

(* A domain that finds no free counter takes one from every counter, and   *)
(* is not counted itself.                                                  *)
IncrementBounded(counts, domain) ==
  IF counts[domain] > 0 \/ Cardinality(Tracked(counts)) < limit
  THEN [counts EXCEPT ![domain] = @ + 1]
  ELSE [d \in Domains |-> IF counts[d] > 0 THEN counts[d] - 1 ELSE 0]

(* Faulty: only a full map with a counter to spare reports a loss. *)
LossyBeyond(counts, domain) ==
  counts[domain] = 0 /\ Cardinality(Tracked(counts)) > limit

(* Its answer: a query was not counted, and others were taken back. *)
Lossy(counts, domain) ==
  counts[domain] = 0 /\ Cardinality(Tracked(counts)) >= limit

Increment(counts, domain) == [counts EXCEPT ![domain] = @ + 1]

(* trimCounts: the highest counts, of equal ones the first names. *)
Trim(counts, size) ==
  LET Above(d) == {e \in Tracked(counts) :
                     counts[e] > counts[d] \/ (counts[e] = counts[d] /\ e < d)}
  IN  [d \in Domains |-> IF Cardinality(Above(d)) < size THEN counts[d] ELSE 0]

(* The last queries of a queue, which Load takes as well. *)
LastOf(s) ==
  IF Len(s) <= RecentQueries THEN s
  ELSE SubSeq(s, Len(s) - RecentQueries + 1, Len(s))

(* orderedRecentLocked (faulty: the ring is read from its first slot). *)
Unrotated(ring, next) == ring
Ordered(ring, next) ==
  IF Len(ring) < RecentQueries \/ next = 0 THEN ring
  ELSE SubSeq(ring, next + 1, Len(ring)) \o SubSeq(ring, 1, next)

-----------------------------------------------------------------------------
(* The collector                                                           *)

(* One query in its bucket; the same without bounds is the true count. *)
Counted(bucket, domain, blocked) ==
  [queries |-> bucket.queries + 1,
   blocked |-> IF blocked THEN bucket.blocked + 1 ELSE bucket.blocked,
   domains |-> IncrementBounded(bucket.domains, domain),
   blockedDomains |-> IF blocked
                      THEN IncrementBounded(bucket.blockedDomains, domain)
                      ELSE bucket.blockedDomains,
   truncated |-> \/ bucket.truncated
                 \/ Lossy(bucket.domains, domain)
                 \/ blocked /\ Lossy(bucket.blockedDomains, domain)]

TrueCount(bucket, domain, blocked) ==
  [queries |-> bucket.queries + 1,
   blocked |-> IF blocked THEN bucket.blocked + 1 ELSE bucket.blocked,
   domains |-> Increment(bucket.domains, domain),
   blockedDomains |-> IF blocked THEN Increment(bucket.blockedDomains, domain)
                      ELSE bucket.blockedDomains,
   truncated |-> bucket.truncated]

(* Faulty: the ring grows by one too many. *)
AddOneTooMany(event) ==
  IF Len(recent) <= RecentQueries
  THEN recent' = Append(recent, event) /\ recentNext' = recentNext
  ELSE /\ recent' = [recent EXCEPT ![recentNext + 1] = event]
       /\ recentNext' = (recentNext + 1) % Len(recent)

(* addRecentLocked *)
AddRecent(event) ==
  IF Len(recent) < RecentQueries
  THEN recent' = Append(recent, event) /\ recentNext' = recentNext
  ELSE /\ recent' = [recent EXCEPT ![recentNext + 1] = event]
       /\ recentNext' = (recentNext + 1) % Len(recent)

(* ConsumeFrame: what a frame makes known of its query. *)
Observed(query) ==
  [time |-> query.time, domain |-> query.domain,
   blocked |-> query.domain \in rules]

(* Record.  A query too old or too far ahead changes nothing.  The clock   *)
(* was read before the lock was taken, and may have moved on since.        *)
Record(query, at) ==
  LET event   == Observed(query)
      blocked == event.blocked
      start   == Truncate(query.time)  IN
  /\ Running
  /\ events < MaxEvents
  /\ at <= now /\ now <= at + 1
  /\ query.time + Width + Retention > at /\ query.time <= at + Width
  /\ buckets' = [Prune(buckets, at) EXCEPT ![start] =
                   Counted(@, query.domain, blocked)]
  /\ tally' = [tally EXCEPT ![start] = TrueCount(@, query.domain, blocked)]
  /\ AddRecent(event)
  /\ shown' = LastOf(Append(shown, event))
  /\ events' = events + 1
  /\ UNCHANGED <<now, phase, limit, busy, copy, disk, watcher, faults>>

(* The buckets whose counters Snapshot adds up for a range (faulty: those  *)
(* that begin within it).                                                  *)
WindowOfStarts(bs, range) ==
  {s \in Starts : bs[s].queries > 0 /\ s + range > now /\ s <= now}
Window(bs, range) ==
  {s \in Starts : bs[s].queries > 0 /\ s + Width + range > now /\ s <= now}

(* Snapshot changes nothing but drops what has expired. *)
Snapshot ==
  /\ Running
  /\ buckets' = Prune(buckets, now)
  /\ UNCHANGED <<now, phase, limit, recent, recentNext, tally, shown, busy, copy,
                 disk, watcher, events, faults>>

-----------------------------------------------------------------------------
(* The state file                                                          *)

(* Save under the lock: the periodic one, which a stop may find under way, *)
(* and the one of main after the stop.                                     *)
SaveStart(w) ==
  /\ w \notin busy
  /\ IF w = "main" THEN phase = "stopping" ELSE Running
  /\ buckets' = Prune(buckets, now)
  /\ busy' = busy \cup {w}
  /\ copy' = [copy EXCEPT ![w] =
       [buckets |-> Prune(buckets, now), recent |-> Ordered(recent, recentNext),
        tally |-> tally]]
  /\ UNCHANGED <<now, phase, limit, recent, recentNext, tally, shown, disk,
                 watcher, events, faults>>

(* The process is gone, and what it had in memory. *)
Dies ==
  /\ phase' = "down"
  /\ busy' = {} /\ copy' = [w \in Savers |-> Blank]
  /\ buckets' = NoBuckets /\ tally' = NoBuckets
  /\ recent' = <<>> /\ recentNext' = 0 /\ shown' = <<>>
  /\ rules' = None /\ reload' = FALSE /\ changed' = TRUE

(* After its save main returns, and the process ends. *)
SaveEnds(w) ==
  \/ w = "main" /\ Dies
  \/ /\ w = "timer"
     /\ busy' = busy \ {w}
     /\ copy' = [copy EXCEPT ![w] = Blank]
     /\ UNCHANGED <<phase, buckets, recent, recentNext, tally, shown, rules,
                    reload, changed>>

(* WriteJSON with no lock held: one rename. *)
SaveWrite(w) ==
  /\ w \in busy
  /\ disk' = copy[w]
  /\ SaveEnds(w)
  /\ UNCHANGED <<now, limit, list, events, faults>>

(* An error is only logged. *)
SaveFails(w) ==
  /\ w \in busy
  /\ Fault
  /\ SaveEnds(w)
  /\ UNCHANGED <<now, limit, disk, list, events>>

(* The loop of Load over the queries saved, of which it adds to the ring   *)
(* those that are within the retention.                                    *)
Reloaded(s) ==
  LET added[i \in 0..Len(s)] ==
        IF i = 0 THEN <<>>
        ELSE IF s[i].time + Retention > now /\ s[i].time <= now
        THEN Append(added[i - 1], s[i]) ELSE added[i - 1]
  IN  added[Len(s)]

(* Load, LoadBlocklist, and the collector starts.  Expired buckets and     *)
(* buckets of the future are left out, counters beyond the limit too.      *)
Start(size) ==
  LET Kept(s) == ~Expired(s, now) /\ s <= now + Width
      Loaded(b) == [b EXCEPT !.domains = Trim(@, size),
                             !.blockedDomains = Trim(@, size)]
      ring == Reloaded(LastOf(disk.recent))  IN
  /\ phase = "down"
  /\ phase' = "up"
  /\ limit' = size
  /\ buckets' = [s \in Starts |->
                   IF Kept(s) THEN Loaded(disk.buckets[s]) ELSE Empty]
  /\ recent' = ring /\ recentNext' = 0 /\ shown' = ring
  /\ tally' = [s \in Starts |->
       IF Loaded(disk.buckets[s]) # disk.buckets[s]
       THEN [disk.tally[s] EXCEPT !.truncated = TRUE] ELSE disk.tally[s]]
  /\ rules' = list /\ reload' = FALSE /\ changed' = TRUE
  /\ UNCHANGED <<now, busy, copy, disk, list, events, faults>>

(* SIGTERM, or a listener that failed. *)
Stop ==
  /\ phase = "up"
  /\ Fault
  /\ phase' = "stopping"
  /\ UNCHANGED <<now, analytics, busy, copy, disk, watcher, events>>

Crash ==
  /\ Running
  /\ Fault
  /\ Dies
  /\ UNCHANGED <<now, limit, disk, list, events>>

-----------------------------------------------------------------------------
(* The blocklist                                                           *)

(* rill-blocklist-refresh renames another list in place. *)
Publish(l) ==
  /\ events < MaxEvents
  /\ list' = l
  /\ changed' = TRUE
  /\ events' = events + 1
  /\ UNCHANGED <<now, phase, analytics, busy, copy, disk, rules, reload, faults>>

(* Reload calls Stat before it reads the list: the time that lastMod will  *)
(* get is at most as new as the list.                                      *)
Stat ==
  /\ Running
  /\ ~reload /\ changed
  /\ reload' = TRUE
  /\ changed' = FALSE
  /\ UNCHANGED <<now, phase, analytics, busy, copy, disk, list, rules, events, faults>>

LoadBlocklist ==
  /\ reload
  /\ rules' = list
  /\ reload' = FALSE
  /\ UNCHANGED <<now, phase, analytics, busy, copy, disk, list, changed,
                 events, faults>>

(* Faulty: lastMod is set although the list was not read. *)
LoadFailsForGood ==
  /\ reload
  /\ Fault
  /\ reload' = FALSE
  /\ UNCHANGED <<now, phase, analytics, busy, copy, disk, list, rules, changed,
                 events>>

(* It cannot be read, or names nothing: the old one stays in force. *)
LoadBlocklistFails ==
  /\ reload
  /\ Fault
  /\ reload' = FALSE
  /\ changed' = TRUE
  /\ UNCHANGED <<now, phase, analytics, busy, copy, disk, list, rules, events>>

Tick ==
  /\ now < MaxTime
  /\ now' = now + 1
  /\ UNCHANGED <<phase, analytics, busy, copy, disk, watcher, events, faults>>

Next ==
  \/ \E query \in Queries, at \in 0..MaxTime : Record(query, at)
  \/ Snapshot
  \/ \E w \in Savers : SaveStart(w) \/ SaveWrite(w) \/ SaveFails(w)
  \/ \E size \in Limits : Start(size)
  \/ Stop \/ Crash
  \/ \E l \in Lists : Publish(l)
  \/ Stat \/ LoadBlocklist \/ LoadBlocklistFails
  \/ Tick

Spec == Init /\ [][Next]_vars

(* The service is started again, the two tickers keep ticking, a save that *)
(* has begun ends, and main goes on to its save once it is stopped.        *)
FairSpec ==
  /\ Spec
  /\ WF_vars(\E size \in Limits : Start(size))
  /\ \A w \in Savers : WF_vars(SaveStart(w)) /\ WF_vars(SaveWrite(w))
  /\ WF_vars(Stat) /\ WF_vars(LoadBlocklist)

-----------------------------------------------------------------------------
(* Properties                                                              *)

(* What Save was given and what the file holds, next to what is in memory. *)
States ==
  {[buckets |-> buckets, recent |-> recent, tally |-> tally], disk}
    \cup {copy[w] : w \in Savers}

Live == {s \in Starts : ~Expired(s, now)}

(* The smallest of the limits. *)
Least == CHOOSE l \in Limits : \A k \in Limits : l <= k

(* The bounded counters (incrementBounded) never count too much, and miss  *)
(* at most one query in limit + 1; the totals are exact.  Both in memory,  *)
(* in every copy that Save took under the lock and in the file, whatever   *)
(* was recorded meanwhile.  A restart with a smaller limit is the          *)
(* exception to the bound on what is missed.                               *)
CountersAreSound ==
  \A state \in States, s \in Live :
    LET b == state.buckets[s]
        c == state.tally[s]  IN
    /\ b.queries = c.queries /\ b.blocked = c.blocked
    /\ \A d \in Domains :
         /\ b.domains[d] <= c.domains[d]
         /\ b.blockedDomains[d] <= c.blockedDomains[d]
         /\ ~c.truncated =>
              /\ (Least + 1) * (c.domains[d] - b.domains[d]) <= b.queries
              /\ (Least + 1) * (c.blockedDomains[d] - b.blockedDomains[d]) <= b.blocked

(* A bucket that does not say it is truncated has exact counters (Record,  *)
(* Load), unless a restart with a smaller limit has left some out.         *)
ExactUnlessTruncated ==
  \A state \in States, s \in Live :
    LET b == state.buckets[s]
        c == state.tally[s]  IN
    ~b.truncated /\ ~c.truncated =>
      b.domains = c.domains /\ b.blockedDomains = c.blockedDomains

(* Nothing within the retention is forgotten (pruneLocked, Record, Load,   *)
(* Snapshot): for every range up to the retention the buckets added up, in *)
(* memory or after a restart from what was saved, are all the buckets of   *)
(* the range in which a query was recorded.                                *)
SnapshotIsComplete ==
  \A state \in States, range \in 0..Retention :
    {s \in Starts : state.tally[s].queries > 0 /\ s <= now
                    /\ s + Width + range > now}
      \subseteq Window(state.buckets, range)

(* The ring, read in order, is the last queries recorded, also when it     *)
(* wrapped around and when it was saved and loaded (addRecentLocked,       *)
(* orderedRecentLocked, Load).                                             *)
RecentIsLast == Ordered(recent, recentNext) = shown

(* An expired bucket is in memory, in a copy about to be written or in the *)
(* file.                                                                   *)
HoldsExpired ==
  \E state \in States, s \in Starts \ Live : state.buckets[s] # Empty

(* An expired bucket leaves the memory and the file, although a save that  *)
(* began before may still write it (pruneLocked, Save, Load).  This is     *)
(* about the buckets only: recent queries are in no bucket, and leave the  *)
(* ring and the file just when newer ones push them out.                   *)
ExpiredIsForgotten == []<>~HoldsExpired

(* The list in force becomes the one that was published last, although it  *)
(* may be published while another is being read (Reload).                  *)
FollowsBlocklist == <>[](rules = list)
=============================================================================
