# RillDNS: TLA+ models, checks and proofs

RillDNS manages DNS zones on a primary and a standby node. This directory holds
models of the parts of it that keep state, TLC configurations that check them
on small instances, and proofs, checked by TLAPS, of the properties that matter
most. Source files are named relative to `src/`.

`PROJECT.json` lists the components, the runs, a mutant for every property of a
passing run, the map from definitions to source lines, the findings, the
hazards and the theorems.

## The system

| Component | State | Operations | Interacts with |
|---|---|---|---|
| Zone store (`internal/zones`) | zone files, `.roles.json`, history directory, audit log, one mutex | Get, Apply, Rollback, Create, Delete, Revisions | CoreDNS (reads the files; is queried for verification), secondaries (NOTIFY) |
| Idempotency middleware (`internal/api/idempotency.go`) | remembered responses (memory and file), keys in flight | begin, finish, prune, load | wraps every mutating handler |
| Blocklist store (`internal/blocking`) | three files, one mutex | Get (no lock), Update, RequestRefresh | refresh programs of both nodes |
| Blocklist refresh and merge (`cmd/rill-blocklist-refresh`, `cmd/blocklist-merge`) | compiled list, status file | one run per timer or request | the primary's API, the CoreDNS cache |
| Secondary daemon (`internal/secondary`) | snapshots, known zones, trigger channel, retry timers, errors, status file | NOTIFY, tick, retry, syncZone, restart | the primary's authority over DNS |
| Cloudflare changes (`internal/cloudflare`) | none of its own but a mutex and a zone ID cache; the records are at Cloudflare | ListRecords, PlanChanges, ApplyChanges with rollback | Cloudflare's API, name servers |
| Cloudflare allowlist (`internal/api/server.go`, `config.go`) | file and copy in memory | get, update, load | every Cloudflare handler |
| HTTP API (`internal/api`, `cmd/rill-api`) | metrics, peer probes | handlers of the above; health, HA status, audit, history | everything |
| Telemetry (`internal/querytelemetry`, `cmd/rill-telemetry`) | buckets of bounded counters, a ring of recent queries, a state file, the blocklist in force | Record, Snapshot, Save, Load, Reload, stop and restart | CoreDNS dnstap, the compiled blocklist, API |
| Promotion check (`cmd/rill-ha`, `haStatus`, `internal/refreshstatus`, `cmd/rill-zone-status`, `cmd/rill-diff`) | status files of both nodes | hourly jobs that write a status; `rill-ha`, which reads them over the API | zone files and secondary of both nodes |
| Reconciliation (`cmd/rill-reconcile`) | none | a report of proposals and findings | zone files |
| Control client, MCP server, web console, cache zones, NOTIFY tool | none | one call or one page each | the API |

What is hard here:

* every mutation is several file or network calls, each of which can fail, with
  a crash possible between any two. `rill-api`'s `main` returns as soon as
  `ListenAndServe` does, so an orderly stop cuts running handlers off as well;
* readers take no lock (`Get` of both stores, CoreDNS, the refresh programs);
* versions are compared by a revision (optimistic concurrency), by a serial
  (CoreDNS, secondaries) or by content (Cloudflare), and these do not always
  tell the same versions apart;
* NOTIFY is lost, queues drop, timers race with late answers, and clients give
  up and retry what was already done;
* a decision such as "ready for promotion" is taken from files that other
  programs wrote earlier, about zones that go on changing.

## Modules

| Module | What it is |
|---|---|
| `ZoneRegister` | what the zone store promises: per zone an atomic register whose serial grows with every change |
| `ZoneStore` | the store, one step per file or network call |
| `ZoneStoreProofs` | its invariants; that it implements `ZoneRegister` |
| `Idempotency`, `IdempotencyProofs` | the middleware around a revision-checked handler |
| `Blocklist`, `BlocklistProofs` | the three files, API clients, refresh programs of primary and standby |
| `Secondary`, `SecondaryProofs` | the replication daemon and the primary it follows |
| `CloudflareApply` | planner, batch, read-back and rollback, with Cloudflare as the environment |
| `CloudflareConfig` | the allowlist of Cloudflare zones |
| `CloudflareProofs` | the invariants of `CloudflareApply` |
| `Telemetry`, `TelemetryProofs` | the query collector: counters, ring, state file, blocklist, stops and restarts |
| `Promotion`, `PromotionProofs` | active node, standby, their hourly jobs and the promotion preflight in one composition |
| `Records` | the record algorithms of the zone store: changes, validation, differences, under imports, changes and rollbacks |
| `Reconcile` | the report of `rill-reconcile`, over the zones of `Records` |
| `ReconcileProofs` | the invariants of `Records` and `Reconcile` |
| `MC*` | instances for TLC |

Modules refer to one another where components meet: `Idempotency` takes the
handler as one step whose inside `ZoneStore`, `Blocklist` and `CloudflareApply`
describe, and the primary of `Secondary` changes zones the way `ZoneStore`
does (a change is served before it is verified, and may be taken back).
`Reconcile` extends `Records`, whose versions are the record sets that
`ZoneStore` publishes. `Promotion` puts the active node's zones, replication,
`rill-zone-status`, `rill-diff`, `haStatus` and `rill-ha` together, each
coarser than in a module of its own.

In every module some definitions are called *faulty* in their comment. `Spec`
does not use them: each is a plausible slip in the code, and replacing the
definition it belongs to by it makes TLC report the property named in
`PROJECT.json`.

### ZoneStore

`file`, `roles`, `history` and `audit` are the disk, `served` is what the
CoreDNS authority answers, `mu` the mutex, `op[c]` the locals of a handler and
the call it is about to make. A version is a record set and a serial. A
revision is the SHA-256 of the rendered file, so the model uses the version as
its own revision. `Apply` and `Rollback` are the checks under the lock followed
by the steps of `commit` (history, write, verify, restore or notify, audit);
`Create` and `Delete` have the steps of their functions, in their order, with
the errors they ignore. A write has three outcomes: done, not done, and done but
reported as an error (the directory sync after the rename). A request that
fails a check, and a dry run, change nothing and are no steps. Record editing
(`applyChange`, `validate`, `groupRRsets`, `render`) is abstracted to a choice
of record set; `Records` models it.

### Idempotency

`entries` and `saved` are the responses in memory and on disk, with their age;
`inFlight` is the map of running keys. `begin` is four actions, one per result;
`finish` is two. The response reaches the client before `finish`, as in the
code. `Hashed` says what a revision is: a hash of the content (blocklist,
Cloudflare), or of a zone text that includes the serial. Other writers may make
any revision the current one, earlier ones too: where the content is all, by
restoring it; for a zone, by deleting it and creating it again with the text it
had. `applied` and `spent` are history variables: the requests that took
effect, and those of them whose expected revision has not come back since.

### Blocklist

Every file is read and replaced in a step of its own. `Update` holds the mutex;
`Get` and the refresh programs do not. The refresh program of the standby first
copies the configuration over the API. A compiled list is abstracted to the
file contents it was compiled from. `before` and `previous` of a refresh under
way are the list and the status that it found. Requests for a refresh only make
the program start, which it may do at any time.

### Secondary

The goroutine of `Run` is `sync`; NOTIFY handlers and timers fill `queue`, whose
capacity is twice the number of configured zones, as `New` makes it. `Tick` is
taken with an empty queue (an hour is enough to work through it); `LateTick`
is a bad hour and counts as a fault. The status file, signature expiry and
the length of retry delays are left out. Re-creating a deleted zone with a
serial it had before would break `SameSerialSameZone` in the same way as a
change taken back; it is not modelled.

### CloudflareApply

`remote` is the zone at Cloudflare, `view` what a read returns. Reads may fall
behind at any batch and catch up at any later time or never; falling behind is
one fault, however many batches it lasts. The planner is `PlanChanges`,
`Inherited` and `NoNewConflict`; records have IDs, so a batch built from old
records is rejected when an ID is gone. A patch leaves alone what its JSON does
not mention, and `PatchOperation` omits empty attributes. `padded` marks a type
that a request writes with spaces around it: the planner trims it, `rollback`
does not and then finds no record of it (`Restorable`). `Cancel` is a client
that hangs up: the request's context is used for the rollback too. Of the
provider's attributes one, the comment, is modelled; the read-back compares none
of them, the check after a rollback does compare `proxied`. Another writer owns
the RRsets in `Foreign`. Three history variables tell which exception of the
properties applies: `unsettled` (an `ApplyChanges` failed or died and reads have
not caught up since), `read` (the plan was made from current records, from late
ones, or from late ones while unsettled) and `listed` (the rollback's list was
not behind).

### CloudflareConfig

`updateCloudflareConfig` in its four steps: compare, validate over the network,
save, set. `Restart` loads the file. Only its violation run uses it.

### Telemetry

`buckets` maps the start of a bucket to its counters (`incrementBounded` takes
one from every counter when a name finds no place), `recent` and `recentNext`
are the ring. `Save` is two steps, the copy under the lock and the rename
without it, by the periodic goroutine and by `main` after a stop, so that they
overlap with each other and with recording. `Start` is `Load`, which drops what
has expired and trims to the limit of the new process. `Reload` is `Stat` and
the reading of the list, which may be replaced in between. `tally` and `shown`
are history variables: the true counts, saved and loaded along with the state,
and the last queries as a plain queue. Clients and query types go through the
same code as domains in maps of their own and are left out; so are the
`aggregate` mode, which records nothing, and the two metrics counters.

### Promotion

A status file holds the age of its last success, and the one of the active node
its own age, which nobody looks at. The clock moves only when every live job has
begun within its period, `rill-diff` takes at most `DiffTime`, and `rill-ha`,
which gives up after five seconds, takes no time. Any job may stop for good,
the status job of the active node too, and each report may fail to be written.
Zones come, change and go on the active node, and a zone made anew begins with
a serial it had before. `compared` is the part of the zones that the unit of
`rill-diff` names and `polled` the part that every poll of the replication
daemon reaches: both are chosen in `Init`. `DiffSource` and `DiffTarget` are
separate steps, between which zones change. `ReadActive` and `Evaluate` are the
two requests of `rill-ha`. `lag` is a history variable: how long ago the
standby's zone was the active node's. Sync of `None` stands for the unchanging
zones that a node also has, which keep the daemon's last success recent. Not
modelled: the differential check on the active node, the `Healthy` flag of
`refreshstatus.Load`, and roles and URLs, which are configuration.

### Records and Reconcile

A record is a name, a type, a TTL and a value; a request may name a value
twice, so changes carry bags. `DiffRRsets` works on grouped RRsets like the
code, where the TTL of an RRset is the TTL of its first record. A published
version may stay without its audit event (`Unaudited`): the append comes after
the publication and can fail or be cut off. `last` is the revision that the last
event names. `linked` and `replayed` are history variables: whether the events
since the import name each other's revisions without a gap, and the imported
text with the changes of the audit log applied.
`rill-reconcile` only reads files, so `Reconcile` has no action of its own: its
properties are about the report in every state of the two zones. It reads the
files one after the other without a lock; the model reads them at once. Classes, case folding and the syntax
of records are not modelled.

## Runs

Every passing run ends within five minutes on two cores. The type invariants
of `ZoneStore`, `Idempotency`, `Blocklist` and `Promotion` are proved (see
below) and not checked again by a run.

| Run | Instance | Shows |
|---|---|---|
| `ZoneStore` | one zone, two handlers | with failing writes and crashes anywhere no acknowledged version is lost and the store implements `ZoneRegister`; no lost update, read-only zones stay as they are, every request gives the mutex back |
| `IdemRetries` | two keys, two requests, room for one response, a writer that brings any revision back | across errors, eviction, expiry, lost saves and restarts a request is applied again only after the revision it expects has come back; replayed successes are true; nothing is repeated while a response is retained; no key stays in flight |
| `BlocklistConverge` | two API clients, the standby's refresh program | no lost update, although reads take no lock; the standby ends up with a list of the primary's configuration; a refresh that ends before it published leaves the list it found |
| `SecondaryReplicates` | two zones, discovery | lost NOTIFYs and two faults of any kind: every snapshot is a whole version that was served, and zones and errors are put right in the end |
| `CloudflareApply` | two clients, another writer, two faults of any kind | outside the exceptions listed below no lost update, successes and rollbacks are what they say, a CNAME stays alone; other writers' records survive; every request ends |
| `Telemetry` | two domains, limits of one and two counters, a ring of two, three queries or lists, one fault | counts are lower bounds with a bounded loss that is reported, no bucket is forgotten early or kept after its retention, the ring is the last queries, the blocklist in force follows the published one |
| `Promotion` | one zone beside unchanging ones, compared or not, polled or not; two writes, one fault | a standby reported ready is at most the limit behind in records; in the serials of zones not compared, at most the limit or the age of the active node's report; a sound standby becomes ready; a stopped replication or differential job is noticed |
| `Reconcile` | a forward zone with three hosts, a reverse zone with two of three addresses, five operations, one lost audit event, requests of one and two changes | an audit log without a gap replays to the published zone, and a lost event shows; the order of a request's changes is free; proposals that the reverse zone can take are accepted and settle; silence means agreement |

The violation runs each refute a statement of a doc or a comment; the findings
in `PROJECT.json` quote it.

| Run | The code's behaviour |
|---|---|
| `IdemRecurrence` | a request whose response was forgotten, or was a server error, is applied a second time by its retry when the zone was deleted and created again with its former text in between |
| `SecondaryPoll` | the poll never reaches zones beyond the channel's capacity, so a lost NOTIFY for them is never made up for |
| `SecondarySerialReuse` | a change taken back and the next one share a serial, and the secondary keeps the wrong one |
| `ConfigRace` | two overlapping updates with the same expected revision are both accepted |

### Known divergences without a run

Met while modelling. The models' steps follow the code here, and the
properties above are the ones that hold all the same:

* `WaitForSerial` takes a serial for a version: one that an interrupted
  operation left being served, with the same serial, ends the wait early
  (`zones/verifier.go:45`).
* `Revisions` lists the current version after a change that failed past
  `saveHistory` (`zones/store.go:265`; the comment at line 306 says it is not
  included).
* `Create` and `Delete` report success when their audit record could not be
  written, and "files restored" when restoring failed (`zones/store.go:467`,
  `:479`, `:530`).
* An audit event that could not be appended, or never was because of a crash,
  is lost for good (`zones/store.go:289`); `AuditReplays` shows that the gap can
  be seen, by the revisions that the events name.
* A blocklist `Get` during an `Update` returns a mixture of two configurations
  (`blocking/store.go:93`). `Converges` shows that a list compiled from one is
  replaced.
* A Cloudflare batch that was carried out and whose answer was lost is
  reported as failed and not compensated (`cloudflare/apply.go:74`).
* The read-back does not compare attributes (`cloudflare/apply.go:313`), and an
  attribute that a request empties is left out of the patch
  (`cloudflare/planner.go:54`), so such a request succeeds and the attribute of
  a kept record stays what it was (`CommentGiven` in `SuccessIsApplied`).
* `applyMu` is released without a read-back when `ApplyChanges` fails or its
  client hangs up. While reads are still behind that batch, the next request is
  compared with and planned from old records: it may overwrite what its client
  was not shown, be reported as a success without being one, or put a CNAME
  beside another type (`cloudflare/apply.go:75`). The properties except an
  `ApplyChanges` that reads in this state (`read = "unsure"`) and nothing else
  about late reads.
* A rollback whose list is behind does not delete the records that it does not
  show, and reads that are still behind confirm it: it is reported although the
  change stays
  (`cloudflare/apply.go:326`). `RolledBackIsRestored` excepts it (`listed`).
* `rollback` upper-cases the type of a change and does not trim it
  (`cloudflare/apply.go:334`), while the planner trims it: the RRsets of a type
  written with spaces are neither restored nor compared, and the rollback is
  reported (`Restorable`).
* Two overlapping allowlist updates can also leave the file and the copy in
  memory different (`api/server.go:192`).
* In detailed mode recent queries leave the ring only when newer ones push them
  out; neither memory nor the state file drops them after the retention
  (`querytelemetry/analytics.go:285`; README.md:106 says the modes "enforce
  bounded retention"). `ExpiredIsForgotten` is about the buckets only and says
  nothing of this. SECURITY.md:27
  says that the collector "retains aggregate totals only".
* A restart with a smaller limit leaves out counters without setting the
  truncation flag (`querytelemetry/analytics.go:335`); the properties except
  such buckets.
* A periodic save that copied its state before a stop can be written after the
  save of the shutdown and replace it (`cmd/rill-telemetry/main.go:131`).
* A metrics scrape reads two counters one after the other and may show more
  blocked queries than queries.
* `rill-ha` uses neither the active node's `Healthy` nor the success or age of
  its `zones.json` (`cmd/rill-ha/main.go:104`; docs/ha.md:72 says "both nodes
  are healthy"). A status job that has stopped, or cannot write, leaves an old
  report whose serials may match those of a standby that is as old:
  `ReadySerialsAreRecent` therefore bounds the lag by the age of that report
  too. A `rill-zone-status` that failed half-way lists only some zones; the
  property excepts the ones it does not list.
* A zone created at runtime is not among the arguments of `rill-diff`, and only
  its serials are compared; one that was deleted and stays among them keeps the
  check failing (`Settled` excludes this).
* `rill-zone-status` on a node without zone files exits without writing, so an
  old status stays (`cmd/rill-zone-status/main.go:24`).
* Serial 0 counts as no SOA for the secondary (`secondary/secondary.go:490`),
  and a zone with serial 0 that is missing on the standby passes the comparison
  of `rill-ha`. The models begin at serial 1.
* `diffRRsets` compares the TTL of the first record only: a rollback between
  versions whose RRset has several TTLs, which only an import can create, may
  list no change (`zones/store.go:402`). `AuditReplays` leaves the TTLs of such
  histories out.
* `rill-reconcile` proposes a PTR where a CNAME stands at the reverse name, and
  for addresses of `-subnet` that lie outside the zone of `-reverse`, which it
  does not compare (`cmd/rill-reconcile/main.go:140`); `Apply` refuses both.
  `ProposalsSettle` is about the other proposals and says that these are repeated.
* A torn last line of the audit log joins the next event, and the reader then
  skips both (`zones/store.go:668`, `api/audit.go`).

### Bounds

* Zones: one zone and two handlers, which meet only through the mutex and the
  files, so two show every interference; the manifest shared by several zones is
  left to the proof of `RolesOfOthersStay`. There is one record set: versions
  are told apart by their serials. Serials 0..2 allow two changes, a zone at the
  limit and an import below the serials reached; three days make the clock jump
  ahead.
* Idempotency: one retained response with two keys forces eviction; ages up to
  `TTL` force expiry; faults are unbounded there, and so are the changes of
  others.
* Blocklist: two clients interleave their reads and updates, of configurations
  that differ in every file, so that any mixture is visible;
  `MaxUpdates` and `MaxFaults` bound the updates and the failures.
* Secondary: `MaxSerial` bounds the changes, `MaxFaults` the failures,
  restarts and changes taken back. `SecondaryReplicates` has one record set:
  with two, a change taken back is the case of `SecondarySerialReuse`. Three zones with one configured is the smallest case in which the
  queue is too small.
* Cloudflare: `MaxId` bounds the record IDs (a batch beyond it is rejected, as
  by a quota), `MaxForeign` the changes of the other writer, `MaxFaults` lost
  answers, failed reads, falling behind, hang-ups and crashes. Two faults let a
  read be late after a failure and during a rollback; the theorems have no such
  bound. The requests change a TTL, a value and a comment, empty a comment
  (where the records of an RRset do not agree on one none is inherited),
  replace one type by another, write a type with spaces, remove an RRset and ask
  for a conflict.
* Telemetry: two domains and a limit of one make counters fall and be deleted;
  a restart may raise or lower the limit. A width of two and a retention of one
  put queries, the clock and a restart on every side of the bounds of a bucket.
* Promotion: ages are told apart up to the limit plus the time of one
  differential check. One zone suffices, as zones meet only in the conjunction
  of the verdict and in the list of errors. In the run a differential check
  takes no time on the clock; the theorems hold for any `DiffTime`.
* Reconcile: three hosts, of which one is not permitted, and two addresses give
  every kind of finding; a third address lies outside the reverse zone. Five
  operations are two imports and three changes, rollbacks or deletions, of which
  one may lose its audit event.

`CHECK_DEADLOCK FALSE` is set for the Cloudflare models and for `Reconcile`,
where the bounds may leave nothing to do.

### Fairness

* Zone store: weak fairness of a running handler. Every wait in it is bounded
  by `verifyCtx`. Requests and CoreDNS are not fair.
* Idempotency: weak fairness of a running request; handlers return.
* Blocklist: weak fairness of the refresh program, which a daily timer
  restarts, and of an update under way. Faults are bounded, so eventually a
  run succeeds.
* Secondary: weak fairness of the goroutine (all queries have a timeout), of
  the ticker and of the retry timers. NOTIFY delivery is not fair: each may be
  lost.
* Cloudflare: weak fairness of a running `ApplyChanges` (15 s and 30 s limits).
  That reads ever catch up is not assumed.
* Telemetry: weak fairness of the restart (systemd), of the two tickers and of
  a save under way. Queries, stops and crashes are not fair.
* Promotion: weak fairness of the jobs that have not stopped, of a
  differential check under way and of repeated preflights; strong fairness of
  the clock, which other steps delay. The replication of a zone is fair only if
  the poll reaches it (`polled`); for the others, discovered zones whose NOTIFY
  may be lost, `EventuallyReady` asks only about runs in which they are as they
  should be. The link need not heal: the property asks only about runs in which
  it does.

## Proofs

The theorems hold for every value of the constants that satisfies the modules'
assumptions: any number of zones, handlers, keys and record sets.

* `ZoneStoreProofs`: `TypeCorrect`, `AlwaysCoherent`, `Durable`,
  `NoUpdateLost`, `PrimariesOnly`, `RolesOfOthersStay`. The properties are not inductive by
  themselves: `NoAckedVersionLost` needs that a handler past `saveHistory` has
  saved what it is about to replace, which needs that the file is still the
  version the handler read, which needs that it alone holds the mutex.
  `Coherent` says this for each step a handler can stand at; the proof has one
  step per action. `RolesOfOthersStay` adds that the copy of the manifest that
  a handler holds is current (`CopyIsCurrent`). `StoreImplementsRegister` is the
  refinement: a zone is mapped to the version before the operation while the
  operation is undecided, and to its file otherwise. Every step is then a
  register step or a stutter.
* `IdempotencyProofs`: `TypeCorrect`, `AlwaysConsistent`, `SuccessesAreTrue`,
  `RetainedNotRepeated` and `RepeatedOnlyIfRecurred`. The inductive invariant is `Consistent`: a running
  request alone owns its key, no response to the key is retained meanwhile, and
  everything remembered as a success has happened. The last one adds
  `SpentIsPast`: the revision that a request in `spent` expects is not the current
  one, whatever other writers do.
* `SecondaryProofs`: `TypeCorrect`, where the queue never exceeding its capacity
  is what the loop over the zones has to keep (`LoopKeeps`), and
  `SnapshotsStayWhole`. The strengthening is `TransfersAreServed`.
* `BlocklistProofs`: `TypeCorrect`, `NoUpdateLost` and `LastGoodIsKept`. The
  invariant adds that an update under way holds the mutex, and what a refresh
  program holds at each point: a whole configuration when it writes or
  publishes, the earlier status when it may have to report a failure. For
  `LastGoodIsKept` the list must be, at every step before the publication, the
  one the program found, and the status still describe what it described then.
* `CloudflareProofs`: `TypeCorrect`, `OthersKeepTheirRecords`,
  `NothingIsOverwritten`, `SuccessMeansApplied`, `RollbackMeansRestored` and
  `CnamesStayAlone`, for any number of clients, faults and late reads and
  without assumptions on them. The first part of the invariant (`IdInv`) says
  that IDs are unique, that an ID never changes the RRset it belongs to, and
  that a batch under way names only IDs of RRsets that were requested. The
  second (`ApplyInv`) says what the code's mutex and read-back achieve: while
  `applyMu` is free and no failure is unsettled, reads show our RRsets as they
  are, attributes aside (`Settled`); and for each step that an operation can
  stand at, what the zone looks like next to what was planned: as read, as read
  with the batch carried out, or as listed by the rollback. Of an
  operation that read while unsettled this is not known, which is where the
  exceptions come from.
* `TelemetryProofs`: `TypeCorrect`, `CountersStaySound`, `TruncationIsReported`,
  `NothingForgottenEarly` and `RingIsTheLastQueries`. The invariant holds for every pair of buckets and true
  counts: in memory, in both copies being saved and in the file. It also says
  that no bucket is further ahead than `Record` lets a query be, for otherwise
  `Load` would drop one.
* `PromotionProofs`: `TypeCorrect`, `ReadyStandbyIsRecent` and
  `ReadySerialsStayRecent`. The first property
  rests on a chain over time: a zone that a differential check under way has
  found equal was equal when its source was read, at most the time elapsed in
  that check ago (`ComparedIsRecent`); a successful report is at most its age
  and the time of its check behind (`ReportIsRecent`); and an equal zone is not
  behind (`SameIsNotBehind`). The second needs of the two
  `zones.json` that a standby with the serial reported by the active node is no
  further behind than that report is old (`ActiveIsReported`), and that the
  standby still has the serial of its own status or took over another one since
  (`StandbyIsReported`).
* `ReconcileProofs`: `LogReplaysToZone`, `OrderNeverMatters`,
  `SilenceMeansAgreement` and `ProposalsAlwaysSettle`, for any zones, requests
  and allowed names. The first and the last rest on `AlwaysSound`: published and
  kept versions are finite sets of records that `validate` accepts. What `Apply`
  makes of a request is followed through the states of its loop (`EditedSteps`): two versions that agree but for the SOA
  go on agreeing, turn by turn, which carries `AuditReplays` over a change
  (`ApplyReplays`). The changes that `diffRRsets` lists for a rollback name each
  RRset once, so that the loop leaves of each what its change says
  (`EditedSeparately`, `RollbackReplays`). `OrderIsFree` comes from the commuting
  of two turns on bags (`ChangesCommute`). For `ProposalsSettle` the proposals
  name different owners, the loop adds just their records (`AcceptingSettles`),
  and no finding about an address changes with them (`SameFindings`).

The assumptions of these modules are about inputs. A zone text is a finite set
of records and a request is a sequence of changes (`RecordsAssumption`). The
names of addresses that are considered lie in the reverse zone and the subnet is
finite (`ReconcileAssumption`); that the reverse zone covers the subnet is not
assumed.

Only model-checked: liveness (`EveryRequestEnds`, `EveryKeyIsReleased`,
`Converges`, `Replicates`, `ErrorsClear`, `EveryApplyEnds`,
`ExpiredIsForgotten`, `FollowsBlocklist`, `EventuallyReady`,
`StoppedJobsAreNoticed`), which depends on fairness and is out of the provers'
reach. Where a proof needs
what a loop does to each element of a sequence, it goes by an induction over a
set of positions (`SetInduction` in `SecondaryProofs` and `ReconcileProofs`),
since the library's induction theorems take an operator.

## Not modelled

* The audit log reader and the history and analytics proxies of the API: they
  only read, and keep no state.
* The control client and the MCP server: each call is one HTTP request without
  retries; the requests are actions of the other modules.
* The web console: pages in front of the API, with sessions in sealed cookies.
* Cache zones and the NOTIFY tool: text generation and one datagram.

Within the modelled components: parsing and rendering of zones and hosts files,
TSIG, metrics, signature expiry, the Cloudflare zone ID cache and pagination,
the wording of answers.

## Plan

1. Done: zone store with its abstract register and proofs; its record
   algorithms; idempotency, blocklists, secondary, Cloudflare changes, telemetry,
   promotion and reconciliation, all with proofs; the allowlist.
2. Done: every invariant and every safety action property that a run checks is
   a theorem without further hypotheses; what the code does not ensure is an
   exception stated in the property or a violation run.
3. Extensions: a primary at serial 0 and re-created zones in `Secondary`; the
   differential check of the active node in `Promotion`.
