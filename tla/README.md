# LeakyCompute: specifications, model checks and proofs

LeakyCompute measures AI inference servers that answer the whole internet. A
Cloudflare Worker answers self-checks and admin requests, one Durable Object
(`DiscoveryControlPlane`) decides whether a packet may leave for a host, a KV
namespace holds the corpus researchers read, and Python scripts run by GitHub
Actions drive discovery through the Worker. The program's promises are about
restraint: no third party is probed more than once per cooldown, opt-outs take
effect before they are acknowledged, what was purged stays purged, and what is
published is the corpus as it is. This directory states those promises and
checks them against the code, which is cited by file and line throughout
(`PROJECT.json`, "map", gives the lines of every definition).

## 1. Inventory

### Components

| Component | State | Operations | Correct when |
|---|---|---|---|
| **Permit path** (`worker/src/control_plane.js`) | tables `nominations`, `attempts`, `permits`, `rate_events`, `exclusions` | `createNominations`, `acquireLease`, `consumePermit`, `completeLease`, `importAttempts`, `runRetention` | cooldown between emissions at a host; rate ceilings; one packet per permit; no packet to an excluded host |
| **Resumable purge** (same file) | `hosts`, `attempts`, `purge_jobs` with two cursors | `addExclusions`, `resumePurge`, all writers of the two tables | a receipt is true when issued and for ever; a resumed purge finishes |
| **Published aggregates** (same file) | `hosts`, `aggregate_generations`, `aggregate_buckets`, `corpus_epoch`, `maintenance_budget` | `upsertHosts`, `retireHosts`, `runRetention`, `runReconciliation`, `currentAggregates` | figures count the corpus exactly; nothing overdue or half purged is published; recounts finish within a daily write budget |
| **Alarm and cron** (same file, `worker/src/index.js` `scheduled`) | one alarm, the promise chain of requests for it | `alarm`, `scheduleEarliestAlarm` and its callers, daily cron | no request forgets an earlier deadline; overdue hosts go; figures are brought up to date |
| **Migration** (`index.js` 1129-1217, `control_plane.js` 996-1059, `lib/discovery.js` 693-750) | rows `migration_*` of `meta` | `handleControlMigration`: rules, a page of each table, checkpoint, completion | what is marked as carried over is in the object; a completed one leaves nothing its rules cover |
| **Source budget** (`control_plane.js` 495-562) | monthly counter | `consumeSourceBudget` | paced over the month, never above the limit less the reserve |
| **Exclusion activation** (`index.js` 1447-1593, `lib/exclusions.js`, `lib/discovery.js` 426-470, `.github/workflows/honor-removal-request.yml`) | KV mirror of the rules, KV corpus, the object's rules and jobs | `handleAdminExclusions`, `purgeExcludedRecords` | the mirror never leads the authority; answers never claim more than was done |
| **Hosted self-check** (`index.js` 454-850) | request-local; KV corpus, abuse log | per service lease, consume, probe, complete; store | every packet has its permit; the answer says what was sent |
| **Discovery probe, owned canary** (`index.js` 1219-1398) | request-local | consume, probe, complete, upsert | an outcome is stored or reported lost, never probed twice for it |
| **KV corpus** (`lib/discovery.js`) | index, per-host records with their markers, counters, attempt ledger, cursors, write budget | ingest batches, record, retire, sweep, purge, recount | counters follow records; the index lists every record; interrupted walks are taken up again |
| **Runner** (`scripts/discovery/run_multilane.py`, `nominate_public_index.py`, `probe_nominations.py`) | lanes, `BucketGate` counters, interval files | collect, filter, allocate, probe | no gate over its bound, none leaked, no deadlock |
| **Researcher allowlist** (`lib/allowlist.js`, `lib/access.js`) | several KV keys per researcher | approve, revoke, lookup | a revoked researcher has no access by any alias |
| **Research lab API** (`lib/lab.js`) | a corpus cached per isolate | list and filter hosts, one host, identity | only researchers read it; an excluded host is shown no more, a deleted one not beyond the cache's life |
| Legacy rate limiter, probe runtime, statistics, advisories, abuse log, hashing, Turnstile, public site, scripts | none or caches | stateless or read-only | outside the scope below |

### How they interact

- The runner nominates addresses it found in public indexes
  (`createNominations`), asks for a lease per nomination and a probe per lease.
  The Worker's discovery handler spends the permit, opens the socket, reports
  completion and upserts the host.
- A self-check makes the Worker lease and spend permits itself, one per service.
- A removal issue on GitHub makes a workflow post the rule; the Worker activates
  it in the object, resumes the purge jobs, rewrites the KV mirror and sweeps
  the KV corpus, and the workflow comments what the answer said.
- A daily cron (and the object's alarm) deletes expired rows and recounts the
  published figures. Where `CONTROL_PLANE_READY` is not set, the cron sweeps and
  recounts the KV corpus instead (`index.js:320-373`). Production sets it
  (`wrangler.toml:48`), so there only an admin's call sweeps or recounts KV, which
  self-checks and ingests go on writing.
- A migration, called until it answers that it is complete, walks KV into the
  object while both go on changing.
- The lab matches an identity against the allowlist and answers from the corpus,
  less what the mirror of the rules covers.
- The object is single threaded and its handlers do not await between reading
  and writing, so each handler is one action here. The Worker's handlers await
  every call, so they are split at each await; KV has no transactions.

### Where it is hard

Forgetting rows must not forget a cooldown; a rule may be filed between lease
and packet; a purge walks tables that keep changing; a recount keeps its staged
figures exact under writes behind its cursor and stops whenever a day's write
budget is used up; overlapping removal requests share jobs and a mirror that is
one KV value; any call between Worker and object may fail before or after its
effect. `PROJECT.json`, "hazards", lists each at its line, with the properties
that cover it or the reason why none does.

## 2. Modules

| Module | Models | Its state in the code |
|---|---|---|
| `ExclusionRules` | what a rule matches, for addresses and systems | `ruleMatches`, `isExcluded` |
| `ProbeParameters` | purposes and durations the permit path shares with its specification | constants of `control_plane.js` |
| `GovernedProbing` | *abstract*: who was granted a probe, what was emitted, which rules stand | none: it is the promise |
| `ProbePermits` | the permit path | `nominations`, `attempts`, `permits`, `rateEvents`, `exclusions` are the tables; `now` the clock of `authoritativeNow` |
| `ExclusionPurge` | jobs, their two cursors and the pages of each status | `hosts`, `attempts`, `exclusions`, `jobs` are the tables |
| `CorpusAggregates` | host writes, recount pages, daily budget, publication | `hosts`; `overdue` is `expires_at < now`; `building`/`published` the generations; `fresh`/`maintained` compare stored epochs with `corpus_epoch`; `used`, `deferred` the maintenance budget |
| `ExclusionActivation` | `handleAdminExclusions` awaited call by awaited call, several at once | `active`, `job` in the object; `mirror`, `records` in KV; `requests` the handlers' local variables |
| `ProbeHandlers` | the Worker's handlers that send traffic, over `ProbePermits` | `handlers` the local variables of each request; `outcomes` is `attempts.outcome`; `hosts` the table; `wire` the sockets opened |
| `MaintenanceAlarm` | who makes the maintenance happen: alarm, cron, eviction; over `CorpusAggregates` | `alarm` the object's alarm; `queue` the chain `alarmScheduling`; `ringing`, `cron` the page loops of `alarm()` and `scheduled`; `due`, `hour` clocks relative to now |
| `Migration` | `handleControlMigration` awaited call by awaited call, over `ExclusionPurge` | `marks` the rows `migration_*`; `calls` the handlers' local variables; `kv` what they read of KV |
| `KvCorpus` | records, index, counts, ledger, sweep and recount in KV | `records` are `discovery:hit:<ip>`; `kv` the index, `geo`, `corpus`, the sweep's cursor, the staged recount, the attempts; `requests` what each request still has to do |
| `ResearcherAccess` | allowlist calls, the lab's gate, its cache and what it shows | `store` the KV rows; `admin`, `lab` the local variables of calls and requests; `cache` is `corpusCache` |
| `*_proofs` | theorems about the module of that name; those about `MaintenanceAlarm` are in `CorpusAggregates_proofs`, those about `ExclusionPurge` in `Migration_proofs`, and what a removal from KV answers is in `KvRemoval_proofs` | |
| `MC*` | values of the constants for TLC | |

### State and actions in detail

**ProbePermits.** `Tick` is time between calls; `CreateNomination`,
`AddExclusion`, `ImportAttempt`, `ConsumePermit`, `CompleteLease` and
`RunRetention` are the handlers of those names. `acquireLease` is split by
purpose into `AcquireDiscovery`, `AcquireHosted` and `AcquireCanary`, which share
`Grant` as the code shares the second half of the function. `PurgeAttempts` is
one page of a purge, deleting any part of the rows the rule matches. A refusal
writes nothing and is not an action. `granted`, `emissions` and `reported` are
history variables: what the handlers answered. Only the freshness of a UUID is
read from one. Services and ports travel unchanged and decide nothing; they are
left out. `createNominations` does not look at the rules and never deletes a
nomination: both are in the model.

**ExclusionPurge.** `PurgeHosts`, `PurgeAttempts`, `RestartHosts` and
`RestartAttempts` are the branches of `resumePurgeTransaction`. Pages are what
`ORDER BY ... LIMIT n` past a cursor returns. A host keeps its system twice, in
the column and in `record_json`, because an upsert without one falls back on the
record (line 842). That line also writes the unknown value into the record, so
the *next* upsert without a system makes the column unknown; `RecordsAgree` is
the relation that does hold. The proofs show the two Restart actions
unreachable: no writer lets a matching row in behind a cursor.

**CorpusAggregates.** Every corpus write goes through `WriteCorpus`: the rows,
the staged generation's adjustment and the epoch, in one transaction.
`runReconciliation` is `RunRetention` (it deletes overdue rows first),
`DeferAbort`, `DeferPage` and `CommitPage`. Epochs are numbers that only grow
and are only compared for equality, so the model keeps the comparison. The
country dimensions are counted like the ASN. A generation left stale by an
earlier release is an initial state, since nothing else produces one.
A stale generation whose abort costs more than a whole day's budget would be
deferred for ever (`DeferAbort`); with 40,000 writes a day that takes 39,993
staged buckets, and in the runs an abort always fits into a fresh day.

**ExclusionActivation.** One action per awaited call: `Load` (the mirror read),
`Activate`, `Resume` (one step of one job), `Store`, `ReadMirror`, `Delete`.
`controlCall` turns exceptions into a 503, so a failing call may or may not have
taken effect; each action has both outcomes. Maintainers add and resume directly.

**ProbeHandlers** extends `ProbePermits` and runs `handleCheck`,
`handleDiscoveryProbe` and `handleOwnedCanary` over it, one action per awaited
call: `Acquire`, `Consume`, `Probe`, `Complete`, `Store`. Each call is refused,
fails before its effect or after it, and the handlers differ in what they make
of that: the self-check answers "No target traffic was sent.", the canary and the
discovery probe pass the refusal on, and only the discovery probe looks at the
reply to its completion. Permits are posted by the runner, perhaps twice
(`StartProbe`), and maintainers may lease, consume and complete without a handler
(`AcquireDiscovery`, `ConsumeDirectly`, `CompleteDirectly`). `RetireHost` is
`retireHosts` with the evidence it asks for. `not_observed` and `target_error` are
one outcome, "silent", because `retireHosts` treats them alike; the several
requests one hosted permit pays for are one probe. Everything before the first
lease (authorisation, Turnstile, ports, the mirror of the rules), the abuse log
and the KV copy of a result are left out, and hosts do not expire within a run.

**MaintenanceAlarm** extends `CorpusAggregates`: each action is one of its
actions together with the requests for the alarm that the handler makes.
`scheduleEarliestAlarm` appends to a promise chain whose links read the alarm and
then set it, so `ReadAlarm` and `SetAlarm` are steps of their own. `Gate` is the
object's input gate: no event is delivered while it waits for its storage. It does
not hold back a handler that is running: `alarm()` awaits the answers of its pages
and never the chain, so `Ring` and its `AlarmPage`s append one request after the
other, read or unread, and an early one is set after a late one has been asked
for. `Ring` and `Cron` run retention, `AlarmPage` and `CronPage` a page each until
the loop of twenty ends; a maintainer's `Reconcile` may come at any time. A row may
be handed in with any dates, so it has any part of its retention left and may be
due at once (`TimesLeft`; a row that never answered keeps its earliest sighting).
`Restart` is an eviction: the chain and a running alarm are gone, the tables and
the alarm stay. Times are relative to now, so that the clock needs no bound.

**Migration** extends `ExclusionPurge`. A call reads the mirror, activates its
rules, resumes a job step by step, reads and upserts a page of hosts, reads and
imports a page of attempts, checkpoints, reconciles, asks for the counts and
completes; each of its calls is answered or lost, before its effect or after, and
the caller may vanish anywhere. Two calls may overlap, which is how a cursor goes
back and how a page is carried twice. Meanwhile KV records and forgets hosts and
the object's writers go on. A row that is no public
unicast address (`unfit`) is refused by the object and passed over, as one a rule
covers is; times are always legible, since the ledger's writer drops those that are
not. `owed` is what KV has held since the beginning and the object has not deleted, `honoured` the rules of a mirror whose call completed.
The KV index is taken to list the recorded hosts, which is what `KvCorpus` is about.
Hosts are paged in the order of their text; attempts are filtered in that order
and sorted in that of the locale, which `rank` gives.

**KvCorpus.** A request is the list of the tasks it has left; a task that updates a
value is a read and a write with anything in between. `StartCheck`,
`StartIngest`, `StartRetire`, `StartPurge`, `StartSweep` and `StartReconcile` queue
the tasks of the functions they name, conditions on what is read being evaluated
when it is read. `SweepThrows` is an error inside the sweep's loop, whose
`finally` block still writes index and cursor; `BreaksOff` is an error
elsewhere or the end of the isolate. `Scheduled` is the cron: a sweep and a recount,
but nothing for KV in a deployment whose control plane is ready (`kv.ready`, which
a behaviour never changes); self-checks record hosts only in such a one
(`StartCheck`). A purge takes the rules that name a host against the index, and
those that name a system against the records of the other hosts listed, `MaxReads`
of them; what it did not read it says in its answer (`answer`, the `complete` of
`purgeExcluded`). The ledger of contacts knows no systems. `geo` stands for the four maps kept in the same way. `Silent` and
`Expire` are time: the retention period and the TTL of the records. A filter is
`Picked`, which names the places it keeps in their order. Three markers are not
labels: that of no record, of a record that was only listed, and of one recorded
before there were markers. `clean` and `lossless` are history variables: whether
anything has happened since that lets the counts, or the index, lag behind.

**ResearcherAccess.** One KV operation per step. Allowlist calls may break off
after any step; lab requests read the email's row, then the researcher's own,
then the mirror, then the cache or the corpus. `decided` records what the
answers of the allowlist said, `revoked` which researchers have been revoked
and are not being approved since, `gone` when a host was last deleted.

## 3. What each run checks

| Run | Question | Result |
|---|---|---|
| `permits` | Do purges, imports, retention, expiry and rules ever shorten a cooldown, or let a window hold more grants than its limit? When can two self-checks of one address overlap? Is every step one the abstract policy allows? (`TypeOK`, `IInv`, `EmissionSpacing`, `RateCeiling`, `HostedOverlap`, `GovernedSpec`) | holds |
| `permits_asn_pause` | Does discovery pause as soon as an ASN-wide rule exists, as `docs/SECURITY.md` says? (`DiscoveryPausedByAsnRule`) | violated: a permit leased before is still consumed |
| `handlers` | Can a replayed permit, a lost reply, a late rule or an overlapping request send something unrecorded, answer success for an exposure that is not stored, or retire a host on old evidence? (`HandlerInv`, `TrafficAccounted`, `ExposureStored`, `RetiredOnEvidence`) | holds |
| `handlers_no_traffic` | Is "No target traffic was sent." answered only if none was? (`NoTrafficMeansNone`) | violated by a self-check refused at its second service |
| `purge` | Is a receipt true whatever is written meanwhile, and does a resumed purge finish? Do migration calls that fail, repeat and overlap lose a page they mark as carried over, or complete with something their rules cover? (`ReceiptSound`, `PurgeInv`, `PurgeFinishes`, `MigrationInv`, `CarriedOver`, `CompletedClean`) | holds |
| `aggregates` | Are staged and published figures exact, is no bucket driven below zero, is nothing overdue or half purged published? (`AggregatesInv`, `NoUnderflow`, `PublicationClean`) | holds |
| `maintenance` | Can requests that interleave, an eviction or the write budget forget a deadline, keep an overdue host or leave the figures stale for good? (`AlarmInv`, `AlarmSet`, `ExpiryServed`, `FiguresRefresh`) | holds |
| `activation` | Does any interleaving or failure let the mirror lead the authority, or an answer claim too much? (`ActivationInv`, `AuthorityFirst`, `AnsweredActive`, `CompletionConfirmed`) | holds |
| `activation_sweep` | Does "deletion complete" mean the KV corpus holds nothing the request covers? (`NothingLeftBehind`) | violated by two overlapping requests |
| `activation_refile` | Is a deletion reported as pending only when some step did not finish? (`PendingForAReason`) | violated once any earlier job is complete |
| `kv_corpus` | What makes the KV counts drift, does the index lose hosts, does a removal claim more than it has done, and do quiet nights repair counts and index where the cron keeps them? (`CorpusInv`, `DriftHasACause`, `IndexComplete`, `DeletionComplete`, `Settles`) | holds |
| `access` | Does a revocation that was answered close every door, do answers of the allowlist mean what they say, what does the lab show after a rule or a deletion? (`AccessInv`, `AccessAsDecided`, `RevokedStaysOut`, `ExcludedHidden`, `DeletedHidden`) | holds |

Every property of a passing run has a mutant of the code model that breaks it
(`PROJECT.json`, "mutants"); the mutants stand next to the definitions they
change and nothing else uses them.

### Findings

1. **Discovery is not paused between lease and packet** (`control_plane.js:1692`).
   `acquireLease` refuses discovery while any ASN-wide rule stands;
   `consumePermit` only tests the permit's own address and the index's ASN. A
   permit lives 60 s, so the window is short.
2. **Overlapping removal requests lose a rule from the mirror** (`index.js:1544`)
   and the earlier one may answer `deletion_complete` after a sweep that did not
   know its rule. The object still enforces the rule (`AuthorityFirst`,
   `AnsweredActive`), so no packet leaves; records stay in the KV corpus.
3. **A request that meets a finished job answers "pending"** (`index.js:1512`).
   No receipt is fetched for a job that was complete already, so after the
   first honoured rule every later request reports an unconfirmed purge.
4. **"No target traffic was sent." after traffic** (`index.js:726`). The self-check
   leases service by service. A gate that closes on a later one (a rule filed in
   between, the previous completion lost so that the check finds itself in
   progress, the object unavailable) discards the results so far and says that
   nothing was sent; an exposure found by then is neither told nor stored.

### Where the code falls short of its comments and the properties say so

These are in the models as the code has them; the properties that hold name the
exception, so they say exactly how far the promise goes.

- **Permits and purge.** An upsert that does not know the ASN keeps the column but
  overwrites the record's (`control_plane.js:842`), so the next one makes the row
  AS-UNKNOWN and out of reach of a purge by ASN. The second pass over attempts
  starts at the first pass's last cursor (line 1123), so it reads nothing that
  decision 0002 line 49 wants verified; receipts are true all the same, because
  every writer refuses a row a rule covers (`ReceiptSound`).
- **Alarm.** An alarm that is due but has not fired yet is set anew by the next
  request (`control_plane.js:1240`, although the comment before it says that
  the earlier deadline is preserved). Callers that keep writing may postpone it;
  the cron is what `ExpiryServed` and `FiguresRefresh` then rest on.
- **Migration.** `migrationAttemptPage` filters by the text of the address and
  sorts by locale (`lib/discovery.js:743-744`). They disagree for IPv6 addresses
  such as "2a0::" and "2a::": the cursor then passes an attempt that was not carried
  over, whose cooldown the object does not know. `CarriedOver` names exactly
  those (`Overtaken`). The counts a completion is compared with come from the
  object's own health answer, so they never compare the object with KV and can
  differ only through writes between the two calls.
- **KV corpus, recounts and listings.** A host that a listing named enters no count
  when it is recorded (`lib/discovery.js:153-157`), and
  `worker/test/retention.test.mjs:679` says that it "enters no public aggregate".
  The recount goes by the records' fields and not by their markers, so it counts
  such a host in every map and in `reverified_hosts` (line 1311), and when the host
  goes its marker gives nothing back. `PublishKey` does as the code does;
  `MarkersAgree` is what a recount needs for its figures to be those of the markers.
- **KV corpus in production.** `scheduled` returns before the sweep and the recount of
  KV when the control plane is ready (`index.js:320`), as `wrangler.toml:48` sets it,
  while self-checks and ingests go on recording hosts there. The comments
  (`lib/discovery.js:209-211`, `index.js:316-317`) have the sweep keep ahead of KV's
  expiry "so the aggregates above are decremented by a real deletion". Unless an
  admin calls for a sweep, a silent host now goes by that expiry, and index and
  counts keep it; they are served when the object is not available
  (`index.js:433-437`). Figures of the object are not concerned.
- **KV corpus.** A recount takes its snapshot from the index but its records as each
  night finds them, so its pages mix states (`lib/discovery.js:1246-1275`); an
  ingest screens the exclusions once, so a rule filed and purged before its put is
  written back. Complete requests that follow one another may make the counts drift
  too: a recount counts what was only listed, leaves out a host that a
  full index has dropped, and misses what changed between its pages.
  `DriftHasACause` lists these causes and says that there is no other; it does not
  say that counts are right. `Settles` says that quiet nights mend them, by the
  recount's own reckoning and only where the cron keeps KV. A rule that names a
  system matches records and not the ledger, which stores none
  (`lib/discovery.js:460`): contacts of a removed system's hosts stay noted unless
  the host itself goes. A removal that ran out of reads leaves records and says so
  (`DeletionComplete`); `IndexComplete` therefore speaks of rules by address.
  Retiring a host also drops the note of the attempt that showed it silent, the
  re-probe clock the comment at 333-347 describes.
- **Allowlist.** An approval that breaks off after its first write leaves an entry
  that lists an email whose own row was never written. The email can then be
  approved for another researcher, and revoking the first closes that row
  too: `revokeResearcher` does not check whose it is (`lib/allowlist.js:109-112`),
  as `approveResearcher` does. Nobody gets in who should not (`RevokedStaysOut`
  holds throughout), but somebody approved may be shut out: `AccessAsDecided`
  holds only while no call has broken off or overlapped another (`clean`).
  A row once written is only deactivated, so the emails of a revoked researcher
  stay in use.

## 4. Bounds and why they are enough

| Bound | Value | Why |
|---|---|---|
| addresses | 1 or 2 | cooldowns, overlap and rules are per address; the second shows that one address's rows do not stand in for another's, and gives pages a row behind and a row ahead of the cursor |
| leases, nominations (`LeaseId`, `NominationId`) | 2 or 3 | two grants make a spacing, three fill a limit of two and test the next |
| `Worlds` of `MCProbePermits` | discovery of both addresses with two leases, or self-checks and canaries of one with three, one unit of time less and at most one rule | the properties of the two purposes share only rules, purges, retention and time, which act in both |
| clock (`MaxTime`) | 1 to 4 units of 60 s | cooldown 3, permit lifetime 1, provenance 1, so that a second lease after the first cooldown happens; the order of the durations is that of the code, `PermitAssumption` states what is used of it |
| rate limits | 1 to 3 | the scopes reach their limits in the run but for `active_global_minute` and `hosted_global_day`, of which `RateCeilingHolds` speaks for every limit |
| `Handler` | 2 requests | a replayed permit or an overlap needs two; the safety properties are proved for any number |
| `Service` | 2 | a later service after one already probed |
| page sizes | 1, or 1 and 2 | one row per page puts a write between any two rows |
| `Input`, `BatchLimit` | 3 records, 2 per call | an answer, an answer attributed elsewhere, a passive row |
| `WriteLimit` | 5 | two pages never fit into one day |
| `Life`, `DayLength`, `AlarmPages` | 2, 2, 2 | a host that lives a whole day, nearly one or not at all; alarms before and after midnight; a loop that ends by its limit, and up to five requests in the chain, which needs no bound of its own because `Tick` waits for it and the loop ends |
| `PageLimit` of `MCMaintenanceAlarm` | 2 | a page of retention takes all that is due; with less, callers that hand in dead rows as fast as they are deleted can keep one for ever, so `ExpiryServed` is about nights that fit into a page of 500 |
| evictions (`lost`) | 1 | a second one before anything else meets the state the first one left |
| `Request` of `ExclusionActivation` | 2 | one overlap; `HandlerInv` there speaks of one request at a time, and the proof covers any number |
| `ResumeLimit` | 2 | the last allowed step differs from the first |
| `Caller`, `KvPageSize`, `Worlds` of `MCMigration` | 2, 1, six worlds | any writes and no migration; three calls under a rule; two calls beside one write, one beside two; three calls with the two orders of attempts opposed; three calls over a row the object refuses. `MigrationInv` is proved for any number |
| `Client`, `Label`, `Contacts` of `KvCorpus` | 1, 2, a batch of both hosts and a listing | an overlap of the caller and the cron, a host that changes its bucket; where the cron does not keep KV a run has one request at a time, and `CorpusInvariant` covers any number |
| `MaxReads`, `Ruled` | 1, one host and one system | a removal by system that reads every record, and one that runs out of reads |
| `ScanLimit`, `DeleteLimit`, `PageSize` / `AdminPage`, `MaxIndex` | 1, 1, 1 / 2, 3 | sweeps and recounts take several nights, an admin's one |
| `EventLimit` | 2 | requests made by callers, errors and legacy hosts together: two requests that follow one another, one that breaks off or meets a legacy host; the cron is not counted |
| rules in `MCProbeHandlers` | one system, that of the one address | once it is filed it covers every host of the run, so `ExposureStored` and `RetiredOnEvidence` have nothing left to say there; the theorems speak of the hosts beside it too |
| `Admin`, `Session`, `Budgets` | 2, 2, three mixtures | three allowlist calls, two lab requests and three changes, two calls beside one request; `RevokedStaysOut` and the two after it are proved for any number |

## 5. Fairness

- `PurgeFinishes` assumes `WF` of resuming each rule's job. In the code a job
  moves when a request files rules (its own handler resumes up to twenty steps), a
  migration meets it, or a maintainer posts to the resume endpoint; *no alarm or
  cron does it*. So this fairness is the operators' duty, and a purge nobody
  resumes also stops reconciliation (`runReconciliation` answers `purge_pending`).
- `ExpiryServed` and `FiguresRefresh` assume that time passes (`SF(Tick)`), that
  storage answers (`WF(Scheduling)`) and that some background work goes on
  (`SF(Background)`: the alarm, the cron or their pages). Strong fairness, because
  callers may disable either again and again; of *some* of it only, so the alarm may
  be late for ever and the daily cron has to do. `FiguresRefresh` has two premises:
  from some time on no purge is pending, which is the operators' duty again, and
  callers hand in no more rows that are due already, each of which would have to
  go before a page may be counted. Hosts that become due with time are no exception.
- `Settles` assumes that the cron comes every night (`WF(Scheduled)`) and that
  requests that have begun go on (`WF(Step(p))`); `EventLimit` ends the callers. It
  is about a deployment whose cron keeps KV (`~kv.ready`), where that is the code's
  scheduling; production's is not such a one, and nothing of the kind holds of it
  (section 3). Counts are settled if no host is left that was only listed, since
  recounts count those too.
- Nothing is assumed of callers in any safety property.

## 6. What is proved

All theorems hold for every value of the constants that meets the named
assumptions (`RuleAssumption`, `ParameterAssumption`, `PermitAssumption`,
`HandlerAssumption`, `PurgeAssumption`, `AggregatesAssumption`,
`ActivationAssumption`, `AccessAssumption`, `CallAssumption`,
`MigrationAssumption`, `AlarmAssumption`, `KvAssumption`).

- **ProbePermits.** `TypeCorrect`, `CooldownInvariant`, `InductiveInvariant`,
  `EmissionSpacingHolds`, `RateCeilingHolds`, `HostedOverlapHolds`,
  `PermitsImplementGoverned`. `IInv` has three parts. Emission spacing alone is not
  inductive: rows that carry a cooldown are deleted by purges, retention and
  imports. `CooldownHeld` (in `CooldownInv`) says who holds a running cooldown
  instead: an attempt row that asks for at least as long, or a rule that bars the
  address for good. Retention keeps rows at least a cooldown (`AttemptClock`, and
  `Cooldown <= AttemptRetention` of `PermitAssumption`), imports replace only older
  rows, and purges delete only what a rule covers. Spacing of grants follows, and
  with `EmissionsGranted` that of packets. `SpentLeases` and `GrantsOnce` make a
  permit good for one packet. `PacingInv` is about windows: the handler counts rate
  events, which retention deletes, while the promise counts grants, so it keeps for
  every grant still inside a window the event it left (`EventsKept`); the ceiling
  then follows because distinct grants leave distinct events (`CountedByEvents`).
  It also says that the row of a self-check under way keeps the next one waiting for
  a permit's lifetime (`HostedHeld`), which needs `PermitTtl <= AttemptRetention`: a
  minute against months. `RowsBacked` ties every row to the grant it came from.
- **ProbeHandlers.** `TrafficInvariant`, `HandlersUsePermits`, `TrafficIsAccounted`,
  `HandlersInvariant`, `ExposureIsStored`, `RetirementNeedsEvidence`: what `index.js`
  655-657 says of crash, replay, late opt-out and overlap, and that what is stored
  or retired is backed by a probe. In `TrafficInv`, `Rightful` says what a request
  relies on at each stage; the step that needs the most is consumption, where
  `SpentLeases` of `ProbePermits` shows that no emission of the lease existed, hence
  no probe and no other request at the socket. `HandlersUsePermits` shows each step
  of the composition to be one of `ProbePermits`, so the theorems above hold beneath
  the handlers. `EvidenceInv` is the part that retirement and storage need: what is
  reported of a lease was found by a probe on that lease, and a request that has seen
  an exposure keeps the address in the corpus unless a rule or a later silent
  probe takes it (`Evident`). `RetirementNeedsEvidence` is an action property, from
  the same invariant.
- **ExclusionPurge** (in `Migration_proofs`). `PurgeInvariant`, `ReceiptIsSound`. No matching row lies
  behind a cursor; what makes it inductive is `JobsActive` (writers refuse
  matching rows from the instant the job exists) and `RecordsAgree` (an upsert
  cannot revive an attribution the column did not have).
- **CorpusAggregates.** `AggregatesExact`, `NeverUnderflows`, `PublishesClean`.
  `BuildingExact`: a maintained generation counts the rows up to its cursor as
  they are now. Non-negative buckets follow, since a bucket counts at least
  the rows that are deleted from it.
- **MaintenanceAlarm** (in `CorpusAggregates_proofs`, whose step lemmas it uses).
  `AlarmInvariant`, `AlarmIsSet`. `AlarmSet` speaks of moments when nothing is
  queued; the invariant follows each deadline through the chain instead: it is met
  by the alarm or by a request in the queue (`Met`), and what the head of the queue
  has read of the alarm is still true when it sets it (`QueueSound`), so settling a
  request leaves the earlier of the two. The queue may be of any length and its
  requests in any order of their times, as an alarm that recounts page by page
  leaves them; rows may be due when they are handed in. While the alarm runs it owes the
  deadline of the recount, and every way out of its loop asks for a new one. That
  the figures stay exact (`AggregatesInv`) is part of it: a fresh generation is what
  ends the loop without a request.
- **ExclusionActivation.** `ActivationInvariant`, `AuthorityAlwaysFirst`,
  `ActiveAnswersHold`, `CompletionAlwaysConfirmed`. Its `HandlerInv` says, stage by
  stage, what a request may rely on; it is monotone in the object's rules and
  complete jobs, so other requests never disturb it.

- **Migration.** `MigrationInvariant`, `MigrationCarriesOver`,
  `MigrationCompletesClean`, and `MigrationKeepsReceipts`, which carries `PurgeInv`
  over to the composition. `CarriedOver` speaks of marks, but a mark is written
  by a call from what it read long before, beside another that does the same. The
  invariant therefore says of the marks *and* of every call's own cursors and flags
  that what is owed behind them is in the object, or, in the call, in the page it
  has in hand. Owed is what KV has held since the beginning, unless a rule covers it
  or it is no public address: the object refuses both, and no cursor waits for them. The rest is monotony (`Frame`): what is owed only shrinks and what
  has been carried stays carried, so a stale cursor is as sound as a fresh one.
  `CompletedClean` follows from the receipts: at completion every rule of the call's
  mirror has a job and none is pending.
- **ResearcherAccess.** `ServedInvariant`, `RevocationHolds`, `ExclusionHolds`,
  `DeletionHolds`; `AccessInvariant`, `AccessIsDecided`. In `ServedInv`, a revoked
  researcher's own entry is inactive or absent, and stays so through every allowlist
  call that does not approve them; a request that passed the gate afterwards would
  have had to read it active. For rules and deletions the invariant says what a
  request has seen since it began, and that a cached corpus older than a deletion
  outlives it by at most the cache's life. `SettledInv` is for calls that run alone:
  everyone's entry, copies and decisions agree (`Agrees`), except those of the one
  researcher a call is writing, of which `LoneCall` says what has been written and
  what is still to do. That the call disturbs nobody else needs `Owns`: an email
  once approved stays its researcher's, because rows are deactivated and never
  deleted. `CallAssumption` is that the value for "no call" is not a call.

- **KvCorpus.** `CorpusInvariant`, `CorpusTypeCorrect`, `DriftIsExplained`,
  `IndexStaysComplete`, and `RemovalAnswersTrue` in `KvRemoval_proofs`. The first two properties speak of moments when no request is at
  work, and in between neither is true: a record is written before or after its
  counts, a host is listed last, an index is rewritten while the hosts it leaves
  out still go. `CorpusInv` speaks of what the requests have left instead. `After`
  applies the changes at the head of a request to counts and records, `WithBatch`
  adds what its batch owes, and `BalanceInv` says that the outcome balances. A
  task that gives way to the tasks it leads to must leave this outcome alone: for a
  record that is written or deleted this is that a host leaves one bucket for
  another (`CountsMove`); for a batch, that what it staged is what the counts lack
  (`Owing`), so no count is clamped at zero when it is paid. `ListedInv` says the
  same of the index: what is held is listed or about to be, an index about to be
  written lists all that will be left, and so does what a walk kept together with
  what it has not reached. `RulesInv` says that what a rule names by address is still to be
  removed and that nothing brings it back. All of this is said of a request that
  nobody disturbs (`AloneInv`: what it has read is still so); `TypeOK` holds of
  every request and says in which order tasks may stand (`InOrder`), on which the
  rest depends: changes of counts first, an index written after the hosts it leaves
  out. `RecountInv` is the part for recounts: one that began and ended alone, and
  found no record changed between its pages, publishes what the listed records say
  of themselves. Whether that is what their markers say is another question
  (`MarkersAgree`), and where it is not, `clean` ends: `DriftIsExplained` is the
  list of everything that can make counts and markers part. `RemovalAnswersTrue`
  rests on a second invariant, `RemovalInv`: a purge that will answer complete
  still has before it, to read or to delete, every record of a system it was asked
  to remove. `IndexComplete` and `DeletionComplete` have two premises the code makes
  necessary: requests that overlap may lose a host from a value read before the
  other wrote it, and a full index (`MAX_INDEX`) drops its oldest hosts by design.
  `KvAssumption` says that there are finitely many
  hosts, that hosts, labels and the three markers that are not labels are told
  apart, that a rule names a host or a system that is known, and that limits are
  positive.

Only model-checked: the liveness properties `PurgeFinishes`, `ExpiryServed`,
`FiguresRefresh` and `Settles` (fairness and ENABLED are beyond the prover). Every
invariant and every action property of a passing run is a theorem. The properties
of the runs that end in a violation are false of the code and are not.

## 7. Plan

The permit path and its abstract specification came first, then the purge, the
aggregates, the activation and the handlers over the permit path: the parts whose
failure would reach a third party. The stores behind what is published and read
came next: the KV corpus, the alarm, the migration and the researchers' access.
In order, what is left:

1. The write budget of ingests in `KvCorpus`, checked before a batch and charged
   after it, and the cursors of the collection lanes.
2. Composition: `ProbeHandlers` with `KvCorpus` and `ExclusionActivation` (a
   self-check's late KV write against a sweep).
3. The runner: `BucketGate` under its thread pool, fair allocation, and the source
   budget's monthly pacing as pure functions against reference definitions.

## 8. Not modelled, and why

- **Source budget** (`control_plane.js` 495-562): one transaction over one counter;
  its limit is arithmetic on the date, with which nothing interleaves.
- **Runner** (`BucketGate`, lanes, intervals): a courtesy of the client on top of
  the limits of the control plane, which are modelled. Its gates are two counters
  taken in one order by every thread.
- **KV corpus**: the write budget of ingests, lane cursors, the summary of
  vulnerabilities and the daily series only count or travel; the age at which
  ledger entries are dropped, the caching of KV at the edge and its eventual
  consistency (every read here sees the last write).
- **Lab**: filters, facets, figures, file formats, redaction and the disclosure
  window are functions of the rows that are left; the rate limit and the pages of
  the site; verification of the identity's signature.
- **Stateless code**: socket input and output, HTTP parsing and response
  classification are functions of what a host answers. Abuse log, hashing, CORS
  and Turnstile are calls to external services. Statistics, advisories and the
  public site read and present. Address parsing and CIDR arithmetic are bit
  work inside one call; rules are sets of addresses here.
- **Legacy KV rate limiter**: serves the test transport only.
- **Build, deployment, collection and provenance scripts** keep no state of the
  system; what they hand over is checked again by `createNominations`.
