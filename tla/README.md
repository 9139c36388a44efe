# Verification of checkin

TLA+ models, TLC model checking and TLAPS proofs for the system in this
repository: a makerspace's memberships, front door and programmes, and the services
that watch it and feed it. Six machines are modelled: the membership process, the
attendance register, the kiosk's queue with the scan route behind it, programme
enrolment with the seats on sale, the monitoring pipeline, and the Shopify ingest.
Each has theorems as well as runs.

## 1. The system

One web application (Lambdas over one PostgreSQL database), a kiosk at the door,
and small scheduled functions.

| Component | State it keeps | Operations | What makes it correct |
|---|---|---|---|
| **Membership process** (`lib/membership`: lifecycle, intake, external, payment, archive, renewal) | `OrgMembershipProcess` rows (status, consent, signature, clearance, payment, archived pre-image), `OrgMembership.status` and `isVolunteer` | start, submit, sign, consent, advance, settle dues, archive, restore, open and begin a renewal; grant, import, deny, revoke the standing | ACTIVE only with dues *and* check; one application under way; documented transitions only |
| **Background-check review** (`review.ts`, `conflictOfInterest.ts`) | attestations of a row, `Person.lastBackgroundCheck` | attest, clear, board reset, board override | two approvals of one adult by two other households; a rejection blocks |
| **Personal checks and agreements** (`personBg*.ts`, `personAgreementTriggers.ts`) | `PERSON_BG` and `PERSON_AGREEMENT` rows | open (sweep, activation, board), submit, sign | one open obligation per person; ACTIVE only when cleared or signed |
| **Participant merge** (`mergeBgAdvance.ts`, merge route) | moves one person's data to another; carries a newer check over | merge, stamp, clear held rows | never ends a review that a human has begun |
| **Attendance** (`scan-service.ts`, `attendanceTransitions.ts`, `presence/`, `facilityLock.ts`, `api/attendance`, `api/facility`, nightly cron) | visits, held arrivals, force-close tokens | scan in and out, manual entries and corrections, close the building, flush what was held, nightly close | nobody signed in without a keyholder; nobody signed out by surprise; every visit ends |
| **Kiosk outbox and scan route** (`client/outbox.py`, `client.py`, `api/scan`) | SQLite queue of scans; badge log, parked events | post, queue, drain, dead-letter; log, debounce, park, apply | a scan is recorded once, and one person's scans take effect in order |
| **Programmes** (`programs/`, `program/capacity.ts`, finance-ops routes, `shopify.ts`) | participants, scholarship holds; the store's inventory | enrol, pay, request, approve, refuse, withdraw, expire | the cap; a held seat is returned once or consumed |
| **Alert outbox and relay** (`monitoring-db/outbox.ts`, `lock.ts`, relay function) | outbox rows, the drain lock | claim, publish, mark, dead-letter, requeue | sent means published; repeated only by a fault |
| **Heartbeats, watchdog, incidents** (`heartbeat.ts`, `incident.ts`, watchdog function) | heartbeats, re-notify windows | beat, judge, record | an outage that lasts is told, once a window |
| **Shopify ingest** (`s-ingest-core`, `s-read`, `s-replay`) | raw log, live rows, watermarks, bulk state | walk, backfill, replay, re-ingest, reset | nothing slips behind the watermark; live rows catch up |
| Household leads, trusted adults, Zoho session, webhook receipts, finance reports, interface, mail | — | — | not modelled, section 6 |

The components meet in the database. The membership machine is driven by
applicants (the web routes), by the board (the ops routes), by reviewers, by the
Zoho webhook (a signature) and the Shopify webhook (a payment), by nightly sweeps
and by the participant merge. Attendance is driven by the kiosk's scans, the
dashboard, staff and a nightly cron; enrolment by families, the board, the Shopify
webhook, a reconciler and a cron. All of these are requests in parallel Lambdas;
what orders them is the row lock of the transactions that take one, the condition
of the `updateMany` calls that carry one, the advisory locks of scans, arrivals and
scheduled functions, some unique indexes, and nothing else. The kiosk meets the
server over a network that loses and delays; enrolment meets the store by calls
made after its transactions; the relay meets SNS, and the ingest meets the store,
under locks that live in a database session and go with it.

**What is hard about it.** Handlers read, decide and write in a later transaction
(archive, override, reset, submit, enrol, activate, check out); the two tracks of an
application finish in either order and must meet; webhooks are late or repeated;
two keyholders leave at once; the sweep that closes the building runs after the
commit that decided it; answers are lost, and what was sent is sent again; a call
to the store fails, or times out and was applied; a Lambda dies between two steps or
loses the session that holds its lock. `PROJECT.json` lists these hazards with their
lines.

## 2. The modules

| Module | What it is |
|---|---|
| `MembershipLifecycle` | The vocabulary of `lifecycle.ts`: statuses, kinds, in-flight sets, the reviewer-queue predicate, the transition table. |
| `MembershipProcess` | The membership machine: one action per transaction of every handler. |
| `MembershipProperties` | What must hold of it, and the refinement mapping to `TwoTrackGate`. |
| `TwoTrackGate` | The abstract promise: a row becomes a membership exactly when it is paid and cleared. |
| `MembershipProofs`, `StandingProofs`, `TwoTrackGateProofs` | Its theorems. |
| `FacilityRegister` | The abstract promise of the front door: who is in, and that nobody is in without a keyholder unless the building is being closed. |
| `Attendance`, `AttendanceProperties`, `AttendanceProofs` | The visits and the handlers that write them; what must hold; that the handlers implement `FacilityRegister`, proved. |
| `KioskOutbox`, `KioskProperties`, `KioskProofs` | The kiosk's queue, the network and the scan route; what must hold; its theorems. |
| `Enrolment`, `EnrolmentProperties`, `EnrolmentProofs` | One programme's places and the store's seats. |
| `Monitoring`, `MonitoringProperties`, `MonitoringProofs` | Heartbeats, watchdog, outbox and relay as one pipeline. |
| `ShopifyIngest`, `IngestProperties`, `IngestProofs` | The orders stream: store, log, live rows, watermark. |
| `MC…` and the `.cfg` files | Small instances for TLC. |

### Membership

`proc[p]` is a row of `OrgMembershipProcess`. Nullable timestamps become booleans:
`signed` (`contractSignedAt`), `consent` (`bgConsentAt`), `cleared` (`bgClearedAt`),
`paid` (`paidAt`). `from` is `archivedFromStatus`; `attests` are the row's
`BackgroundCheckAttestation`s; `home` is the household of its membership and `subject`
its `subjectPersonId`. `basis` has no column: it is the provenance the audit row of a
clearance records (two reviewers, a still-valid check, a merge, the board), kept as
state so that properties can speak of it. `membership` and `volunteer` are
`OrgMembership.status` and `.isVolunteer`. `valid` is the set of persons whose
`lastBackgroundCheck` still covers the membership year, which is all that the code asks
of that date. The standing is written from two sides: together with a row (`Settle`,
`ClearBackgroundCheck`), and alone by the ops routes, which grant, import, deny, restore
and revoke it whatever the household's rows are doing. `calls[r]` is a handler between
two of its transactions, with what it has read.

A step is one database transaction, or one conditional write. A handler that reads under
the row lock, or whose `updateMany` rechecks what it read, is one action (`Approve`,
`Reject`, `Settle`, `BeginRenewal`, `MarkContractSigned`, `OpenPersonBg`). A handler
that decides on an earlier read is two: `RequestArchive` then `Archive`,
`RequestOverride` then `Override`, `RequestReset` then `Reset`, `SubmitIntake` then
`RecordSubmission`, `StartIntake` then `CreateIntake`, `ListForRenewal` then
`CreateRenewal`, `RequestRevoke` then `Revoke`, and the mark followed by `Advance`.
Between the halves any other step may come, and `Abandon` lets the handler die there.
The merge is a handler with four stages, each of which takes up rows one by one under
its locked recheck and may miss rows that arrive after its listing. A write the unique
index refuses (`Clash`) leaves everything as it was.

Two reads are merged with the write that follows them where nothing turns on it: the
freshness that `beginRenewal` reads before its `updateMany` (`renewal.ts:262-270`), and
the row's update and the volunteer flags of a submission (`intake.ts:444`, `:466`).

`Spec` allows all of this. `SerialSpec` has the same actions and lets a new handler
arrive only when none is under way (handlers may still die half-way, and the ops routes
may write the standing at any time); the properties that the stale writes break in
`Spec` are checked under it, and the breaking runs are kept as findings.

### Attendance

`visit[p]` is a person's latest visit (its number, whether it is open, whether a
`forceCloseToken` is stored), `held` the people whose arrival was parked because the
building was closed, `night` the list the nightly pass has still to close, `calls`
the handlers between two steps. A scan holds the person's advisory lock from its
read to its commit (`LockFree`), an arrival decides under the facility lock and is
one step, web departures hold no lock. The last keyholder's departure leaves a
`sweep` behind, which is `runFacilityClose` after the commit. `Roster` copies are
what a closing decision saw, so that a property can compare it with what the sweep
does.

`lapsed` turns TRUE when the code's guards do not cover what happens: two keyholders
leave at once, each counting the other; a staff correction or roster mark asks no
guard; a sweep or a nightly checkout fails, which the code logs and drops; somebody
arrives while the nightly pass runs. Everything promised is promised until then,
and the abstract register's `Excuse` is exactly that. What the properties exclude is
therefore a list of four named causes and not a general escape.

### Kiosk and scan route

`scan[n]` is the n-th badge read: who, at which kiosk, the direction displayed, the
stamp of the kiosk's clock, whether it was marked `clock_suspect`, and where it is
(posted, pending, dead, done, rejected, lost). `net` holds the requests on their
way; a request nobody waits for any more may still be served, or be dropped. `log`
counts the rows of the server's badge log per scan, `effects` are the scans that
were applied, `ignored` those the debounce took, `inside` who has an open visit, `latest`
each person's newest activity. The scanner thread and the drain thread of a kiosk are
separate, and `Crash` forgets the scan in hand and keeps the queue.

The scans are members'. Of the keyholders the module has that one is in (`open`), that
they leave, and that one comes and flushes what was held (`KeyholderIn`, which is
`flushParkedClosed`); `Attendance` has the rest of them. `parked[n]` is the time at which a
scan held as PARKED_CLOSED occurred. A flush takes held scans in the order of that time
and looks at nothing newer. `missed` are the scans that a flush, or an entry by hand of
their person, passed by while they were held or being applied; `collided` are the arrivals
that ran into a visit opened meanwhile, were rolled back and answered as duplicates. The
two are records of the model, for the properties to name what they except.

Time is counted in scans: scan n is read at 2n, and a clock that is ahead stamps it
beyond anything else; `SetClock` sets it right, which the next badge notices
(`ClockWatch`) unless a restart comes first. A scan's transaction is one step together
with its answer (`Serve`), but for an arrival that may be applied, which holds the
person's lock over two: `TakeUp` reads whether the person is in and whether a keyholder
is (`project.ts:45-65`), and `Arrive`, under the facility lock, holds it, creates the
visit, or fails on the index of open visits (`Hold`, `SignIn`, `Collide`). In between a
flush, which takes no person's lock, may open the visit, and keyholders may come and go.
An entry by hand (`EnterByHand`) takes the person's lock. An answer that does not arrive
is a request that was abandoned before it was served. The debounce window is left open,
so any scan after another of the same person may fall in it; a replay may always be too
old for the freshness window. How long the drain rests is left open too: it may send a
row again while an earlier request of it, given up or sent before a restart, is still at
the server (`awaited` tells them apart). One assumption on time is made: a person is put
on file, or a merged badge found again, later than any request of theirs that nobody
waits for is worked on (`PutRight`). Such a request is at the server for 20 seconds at
most; the other takes a human.

### Enrolment

`row[p]` is a `ProgramParticipant` (status, `inventoryHeldAt`,
`isPaymentPlanRequested`, `paymentPlanDeniedAt`), `pool` the seats the store has on
sale, `off` those sold, given away, consumed, or missing because an adjustment
failed and was reported to the admin. A step is one compare-and-set or transaction,
one read that is decided on, or one call to the store. The call to the store comes
after the commit and is a handler of its own (`Store`), so that others interleave
and a Lambda may die before it.

`lapsed` records that the seats went out of step with nobody told: a handler died
before its call, two edits of the cap crossed, an activation relied on a stale read of
the hold, a roll-back met another stint of the same row, a call that timed out had
been applied, the store gave no token (`shopify.ts:487-493`: a warning in the console, and
nobody is told), or the board's confirmation by hand did not happen. `overfull` records
that a place was given beyond the cap by an override or around an edit of the cap; it
falls again with the count.

`GraceIsSet` is whether the board has set `scholarshipDenialGraceDays`. Unset, the grace
sweep does nothing (`docs/rules/programs.md:220`), no denial expires, and `DenialEnds`
promises nothing: a denied request may hold its seat for ever. It is a constant; setting
and clearing it between two nights would only add nights on which nothing is listed. The
run has it set, the theorems hold either way.

An order that is paid, in this module, is one that both callers accept: it contains an item
of the programme (`activateEnrollment.ts:50-53`), and no coupon that its person may not use
(`webhooks/shopify/route.ts:182-189`, `reconcile.ts:405-409`). Another is flagged for the
board, leaves the enrolment pending, and is not a payment here. The reconciler also skips an
order that some enrolment carries already (`reconcile.ts:344-347`), which is one that has
been credited; an order is one enrolment's here.

### Monitoring

A heartbeat is never, recent or old, and `failedSince`; `outage[s]` counts the outages
of a service, so that an alert can be told from one about an earlier outage. An outbox
row carries its service, kind, status, attempts and whether it is still inside the
re-notify window; `copies` counts what SNS took. Relay and watchdog invocations run
in steps: claim, publish, mark; judge, look for a recent alert, record. A kill
leaves the lock to the session's end; `LoseRelaySession` and `LoseWatchdogSession`
take the lock from a live run, which then overlaps with the next. `excused` are the
rows that a fault entitles to a second copy. Taking the lock and the first read are
one step; a run that finds the lock taken, or nothing to do, changes nothing.

### Ingest

`store[o]` is the version of an order (the number of the change that wrote it), `log`
the raw events, `live` the projected rows, `watermark` the cursor, `bulk` and
`tracked` the store's bulk operation and the one the cursor table tracks, `exports`
the files that ended. A run (walk, backfill, replay, re-ingest) fetches a page, appends
an event, projects it, and so on, then advances the watermark; between any two steps
the store changes, the run dies, or its lock goes with its session. `dropped` are the
lines of an export that do not parse and stay under the tolerated share. `writer[o]`
says which kind of run wrote the live row last.

`refused` are the versions that a step cannot take: the schema or `normalizeOrder` refuses
them, at the append and at the projection, or the live tables do, at the projection alone.
A run that meets one fails where it stands (`Reject`: `ingestNode` throws on, `withSyncRun`
ends it), with its watermark unmoved, and so does the next. `Repair` is somebody putting
the code right; nobody need. `Fail` is the same end for a failure that does not come back.

The export is taken to be a snapshot of the store when it ends (`queries.ts:259` asks for
an order, the store promises no more). At most one line of it does not parse, where the
code tolerates a tenth (`bulkOrders.ts:192`); a line of an order's item that does not parse
leaves an incomplete order in the log, which is not in the model. Four simplifications make
no difference to what is checked: a walk may ask for one page more than it needs; events
are compared by version, not by the hash of a payload whose shape differs between walk and
export, so that the code may log one version twice; `advanceWatermark` reads and writes in
one step; and a re-ingest is not filtered by its bulk operation.

### What is abstracted

* Dates: freshness (`householdBgIsFresh`, `personBgVerdict`) is membership in
  `valid`, and `CheckLapses` is the year's rollover; "handled this cycle" is never a
  bar, so the model opens renewals and agreements at least as often as the code.
  Grace periods, re-notify windows and staleness expire at any time.
* Population: households, leads, reviewers, the board, the allowlist and the
  keyholders are constants, and every person has a household.
* Mail, audit rows, form contents, `stageEnteredAt`, Zoho request ids, metrics.
* Calls that return an error or find nothing to do are stuttering steps.
* `certifyPaymentPlan` and `grantRenewalPayment` end in the same `activate` as the
  webhook and are `Settle` and `PaidWhileBlocked`; their conflict-of-interest check
  only narrows who may call it.
* The merge route's transaction is reduced to a lead receiving a valid check.
  `stampPendingExternal`'s stamp and the advance after it are one step.
* A household that the participant import merges into another takes its membership
  with it; the import is here only with the standing it grants.
* Rows of earlier releases (`LegacyRows`) can exist at the start, as the
  20260715 migration leaves them, for the kinds in `Inherited`.
* A visit is its being open: arrival and departure times, the cutting of a visit
  along events and the supervision warning are left out. The kiosk's offline close
  and force-close tokens are left out of the kiosk module; `Attendance` has the
  closing, with a replay's own confirmation. Corrections and tombstones of past visits, which
  can lower a person's newest activity, are left out of the kiosk module, and so are the
  arrivals a roster mark records.
* Enrolment is of one programme with a price, a cap and a product in the store. Merged
  persons, missing store credentials and `lifecycleDrift`'s healer are left out.
* An ingest change has its own `updated_at`, and the store lists orders in that order,
  as its API is asked to; the watermark is reset backward only, which is what the
  command is for though the code does not enforce it. Payouts and balance
  transactions are walked by the same code and are not repeated.

## 3. What TLC checks

| Run | Instance | Shows |
|---|---|---|
| `races` (`MembershipRaces.cfg`, `Spec`) | 1 row of any of the four kinds, 2 requests, 4 households, 3 reviewers of whom two share a household, 2 leads who owe checks, an adult child who owes an agreement, the applicants on the allowlist | `ActiveIsEarned`, `NobodyIsStranded`, `ClearedByTwoHouseholds`, `DuesFollowTheAllowlist`, `OnlyTheReviewedAreDated`, `GateIsAttended`. 0.8 million states. |
| `rivals` (`MembershipRivals.cfg`, `Spec`) | 2 household rows, 1 request, legacy rows, a member who may be revoked | `OneApplicationUnderWay`. 1.9 million states. |
| `serial` (`MembershipSerial.cfg`, `SerialSpec`) | 2 rows (application, renewal, personal check or agreement), 1 request, legacy application | `CapturedWhileArchived`, `RejectionBlocks`, `LegalTransitions`, `OnlyARestoreDoubles`, and `ImplementsGate`: the handlers implement `TwoTrackGate`. 1.1 million states. |
| `reviews` (`MembershipReviews.cfg`, `FairSpec`) | 1 row, 1 request, 3 reviewers, volunteer marks, any standing set by hand | `ReviewEnds`, `StandingFollowsTheRow`. 286 thousand states. |
| `rejection_overturned` | 1 row, 1 request | Violation: a stale archive buries a rejection and two approvals then clear the row. |
| `override_of_open_review` | 1 row, 2 requests | Violation: a stale override force-clears a review the reset reopened. |
| `late_signature` | 1 agreement | Violation: a signature takes an archived agreement to ACTIVE and keeps its pre-image. |
| `attendance` (`FairSpec`) | 2 keyholders of whom one comes twice, a member, 2 handlers, the nightly pass | `NeverUnattended`, `ImplementsRegister`, `UnconfirmedCloseSparesTheSeen`, `EveryVisitEnds`. 127 thousand states. |
| `kiosk` (`FairSpec`) | 2 kiosks (one clock ahead), 2 people (one not on file yet, who badges to come in at one kiosk and to leave at the other; one never on file), 2 badge reads, keyholders who come and go, 1 request that nobody waits for | `RecordedOnce`, `AcknowledgedIsRecorded`, `EffectsInOrder`, `ReplayTakesItsTurn`, `QueueEmpties`. 250 thousand states. |
| `enrolment` (`FairSpec`) | 2 people, a cap of 1 that may be edited to 2 and back, 2 handlers, 1 edit, days of grace set | `HoldOnDiagram`, `SeatsAddUp`, `NotOverfull`, `DenialEnds`, `PaymentCounts`. 165 thousand states. |
| `monitoring` (`FairSpec`) | 1 service, 2 relay and 2 watchdog invocations, 1 outage after the first, 1 requeue, 1 fault | `SentWasPublished`, `DeliveredOnce`, `OneAlertPerWindow`, `OutageIsTold`. 382 thousand states. |
| `ingest` (`FairSpec`) | 2 orders, 2 changes, pages of one, 2 bulk operations, 1 operator command, 1 fault or version refused, 2 runs | `NothingMissed`, `CaughtUp`, `ReplayEndsOnNewest`, `ChangesArrive`. 353 thousand states. |

The runs of attendance, kiosk, monitoring and ingest also check their module's type
invariant, which says more than types; `TypeOK` of the membership process and of enrolment
is left to its proof.

### Bounds

*Membership.* Every handler touches one row, and rows meet only in three places: the
unique indexes, the membership and volunteer flag of their household, and the set
`valid`. One row with two concurrent requests therefore shows every race on a row
(a stale write needs one suspended request and one that moves the row; the second
request adds a stale write against a stale write), and two rows of one household
show every clash. Three reviewers in two households are the least that tell
"two approvals" from "two approvals by different households"; two leads are the
least for two subjects. Nothing is ever deleted, so `Processes` bounds how many
rows a behaviour opens; `Requests` bounds the concurrency; `OpenKinds`,
`Inherited`, `Marks` and `ByHand` name what an instance leaves out. `ByHand` is empty
where a standing matters only as a start (`races` begins with every choice of members
anyway), a revocation where it opens a way back to an application (`rivals`), and
every standing where the standing is the question (`reviews`). Symmetry is used in the
safety runs only, and only over interchangeable leads, household mates, rows and
requests.

*Attendance.* Two keyholders are the least for the race between them, one member the
least to be left behind, two handlers the least for a decision to go stale
(`MaxCalls`); one keyholder may come twice (`MaxVisits`), so that a departure decided
about one visit can meet the next. `FlushBatch` is 1, so that a flush leaves
somebody held.

*Kiosk.* `MaxScans` is 2: an order is about two scans, and each is sent any number of
times. Two kiosks are needed for a replay behind newer activity elsewhere, two people
for a dead letter that never ends with another behind it. `Badges` says who badges where
and in which direction: an arrival and a departure of the member, and a departure of the
one who is never on file. `MaxStray` is 1: one request that nobody waits for is enough to
come late, twice or behind another, and `Straying` keeps it to the first scan, the one
that can come late. Keyholders come and go without bound. The theorems bound none of it.

*Enrolment.* One place and two people make every clash for a seat; one edit of the cap
(`MaxEdits`) with two handlers (`MaxCalls`) makes those around an edit. Each person
enrols once (`Stints`); a second stint is in the module and, with no bound on it, in
the theorems.

*Monitoring.* `Batch` is 2 so that a refused row stands before another; `MaxAttempts` 2 so
that a retry comes before the dead letter; `MaxTroubles`, `MaxRenotify`,
`MaxRequeues` and `MaxFaults` bound outages after the first, windows passing within an
outage, requeues and faults (refusals by SNS are not faults and are not bounded). By
hand the run was also made with two faults (3.4 million states) and with a window
passing (1.5 million).

*Ingest.* A page of one and two orders make a walk of two pages between which orders
change; `MaxChanges`, `MaxBackfills`, `MaxAdmin` and `MaxFaults` bound changes, bulk
operations, commands and faults, where a version that the ingest refuses counts as one:
with one refused, the other order's change is what it holds up or lets through. Repairs
and the runs a refused version ends are not bounded.

`CHECK_DEADLOCK FALSE` where a bound is used up with nothing left to do: the
membership, kiosk and enrolment runs.

### Fairness

*Membership.* `FairSpec` assumes that a handler which has started goes on
(`WF(Continue(r))`; it may still die), and that a reviewer in whose queue a review
stays open to them eventually attests it. The second is an assumption about people, the
one that the code's reviewer notifications and queue are there to bring about. It is made
for approvals only: a rejection also ends the review. It is made for what is in the queue
only (`InQueue`): a personal check that the board has not submitted is neither listed nor
announced (`review.ts:76-87`), nobody owes its submission, and it may wait for ever,
though `attest` would take an approval of it. `ReviewEnds` speaks of the queue likewise. It
exempts reviews whose attestations the board discards again and again. It is stated under serial
handlers because the stale archive breaks it too, by the same trace as
`rejection_overturned`.

*Attendance.* The nightly job runs every night, and the checkout of a visit does not fail
every night (strong fairness, since the pass takes a visit up once a night). Nothing
is assumed of people, of sweeps, or of the handlers.

*Kiosk.* The drain thread runs on; a request that nobody waits for is not there for ever,
nor is a transaction that was begun (`Arrive`; its time-out is 15 seconds, `route.ts:442`);
the network does not fail a row every time (strong fairness of serving it, since each
failure disables it). Live posts may all fail. Nothing is assumed of keyholders: what is
held may be held for ever.

*Enrolment.* The grace sweep, if the board has set its days, runs every night and comes
back to what it did not finish; a
handler ends, if only by dying, which it may before any call to the store; a payment
is looked at (a retried webhook, the reconciler) until it is credited, and its
handler does not die every time.

*Monitoring.* EventBridge keeps invoking both functions, an invocation that is not killed
takes its steps, sessions of killed ones end, windows pass. Services owe nothing.

*Ingest.* The schedule keeps starting walks, a run that is not killed goes on, and
sessions of killed ones end. Backfills and commands are somebody's choice, and a bulk
operation may run for ever. Nobody owes a repair: `ChangesArrive` promises a version only
if it is not held up for ever (`HeldUp`) by its own refusal or by that of an order which
comes before it in the walk. That condition is the code's, "One bad record wedges that
object type until a human intervenes" (`s-read-function/FUTUREWORK.md`, section 1); what
changed before the bad record still arrives, and the property says so.

Each property has a mutant in `PROJECT.json`: a plausible slip in the code it is
about (a dropped guard, a forgotten reset, the index as it was before the 20260715
migration) under which TLC finds it violated.

### Findings

1. **A stale archive overturns a rejection** (`archive.ts:17-26`). The archive
   writes on no condition what it read before. A rejection in between disappears
   from the status, the restore reopens the review with the rejection still on the
   row, and two approvals clear it. The same write can archive a membership that
   has just become ACTIVE, or restore a paid row to INTAKE.
2. **A stale override clears an open review** (`review.ts:549-552`). BLOCKED is
   tested before the transaction and not again under its lock.
3. **A late signature activates an archived agreement** (`external.ts:158-163`),
   an edge the transition table does not have, and leaves `archivedFromStatus` set.

None of them makes anything ACTIVE that was not earned: `ActiveIsEarned` is proved
for the full interleaving.

### Further divergences met while modelling

No run is kept for these; each is in the model as the code does it, and the
properties say which behaviour they except.

* *Membership*, where the board ends a membership while an application is under way.
  Dues and clearances make a denied or revoked household ACTIVE with no look at its
  standing (`payment.ts:209-216`, `review.ts:406-413`). With overlapping handlers it
  takes no application: an override that has been under way since before the row
  became ACTIVE (`review.ts:549`) writes the standing again, over a denial made in
  between; hence `StandingFollowsTheRow` is stated for serial handlers. A deactivation
  may overwrite a denial with REVOKED (read at `households/route.ts:234`, written at
  `:330`), and lifting a denial writes NONE whatever the standing is. The denial looks
  for a board member (`households/route.ts:240-251`) and the grant of the board role
  for a denial (`lib/roles.ts:165-176`), each in the other's table under no common
  lock, so that both may pass, against "A household containing a board member cannot
  be DENIED" (`schema.prisma:375-376`); the board being a constant, the model does not
  show this one.
* *Membership*, at a gate that is met. `submitIntake` re-runs the advance because the row
  "would strand here with its gate already met" (`intake.ts:468-475`). `beginRenewal`
  (`renewal.ts:262`) and `unarchiveApplication` (`archive.ts:66`) write the same status
  and do not, so that a renewal signed and consented beforehand stays at the external
  actions until somebody marks it again. A reset decides by the row it read before its
  transaction (`review.ts:522`): one that read a renewal before its consent, and comes
  after the rejection of its review, puts it back to the external actions with both done.
  `GateIsAttended` excepts these three and a handler that dies.
* *Membership*, against the one open check per person of `lifecycle.ts:110-114`: the
  restore of an archived personal check or agreement asks nothing about others the person
  has come to owe since (`archive.ts:61`). `OnlyARestoreDoubles` says that nothing else
  brings two about.
* *Attendance.* Two keyholders who leave at once leave the others in with nobody
  (`scan-service.ts:153-171`: each is counted under its own person's lock). Staff
  corrections and roster marks ask no keyholder guard.
* *Kiosk*, against "A badge scan, once read, is never lost"
  (`docs/rules/attendance-checkin.md:152`): a replay that falls in the debounce window
  is answered as ignored and the kiosk deletes it; a crash between the read and
  `enqueue` loses the scan; a queue file that cannot be opened is moved aside. A clock
  step followed by a restart before the next scan goes unnoticed. Any P2002 in a scan's
  transaction is answered as "Event already recorded" (`scan/route.ts:444-450`), also
  the one of a visit that a flush opened since the read of `project.ts:45`: everything
  is rolled back, the badge log's row with it, and the kiosk deletes the scan.
  `AcknowledgedIsRecorded` excepts it. (A keyholder's scan can end the same way in the
  flush it sets off, by a roster mark of one who was held, `events/[id]/route.ts:418`.)
  A scan held as closed is applied by a later flush at its old time with no check for
  newer activity (`project.ts:136-152`). As a rule the flush that ends a closed spell
  takes it; one that was committed just behind that flush, fell out of its batch, or
  whose person was entered by hand, waits for the next keyholder, and by then later
  scans of its person may have gone before it. `EffectsInOrder` and `ReplayTakesItsTurn`
  except such a scan (`missed`), and no other of the held ones. After a crash, a request
  still under way may be applied after the person's next scan. The force-close
  confirmation armed by one badge is taken by the next, whoever's it is
  (`client.py:953-968`), and turns that scan into a departure.
* *Enrolment.* The grace sweep lists expired denials and deletes each row on no
  condition (`cron/scholarship-grace-expiry/route.ts:48`), also one that has been
  paid or approved since, where its comment calls it "the backstop for the ones who
  never pay and never withdraw" (lines 15-16). A refusal of a request whose hold
  failed stamps a denial on a row without a hold, against "a denial is only ever
  stamped on a held seat" (`enrollmentState.ts:154`).
* *Monitoring.* `relay.ts:15-19` names the crash after the publish as the source of
  duplicates; an answer of SNS that is lost, and a mark that fails, are two more.
  `claimPending` takes rows of every environment while the drain lock is per
  environment (`outbox.ts:31`).
* *Ingest.* A node whose append refuses it never reaches the log, against "it's durable
  in `shopify_raw_event`" of a malformed money value (`s-read-function/FUTUREWORK.md`,
  section 1) and "never lost even if projection throws" (`ingestNode.ts:28`):
  `appendRawEvent` itself parses and normalises it first (`rawLog.ts:49`,
  `schemas.ts:335-340`). Only what the live tables refuse is durable. An export older
  than a later walk puts an older payload back on the live row and at the end of the
  log, behind a watermark that is ahead, and nothing heals it until the order changes
  again, against "converge to the same live state" (`loader/index.ts:5-8`); `CaughtUp`
  excepts rows an export or a command wrote last. A replay that dies half-way leaves
  older live rows likewise. `reapStaleRuns` calls a run abandoned after 15 minutes that
  may live for 55 (`run.ts:12`); the lock, not this label, is what keeps runs apart.
  Payouts are filtered by their issue date, so a later change of a payout's status is
  not walked.

## 4. What is proved

The theorems hold for every value of the constants that satisfies the module's
assumption, under the full interleaving of `Spec`: any number of people, rows,
requests, handlers, invocations, orders and faults.

*Membership* (`PopulationAssumption`).

* `MembershipProofs`: `TypeCorrect` (`TypeOK`), `EarnedMembership` (`ActiveIsEarned`),
  `StandingFollows` (`StandingFollowsTheRow`). `ActiveIsEarned` is not inductive: a
  stale request carries a status in from an earlier state, and a clearance settles
  whatever row it is given. `IInv` adds what a suspended request may hold (`CallOK`: its
  row exists and is of the kind its second half assumes, a reset's target is never
  ACTIVE, an archive or a restore carries a restorable status) and where a personal
  agreement, which no clearance may touch, can stand (`RowOK`). Kinds never change
  (`KindsKept`), so what a request has read of a kind stays true. One lemma per file of
  the code, one step per action. `StandingFollows` is of serial handlers, and needs what
  they guarantee however the board writes the standing meanwhile: that one request at
  most is under way, and that its row is still as it read it when it writes (`TurnOK`,
  `AsRead`). Each step then joins a row to its standing (`Joins`) or writes one of the
  two tables alone (`Follows`).

  Its last sections: `TwoReviewerRule` (`ClearedByTwoHouseholds`). `ReviewOK`
  strengthens it with what `attest`'s eligibility test maintains: no attestation of
  a row comes from the applicant's household, and no two come from one household,
  so that two approvals of one subject are what the rule asks. A step that is not a
  review leaves the attestations alone and claims no clearance by review
  (`Inherits`); a reset discards the attestations and the clearance together.
  `ReviewedAreDated` (`OnlyTheReviewedAreDated`): who is dated is decided when a
  clearance is written, but the board chose a lead earlier; that lead still belongs to
  the row's household (`NamesLead`) because a row's household and subject never change
  (`HomesKept`).
* `StandingProofs`: `OneEach` (`OneApplicationUnderWay`), `NoneStranded`
  (`NobodyIsStranded`) and `AllowlistFirst` (`DuesFollowTheAllowlist`), from two
  invariants. Each covers a row's status, the status an archive captured of it, and
  the statuses that suspended archives and restores still hold, since any of the
  three can become the status later. `Rivals`: a row of each kind stands only
  where its kind may (`Placed`), and no two rows of one household are in flight.
  The unique indexes refuse the writes that enter them; the writes that do not ask
  move a row that is inside already (`MovesOn`). `Vouching`: a household row beyond
  the external actions has consented, or stands at payment with a cleared check,
  and its designation has been acted on. A reset takes a clearance away, but only
  from a row that is blocked or in review, and either has consented. What an earlier
  release left behind is exempt, as the properties say.

  Two action properties follow under the same full interleaving. `RestoreAloneDoubles`
  (`OnlyARestoreDoubles`): an opening looks for an open row under the person's lock; every
  other write must then be shown to open nothing for a person, stale ones included, which
  takes knowing where a check or an agreement can stand and which statuses suspended
  requests hold for it (`Checks`). `GateAttended` (`GateIsAttended`): each write either
  leaves the gate unmet, finds it met already, or goes on to the advance (`Seen`), and no
  step takes a handler away from an advance without moving the row (`AdvancesStay`).

  Its last sections are of serial handlers. Since `TurnOK` holds, every write of theirs
  is a move of one row that depends on that row alone (`Move`, nine kinds of them,
  `ArrivingMoves` and `ContinuingMoves`; agreements are set `Apart`). What each move
  keeps is shown once: where a row of each kind may stand, looking through an archive
  (`Place`), that it carries what the archive captured, and that a rejection on it leaves
  it blocked until the board clears or restarts it (`Sound`); and that the dues and the
  clearance it has fit the place it stands at (`Balanced`). From these `Captured`
  (`CapturedWhileArchived`), `RejectionStands` (`RejectionBlocks`), `EveryMoveIsLegal`
  (`LegalTransitions`) and `HandlersImplementGate` (`ImplementsGate`), the step-by-step
  refinement of the two-track gate. The last one is proved for tables without a renewal
  that an earlier release blocked before it consented (`"RENEWAL" \notin Inherited`), and
  does not hold with one: dues that arrive while it is blocked are kept, and its reset
  sends it back to the external actions (`review.ts:576-581`), paid, where the gate
  knows nobody who has paid.
* `TwoTrackGateProofs`: `GateIsSafe` and `MembersStayMembers`, about the abstract
  gate. With `HandlersImplementGate` they carry over to serial handlers.

*Attendance* (`RosterAssumption`). `AttendanceProofs`: `TypeCorrect`, `Attended`
(`NeverUnattended`) and `HandlersImplementRegister` (`ImplementsRegister`): every step
of every handler is a step of `FacilityRegister` or leaves it alone. That somebody
keeps the door is decided in one step and acted on in another, so the invariant says
what a decision stands on: a keyholder who is stepping out leaves another behind
(`LeavesAnother`), only one keyholder at a time steps out (`OneStepsOut`, which the
race of two breaks and `lapsed` records), and while the nightly pass runs whoever is
in is on its list (`NightKnows`). Steps are sorted by their effect (people let in, one
let out, everybody let out), and each effect is shown once to keep the invariant.
`TheSeenAreSpared` (`UnconfirmedCloseSparesTheSeen`) adds what an unconfirmed close has
seen (`SeenAreGone`): the leaver alone, whose visit is over when the sweep is due and
not open again under its number (`VisitsGoOn`).

*Kiosk* (`KioskAssumption`). `KioskProofs`: `TypeCorrect`, `Recorded` (`RecordedOnce`),
`Acknowledged` (`AcknowledgedIsRecorded`), `InOrder` (`EffectsInOrder`) and `InTurn`
(`ReplayTakesItsTurn`). A request that nobody waits for can be served long after its
scan has moved on, so `EffectsInOrder` needs to know of every place a scan can be why a
request of it, arriving now, comes before the later ones: while it is in hand its kiosk
reads no other (`InHandIsLast`); while it is queued the later ones of its person are
queued too and were never sent (`Overtaken`), because the queue's order is that of
reading (`Timed`: what was stamped by a clock since set right is marked, or the clock
stepped unnoticed); when it was refused no request is left that the server would apply
(`Settled`); when it is done it is on record. That a scan in hand has one request and
a drain waits for one (`Awaiting`, `Paired`), and that the rotation of dead letters
holds each dead row once (`Rotates`), carry the types. `Applied` ties the visits to
the scans they came from.

What is applied later than it is answered needs a part of its own (`Door`). A transaction
that was begun holds its person's lock, alone, and applies what is not recorded yet
(`Begun`); a held scan is recorded and keeps its time (`OnHold`). As long as nothing passed
it by, the building has been closed and its person out since it was held, so that no later
scan of theirs can have been applied (`Waiting`, `HeldFirst`); a scan that is taken up
comes before the later ones of its kiosk (`NotOvertaken`). With these `EffectsInOrder` and
`ReplayTakesItsTurn` follow for both ways to take effect, `Arrive` or `Serve` and a
flush, and `Acknowledged` names what a rollback took.

*Enrolment* (`EnrolmentAssumption`). `EnrolmentProofs`: `TypeCorrect`, `HoldsStand`
(`HoldOnDiagram`) and `PlacesKept` (`NotOverfull`). With the types both are
inductive: the compare-and-sets carry the first (`OnDiagram` restates it row by row);
for the second a write either compares with the present cap or is recorded, and the
cardinality theorems count one row more or fewer. `SeatsAccountedFor` (`SeatsAddUp`): a
seat that leaves one account (sold or given away, for sale, held, owed by a call under
way) enters another, or the cap pays, or the loss is recorded. What the calls owe is a
sum over a set that grows and shrinks; it is stated as the size of a set of seats
(`Seats`), so that the same theorems count one call more or fewer, and needs the
invariant that the calls under way are finitely many (`Countable`).

*Monitoring* (`MonitoringAssumption`). `MonitoringProofs`: `TypeCorrect`,
`SentIsPublished` (`SentWasPublished`), `OnlyFaultsRepeat` (`DeliveredOnce`),
`LockKeepsWindows` (`OneAlertPerWindow`). What the drain lock gives a run that
has kept its session: nobody else drains (`Exclusive`), and each row of its batch is
pending and undelivered but for the one it has just published (`Unsent`,
`Published`). Likewise a watchdog at work holds its lock or has lost its session
(`Guarded`), and what it looked for is still not there when it records (`Unrivalled`).

*Ingest* (`IngestAssumption`). `IngestProofs`: `TypeCorrect`, `NothingSlips`
(`NothingMissed`), `RowsCatchUp` (`CaughtUp`) and `EndsOnNewest` (`ReplayEndsOnNewest`).
The invariant follows a walk and a
backfill: every order that a run's cursor or the maximum it will write has reached is
logged with its row settled, or still in the run's hand (`Answers`); what it holds is
not newer than its cursor, and is current or will be met again beyond it (`Walk`); an
export is a snapshot (`Snapshot`); only a run whose session was lost shares the store
with another (`Alone`). What the watermark covers (`Covered`) follows, and gives the
first two. For the third, a full replay that is alone owes at every moment an end of the
log, and of every order the newest event unless the live row holds it already
(`Replaying`): projecting the oldest event owed cannot undo a newer one; the theorem is of a
replay that refuses nothing of what it still owes. A run that fails, by a refusal or
otherwise, leaves the log, the rows and the watermark as they are (`FailureIngests`).

TLC evaluates every assumption in the runs of its module.

Only model-checked: liveness (the prover has no rules for fairness).

## 5. Plan

Done: the modules above, their runs and theorems. What would come next:

1. **Membership**: the Zoho signing session; board roles that come and go, and the
   denial guard on either side of them.
2. **Attendance and kiosk together**: the offline close, whose confirmation is made at
   the kiosk and acted on at the server.
3. **Enrolment**: a programme's refund and the drift healer.

## 6. Not modelled

* **Household leads** (`household/leads.ts`): one count under one row lock, with no state
  between two transactions.
* **Trusted adults** (`trusted-adult/service.ts`): a second review machine that shares
  nothing with the components here.
* **The merge route**: one transaction that moves many tables; only the background check
  it carries over is here.
* **Zoho signing session**: which signing request a row points to; its effect, a
  signature that may come at any time and more than once, is in the model.
* **Webhook receipts**: a webhook is an action that may happen again at any time.
* **Finance reports**, **interface, mail and reports**: rendering and queries over what
  the other parts wrote; the one write of the reconciler is in `Enrolment`.
* **Deployment**, schedules and metrics: present only as fairness and faults.
