---------------------------- MODULE ShopifyIngest ----------------------------
(***************************************************************************)
(* The orders of one Shopify store on their way into the shop tables.  An  *)
(* incremental run walks the orders changed since the watermark, page by   *)
(* page in the order of updated_at; a backfill run takes one step of a     *)
(* bulk operation: start it, poll it, or ingest its export; the operator   *)
(* replays the raw log, reingests stored exports or lowers the watermark.  *)
(*                                                                         *)
(* Ingesting a node is two commits: it is appended to the raw log, then    *)
(* projected into the live tables.  All runs of a store share an advisory  *)
(* lock of the database session; a killed run leaves it held until the     *)
(* session ends, and a lost session frees it under a run that carries on.  *)
(* The store keeps changing all the while.  Every change has its own       *)
(* updated_at, so that a version is known by its time; 0 is the cutover.   *)
(*                                                                         *)
(* The ingest may be unable to take a version of an order.  The run that   *)
(* meets it fails, and so does the next, until somebody repairs the code   *)
(* or the order changes again.                                             *)
(***************************************************************************)
EXTENDS Naturals, Sequences, FiniteSets

CONSTANTS
    Orders,        \* the orders of the store
    Runs,          \* invocations
    Nobody,        \* the holder of a free lock
    Page,          \* ORDERS_PAGE
    MaxChanges,    \* bound: changes made in the store
    MaxBackfills,  \* bound: backfill invocations
    MaxAdmin,      \* bound: operator commands
    MaxFaults      \* bound: failures, kills, lost sessions and versions refused

ASSUME IngestAssumption ==
    /\ Page \in Nat \ {0} /\ Nobody \notin Runs
    /\ {MaxChanges, MaxBackfills, MaxAdmin, MaxFaults} \subseteq Nat

VARIABLES
    clock,      \* the time of the last change
    store,      \* [Orders -> updated_at of each, 0 when it does not exist]
    refused,    \* <<version, step>>: the versions that a step of the ingest cannot take
    bulk,       \* Shopify's current bulk operation
    log,        \* shopify_raw_event, by id
    live,       \* [Orders -> the version shop_order holds, 0 for none]
    watermark,  \* sync_state.lastUpdatedAtProcessed, 0 for the cutover
    tracked,    \* sync_state.bulkOperationId, 0 for none
    exports,    \* shopify_bulk_export, by id
    lock,       \* holder of sync_run:<store>
    run,        \* the invocations
    writer,     \* history: what projected each live row last
    overlap,    \* history: runs that have shared the store with another
    dropped,    \* history: nodes of unparseable lines of an imported export
    backfills, admin, faults

db == <<log, live, watermark, tracked, exports, writer>>
bounds == <<backfills, admin, faults>>
vars == <<clock, store, refused, bulk, db, lock, run, overlap, dropped, bounds>>

\* The state of an invocation: the nodes it has still to ingest, the one it is
\* ingesting, the end of its last page, the newest timestamp it has ingested,
\* the bulk operation it started, and whether it replays the whole log.
Idle == [at |-> "idle", kind |-> "none", todo |-> {}, on |-> Nobody, cursor |-> 0,
         max |-> 0, op |-> 0, full |-> FALSE]

Init ==
    /\ clock = 0 /\ store = [o \in Orders |-> 0] /\ refused = {}
    /\ bulk = [id |-> 0, status |-> "NONE", nodes |-> {}]
    /\ log = <<>> /\ live = [o \in Orders |-> 0]
    /\ watermark = 0 /\ tracked = 0 /\ exports = <<>>
    /\ lock = Nobody /\ run = [r \in Runs |-> Idle]
    /\ writer = [o \in Orders |-> "none"] /\ overlap = {} /\ dropped = {}
    /\ backfills = 0 /\ admin = 0 /\ faults = 0

-----------------------------------------------------------------------------
(* The store, as the pulls see it                                          *)

\* A node as a run works on it: an order, its version, and its place in the
\* order in which the run takes its nodes.
Node(place, o) == [place |-> place, order |-> o, version |-> store[o]]

Exist == {o \in Orders : store[o] > 0}

Fault == faults < MaxFaults /\ faults' = faults + 1

\* What an order becomes is nothing the ingest must be able to take: its schema
\* or normalizeOrder may refuse it, at the append and again at the projection, or
\* the live tables may, at the projection alone.
Change(o) ==
    /\ clock < MaxChanges
    /\ clock' = clock + 1 /\ store' = [store EXCEPT ![o] = clock + 1]
    /\ \/ UNCHANGED <<refused, faults>>
       \/ /\ Fault
          /\ \E steps \in {{"project"}, {"append", "project"}} :
                refused' = refused \cup ({clock + 1} \X steps)
    /\ UNCHANGED <<bulk, db, lock, run, overlap, dropped, backfills, admin>>

\* Somebody repairs the code; nobody need.
Repair ==
    /\ refused # {} /\ refused' = {}
    /\ UNCHANGED <<clock, store, bulk, db, lock, run, overlap, dropped, bounds>>

\* A bulk operation exports every order as it is at some moment of its run.
BulkEnds ==
    /\ bulk.status = "RUNNING"
    /\ \/ bulk' = [bulk EXCEPT !.status = "COMPLETED",
                       !.nodes = {Node(store[o], o) : o \in Exist}]
       \/ bulk' = [bulk EXCEPT !.status = "FAILED"]
    /\ UNCHANGED <<clock, store, refused, db, lock, run, overlap, dropped, bounds>>

-----------------------------------------------------------------------------
(* withSyncRun                                                             *)

\* Invocations have no identity: a new one takes the first free record.
Fresh(r) == r = CHOOSE p \in Runs : run[p].at = "idle" \/ \A q \in Runs : run[q].at # "idle"

Busy == {r \in Runs : run[r].at # "idle"}

\* A run that cannot take the lock skips and changes nothing.
Begin(r) ==
    /\ run[r].at = "idle" /\ Fresh(r) /\ lock = Nobody

Take(r, as) ==
    /\ lock' = r
    /\ run' = [run EXCEPT ![r] = as]
    /\ overlap' = IF Busy = {} THEN overlap ELSE overlap \cup {r}

\* The run completes or fails; either way the lock it still holds is released.
End(r) ==
    /\ run' = [run EXCEPT ![r] = Idle]
    /\ lock' = IF lock = r THEN Nobody ELSE lock
    /\ overlap' = overlap \ {r}

GoOn(r, at) ==
    /\ run' = [run EXCEPT ![r].at = at]
    /\ UNCHANGED <<lock, overlap>>

-----------------------------------------------------------------------------
(* ingestNode, and what a run does when its nodes are used up              *)

\* Event k is the newest of the order, which is what the deduplication looks up.
Latest(o, k) ==
    /\ k \in DOMAIN log /\ log[k].order = o
    /\ \A j \in DOMAIN log : log[j].order = o => j <= k

Current(r, n) == n \in run[r].todo /\ \A m \in run[r].todo : n.place <= m.place

\* appendRawEvent parses and normalises the node before it logs it, and
\* projectNode does again before it writes.
Refuses(r, n) ==
    <<n.version, IF run[r].at = "append" THEN "append" ELSE "project">> \in refused

\* Mutant: a run takes one page and leaves the rest to the next run.
MutantAfter(kind) == IF kind \in {"incremental", "backfill"} THEN "advance" ELSE "idle"

\* A walk asks for its next page, an export moves the watermark, and the
\* operator's runs are done.
After(kind) ==
    CASE kind = "incremental" -> "fetch" [] kind = "backfill" -> "advance" [] OTHER -> "idle"

\* Mutant: a payload older than the newest one is skipped too.
MutantInserts(n) ==
    ~ \E k \in DOMAIN log : Latest(n.order, k) /\ log[k].version >= n.version

Inserts(n) == ~ \E k \in DOMAIN log : Latest(n.order, k) /\ log[k].version = n.version

\* Node n is done, and the run goes on or ends.
Done(r, n, at) ==
    IF at = "idle" THEN End(r)
    ELSE /\ run' = [run EXCEPT ![r].at = at, ![r].todo = @ \ {n}, ![r].on = Nobody,
                       ![r].max = IF n.version > @ THEN n.version ELSE @]
         /\ UNCHANGED <<lock, overlap>>

\* Mutant: a node that was not inserted is not projected either.
MutantProjectEvent(r, n, inserted) ==
    IF inserted
    THEN /\ run' = [run EXCEPT ![r].at = "project", ![r].on = n]
         /\ UNCHANGED <<lock, overlap>>
    ELSE Done(r, n, IF run[r].todo = {n} THEN After(run[r].kind) ELSE "append")

\* Inserted or not, the node goes on to its projection.
ProjectEvent(r, n, inserted) ==
    /\ run' = [run EXCEPT ![r].at = "project", ![r].on = n]
    /\ UNCHANGED <<lock, overlap>>

\* appendRawEvent skips a payload identical to the newest one of the order.
AppendEvent(r) ==
    /\ run[r].at = "append"
    /\ \E n \in run[r].todo :
          /\ Current(r, n) /\ ~Refuses(r, n)
          /\ log' = IF Inserts(n) THEN Append(log, [order |-> n.order, version |-> n.version])
                    ELSE log
          /\ ProjectEvent(r, n, Inserts(n))
    /\ UNCHANGED <<clock, store, refused, bulk, live, watermark, tracked, exports, writer,
                   dropped, bounds>>

\* projectNode overwrites the row whatever it holds.
ProjectNode(r, n) ==
    /\ live' = [live EXCEPT ![n.order] = n.version]
    /\ writer' = [writer EXCEPT ![n.order] = IF r \in overlap THEN "overlap" ELSE run[r].kind]
    /\ UNCHANGED <<clock, store, refused, bulk, log, watermark, tracked, exports, dropped, bounds>>

Project(r) ==
    /\ run[r].at = "project" /\ ~Refuses(r, run[r].on)
    /\ ProjectNode(r, run[r].on)
    /\ Done(r, run[r].on, IF run[r].todo = {run[r].on} THEN After(run[r].kind) ELSE "append")

\* A replay projects an event without appending anything.
ReplayEvent(r) ==
    /\ run[r].at = "replay"
    /\ \E n \in run[r].todo :
          /\ Current(r, n) /\ ~Refuses(r, n)
          /\ ProjectNode(r, n)
          /\ Done(r, n, IF run[r].todo = {n} THEN "idle" ELSE "replay")

\* The error of the step is thrown on: what the step wrote is rolled back, what
\* the run committed stays, and the run ends as failed with the watermark unmoved.
Reject(r) ==
    /\ \E n \in run[r].todo : Current(r, n) /\ Refuses(r, n)
    /\ End(r)
    /\ UNCHANGED <<clock, store, refused, bulk, db, dropped, bounds>>

\* Mutant: the watermark is the time at which the run ends.
MutantCandidate(r) == clock

\* The newest timestamp among the nodes ingested.
Candidate(r) == run[r].max

\* advanceWatermark never moves it back.
Advance(r) ==
    /\ run[r].at = "advance"
    /\ watermark' = IF Candidate(r) > watermark THEN Candidate(r) ELSE watermark
    /\ IF run[r].kind = "backfill" THEN GoOn(r, "untrack") ELSE End(r)
    /\ UNCHANGED <<clock, store, refused, bulk, log, live, tracked, exports, writer, dropped, bounds>>

-----------------------------------------------------------------------------
(* runIncremental                                                          *)

StartIncremental(r) ==
    /\ Begin(r)
    /\ Take(r, [Idle EXCEPT !.at = "fetch", !.kind = "incremental", !.cursor = watermark])
    /\ UNCHANGED <<clock, store, refused, bulk, db, dropped, bounds>>

\* The orders a walk has yet to see: the filter is updated_at >= the watermark
\* for its first page, and each page follows the last order of the one before.
Ahead(r) == {o \in Exist : store[o] > run[r].cursor \/ (run[r].max = 0 /\ store[o] = run[r].cursor)}

FetchPage(r) ==
    /\ run[r].at = "fetch"
    /\ IF Ahead(r) = {} THEN GoOn(r, "advance")
       ELSE \E P \in SUBSET Ahead(r) : \E last \in P :
            /\ \A o \in P : store[o] <= store[last]
            /\ \A o \in Ahead(r) \ P : store[o] > store[last]
            /\ Cardinality(P) = Page \/ (P = Ahead(r) /\ Cardinality(P) < Page)
            /\ run' = [run EXCEPT ![r].at = "append", ![r].cursor = store[last],
                          ![r].todo = {Node(store[o], o) : o \in P}]
            /\ UNCHANGED <<lock, overlap>>
    /\ UNCHANGED <<clock, store, refused, bulk, db, dropped, bounds>>

-----------------------------------------------------------------------------
(* runBackfill: one step of stepOrdersBulk an invocation                   *)

Backfilling(r) == Begin(r) /\ backfills < MaxBackfills /\ backfills' = backfills + 1

\* Nothing is tracked: start an operation.  Shopify refuses a second one, and
\* the run fails.
StartBulk(r) ==
    /\ Backfilling(r) /\ tracked = 0
    /\ IF bulk.status = "RUNNING"
       THEN UNCHANGED <<bulk, lock, run, overlap>>
       ELSE /\ bulk' = [id |-> bulk.id + 1, status |-> "RUNNING", nodes |-> {}]
            /\ Take(r, [Idle EXCEPT !.at = "track", !.kind = "backfill", !.op = bulk.id + 1])
    /\ UNCHANGED <<clock, store, refused, db, dropped, admin, faults>>

TrackBulk(r) ==
    /\ run[r].at = "track"
    /\ tracked' = run[r].op
    /\ End(r)
    /\ UNCHANGED <<clock, store, refused, bulk, log, live, watermark, exports, writer, dropped, bounds>>

\* The tracked operation was replaced, has failed, or is still running.
PollBulk(r) ==
    /\ Backfilling(r) /\ tracked # 0
    /\ bulk.id # tracked \/ bulk.status # "COMPLETED"
    /\ tracked' = IF bulk.id = tracked /\ bulk.status = "RUNNING" THEN tracked ELSE 0
    /\ UNCHANGED <<clock, store, refused, bulk, log, live, watermark, exports, writer, lock, run,
                   overlap, dropped, admin, faults>>

\* It has completed: the export is stored as it came, then ingested.  Lines
\* that do not parse are left out when they are few, and fail the run when
\* they are not; the operation stays tracked until the last step.
IngestExport(r) ==
    /\ Backfilling(r) /\ tracked # 0 /\ bulk.id = tracked /\ bulk.status = "COMPLETED"
    /\ exports' = Append(exports, bulk.nodes)
    /\ \/ \E bad \in SUBSET bulk.nodes :
             /\ Cardinality(bad) <= 1 /\ dropped' = dropped \cup bad
             /\ Take(r, [Idle EXCEPT !.at = IF bulk.nodes = bad THEN "advance" ELSE "append",
                            !.kind = "backfill", !.todo = bulk.nodes \ bad])
       \/ bulk.nodes # {} /\ UNCHANGED <<dropped, lock, run, overlap>>
    /\ UNCHANGED <<clock, store, refused, bulk, log, live, watermark, tracked, writer, admin, faults>>

UntrackBulk(r) ==
    /\ run[r].at = "untrack"
    /\ tracked' = 0
    /\ End(r)
    /\ UNCHANGED <<clock, store, refused, bulk, log, live, watermark, exports, writer, dropped, bounds>>

-----------------------------------------------------------------------------
(* The operator's commands                                                 *)

Command(r) == Begin(r) /\ admin < MaxAdmin /\ admin' = admin + 1

\* Mutant: events are replayed newest first.
MutantPlace(k) == Len(log) - k

Place(k) == k

\* Events in the order of their ids: all, those of one order, or those that
\* occurred since some time.
Replay(r, picked) ==
    /\ Command(r) /\ picked # {}
    /\ Take(r, [Idle EXCEPT !.at = "replay", !.kind = "replay", !.full = picked = DOMAIN log,
                   !.todo = {[place |-> Place(k), order |-> log[k].order, version |-> log[k].version]
                                 : k \in picked}])
    /\ UNCHANGED <<clock, store, refused, bulk, db, dropped, backfills, faults>>

\* Stored exports, oldest first.
Reingest(r, from) ==
    /\ Command(r)
    /\ LET nodes == UNION {{[n EXCEPT !.place = k * (MaxChanges + 1) + @] : n \in exports[k]}
                               : k \in from .. Len(exports)}
       IN /\ nodes # {}
          /\ Take(r, [Idle EXCEPT !.at = "append", !.kind = "reingest", !.todo = nodes])
    /\ UNCHANGED <<clock, store, refused, bulk, db, dropped, backfills, faults>>

\* reset-watermark, to an earlier time or to none.
ResetWatermark(r, to) ==
    /\ Command(r) /\ to < watermark
    /\ watermark' = to
    /\ UNCHANGED <<clock, store, refused, bulk, log, live, tracked, exports, writer, lock, run,
                   overlap, dropped, backfills, faults>>

-----------------------------------------------------------------------------
(* Faults                                                                  *)

\* A step fails this once, in the store's API or in the database.
Fail(r) ==
    /\ run[r].at # "idle" /\ Fault
    /\ End(r)
    /\ UNCHANGED <<clock, store, refused, bulk, db, dropped, backfills, admin>>

\* The invocation dies between two steps; its lock stays until its session ends.
Kill(r) ==
    /\ run[r].at # "idle" /\ Fault
    /\ run' = [run EXCEPT ![r] = Idle]
    /\ overlap' = overlap \ {r}
    /\ UNCHANGED <<clock, store, refused, bulk, db, lock, dropped, backfills, admin>>

SessionEnds ==
    /\ \E r \in Runs : lock = r /\ run[r].at = "idle"
    /\ lock' = Nobody
    /\ UNCHANGED <<clock, store, refused, bulk, db, run, overlap, dropped, bounds>>

LoseSession(r) ==
    /\ lock = r /\ run[r].at # "idle" /\ Fault
    /\ lock' = Nobody /\ overlap' = overlap \cup {r}
    /\ UNCHANGED <<clock, store, refused, bulk, db, run, dropped, backfills, admin>>

-----------------------------------------------------------------------------
(* The specification                                                       *)

Step(r) ==
    \/ FetchPage(r) \/ AppendEvent(r) \/ Project(r) \/ ReplayEvent(r) \/ Advance(r)
    \/ TrackBulk(r) \/ UntrackBulk(r) \/ Reject(r)

Backfill(r) == StartBulk(r) \/ PollBulk(r) \/ IngestExport(r)

Admin(r) ==
    \/ \E k \in DOMAIN log : Replay(r, {j \in DOMAIN log : log[j].order = log[k].order})
    \/ \E since \in 0 .. clock : Replay(r, {j \in DOMAIN log : log[j].version >= since})
    \/ \E from \in DOMAIN exports : Reingest(r, from)
    \/ \E to \in 0 .. clock : ResetWatermark(r, to)

Next ==
    \/ \E o \in Orders : Change(o)
    \/ BulkEnds \/ SessionEnds \/ Repair
    \/ \E r \in Runs :
          \/ StartIncremental(r) \/ Backfill(r) \/ Admin(r) \/ Step(r)
          \/ Fail(r) \/ Kill(r) \/ LoseSession(r)

Spec == Init /\ [][Next]_vars

(***************************************************************************)
(* The incremental run is scheduled, a run that is not killed takes its    *)
(* steps, and the session of a killed one ends.  Backfills and commands    *)
(* are somebody's choice, bulk operations Shopify's, and a repair somebody *)
(* else's: the scheduler owes none of them.                                *)
(***************************************************************************)
Fairness ==
    /\ WF_vars(\E r \in Runs : StartIncremental(r))
    /\ WF_vars(\E r \in Runs : Step(r))
    /\ WF_vars(SessionEnds)

FairSpec == Spec /\ Fairness
=============================================================================
