----------------------------- MODULE Monitoring -----------------------------
(***************************************************************************)
(* The monitoring pipeline: services push the outcome of their runs to     *)
(* service_heartbeat; the watchdog reads it and records incidents, each    *)
(* one with a row of the transactional outbox unless an alert of the same  *)
(* kind is recent; the relay drains the outbox to SNS.                     *)
(*                                                                         *)
(* Watchdog and relay are scheduled invocations.  Each kind runs under an  *)
(* advisory lock of its database session: an invocation killed mid-run     *)
(* leaves the lock held until the session ends, and a session lost mid-run *)
(* frees the lock while the invocation carries on over a new connection.   *)
(* Taking the lock and the first read after it are one step; every other   *)
(* database call and every SNS call is a step of its own.                  *)
(***************************************************************************)
EXTENDS Naturals, Sequences, FiniteSets

CONSTANTS
    Services,     \* the registered services
    Relays,       \* relay invocations
    Watchdogs,    \* watchdog invocations
    Nobody,       \* the holder of a free lock
    Batch,        \* RELAY_BATCH_LIMIT
    MaxAttempts,  \* RELAY_MAX_ATTEMPTS
    MaxTroubles,  \* bound: failed runs, and times a service goes stale
    MaxRenotify,  \* bound: windows that pass within one outage
    MaxRequeues,  \* bound: requeue-dead commands
    MaxFaults     \* bound: kills, lost sessions, lost answers and
                  \* failed writes

ASSUME MonitoringAssumption ==
    /\ Batch \in Nat \ {0} /\ MaxAttempts \in Nat \ {0}
    /\ {MaxTroubles, MaxRenotify, MaxRequeues, MaxFaults} \subseteq Nat
    /\ Nobody \notin Relays \cup Watchdogs /\ Relays \cap Watchdogs = {}

VARIABLES
    heartbeat,  \* [Services -> the service_heartbeat row]
    outage,     \* history: how many times the service has gone stale
    outbox,     \* the outbox rows, oldest first
    copies,     \* history: deliveries of each row's message, 2 is "several"
    excused,    \* history: rows whose delivery a fault may repeat or hide
    lapsed,     \* history: invocations in flight that lost their session
    drainLock,  \* holder of relay-drain:<env>
    watchLock,  \* holder of watchdog:<env>
    relay,      \* the relay invocations
    watchdog,   \* the watchdog invocations
    troubles, renotified, requeues, faults

vars == <<heartbeat, outage, outbox, copies, excused, lapsed, drainLock,
          watchLock, relay, watchdog, troubles, renotified, requeues, faults>>

Kinds == {"STALE", "ERRORING"}
RelayIdle == [at |-> "idle", batch |-> {}, on |-> 0, seen |-> <<>>, permanent |-> FALSE]
WatchdogIdle == [at |-> "idle", found |-> {}, on |-> Nobody]

Init ==
    /\ heartbeat = [s \in Services |-> [success |-> "never", failedSince |-> FALSE]]
    /\ outage = [s \in Services |-> 0]
    /\ outbox = <<>> /\ copies = <<>> /\ excused = {} /\ lapsed = {}
    /\ drainLock = Nobody /\ watchLock = Nobody
    /\ relay = [r \in Relays |-> RelayIdle]
    /\ watchdog = [w \in Watchdogs |-> WatchdogIdle]
    /\ troubles = 0 /\ renotified = 0 /\ requeues = 0 /\ faults = 0

Fault == faults < MaxFaults /\ faults' = faults + 1

Trouble == troubles < MaxTroubles /\ troubles' = troubles + 1

-----------------------------------------------------------------------------
(* Heartbeats and the passing of time                                      *)

\* evaluateFreshness and evaluateErroring: staleness takes precedence.
Stale(h) == h.success # "recent"
Erroring(h) == h.success = "recent" /\ h.failedSince

\* A success advances only last_success_at, a failure only last_failure_at;
\* failedSince says that the second is the later one.  (The failure of a
\* service already stale changes no verdict before its next success.)
Beat(s, completed) ==
    /\ \/ /\ completed
          /\ heartbeat' = [heartbeat EXCEPT ![s] = [success |-> "recent", failedSince |-> FALSE]]
          /\ UNCHANGED troubles
       \/ /\ ~completed /\ heartbeat[s].success = "recent" /\ Trouble
          /\ heartbeat' = [heartbeat EXCEPT ![s].failedSince = TRUE]
    /\ UNCHANGED <<outage, outbox, copies, excused, lapsed, drainLock, watchLock,
                   relay, watchdog, renotified, requeues, faults>>

\* staleAfterSeconds have passed since the last success.
GoStale(s) ==
    /\ heartbeat[s].success = "recent" /\ Trouble
    /\ heartbeat' = [heartbeat EXCEPT ![s].success = "old"]
    /\ outage' = [outage EXCEPT ![s] = @ + 1]
    /\ UNCHANGED <<outbox, copies, excused, lapsed, drainLock, watchLock,
                   relay, watchdog, renotified, requeues, faults>>

\* renotifyAfterSeconds have passed since the oldest recent row was enqueued.
\* Only windows within the outage the row was raised in are bounded.
WindowPasses(i) ==
    /\ outbox[i].recent /\ \A j \in 1 .. i - 1 : ~outbox[j].recent
    /\ IF outbox[i].outage = outage[outbox[i].service]
       THEN renotified < MaxRenotify /\ renotified' = renotified + 1
       ELSE UNCHANGED renotified
    /\ outbox' = [outbox EXCEPT ![i].recent = FALSE]
    /\ UNCHANGED <<heartbeat, outage, copies, excused, lapsed, drainLock, watchLock,
                   relay, watchdog, troubles, requeues, faults>>

-----------------------------------------------------------------------------
(* The watchdog                                                            *)

\* Invocations have no identity: a new one takes the first free record.
Fresh(Runs, state) == CHOOSE p \in Runs :
    state[p].at = "idle" \/ \A q \in Runs : state[q].at # "idle"

Unlock(lock, p) == IF lock = p THEN Nobody ELSE lock

\* The invocation goes on with the verdicts in "left"; with none it ends and
\* releases the lock if it still holds it.
WatchOn(w, left) ==
    IF left = {}
    THEN /\ watchdog' = [watchdog EXCEPT ![w] = WatchdogIdle]
         /\ watchLock' = Unlock(watchLock, w)
         /\ lapsed' = lapsed \ {w}
    ELSE /\ watchdog' = [watchdog EXCEPT ![w] = [at |-> "look", found |-> left, on |-> Nobody]]
         /\ UNCHANGED <<watchLock, lapsed>>

Verdicts ==
    {[service |-> s, kind |-> "STALE"] : s \in {t \in Services : Stale(heartbeat[t])}}
    \cup {[service |-> s, kind |-> "ERRORING"] : s \in {t \in Services : Erroring(heartbeat[t])}}

\* The invocation takes the lock and reads every service in one query; the
\* verdicts are of that moment.  One that cannot take the lock skips, and one
\* that finds every service healthy ends: neither changes anything.
StartWatchdog(w) ==
    /\ w = Fresh(Watchdogs, watchdog) /\ watchdog[w].at = "idle"
    /\ watchLock = Nobody /\ Verdicts # {}
    /\ watchLock' = w
    /\ watchdog' = [watchdog EXCEPT ![w] = [at |-> "look", found |-> Verdicts, on |-> Nobody]]
    /\ UNCHANGED <<heartbeat, outage, outbox, copies, excused, lapsed, drainLock,
                   relay, troubles, renotified, requeues, faults>>

\* Mutant: an alert suppresses only while it is still to be delivered.
MutantSuppresses(row, v) ==
    row.status = "PENDING" /\ row.recent /\ row.service = v.service /\ row.kind = v.kind

\* Mutant: an alert suppresses for ever.
MutantNeverAgain(row, v) == row.service = v.service /\ row.kind = v.kind

Suppresses(row, v) == row.recent /\ row.service = v.service /\ row.kind = v.kind

\* The first half of recordIncident.  A suppressed incident appends its
\* health_event and nothing else.
LookForRecentAlert(w) ==
    /\ watchdog[w].at = "look"
    /\ \E v \in watchdog[w].found :
          IF \E i \in DOMAIN outbox : Suppresses(outbox[i], v)
          THEN WatchOn(w, watchdog[w].found \ {v})
          ELSE /\ watchdog' = [watchdog EXCEPT ![w].at = "record", ![w].on = v]
               /\ UNCHANGED <<watchLock, lapsed>>
    /\ UNCHANGED <<heartbeat, outage, outbox, copies, excused, drainLock,
                   relay, troubles, renotified, requeues, faults>>

\* The rest of its transaction.  safeRecord swallows a failure.
RecordIncident(w) ==
    /\ watchdog[w].at = "record"
    /\ LET v == watchdog[w].on IN
       /\ \/ /\ outbox' = Append(outbox, [service |-> v.service, kind |-> v.kind,
                    outage |-> outage[v.service], recent |-> TRUE,
                    status |-> "PENDING", attempts |-> 0, lapsed |-> w \in lapsed])
             /\ copies' = Append(copies, 0)
             /\ UNCHANGED faults
          \/ Fault /\ UNCHANGED <<outbox, copies>>
       /\ WatchOn(w, watchdog[w].found \ {v})
    /\ UNCHANGED <<heartbeat, outage, excused, drainLock, relay, troubles, renotified, requeues>>

-----------------------------------------------------------------------------
(* The relay                                                               *)

\* Mutant: the drain runs without its lock.
MutantMayDrain(r) == r = Fresh(Relays, relay) /\ relay[r].at = "idle"

MayDrain(r) == r = Fresh(Relays, relay) /\ relay[r].at = "idle" /\ drainLock = Nobody

Pending == {i \in DOMAIN outbox : outbox[i].status = "PENDING"}

\* The oldest Batch pending rows.  The query does not filter by environment.
Claimed(B) ==
    /\ B \subseteq Pending
    /\ \A i \in B : \A j \in Pending \ B : i < j
    /\ Cardinality(B) = Batch \/ (B = Pending /\ Cardinality(B) < Batch)

Oldest(i, B) == i \in B /\ \A j \in B : i <= j

\* Mutant: a run does not end with its batch.
MutantDrainOn(r, left) ==
    /\ relay' = [relay EXCEPT ![r].at = "publish", ![r].batch = left]
    /\ UNCHANGED <<drainLock, lapsed>>

\* The invocation goes on with the oldest row in "left", or ends.
DrainOn(r, left) ==
    IF left = {}
    THEN /\ relay' = [relay EXCEPT ![r] = RelayIdle]
         /\ drainLock' = Unlock(drainLock, r)
         /\ lapsed' = lapsed \ {r}
    ELSE /\ \E i \in left :
               /\ Oldest(i, left)
               /\ relay' = [relay EXCEPT ![r].at = "publish", ![r].batch = left, ![r].on = i]
         /\ UNCHANGED <<drainLock, lapsed>>

\* The invocation takes the lock and claims: the batch and each row's attempts
\* are read once, and the run never looks at the rows again.  One that cannot
\* take the lock skips, and one that finds no row ends, changing nothing.
StartRelay(r) ==
    /\ MayDrain(r)
    /\ \E B \in SUBSET Pending : \E i \in B :
          /\ Claimed(B) /\ Oldest(i, B)
          /\ relay' = [relay EXCEPT ![r] = [at |-> "publish", batch |-> B, on |-> i,
                           seen |-> [j \in B |-> outbox[j].attempts], permanent |-> FALSE]]
    /\ drainLock' = r
    /\ UNCHANGED <<heartbeat, outage, outbox, copies, excused, lapsed, watchLock,
                   watchdog, troubles, renotified, requeues, faults>>

Delivered(i) == copies' = [copies EXCEPT ![i] = IF @ = 0 THEN 1 ELSE 2]

\* Mutant: the publish is not awaited, and a refusal goes unseen.
MutantAfterRefusal == "sent"

AfterRefusal == "failed"

\* publishAlert: SNS takes the message and says so; takes it and the answer
\* does not come in time (an AbortError, so transient); or refuses it, for a
\* permanent reason or a transient one.
Publish(r) ==
    /\ relay[r].at = "publish"
    /\ \/ /\ Delivered(relay[r].on)
          /\ relay' = [relay EXCEPT ![r].at = "sent"]
          /\ UNCHANGED <<excused, faults>>
       \/ /\ Delivered(relay[r].on) /\ Fault
          /\ relay' = [relay EXCEPT ![r].at = "failed", ![r].permanent = FALSE]
          /\ excused' = excused \cup {relay[r].on}
       \/ /\ \E permanent \in BOOLEAN :
                relay' = [relay EXCEPT ![r].at = AfterRefusal, ![r].permanent = permanent]
          /\ UNCHANGED <<copies, excused, faults>>
    /\ UNCHANGED <<heartbeat, outage, outbox, lapsed, drainLock, watchLock, watchdog,
                   troubles, renotified, requeues>>

\* A failed update, or one whose answer is lost, lands in the same catch as a
\* failed publish.
MarkSent(r) ==
    /\ relay[r].at = "sent"
    /\ \/ /\ outbox' = [outbox EXCEPT ![relay[r].on].status = "SENT"]
          /\ DrainOn(r, relay[r].batch \ {relay[r].on})
          /\ UNCHANGED <<excused, faults>>
       \/ /\ Fault
          /\ outbox' \in {outbox, [outbox EXCEPT ![relay[r].on].status = "SENT"]}
          /\ relay' = [relay EXCEPT ![r].at = "failed", ![r].permanent = FALSE]
          /\ excused' = excused \cup {relay[r].on}
          /\ UNCHANGED <<drainLock, lapsed>>
    /\ UNCHANGED <<heartbeat, outage, copies, watchLock, watchdog, troubles, renotified, requeues>>

\* The verdict uses the attempts read when the row was claimed.
Dies(r) == relay[r].permanent \/ relay[r].seen[relay[r].on] + 1 >= MaxAttempts

\* Its own failure is logged and the drain goes on.  The update does not look
\* at the row's status.
MarkFailed(r) ==
    /\ relay[r].at = "failed"
    /\ \/ /\ outbox' = [outbox EXCEPT ![relay[r].on].attempts = @ + 1,
                            ![relay[r].on].status = IF Dies(r) THEN "DEAD" ELSE @]
          /\ UNCHANGED faults
       \/ Fault /\ UNCHANGED outbox
    /\ DrainOn(r, relay[r].batch \ {relay[r].on})
    /\ UNCHANGED <<heartbeat, outage, copies, excused, watchLock, watchdog,
                   troubles, renotified, requeues>>

-----------------------------------------------------------------------------
(* The operator, and what goes wrong                                       *)

Dead == {i \in DOMAIN outbox : outbox[i].status = "DEAD"}

\* requeue-dead, of one row or of all.
RequeueDead(R) ==
    /\ R # {} /\ requeues < MaxRequeues
    /\ outbox' = [i \in DOMAIN outbox |->
                     IF i \in R THEN [outbox[i] EXCEPT !.status = "PENDING", !.attempts = 0]
                     ELSE outbox[i]]
    /\ requeues' = requeues + 1
    /\ UNCHANGED <<heartbeat, outage, copies, excused, lapsed, drainLock, watchLock,
                   relay, watchdog, troubles, renotified, faults>>

\* The invocation is killed; a message on its way may still be delivered.
\* Its lock stays until the session ends.
KillRelay(r) ==
    /\ relay[r].at # "idle" /\ Fault
    /\ relay' = [relay EXCEPT ![r] = RelayIdle]
    /\ \/ relay[r].at = "publish" /\ Delivered(relay[r].on)
       \/ UNCHANGED copies
    /\ excused' = IF relay[r].at \in {"publish", "sent"}
                  THEN excused \cup {relay[r].on} ELSE excused
    /\ lapsed' = lapsed \ {r}
    /\ UNCHANGED <<heartbeat, outage, outbox, drainLock, watchLock, watchdog,
                   troubles, renotified, requeues>>

KillWatchdog(w) ==
    /\ watchdog[w].at # "idle" /\ Fault
    /\ watchdog' = [watchdog EXCEPT ![w] = WatchdogIdle]
    /\ lapsed' = lapsed \ {w}
    /\ UNCHANGED <<heartbeat, outage, outbox, copies, excused, drainLock, watchLock,
                   relay, troubles, renotified, requeues>>

SessionEnds ==
    /\ \/ /\ \E r \in Relays : drainLock = r /\ relay[r].at = "idle"
          /\ drainLock' = Nobody /\ UNCHANGED watchLock
       \/ /\ \E w \in Watchdogs : watchLock = w /\ watchdog[w].at = "idle"
          /\ watchLock' = Nobody /\ UNCHANGED drainLock
    /\ UNCHANGED <<heartbeat, outage, outbox, copies, excused, lapsed, relay, watchdog,
                   troubles, renotified, requeues, faults>>

\* The session of a live invocation is lost with its lock, and the pool
\* reconnects.  Whatever the run still holds may now be delivered by another.
LoseRelaySession(r) ==
    /\ drainLock = r /\ relay[r].at # "idle" /\ Fault
    /\ drainLock' = Nobody
    /\ lapsed' = lapsed \cup {r}
    /\ excused' = excused \cup relay[r].batch
    /\ UNCHANGED <<heartbeat, outage, outbox, copies, watchLock, relay, watchdog,
                   troubles, renotified, requeues>>

\* A transaction open at that moment is rolled back with the session, which
\* RecordIncident's own fault stands for.
LoseWatchdogSession(w) ==
    /\ watchLock = w /\ watchdog[w].at = "look" /\ Fault
    /\ watchLock' = Nobody
    /\ lapsed' = lapsed \cup {w}
    /\ UNCHANGED <<heartbeat, outage, outbox, copies, excused, drainLock, relay, watchdog,
                   troubles, renotified, requeues>>

-----------------------------------------------------------------------------
(* The specification                                                       *)

Watch(w) == LookForRecentAlert(w) \/ RecordIncident(w)

Drain(r) == Publish(r) \/ MarkSent(r) \/ MarkFailed(r)

Next ==
    \/ \E s \in Services : GoStale(s) \/ \E completed \in BOOLEAN : Beat(s, completed)
    \/ \E i \in DOMAIN outbox : WindowPasses(i)
    \/ \E w \in Watchdogs :
          StartWatchdog(w) \/ Watch(w) \/ KillWatchdog(w) \/ LoseWatchdogSession(w)
    \/ \E r \in Relays :
          StartRelay(r) \/ Drain(r) \/ KillRelay(r) \/ LoseRelaySession(r)
    \/ \E R \in {Dead} \cup {{i} : i \in Dead} : RequeueDead(R)
    \/ SessionEnds

Spec == Init /\ [][Next]_vars

(***************************************************************************)
(* EventBridge keeps invoking both functions, an invocation that is not    *)
(* killed takes its steps, a session of a killed one ends, and time        *)
(* passes.  Services owe nothing: nobody has to recover.                   *)
(***************************************************************************)
Fairness ==
    /\ WF_vars(\E w \in Watchdogs : StartWatchdog(w))
    /\ WF_vars(\E w \in Watchdogs : Watch(w))
    /\ WF_vars(\E r \in Relays : StartRelay(r))
    /\ WF_vars(\E r \in Relays : Drain(r))
    /\ WF_vars(SessionEnds)
    /\ WF_vars(\E i \in DOMAIN outbox : WindowPasses(i))

FairSpec == Spec /\ Fairness
=============================================================================
