------------------------ MODULE MonitoringProperties ------------------------
(***************************************************************************)
(* What the monitoring pipeline promises: no alert is lost or falsely      *)
(* taken as delivered, duplicates and storms only where a fault excuses    *)
(* them, and every outage is told.                                         *)
(***************************************************************************)
EXTENDS Monitoring

\* Every variable has its type; a run holds rows exactly while it delivers
\* them, and knows the attempts of each (drain's batch and its snapshot).
TypeOK ==
    /\ heartbeat \in [Services -> [success : {"never", "recent", "old"},
                                   failedSince : BOOLEAN]]
    /\ outage \in [Services -> Nat]
    /\ outbox \in Seq([service : Services, kind : Kinds, outage : Nat, recent : BOOLEAN,
                       status : {"PENDING", "SENT", "DEAD"}, attempts : Nat,
                       lapsed : BOOLEAN])
    /\ copies \in Seq(0 .. 2) /\ Len(copies) = Len(outbox)
    /\ excused \subseteq DOMAIN outbox
    /\ lapsed \subseteq Relays \cup Watchdogs
    /\ drainLock \in Relays \cup {Nobody} /\ watchLock \in Watchdogs \cup {Nobody}
    /\ DOMAIN relay = Relays
    /\ \A r \in Relays :
          /\ relay[r].at \in {"idle", "publish", "sent", "failed"}
          /\ relay[r].batch \subseteq DOMAIN outbox
          /\ relay[r].at # "idle" <=> relay[r].batch # {}
          /\ relay[r].at # "idle" => relay[r].on \in relay[r].batch
          /\ \A i \in relay[r].batch : relay[r].seen[i] \in Nat
          /\ relay[r].permanent \in BOOLEAN
    /\ DOMAIN watchdog = Watchdogs
    /\ \A w \in Watchdogs :
          /\ watchdog[w].at \in {"idle", "look", "record"}
          /\ watchdog[w].found \subseteq [service : Services, kind : Kinds]
          /\ watchdog[w].at = "record" => watchdog[w].on \in watchdog[w].found
    /\ {troubles, renotified, requeues, faults} \subseteq Nat

\* A row is SENT only if its message reached SNS: no crash, failed write, lost
\* session, concurrent drain or requeue turns an undelivered alert into a
\* delivered one (relay.ts drain, markSent only after publishAlert).
SentWasPublished ==
    \A i \in DOMAIN outbox : outbox[i].status = "SENT" => copies[i] > 0

\* Unless a kill, a lost answer, a failed mark or a lost lock excuses it, an
\* alert is delivered at most once, and a delivered alert is SENT or about to
\* be marked: it is neither sent again nor parked as undeliverable (the drain
\* lock of relay.ts and its claim-once batch).
DeliveredOnce ==
    \A i \in DOMAIN outbox \ excused :
        copies[i] > 0 =>
            /\ copies[i] = 1
            /\ outbox[i].status = "SENT"
               \/ \E r \in Relays : relay[r].at = "sent" /\ relay[r].on = i

\* Two alerts about the same service and kind are never enqueued within one
\* renotify window, unless one of them by a run that had lost its session:
\* the suppression query and the insert are two statements, and only the
\* watchdog's lock keeps two invocations apart (recordIncident, watchdog.ts).
OneAlertPerWindow ==
    \A i, j \in DOMAIN outbox :
        ( /\ i < j /\ outbox[i].recent /\ outbox[j].recent
          /\ outbox[i].service = outbox[j].service /\ outbox[i].kind = outbox[j].kind )
        => outbox[i].lapsed \/ outbox[j].lapsed

\* An alert about the present outage of s has been dealt with: it is
\* delivered, or parked where the relay reports it.
Told(s) ==
    \E i \in DOMAIN outbox :
        /\ outbox[i].service = s /\ outbox[i].kind = "STALE"
        /\ outbox[i].outage = outage[s] /\ outbox[i].status # "PENDING"

\* A service that has gone stale recovers or is told about: an alert left from
\* an earlier outage silences this one only for its window, and an alert that
\* SNS keeps refusing does not hold the ones behind it (watchdog and relay
\* together, over any number of refused messages and the bounded faults).
OutageIsTold ==
    \A s \in Services : Stale(heartbeat[s]) ~> (~Stale(heartbeat[s]) \/ Told(s))
=============================================================================
