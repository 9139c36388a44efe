-------------------------- MODULE KioskProperties --------------------------
(***************************************************************************)
(* What the kiosk's queue and the scan route promise of a badge read.      *)
(***************************************************************************)
EXTENDS KioskOutbox

ScanType ==
  [who : People, at : Kiosks, intent : {"IN", "OUT"}, stamp : Nat,
   suspect : BOOLEAN, place : Places]

RequestType ==
  [no : Scans, mode : {"live", "replay", "dead"}, suspect : BOOLEAN, awaited : BOOLEAN,
   saw : {"nothing", "open", "closed"}]

\* A thread that waits for an answer has one request on its way, for the scan it
\* has in hand; the drain sends rows of its own queue.
OneRequest ==
  /\ \A n \in Scans :
       scan[n].place = "posted" => \E r \in net : r.no = n /\ r.mode = "live" /\ r.awaited
  /\ \A r \in net : r.awaited =>
       IF r.mode = "live" THEN scan[r.no].place = "posted"
                          ELSE sending[scan[r.no].at] = r.no
  /\ \A q, r \in net : q.awaited /\ r.awaited /\ q.no = r.no => q = r
  /\ \A k \in Kiosks : sending[k] # 0 =>
       /\ sending[k] \in Rows(k, "pending") \cup Rows(k, "dead")
       /\ \E r \in net : r.no = sending[k] /\ r.awaited

TypeOK ==
  /\ reads \in 0 .. MaxScans
  /\ scan \in [Scans -> ScanType]
  /\ tried \in [Kiosks -> Seq(Scans)]
  /\ sending \in [Kiosks -> 0 .. MaxScans]
  /\ clock \in [Kiosks -> Clocks]
  /\ net \subseteq RequestType
  /\ unknown \subseteq People /\ inside \subseteq People
  /\ log \in [Scans -> Nat]
  /\ effects \subseteq Scans /\ ignored \subseteq Scans
  /\ latest \in [People -> Nat]
  /\ open \in BOOLEAN
  /\ parked \in [Scans -> Nat]
  /\ missed \subseteq Scans /\ collided \subseteq Scans
  /\ OneRequest

\* However often a scan is sent, and in whatever order its requests arrive, it
\* is in the log once (scan/route.ts, the clientEventId).
RecordedOnce == \A n \in Scans : log[n] <= 1

\* What the kiosk has let go of is in the server's log (outbox.py, ack;
\* classify_response), unless the debounce took it for a double read, or its
\* arrival ran into a visit that a flush opened meanwhile: that is rolled back,
\* the log's row with it, and answered as a duplicate (scan/route.ts, P2002).
AcknowledgedIsRecorded ==
  \A n \in Scans : scan[n].place = "done" => log[n] > 0 \/ n \in ignored \cup collided

\* The scans of one person at one kiosk take effect in the order they were read,
\* through outages, time-outs and clock steps (handle_scan queues behind a
\* predecessor; replay_drain is first in, first out), and out of a hold as well
\* (flushParkedClosed).  Scans marked as suspect wait for a human.  Excepted are
\* debounced scans, those answered as duplicates, those lost in a crash, a queue
\* whose clock was set right unnoticed, and a held scan that a flush or an entry
\* by hand passed by: a later flush applies it, whatever has happened since.
EffectsInOrder ==
  [][\A n \in effects' \ effects :
       ~scan[n].suspect /\ n \notin ignored \cup collided /\ scan[n].place # "lost"
       /\ clock[scan[n].at] # "unnoticed" /\ n \notin Held \cap missed =>
         ~\E m \in effects : /\ scan[m].who = scan[n].who
                             /\ scan[m].at = scan[n].at
                             /\ n < m]_vars

\* A replay takes effect at once, or out of a hold.
Replayed(n) ==
  \/ \E r \in net \ net' : r.no = n /\ r.mode = "replay"
  \/ n \in Held /\ parked[n] = scan[n].stamp

\* A replay takes no effect behind a later scan of the person, at whichever
\* kiosk: neither at once (scan/route.ts, out_of_order) nor out of a hold
\* (flushParkedClosed, in the order of occurredAt).  Excepted is one that a flush
\* or an entry by hand passed by, while it was held or being applied: nothing
\* checks its time again.
ReplayTakesItsTurn ==
  [][\A n \in effects' \ effects :
       Replayed(n) /\ scan[n].stamp = 2 * n /\ n \notin missed
       => \A m \in effects : scan[m].who = scan[n].who /\ scan[m].stamp = 2 * m => m < n]_vars

\* A queued scan of someone the server knows, a dead letter included, is taken
\* in the end: neither outages, nor crashes, nor rows that are refused for ever
\* keep it (replay_drain; the rotation of dead_rows).
Queued(n) == scan[n].place \in {"pending", "dead"}

QueueEmpties ==
  \A n \in Scans : (Queued(n) /\ scan[n].who \notin unknown) ~> ~Queued(n)

=============================================================================
