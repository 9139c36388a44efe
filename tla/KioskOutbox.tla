---------------------------- MODULE KioskOutbox ----------------------------
(***************************************************************************)
(* A badge scan on its way from a kiosk to the server's log: the kiosk's   *)
(* try-first post and durable queue (client/client.py, client/outbox.py),  *)
(* a network that loses and delays, kiosks that crash, and what api/scan   *)
(* does with an event that arrives once, twice, late or out of order.      *)
(*                                                                         *)
(* A kiosk has two threads: the scanner, which handles one badge at a      *)
(* time, and the drain, which sends one queued row at a time.  The scans   *)
(* are members'.  Of the keyholders only that one is in, and the flush     *)
(* that comes with an arrival of theirs, is here: the rest is Attendance's.*)
(***************************************************************************)
EXTENDS Naturals, FiniteSets, Sequences

CONSTANTS
  People, Kiosks,
  Unknown,    \* people the server answers 404 or 409 for, until put right
  Gone,       \* those of them who never will be
  Fast,       \* kiosks whose clock starts ahead of the time
  Badges,     \* bound: who badges where, and in which direction
  MaxScans,   \* bound: badges read
  MaxStray,   \* bound: requests on their way that nobody waits for
  Straying    \* bound: the scans they are of

ASSUME KioskAssumption ==
  /\ MaxScans \in Nat /\ MaxStray \in Nat
  /\ People # {} /\ Kiosks # {}
  /\ Gone \subseteq Unknown /\ Unknown \subseteq People
  /\ Fast \subseteq Kiosks
  /\ Badges \subseteq People \X Kiosks \X {"IN", "OUT"}

Scans == 1 .. MaxScans

VARIABLES
  reads,    \* how many badges were read; the n-th is scan n
  scan,     \* what each scan is, and where the kiosk keeps it
  tried,    \* each kiosk's dead rows already sent in vain, the latest last
  sending,  \* the row each kiosk's drain waits to hear about, or 0
  clock,    \* each kiosk's clock
  net,      \* requests on their way or at the server
  unknown,  \* the people the server refuses
  log,      \* how often each scan is in RawBadgeLog
  effects,  \* the scans that signed someone in or out
  ignored,  \* the scans that were debounced
  inside,   \* people with an open visit
  latest,   \* the latest arrival or departure of each person's visits
  open,     \* is a keyholder in
  parked,   \* the time a scan that is held as PARKED_CLOSED occurred at, or 0
  missed,   \* the scans that others' arrivals passed by, held or being applied
  collided  \* the scans that were rolled back and answered as duplicates

kiosk == <<reads, scan, tried, sending, clock>>
visits == <<effects, inside, latest>>
door == <<open, parked, missed>>
server == <<unknown, log, ignored, collided, visits, door>>
vars == <<kiosk, net, server>>

\* place: a posted scan is in the scanner thread's hands, pending and dead ones
\* are in the queue, the others the kiosk has let go of.
Places == {"unread", "posted", "pending", "dead", "done", "rejected", "lost"}

Unread(p, k) ==
  [who |-> p, at |-> k, intent |-> "IN", stamp |-> 0, suspect |-> FALSE, place |-> "unread"]

\* Time is counted in scans: scan n is read at 2n, and between scans it is odd.
Now == 2 * reads + 1

\* A clock is ahead; or it was just set right, which the next scan notices; or it
\* is right; or it was set right and a restart kept that from being noticed.
Clocks == {"ahead", "stepped", "right", "unnoticed"}

\* What a clock that is ahead adds.
Ahead == 2 * (MaxScans + 1)

Init ==
  /\ reads = 0
  /\ scan = [n \in Scans |-> Unread(CHOOSE p \in People : TRUE, CHOOSE k \in Kiosks : TRUE)]
  /\ tried = [k \in Kiosks |-> <<>>]
  /\ sending = [k \in Kiosks |-> 0]
  /\ clock = [k \in Kiosks |-> IF k \in Fast THEN "ahead" ELSE "right"]
  /\ net = {}
  /\ unknown = Unknown
  /\ log = [n \in Scans |-> 0]
  /\ effects = {}
  /\ ignored = {}
  /\ inside = {}
  /\ latest = [p \in People |-> 0]
  /\ open = FALSE
  /\ parked = [n \in Scans |-> 0]
  /\ missed = {}
  /\ collided = {}

-----------------------------------------------------------------------------
(* The kiosk's queue.                                                      *)

Rows(k, place) == {n \in Scans : scan[n].at = k /\ scan[n].place = place}

Move(n, place) == scan' = [scan EXCEPT ![n].place = place]

InHand(k) == Rows(k, "posted")

\* Mutant: a scan does not look for its predecessor.
MutantHasPending(k, p) == FALSE

HasPending(k, p) == \E n \in Rows(k, "pending") : scan[n].who = p

\* Of some rows the one with the earliest scanned_at.
Oldest(S) == CHOOSE n \in S : \A m \in S : scan[n].stamp <= scan[m].stamp

NeverTried(k) == Rows(k, "dead") \ {tried[k][i] : i \in DOMAIN tried[k]}

\* Mutant: first in, first out, as the pending rows.
MutantNextDead(k) == Oldest(Rows(k, "dead"))

\* dead_rows: rows never tried first, then the least recently tried.
NextDead(k) == IF NeverTried(k) # {} THEN Oldest(NeverTried(k)) ELSE Head(tried[k])

\* A row waits for one turn at most.
Without(s, n) ==
  IF \E i \in DOMAIN s : s[i] = n
    THEN LET i == CHOOSE i \in DOMAIN s : s[i] = n IN
         SubSeq(s, 1, i - 1) \o SubSeq(s, i + 1, Len(s))
    ELSE s

\* mark_clock_suspect, and the new scan with its own mark.
Suspected(k, n, e) ==
  [m \in Scans |->
     CASE m = n -> e
       [] m # n /\ clock[k] = "stepped" /\ scan[m].at = k /\ scan[m].place = "pending" ->
            [scan[m] EXCEPT !.suspect = TRUE]
       [] OTHER -> scan[m]]

\* A thread of the kiosk waits for the answer, at first; and the server has not
\* looked yet whether someone is in.
Request(n, mode, suspect) ==
  [no |-> n, mode |-> mode, suspect |-> suspect, awaited |-> TRUE, saw |-> "nothing"]

\* Nobody waits for them any more: they are lost, or go on alone.
Abandon(S) ==
  \E kept \in SUBSET {r \in S : r.no \in Straying} :
    /\ Cardinality(kept \cup {r \in net : ~r.awaited}) <= MaxStray
    /\ net' = (net \ S) \cup {[r EXCEPT !.awaited = FALSE] : r \in kept}

-----------------------------------------------------------------------------
(* The scanner thread: handle_scan.                                        *)

\* The direction is the one the kiosk displays; its view of who is in may be
\* out of date in any way.  A scan does not overtake a queued one of the same
\* person: it is queued behind it.
Badge(k, p, intent) ==
  LET n == reads + 1
      behind == HasPending(k, p)
      e == [who |-> p, at |-> k, intent |-> intent,
            stamp |-> 2 * n + (IF clock[k] = "ahead" THEN Ahead ELSE 0),
            suspect |-> clock[k] = "stepped",
            place |-> IF behind THEN "pending" ELSE "posted"] IN
  /\ reads < MaxScans
  /\ InHand(k) = {}
  /\ reads' = n
  /\ scan' = Suspected(k, n, e)
  /\ clock' = [clock EXCEPT ![k] = IF @ = "stepped" THEN "right" ELSE @]
  /\ net' = IF behind THEN net
            ELSE net \cup {Request(n, "live", e.suspect)}
  /\ UNCHANGED <<tried, sending, server>>

\* Mutant: a refused scan stays in hand.
MutantHearLive(n, ok) ==
  /\ Move(n, IF ok THEN "done" ELSE "posted")
  /\ UNCHANGED <<tried, sending>>

\* The answer to the live post.
HearLive(n, ok) ==
  /\ Move(n, IF ok THEN "done" ELSE "rejected")
  /\ UNCHANGED <<tried, sending>>

\* No answer in time, or one that says to try again: the scan is queued.
GiveUpLive(n) ==
  /\ scan[n].place = "posted"
  /\ Move(n, "pending")
  /\ Abandon({r \in net : r.no = n})
  /\ UNCHANGED <<reads, tried, sending, clock, server>>

-----------------------------------------------------------------------------
(* The drain thread: replay_drain and _send_dead_row.                      *)

NextRow(k) == Oldest(Rows(k, "pending"))

\* How long the drain rests after a failure is left open: an earlier request of
\* the row may still be on its way, as after a restart.
Send(k) ==
  /\ sending[k] = 0
  /\ LET n == IF Rows(k, "pending") # {} THEN NextRow(k) ELSE NextDead(k)
         mode == IF Rows(k, "pending") # {} THEN "replay" ELSE "dead" IN
     /\ Rows(k, "pending") \cup Rows(k, "dead") # {}
     /\ sending' = [sending EXCEPT ![k] = n]
     /\ net' = net \cup {Request(n, mode, scan[n].suspect)}
  /\ UNCHANGED <<reads, scan, tried, clock, server>>

\* Mutant: a refusal settles a row.
MutantHearDrain(k, n, ok) ==
  /\ sending' = [sending EXCEPT ![k] = 0]
  /\ Move(n, "done")
  /\ tried' = [tried EXCEPT ![k] = Without(@, n)]

\* The row is done, or dead, or stays dead and waits for its next turn.
HearDrain(k, n, ok) ==
  /\ sending' = [sending EXCEPT ![k] = 0]
  /\ Move(n, IF ok THEN "done" ELSE "dead")
  /\ tried' = [tried EXCEPT ![k] =
       IF ok \/ scan[n].place = "pending" THEN Without(@, n) ELSE Append(Without(@, n), n)]

GiveUpDrain(k) ==
  LET n == sending[k] IN
  /\ n # 0
  /\ sending' = [sending EXCEPT ![k] = 0]
  /\ tried' = [tried EXCEPT ![k] = IF scan[n].place = "dead" THEN Append(Without(@, n), n) ELSE @]
  /\ Abandon({r \in net : r.no = n /\ r.awaited})
  /\ UNCHANGED <<reads, scan, clock, server>>

-----------------------------------------------------------------------------
(* The kiosk as a whole.                                                   *)

\* The process dies and kiosk.sh starts it again.  The queue is on disk, the
\* scan in hand is not.
Crash(k) ==
  /\ InHand(k) # {} \/ sending[k] # 0 \/ clock[k] = "stepped"
  /\ scan' = [n \in Scans |-> IF n \in InHand(k) THEN [scan[n] EXCEPT !.place = "lost"] ELSE scan[n]]
  /\ sending' = [sending EXCEPT ![k] = 0]
  /\ clock' = [clock EXCEPT ![k] = IF @ = "stepped" THEN "unnoticed" ELSE @]
  /\ Abandon({r \in net : scan[r.no].at = k /\ r.awaited})
  /\ UNCHANGED <<reads, tried, server>>

\* A clock that was ahead by more than CLOCK_STEP_SECONDS is set right.
SetClock(k) ==
  /\ clock[k] = "ahead"
  /\ clock' = [clock EXCEPT ![k] = "stepped"]
  /\ UNCHANGED <<reads, scan, tried, sending, net, server>>

-----------------------------------------------------------------------------
(* The server: api/scan under the person's lock.                           *)

\* The transaction of an arrival looks whether its person is in, and whether a
\* keyholder is, before it asks for the facility's lock.
TakenUp(r) == r.saw # "nothing"

LockFree(p) == \A r \in net : scan[r.no].who = p => ~TakenUp(r)

\* Mutant: the log is not asked for the event first.
MutantSeen(n) == FALSE

Seen(n) == log[n] > 0

\* Mutant: a replay is applied whatever has happened since.
MutantOutOfOrder(e) == FALSE

\* A replay behind newer activity of its person.
OutOfOrder(e) == latest[e.who] > e.stamp

\* The intent is applied as displayed: of someone who is in already, or out
\* already, it is a conflict.
Conflict(e) == (e.intent = "IN") <=> (e.who \in inside)

Applicable(r, e) ==
  /\ ~r.suspect /\ r.mode # "dead" /\ ~Conflict(e)
  /\ r.mode = "replay" => ~OutOfOrder(e)

\* A live event occurs when its handler starts, a replay when it was scanned.
Times(r) == IF r.mode = "live" THEN {2 * m + 1 : m \in r.no .. reads} ELSE {scan[r.no].stamp}

Newer(s, t) == IF s > t THEN s ELSE t

Apply(e, n, time) ==
  /\ inside' = IF e.intent = "IN" THEN inside \cup {e.who} ELSE inside \ {e.who}
  /\ latest' = [latest EXCEPT ![e.who] = Newer(@, time)]
  /\ effects' = effects \cup {n}

Log(n) == log' = [log EXCEPT ![n] = @ + 1]

\* RawBadgeLog gets its row, then the event is parked for a human, or a
\* departure is applied.  A replay may be older than the freshness window, and
\* a live departure may be answered with a warning only.
Record(r, e) ==
  /\ Log(r.no)
  /\ \/ /\ r.suspect \/ r.mode # "live" \/ Conflict(e) \/ e.intent = "OUT"
        /\ UNCHANGED visits
     \/ /\ Applicable(r, e) /\ e.intent = "OUT"
        /\ \E time \in Times(r) : Apply(e, r.no, time)
  /\ UNCHANGED ignored

\* A row of the person stamped less than 3 s ago, whichever scan it is of; how
\* long ago that was is left open.
Debounce(r, e) ==
  /\ r.mode # "dead"
  /\ \E n \in Scans : Seen(n) /\ scan[n].who = e.who
  /\ ignored' = ignored \cup {r.no}
  /\ UNCHANGED <<log, visits>>

\* The answer reaches the thread that waits for it.  (An answer that does not
\* is a request that was abandoned first.)
Answer(r, ok) ==
  /\ net' = net \ {r}
  /\ CASE ~r.awaited -> UNCHANGED <<scan, tried, sending>>
       [] r.awaited /\ r.mode = "live" -> HearLive(r.no, ok)
       [] OTHER -> HearDrain(scan[r.no].at, r.no, ok)
  /\ UNCHANGED <<reads, clock>>

\* A transaction of one step: all but the arrivals that TakeUp begins.
Serve(r) ==
  LET e == scan[r.no]
      ok == e.who \notin unknown IN
  /\ r \in net /\ LockFree(e.who)
  /\ IF ok /\ ~Seen(r.no) THEN Debounce(r, e) \/ Record(r, e)
     ELSE UNCHANGED <<log, visits, ignored>>
  /\ Answer(r, ok)
  /\ UNCHANGED <<unknown, collided, door>>

\* An arrival that may be applied, up to the reads of applyPresenceIntent: a
\* transaction of two steps.
TakeUp(r) ==
  LET e == scan[r.no] IN
  /\ r \in net /\ LockFree(e.who)
  /\ e.who \notin unknown /\ ~Seen(r.no)
  /\ e.intent = "IN" /\ Applicable(r, e)
  /\ net' = (net \ {r}) \cup {[r EXCEPT !.saw = IF open THEN "open" ELSE "closed"]}
  /\ missed' = missed \ {r.no}
  /\ UNCHANGED <<kiosk, unknown, log, ignored, collided, visits, open, parked>>

\* Held as PARKED_CLOSED, until a keyholder comes in.
Hold(r) ==
  /\ Log(r.no)
  /\ \E time \in Times(r) : parked' = [parked EXCEPT ![r.no] = time]
  /\ UNCHANGED <<visits, collided>>

\* Someone else opened the visit: the insert fails on the index of open visits,
\* all is rolled back, the log's row with it, and the answer is that the event
\* is recorded already.
Collide(r) ==
  /\ collided' = collided \cup {r.no}
  /\ UNCHANGED <<log, visits, parked>>

SignIn(r) ==
  /\ Log(r.no)
  /\ \E time \in Times(r) : Apply(scan[r.no], r.no, time)
  /\ UNCHANGED <<parked, collided>>

\* An arrival is held if no keyholder was in when it looked, or is not in now;
\* one that looked before a keyholder came may have counted only after.
Arrive(r) ==
  LET in == scan[r.no].who \in inside IN
  /\ r \in net /\ TakenUp(r)
  /\ \/ (r.saw = "closed" \/ ~open) /\ Hold(r)
     \/ open /\ in /\ Collide(r)
     \/ open /\ ~in /\ SignIn(r)
  /\ Answer(r, TRUE)
  /\ UNCHANGED <<unknown, ignored, open, missed>>

\* A request nobody waits for never arrives, or its transaction fails.
Drop(r) ==
  /\ r \in net /\ ~r.awaited
  /\ net' = net \ {r}
  /\ UNCHANGED <<kiosk, server>>

\* The person is put on file, or the badge's merged record is found again: later
\* than any request that nobody waits for is worked on.
PutRight(p) ==
  /\ p \in unknown \ Gone
  /\ \A r \in net : scan[r.no].who = p => r.awaited
  /\ unknown' = unknown \ {p}
  /\ UNCHANGED <<kiosk, net, log, ignored, collided, visits, door>>

-----------------------------------------------------------------------------
(* Who else opens and closes visits.                                       *)

Held == {n \in Scans : parked[n] # 0}

HeldOf(p) == {n \in Held : scan[n].who = p}

\* Of the scans in B the earliest of everyone who is not in.
FirstIn(B, T) ==
  /\ T \subseteq B
  /\ \A n \in T : /\ scan[n].who \notin inside
                  /\ \A m \in B : scan[m].who = scan[n].who =>
                       parked[n] <= parked[m] /\ (m \in T => m = n)
  /\ \A m \in B : scan[m].who \in inside \/ \E n \in T : scan[n].who = scan[m].who

\* A keyholder comes in, and flushParkedClosed takes the held scans in the order
\* they occurred: all it read, or a batch of them, or none, if the keyholder was
\* let in without one.  The first of a person opens the visit, at its own time;
\* another of someone who is in is a conflict, and parked for good.
KeyholderIn ==
  \E B \in SUBSET Held : \E T \in SUBSET B :
    /\ FirstIn(B, T)
    /\ open' = TRUE
    /\ inside' = inside \cup {scan[n].who : n \in T}
    /\ effects' = effects \cup T
    /\ latest' = [p \in People |->
         IF \E n \in T : scan[n].who = p
           THEN Newer(latest[p], parked[CHOOSE n \in T : scan[n].who = p]) ELSE latest[p]]
    /\ parked' = [n \in Scans |-> IF n \in B THEN 0 ELSE parked[n]]
    /\ missed' = (missed \cup Held \cup {r.no : r \in {q \in net : TakenUp(q)}}) \ B
    /\ UNCHANGED <<kiosk, net, unknown, log, ignored, collided>>

\* The last keyholder leaves.
KeyholdersOut ==
  /\ open
  /\ open' = FALSE
  /\ UNCHANGED <<kiosk, net, unknown, log, ignored, collided, visits, parked, missed>>

\* A member is signed in by hand, under the person's lock.
EnterByHand(p) ==
  /\ p \notin inside \cup unknown /\ LockFree(p)
  /\ inside' = inside \cup {p}
  /\ latest' = [latest EXCEPT ![p] = Newer(@, Now)]
  /\ missed' = missed \cup HeldOf(p)
  /\ UNCHANGED <<kiosk, net, unknown, log, ignored, collided, effects, open, parked>>

\* By the closing of the building, at night, or by hand.
SignedOut(p) ==
  /\ p \in inside
  /\ inside' = inside \ {p}
  /\ latest' = [latest EXCEPT ![p] = Newer(@, Now)]
  /\ UNCHANGED <<kiosk, net, unknown, log, ignored, collided, effects, door>>

\* A reviewer takes a held scan out of the flush's reach.
Settle(n) ==
  /\ n \in Held
  /\ parked' = [parked EXCEPT ![n] = 0]
  /\ UNCHANGED <<kiosk, net, unknown, log, ignored, collided, visits, open, missed>>

-----------------------------------------------------------------------------

Scanner ==
  \/ \E b \in Badges : Badge(b[2], b[1], b[3])
  \/ \E n \in Scans : GiveUpLive(n)

Drain == \E k \in Kiosks : Send(k) \/ GiveUpDrain(k)

Server ==
  \/ \E r \in net : Serve(r) \/ TakeUp(r) \/ Arrive(r) \/ Drop(r)
  \/ \E p \in People : PutRight(p)

Others ==
  \/ KeyholderIn \/ KeyholdersOut
  \/ \E p \in People : EnterByHand(p) \/ SignedOut(p)
  \/ \E n \in Scans : Settle(n)

Next == Scanner \/ Drain \/ Server \/ Others \/ \E k \in Kiosks : Crash(k) \/ SetClock(k)

Spec == Init /\ [][Next]_vars

ServeRow(n) ==
  \E r \in net : r.no = n /\ r.mode # "live" /\ r.awaited /\ (Serve(r) \/ Arrive(r))

\* The drain runs on, a transaction that was begun ends, a request nobody waits
\* for is not there for ever, and the network does not fail a row every time.
Fairness ==
  /\ \A k \in Kiosks : WF_vars(Send(k))
  /\ \A n \in Scans :
       /\ SF_vars(ServeRow(n))
       /\ WF_vars(\E r \in net : r.no = n /\ Arrive(r))
       /\ WF_vars(\E r \in net : r.no = n /\ Drop(r))

FairSpec == Spec /\ Fairness

=============================================================================
