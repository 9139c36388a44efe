----------------------------- MODULE Attendance -----------------------------
(***************************************************************************)
(* Who is signed in to the building: badge scans (api/scan with            *)
(* lib/scan-service.ts and lib/presence/project.ts), the dashboard, manual *)
(* entries and corrections (api/attendance), staff corrections             *)
(* (api/facility), roster marks (api/events) and the nightly close.        *)
(*                                                                         *)
(* A step is one database transaction, or the read that a handler decides  *)
(* on.  Scans hold the person's advisory lock from the read to the commit; *)
(* arrivals also take the facility lock for the write; the sweep that      *)
(* closes the building runs after the last keyholder's commit.             *)
(***************************************************************************)
EXTENDS Naturals, FiniteSets

CONSTANTS
  People, Keyholders,
  MaxCalls,      \* bound: handlers that run at once
  FlushBatch,    \* FLUSH_BATCH: held scans projected at a time
  MaxVisits      \* bound: visits each person may open, held scans included

ASSUME RosterAssumption ==
  /\ Keyholders \subseteq People
  /\ FlushBatch \in Nat \ {0}
  /\ MaxCalls \in Nat
  /\ MaxVisits \in [People -> Nat]

VARIABLES
  visit,   \* each person's latest visit
  held,    \* people whose PARKED_CLOSED arrival waits for a keyholder
  calls,   \* handlers between two of their steps
  night,   \* the visits the nightly pass has still to close
  lapsed   \* something happened that the guards do not cover

vars == <<visit, held, calls, night, lapsed>>

\* no: the visit's number; open: neither departed nor deleted; token: a
\* forceCloseToken is stored.
NoVisit == [no |-> 0, open |-> FALSE, token |-> FALSE]

Nobody == [p \in People |-> 0]

\* who: the person; no: the visit a departure is about; closes: it was decided
\* that this departure closes the building; confirmed: on a confirmation; seen:
\* the roster a closing was decided on.
Call(op, p) == [op |-> op, who |-> p, no |-> 0, closes |-> FALSE,
                confirmed |-> FALSE, seen |-> Nobody]

Init ==
  /\ visit = [p \in People |-> NoVisit]
  /\ held = {}
  /\ calls = {}
  /\ night = Nobody
  /\ lapsed = FALSE

-----------------------------------------------------------------------------
(* The building as a query sees it.                                        *)

InsideOf(v) == {p \in People : v[p].open}
Inside == InsideOf(visit)

Others(p) == Inside \ {p}

\* Mutant: the leaver's own visit is counted among the keyholders'.
MutantLastKeyholder(p) == p \in Keyholders /\ Inside \cap Keyholders = {}

\* Nobody else in is a keyholder.
LastKeyholder(p) == p \in Keyholders /\ Others(p) \cap Keyholders = {}

\* The facility-open guard of every arrival.
MayEnter(p) == p \in Keyholders \/ Inside \cap Keyholders # {}

\* What a query of the open visits returned.
Roster == [p \in People |-> IF visit[p].open THEN visit[p].no ELSE 0]

-----------------------------------------------------------------------------
(* Writes.                                                                 *)

\* The arrivals a person has left within the bound, held ones counted.
CanOpen(p) ==
  /\ ~visit[p].open
  /\ visit[p].no + (IF p \in held THEN 1 ELSE 0) < MaxVisits[p]

Opened(v) == [no |-> v.no + 1, open |-> TRUE, token |-> FALSE]
Closed(v) == [no |-> v.no, open |-> FALSE, token |-> FALSE]

OpenVisit(p) == [visit EXCEPT ![p] = Opened(@)]
CloseVisits(S) == [p \in People |-> IF p \in S THEN Closed(visit[p]) ELSE visit[p]]

\* Mutant: a flush projects without asking for a keyholder again.
MutantFlushInto(v) ==
  \E batch \in SUBSET held :
    /\ visit' = [p \in People |-> IF p \in batch /\ ~v[p].open THEN Opened(v[p]) ELSE v[p]]
    /\ held' = held \ batch

\* flushParkedClosed: of a batch of the held arrivals (the code takes the oldest)
\* each is projected if a keyholder is in and the person is not; of someone who
\* is in already it is a CONFLICT_DOUBLE_IN and waits no longer.
FlushInto(v) ==
  \E batch \in SUBSET held :
    LET projected == {p \in batch : ~v[p].open /\ InsideOf(v) \cap Keyholders # {}}
        conflicts == {p \in batch : v[p].open} IN
    /\ Cardinality(batch) <= FlushBatch
    /\ batch = held \/ Cardinality(batch) = FlushBatch
    /\ visit' = [p \in People |-> IF p \in projected THEN Opened(v[p]) ELSE v[p]]
    /\ held' = held \ (projected \cup conflicts)

Begin(c) == Cardinality(calls) < MaxCalls /\ c \notin calls /\ calls' = calls \cup {c}
Finish(c) == calls' = calls \ {c}

Lapse == lapsed' = TRUE

ScanOps == {"hold", "arrive", "badge"}
DepartOps == {"badge", "web"}

\* Mutant: arrivals do not take the lock.
MutantLockFree(p) == \A c \in calls : ~(c.op = "badge" /\ c.who = p)

\* The per-person advisory lock, held by a scan from its read to its commit.
LockFree(p) == \A c \in calls : ~(c.op \in ScanOps /\ c.who = p)

-----------------------------------------------------------------------------
(* Arrivals.                                                               *)

\* A scan finds the person out.  A kiosk scan of a non-keyholder that displays
\* IN is held right away when no keyholder is in; any other scan goes on to
\* processCheckin, which decides under the facility lock.
ScanIn(p) ==
  /\ LockFree(p) /\ CanOpen(p)
  /\ \/ ~MayEnter(p) /\ Begin(Call("hold", p))
     \/ Begin(Call("arrive", p))
  /\ UNCHANGED <<visit, held, night, lapsed>>

Hold(c) ==
  /\ c.op = "hold"
  /\ held' = held \cup {c.who}
  /\ Finish(c)
  /\ UNCHANGED <<visit, night, lapsed>>

\* A visit that opens while the nightly pass runs is not on its list.
MissedByNight == IF night # Nobody THEN Lapse ELSE UNCHANGED lapsed

\* processCheckin.  The visit index refuses a second open visit (a flush may
\* have opened one since the read), which rolls the scan back.  A refused
\* arrival is held, except a web scan that displays no direction.
CheckIn(c) ==
  /\ c.op = "arrive"
  /\ \/ /\ MayEnter(c.who) /\ ~visit[c.who].open
        /\ IF c.who \in Keyholders
           THEN FlushInto(OpenVisit(c.who))
           ELSE visit' = OpenVisit(c.who) /\ UNCHANGED held
        /\ MissedByNight
     \/ /\ MayEnter(c.who) /\ visit[c.who].open
        /\ UNCHANGED <<visit, held, lapsed>>
     \/ /\ ~MayEnter(c.who)
        /\ held' \in {held, held \cup {c.who}}
        /\ UNCHANGED <<visit, lapsed>>
  /\ Finish(c)
  /\ UNCHANGED night

\* MANUAL_CHECKIN on the dashboard: both locks, and no flush.
DashboardIn(p) ==
  /\ LockFree(p) /\ CanOpen(p) /\ MayEnter(p)
  /\ visit' = OpenVisit(p)
  /\ MissedByNight
  /\ UNCHANGED <<held, calls, night>>

\* A manual entry without a departure, or a parked scan recorded as still
\* open: both locks, and for a keyholder the flush in a transaction of its own.
EnterOpen(p) ==
  /\ LockFree(p) /\ CanOpen(p) /\ MayEnter(p)
  /\ visit' = OpenVisit(p)
  /\ IF p \in Keyholders THEN Begin(Call("flush", p)) ELSE UNCHANGED calls
  /\ MissedByNight
  /\ UNCHANGED <<held, night>>

Flush(c) ==
  /\ c.op = "flush"
  /\ FlushInto(visit)
  /\ IF visit' # visit THEN MissedByNight ELSE UNCHANGED lapsed
  /\ Finish(c)
  /\ UNCHANGED night

\* A held arrival that a reviewer records, with or without a departure.
RecordHeld(p) ==
  /\ p \in held
  /\ LockFree(p) /\ ~visit[p].open
  /\ \/ UNCHANGED <<visit, lapsed>>
     \/ MayEnter(p) /\ visit' = OpenVisit(p) /\ MissedByNight
  /\ held' = held \ {p}
  /\ UNCHANGED <<calls, night>>

\* A roster mark "Present" without a departure opens a visit on no condition.
RosterIn(p) ==
  /\ LockFree(p) /\ CanOpen(p)
  /\ visit' = OpenVisit(p)
  /\ IF MayEnter(p) THEN MissedByNight ELSE Lapse
  /\ UNCHANGED <<held, calls, night>>

-----------------------------------------------------------------------------
(* Departures.                                                             *)

\* Another keyholder is leaving, and is not going to close the building.
OtherLeaving(p) ==
  \E c \in calls : c.op \in DepartOps /\ ~c.closes /\ c.who \in Keyholders \ {p}

\* The decision to let p out.  Of two keyholders who leave at once each counts
\* the other as present.
Proceed(op, p, closes, confirmed) ==
  /\ Begin([op |-> op, who |-> p, no |-> visit[p].no, closes |-> closes,
            confirmed |-> confirmed, seen |-> IF closes THEN Roster ELSE Nobody])
  /\ IF p \in Keyholders /\ ~closes /\ OtherLeaving(p)
     THEN Lapse ELSE UNCHANGED lapsed
  /\ UNCHANGED <<visit, held, night>>

\* Mutant: only keyholders are asked about.
MutantMayClose(p, confirmed) == Others(p) \cap Keyholders = {} \/ confirmed

\* The last keyholder may leave others behind only on a confirmation.
MayClose(p, confirmed) == Others(p) = {} \/ confirmed

Mint(p) ==
  /\ LastKeyholder(p) /\ Others(p) # {}
  /\ visit' = [visit EXCEPT ![p].token = TRUE]
  /\ UNCHANGED <<held, calls, night, lapsed>>

\* processCheckout up to its writes.  A confirmation is the stored token echoed,
\* or on a replay the kiosk's own; a replay without one is parked for review.
ScanOut(p, replay, echo) ==
  /\ LockFree(p) /\ visit[p].open
  /\ echo => replay \/ visit[p].token
  /\ \/ LastKeyholder(p) /\ MayClose(p, echo) /\ Proceed("badge", p, TRUE, echo)
     \/ ~replay /\ ~echo /\ Mint(p)
     \/ ~LastKeyholder(p) /\ Proceed("badge", p, FALSE, FALSE)

\* A checkout on the dashboard, a member's edit that sets the departure, or a
\* member's erasure: lastKeyholderGuard, on no lock.
WebOut(p, echo) ==
  /\ visit[p].open
  /\ echo => visit[p].token
  /\ \/ LastKeyholder(p) /\ MayClose(p, echo) /\ Proceed("web", p, TRUE, echo)
     \/ ~echo /\ Mint(p)
     \/ ~LastKeyholder(p) /\ Proceed("web", p, FALSE, FALSE)

\* The commit of a departure.  If the visit is gone by then, a badge and the
\* dashboard still close the building, and an edit or an erasure may end in 404.
Depart(c) ==
  LET stands == visit[c.who].open /\ visit[c.who].no = c.no IN
  /\ c.op \in DepartOps
  /\ visit' = IF stands THEN CloseVisits({c.who}) ELSE visit
  /\ \/ c.closes /\ calls' = (calls \ {c}) \cup {[c EXCEPT !.op = "sweep"]}
     \/ (c.closes => ~stands /\ c.op = "web") /\ Finish(c)
  /\ UNCHANGED <<held, night, lapsed>>

\* runFacilityClose: under the facility lock, everyone out.
Sweep(c) ==
  /\ c.op = "sweep"
  /\ visit' = CloseVisits(Inside)
  /\ Finish(c)
  /\ UNCHANGED <<held, night, lapsed>>

\* A staff edit or removal, a duplicate resolved, or a roster mark with a
\* departure ends an open visit with no close guard.
StaffClose(p) ==
  /\ LockFree(p) /\ visit[p].open
  /\ visit' = CloseVisits({p})
  /\ IF p \in Keyholders THEN Lapse ELSE UNCHANGED lapsed
  /\ UNCHANGED <<held, calls, night>>

-----------------------------------------------------------------------------
(* The nightly close, and handlers that die.                               *)

\* Mutant: only the keyholders' visits count as abandoned.
MutantNightlyList ==
  /\ night = Nobody
  /\ night' = [p \in People |-> IF p \in Keyholders THEN Roster[p] ELSE 0]
  /\ UNCHANGED <<visit, held, calls, lapsed>>

\* The abandoned visits are listed.
NightlyList ==
  /\ night = Nobody
  /\ night' = Roster
  /\ UNCHANGED <<visit, held, calls, lapsed>>

NightlyClose(p) ==
  /\ night[p] # 0
  /\ visit' = IF visit[p].open /\ visit[p].no = night[p] THEN CloseVisits({p}) ELSE visit
  /\ night' = [night EXCEPT ![p] = 0]
  /\ UNCHANGED <<held, calls, lapsed>>

\* One checkout of the nightly pass fails; the pass goes on.
NightlyFails(p) ==
  /\ night[p] # 0
  /\ night' = [night EXCEPT ![p] = 0]
  /\ Lapse
  /\ UNCHANGED <<visit, held, calls>>

\* A transaction that dies rolls back.  A sweep that dies, or fails and is
\* logged, leaves people signed in.
Die(c) ==
  /\ Finish(c)
  /\ IF c.op = "sweep" THEN Lapse ELSE UNCHANGED lapsed
  /\ UNCHANGED <<visit, held, night>>

-----------------------------------------------------------------------------

Arrivals ==
  \/ \E c \in calls : CheckIn(c) \/ Hold(c) \/ Flush(c)
  \/ \E p \in People : ScanIn(p) \/ EnterOpen(p) \/ DashboardIn(p) \/ RosterIn(p)
  \/ \E p \in held : RecordHeld(p)

Departures ==
  \/ \E c \in calls : Depart(c) \/ Sweep(c)
  \/ \E p \in People, echo \in BOOLEAN :
       WebOut(p, echo) \/ \E replay \in BOOLEAN : ScanOut(p, replay, echo)
  \/ \E p \in People : StaffClose(p)

Nightly == NightlyList \/ \E p \in People : NightlyClose(p) \/ NightlyFails(p)

Next == Arrivals \/ Departures \/ Nightly \/ \E c \in calls : Die(c)

Spec == Init /\ [][Next]_vars

\* The nightly job is scheduled every night, and the checkout of a visit does
\* not fail every night.
Fairness ==
  /\ WF_vars(NightlyList)
  /\ \A p \in People : SF_vars(NightlyClose(p))

FairSpec == Spec /\ Fairness

=============================================================================
