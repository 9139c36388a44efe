----------------------------- MODULE Enrolment -----------------------------
(***************************************************************************)
(* The places of one priced, capped program: enrolment, payment,           *)
(* scholarship requests and the seats they hold, withdrawal and grace      *)
(* expiry (api/programs, lib/program/capacity.ts, api/finance-ops,         *)
(* lib/programs/activateEnrollment.ts, the crons), and the seats that      *)
(* Shopify has on sale, which the handlers adjust by a call of its own     *)
(* after their database write.                                             *)
(*                                                                         *)
(* A step is one write (a compare-and-set, a transaction), one read that a *)
(* handler decides on, or one call to the store.                           *)
(***************************************************************************)
EXTENDS Integers, FiniteSets

CONSTANTS
  People,
  Stints,      \* bound: the times each person may enrol
  Caps,        \* the values maxParticipants may take
  FirstCap,    \* its first value
  GraceIsSet,  \* whether BoardSettings.scholarshipDenialGraceDays has a value
  MaxCalls,    \* bound: handlers that run at once
  MaxEdits     \* bound: edits of the cap

ASSUME EnrolmentAssumption ==
  /\ FirstCap \in Caps /\ Caps \subseteq Nat \ {0}
  /\ GraceIsSet \in BOOLEAN
  /\ IsFiniteSet(People) /\ Stints \in [People -> Nat]
  /\ {MaxCalls, MaxEdits} \subseteq Nat

VARIABLES
  row,       \* each person's ProgramParticipant
  cap,       \* maxParticipants
  pool,      \* the seats Shopify has on sale
  off,       \* seats sold, given away or consumed, and reported adjustments
  lapsed,    \* the seats were put out of step in a way nobody is told of
  paid,      \* people with a paid order
  calls,     \* handlers between two of their steps
  listed,    \* the denied requests that the grace sweep has still to end
  edits,     \* edits of the cap so far
  overfull   \* the cap is exceeded, in a way that the lock does not cover

seats == <<pool, off, lapsed>>
vars == <<row, cap, seats, paid, calls, listed, edits, overfull>>

\* stint: the person's enrolments so far; held: inventoryHeldAt; req:
\* isPaymentPlanRequested; den: paymentPlanDeniedAt.
Unenrolled(n) ==
  [stint |-> n, status |-> "none", held |-> FALSE, req |-> FALSE, den |-> FALSE]

Init ==
  /\ row = [p \in People |-> Unenrolled(0)]
  /\ cap = FirstCap
  /\ pool = FirstCap /\ off = 0 /\ lapsed = FALSE
  /\ paid = {}
  /\ calls = {}
  /\ listed = {}
  /\ edits = 0
  /\ overfull = FALSE

-----------------------------------------------------------------------------

\* Mutant: requests that wait for a payment do not count.
MutantEnrolled == {p \in People : row[p].status = "active"}

Enrolled == {p \in People : row[p].status # "none"}

Pending(p) == row[p].status = "pending"

\* The states of enrollmentState.ts that the handlers ask for.
HoldFailed(p) == Pending(p) /\ ~row[p].held /\ row[p].req

HeldDenied(p) == Pending(p) /\ row[p].held /\ row[p].den /\ ~row[p].req

\* A call says what its handler has still to do, and what it has read.  due: the
\* adjustment of the pool it has still to make.
Store(p, n) == [op |-> "store", who |-> p, due |-> n]

Begin(c) == Cardinality(calls) < MaxCalls /\ c \notin calls /\ calls' = calls \cup {c}
Finish(c) == calls' = calls \ {c}
Continue(c, d) == d \notin calls /\ calls' = (calls \ {c}) \cup {d}

\* The pool moves by n seats and m are accounted for elsewhere.  Once the seats
\* are out of step their number says nothing, and is not followed.
Move(n, m, lapse) ==
  /\ lapsed' = (lapsed \/ lapse)
  /\ pool' = IF lapsed' THEN 0 ELSE pool + n
  /\ off' = IF lapsed' THEN 0 ELSE off + m

LapseIf(b) == Move(0, 0, b)

\* The count of places may exceed the cap from now on, as long as it does.
OverfullIf(b) ==
  overfull' = ((overfull \/ b) /\ Cardinality({p \in People : row'[p].status # "none"}) > cap')

\* A row is deleted; if it held a seat, the seat is to be put back on sale.
Delete(p) == row' = [row EXCEPT ![p] = Unenrolled(@.stint)]

-----------------------------------------------------------------------------
(* Enrolment and the cap.                                                  *)

\* POST participants reads the program, and its cap, before its transaction.
EnrolRead(p) ==
  /\ row[p].status = "none" /\ row[p].stint < Stints[p]
  /\ Begin([op |-> "enrol", who |-> p, old |-> cap])
  /\ UNCHANGED <<row, cap, seats, paid, listed, edits, overfull>>

NewRow(p, status) ==
  row' = [row EXCEPT ![p] = [Unenrolled(@.stint + 1) EXCEPT !.status = status]]

\* lockProgramAndCheckCapacity: the count is taken under the lock, the cap it is
\* compared with is not.  A second enrolment of the person fails on the key.
Enrol(c) ==
  /\ c.op = "enrol"
  /\ IF /\ row[c.who].status = "none" /\ row[c.who].stint < Stints[c.who]
        /\ Cardinality(Enrolled) < c.old
     THEN NewRow(c.who, "pending")
     ELSE UNCHANGED row
  /\ UNCHANGED <<cap, seats, paid, listed, edits>>
  /\ OverfullIf(c.old # cap)
  /\ Finish(c)

\* A board member's override for another household: no limits, no payment, and
\* the seat is taken off sale afterwards.
Comp(p) ==
  /\ row[p].status = "none" /\ row[p].stint < Stints[p]
  /\ NewRow(p, "active")
  /\ Begin(Store(p, -1))
  /\ Move(0, 1, FALSE)
  /\ UNCHANGED <<cap, paid, listed, edits>>
  /\ OverfullIf(TRUE)

\* PUT programs: the new cap is compared with the count, on no lock.
EditRead(new) ==
  /\ edits < MaxEdits
  /\ new # cap /\ Cardinality(Enrolled) <= new
  /\ Begin([op |-> "edit", old |-> cap, new |-> new])
  /\ edits' = edits + 1
  /\ UNCHANGED <<row, cap, seats, paid, listed, overfull>>

\* The pool is to change by the difference to the cap that was read.
Edit(c) ==
  /\ c.op = "edit"
  /\ cap' = c.new
  /\ Continue(c, [op |-> "store", due |-> c.new - c.old])
  /\ LapseIf(c.old # cap)
  /\ UNCHANGED <<row, paid, listed, edits>>
  /\ OverfullIf(TRUE)

-----------------------------------------------------------------------------
(* Payment.                                                                *)

\* A sale in the store takes its seat off sale.
Sale(p) ==
  /\ row[p].stint > 0 /\ p \notin paid
  /\ lapsed \/ pool > 0
  /\ Move(-1, 1, FALSE)
  /\ paid' = paid \cup {p}
  /\ UNCHANGED <<row, cap, calls, listed, edits, overfull>>

\* Mutant: only those without a scholarship hold are looked for.
MutantActivateRead(p) ==
  /\ p \in paid /\ Pending(p) /\ ~row[p].held
  /\ Begin([op |-> "activate", who |-> p, held |-> row[p].held])
  /\ UNCHANGED <<row, cap, seats, paid, listed, edits, overfull>>

\* The orders/paid webhook, however often it is delivered, and the reconciler,
\* which looks for pending enrolments: the row is read first.
ActivateRead(p) ==
  /\ p \in paid /\ Pending(p)
  /\ Begin([op |-> "activate", who |-> p, held |-> row[p].held])
  /\ UNCHANGED <<row, cap, seats, paid, listed, edits, overfull>>

\* Mutant: the flip does not give up the hold.
MutantActivated(r) == [r EXCEPT !.status = "active"]

Activated(r) == [r EXCEPT !.status = "active", !.held = FALSE]

\* Then PENDING turns ACTIVE and the hold is dropped in one write; whether a seat
\* is put back depends on the hold that was read.
Activate(c) ==
  /\ c.op = "activate"
  /\ IF Pending(c.who)
     THEN /\ row' = [row EXCEPT ![c.who] = Activated(@)]
          /\ IF c.held THEN Continue(c, Store(c.who, 1)) ELSE Finish(c)
          /\ LapseIf(c.held # row[c.who].held)
     ELSE Finish(c) /\ UNCHANGED <<row, seats>>
  /\ UNCHANGED <<cap, paid, listed, edits, overfull>>

-----------------------------------------------------------------------------
(* Scholarship requests.                                                   *)

\* request-payment-plan: the hold is stamped, then the seat is taken off sale.
Apply(p) ==
  /\ Pending(p) /\ ~row[p].held
  /\ row' = [row EXCEPT ![p].req = TRUE, ![p].held = TRUE, ![p].den = FALSE]
  /\ Begin([op |-> "apply", who |-> p, stint |-> row[p].stint, due |-> -1])
  /\ UNCHANGED <<cap, seats, paid, listed, edits, overfull>>

\* A request by someone who holds a seat takes no second one.
Reapply(p) ==
  /\ Pending(p) /\ row[p].held /\ ~row[p].req
  /\ row' = [row EXCEPT ![p].req = TRUE, ![p].den = FALSE]
  /\ UNCHANGED <<cap, seats, paid, calls, listed, edits, overfull>>

\* Mutant: the stamp stays.
MutantRollBack(p) == row

\* The call to the store failed: whatever hold the row has is dropped.
RollBack(p) == [row EXCEPT ![p].held = FALSE]

\* The roll-back undoes the stamp unless something else has used up the hold, or
\* it is another request's, or the store did take the seat and was too late to
\* say so (SHOPIFY_FETCH_TIMEOUT_MS).
ApplyFails(c) ==
  /\ c.op = "apply"
  /\ row' = RollBack(c.who)
  /\ Finish(c)
  /\ \E timedOut \in BOOLEAN :
       LapseIf(timedOut \/ ~row[c.who].held \/ row[c.who].stint # c.stint
               \/ \E d \in calls \ {c} : d.op = "apply" /\ d.who = c.who)
  /\ UNCHANGED <<cap, paid, listed, edits, overfull>>

Approved(r) == [r EXCEPT !.status = "active", !.req = FALSE, !.held = FALSE]

\* Approval consumes the hold; a request whose hold failed may be approved too.
Approve(p) ==
  /\ Pending(p) /\ row[p].req
  /\ row' = [row EXCEPT ![p] = Approved(@)]
  /\ Move(0, IF row[p].held THEN 1 ELSE 0, FALSE)
  /\ UNCHANGED <<cap, paid, calls, listed, edits, overfull>>

Deny(p) ==
  /\ Pending(p) /\ row[p].req
  /\ row' = [row EXCEPT ![p].req = FALSE, ![p].den = TRUE]
  /\ UNCHANGED <<cap, seats, paid, calls, listed, edits, overfull>>

\* Of a request whose hold failed a board member takes the seat off sale by hand
\* (it stays owed until the hold is recorded) ...
ByHand(p) ==
  /\ HoldFailed(p)
  /\ Begin([op |-> "byhand", who |-> p, due |-> 1])
  /\ Move(-1, 0, FALSE)
  /\ UNCHANGED <<row, cap, paid, listed, edits, overfull>>

\* ... and confirms it.  If the request has moved on the confirmation is refused,
\* and nobody may put the seat back.
ManualHold(c) ==
  /\ c.op = "byhand"
  /\ Finish(c)
  /\ \/ /\ HoldFailed(c.who)
        /\ row' = [row EXCEPT ![c.who].held = TRUE]
        /\ UNCHANGED seats
     \/ /\ ~HoldFailed(c.who)
        /\ Move(1, 0, FALSE) \/ LapseIf(TRUE)
        /\ UNCHANGED row
  /\ UNCHANGED <<cap, paid, listed, edits, overfull>>

-----------------------------------------------------------------------------
(* Leaving.                                                                *)

\* withdrawAndReleaseHold.
Release(p) ==
  IF row[p].held THEN Begin(Store(p, 1)) ELSE UNCHANGED calls

\* By the person, the lead mentor or the board.
Withdraw(p) ==
  /\ row[p].status # "none"
  /\ Delete(p)
  /\ Release(p)
  /\ UNCHANGED <<cap, seats, paid, listed, edits>>
  /\ OverfullIf(FALSE)

\* Mutant: the sweep looks for the requests that are open.
MutantGraceList ==
  /\ GraceIsSet
  /\ listed = {}
  /\ \E p \in People : row[p].held /\ row[p].req
  /\ listed' = {p \in People : row[p].held /\ row[p].req}
  /\ UNCHANGED <<row, cap, seats, paid, calls, edits, overfull>>

\* The grace sweep lists the denied requests whose time is up; with no days set it
\* is off, and does nothing ...
GraceList ==
  /\ GraceIsSet
  /\ listed = {}
  /\ \E p \in People : HeldDenied(p)
  /\ listed' = {p \in People : HeldDenied(p)}
  /\ UNCHANGED <<row, cap, seats, paid, calls, edits, overfull>>

\* ... and deletes them one by one, whatever has become of them.
GraceExpire(p) ==
  /\ p \in listed
  /\ listed' = listed \ {p}
  /\ Delete(p)
  /\ Release(p)
  /\ UNCHANGED <<cap, seats, paid, edits>>
  /\ OverfullIf(FALSE)

-----------------------------------------------------------------------------
(* Calls to the store, and handlers that die.                              *)

StoreOps == {"store", "apply"}

DueOf(c) == IF c.op \in StoreOps \cup {"byhand"} THEN c.due ELSE 0

\* adjustProgramInventory.
Adjust(c) ==
  /\ c.op \in StoreOps
  /\ Move(c.due, 0, FALSE)
  /\ Finish(c)
  /\ UNCHANGED <<row, cap, paid, listed, edits, overfull>>

\* It fails, and reportShopifyFailure tells the board: of a call that timed out
\* possibly what is not so.  A failure before the call, to get a token, only warns
\* in the console: nobody is told, which is the lapse.
AdjustFails(c) ==
  /\ c.op = "store"
  /\ Move(0, c.due, FALSE) \/ LapseIf(TRUE)
  /\ Finish(c)
  /\ UNCHANGED <<row, cap, paid, listed, edits, overfull>>

\* A handler dies.  What it had still to do at the store is not done.
Die(c) ==
  /\ Finish(c)
  /\ LapseIf(DueOf(c) # 0)
  /\ UNCHANGED <<row, cap, paid, listed, edits, overfull>>

-----------------------------------------------------------------------------

Enrolling ==
  \/ \E p \in People : EnrolRead(p) \/ Comp(p)
  \/ \E n \in Caps : EditRead(n)

Paying == \E p \in People : Sale(p) \/ ActivateRead(p)

Requesting ==
  \E p \in People : Apply(p) \/ Reapply(p) \/ Approve(p) \/ Deny(p) \/ ByHand(p)

Leaving ==
  \/ GraceList
  \/ \E p \in People : Withdraw(p) \/ GraceExpire(p)

Ending(c) ==
  \/ Enrol(c) \/ Edit(c) \/ Activate(c) \/ ApplyFails(c) \/ ManualHold(c)
  \/ Adjust(c) \/ AdjustFails(c) \/ Die(c)

Next == Enrolling \/ Paying \/ Requesting \/ Leaving \/ \E c \in calls : Ending(c)

Spec == Init /\ [][Next]_vars

\* Handlers end; the sweep, if it is on, runs every night and comes back to what it
\* did not finish; a payment that was made is looked at until it is credited, and
\* the handler does not die every time.
Fairness ==
  /\ WF_vars(\E c \in calls : Ending(c))
  /\ WF_vars(\E p \in People : Store(p, 1) \in calls /\ Ending(Store(p, 1)))
  /\ WF_vars(GraceList)
  /\ SF_vars(\E p \in People : GraceExpire(p))
  /\ SF_vars(\E p \in People : ActivateRead(p))
  /\ SF_vars(\E c \in calls : Activate(c))

FairSpec == Spec /\ Fairness

=============================================================================
