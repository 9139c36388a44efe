------------------------ MODULE EnrolmentProperties ------------------------
(***************************************************************************)
(* What must hold of a program's places and of the seats on sale.          *)
(***************************************************************************)
EXTENDS Enrolment

RowType ==
  [stint : Nat, status : {"none", "pending", "active"},
   held : BOOLEAN, req : BOOLEAN, den : BOOLEAN]

CallType ==
       [op : {"enrol"}, who : People, old : Caps]
  \cup [op : {"edit"}, old : Caps, new : Caps]
  \cup [op : {"activate"}, who : People, held : BOOLEAN]
  \cup [op : {"apply"}, who : People, stint : Nat, due : {-1}]
  \cup [op : {"byhand"}, who : People, due : {1}]
  \cup [op : {"store"}, who : People, due : {-1, 1}]
  \cup [op : {"store"}, due : Int]

TypeOK ==
  /\ row \in [People -> RowType]
  /\ cap \in Caps
  /\ pool \in Int /\ off \in Int
  /\ paid \subseteq People /\ listed \subseteq People
  /\ calls \subseteq CallType
  /\ edits \in Nat
  /\ lapsed \in BOOLEAN /\ overfull \in BOOLEAN

\* The invariants I1 to I3 of enrollmentState.ts: a held seat is a pending
\* request's, and the request is either open or denied.
HoldOnDiagram ==
  \A p \in People :
    row[p].held => Pending(p) /\ (row[p].req <=> ~row[p].den)

Held == {p \in People : row[p].held}

\* Seat by seat, what the calls under way are to put back on sale (sign 1) or to
\* take off sale (sign -1).
Seats(S, sign) == UNION {{c} \X (1 .. sign * DueOf(c)) : c \in S}

DueFrom(S) == Cardinality(Seats(S, 1)) - Cardinality(Seats(S, -1))

Due == DueFrom(calls)

\* Every seat is on sale, held, sold or given away, or is being moved: a held
\* seat is returned exactly once or consumed by an approval, also when a call to
\* the store fails (rules/programs.md, "Capacity and scholarship holds").  It
\* fails for the causes that lapsed records, and no others.
SeatsAddUp ==
  ~lapsed => pool + Due + Cardinality(Held) + off = cap

\* Nobody gets a place over the cap but by an override, or when the cap is edited
\* around the enrolment (capacity.ts).
NotOverfull == ~overfull => Cardinality(Enrolled) <= cap

\* While the board has set days of grace, a denied request that holds a seat does
\* not hold it for ever (cron/scholarship-grace-expiry).  While they are unset the
\* sweep is off, and the seat may be held for ever.
DenialEnds == GraceIsSet => \A p \in People : HeldDenied(p) ~> ~HeldDenied(p)

\* A payment is credited to the enrolment that waits for it, by the webhook or by
\* the reconciler (activateEnrollment.ts).  A paid order is one with an item of the
\* program, and with no coupon that its person may not use.
PaymentCounts == \A p \in People : (p \in paid /\ Pending(p)) ~> ~Pending(p)
=============================================================================
