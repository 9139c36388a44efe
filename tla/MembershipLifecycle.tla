------------------------- MODULE MembershipLifecycle -------------------------
(***************************************************************************)
(* The constants of the membership process machine, as                     *)
(* checkin-app/src/lib/membership/lifecycle.ts declares them: statuses,    *)
(* kinds, the in-flight sets behind the two partial unique indexes, the    *)
(* reviewer-queue predicate and the documented transition table.           *)
(*                                                                         *)
(* A row is a record with (at least) the fields                            *)
(*   kind, status, signed, consent, cleared, paid                          *)
(* where the last four stand for contractSignedAt, bgConsentAt,            *)
(* bgClearedAt and paidAt being set.                                       *)
(***************************************************************************)

\* The absent value of a nullable status column, and the kind and status of a
\* row id that has not been inserted yet (the table's origin pseudo-state).
Null == "NULL"

Statuses ==
  { "INTAKE", "PENDING_EXTERNAL_ACTION", "PENDING_BG_REVIEW", "PENDING_PAYMENT",
    "PENDING_BG_CLEARANCE", "ACTIVE", "BLOCKED", "PENDING_RENEWAL",
    "RENEWAL_PENDING_BG", "ARCHIVED" }

Kinds == {"INITIAL", "RENEWAL", "PERSON_BG", "PERSON_AGREEMENT"}

\* The kinds that hang off a household membership; the other two are about one
\* person and carry subjectPersonId instead.
HouseholdKinds == {"INITIAL", "RENEWAL"}

-----------------------------------------------------------------------------

InFlightInitial ==
  { "INTAKE", "PENDING_EXTERNAL_ACTION", "PENDING_BG_REVIEW", "PENDING_PAYMENT",
    "PENDING_BG_CLEARANCE" }

\* BLOCKED is left out on purpose: a blocked renewal is the board's to resolve.
InFlightRenewal ==
  { "PENDING_RENEWAL", "PENDING_EXTERNAL_ACTION", "PENDING_BG_REVIEW",
    "PENDING_PAYMENT", "PENDING_BG_CLEARANCE", "RENEWAL_PENDING_BG" }

\* Mutant: the renewal set as it was before the 20260715 migration widened it.
MutantInFlight(row) ==
  \/ row.kind = "INITIAL" /\ row.status \in InFlightInitial
  \/ /\ row.kind = "RENEWAL"
     /\ row.status \in {"PENDING_RENEWAL", "RENEWAL_PENDING_BG", "PENDING_PAYMENT"}

\* Is the row inside the predicate of its kind's partial unique index?
InFlight(row) ==
  \/ row.kind = "INITIAL" /\ row.status \in InFlightInitial
  \/ row.kind = "RENEWAL" /\ row.status \in InFlightRenewal

PersonBgOpen(row) ==
  row.kind = "PERSON_BG" /\ row.status \in {"PENDING_BG_REVIEW", "BLOCKED"}

\* awaitingBgReview.has: uncleared, and either in a review status or past
\* consent on the track that runs beside payment.
AwaitingBgReview(row) ==
  /\ ~row.cleared
  /\ \/ row.status \in {"PENDING_BG_REVIEW", "RENEWAL_PENDING_BG"}
     \/ row.consent /\ row.status \in {"PENDING_PAYMENT", "PENDING_BG_CLEARANCE"}

\* RESTORABLE_STATUSES: what an archive write can capture and an unarchive restore.
Restorable == Statuses \ {"ACTIVE", "ARCHIVED"}

\* ARCHIVABLE_STATUSES: the archive edges the table declares.
Archivable == Restorable \ {"RENEWAL_PENDING_BG"}

-----------------------------------------------------------------------------

\* TRANSITIONS, as the (from, to) pairs isLegalTransition accepts for a kind.
AnyKindEdges ==
  { <<"PENDING_EXTERNAL_ACTION", "PENDING_PAYMENT">>,
    <<"PENDING_PAYMENT", "ACTIVE">>,
    <<"PENDING_PAYMENT", "PENDING_BG_CLEARANCE">>,
    <<"PENDING_BG_REVIEW", "PENDING_PAYMENT">>,
    <<"PENDING_BG_REVIEW", "ACTIVE">>,
    <<"PENDING_BG_CLEARANCE", "ACTIVE">>,
    <<"PENDING_BG_REVIEW", "BLOCKED">>,
    <<"PENDING_PAYMENT", "BLOCKED">>,
    <<"PENDING_BG_CLEARANCE", "BLOCKED">>,
    <<"BLOCKED", "PENDING_PAYMENT">>,
    <<"BLOCKED", "PENDING_BG_CLEARANCE">>,
    <<"BLOCKED", "ACTIVE">> }
  \cup { <<s, "ARCHIVED">> : s \in Archivable }
  \cup { <<"ARCHIVED", s>> : s \in Archivable }

KindEdges(kind) ==
  CASE kind = "INITIAL" ->
         { <<Null, "INTAKE">>, <<"INTAKE", "PENDING_EXTERNAL_ACTION">> }
    [] kind = "RENEWAL" ->
         { <<Null, "PENDING_RENEWAL">>,
           <<"PENDING_RENEWAL", "PENDING_EXTERNAL_ACTION">>,
           <<"BLOCKED", "PENDING_EXTERNAL_ACTION">> }
    [] kind = "PERSON_BG" ->
         { <<Null, "PENDING_BG_REVIEW">>, <<"BLOCKED", "PENDING_BG_REVIEW">> }
    [] kind = "PERSON_AGREEMENT" ->
         { <<Null, "PENDING_EXTERNAL_ACTION">>,
           <<"PENDING_EXTERNAL_ACTION", "ACTIVE">> }

LegalTransition(kind, from, to) ==
  <<from, to>> \in AnyKindEdges \cup KindEdges(kind)

=============================================================================
