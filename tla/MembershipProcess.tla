-------------------------- MODULE MembershipProcess --------------------------
(***************************************************************************)
(* The OrgMembershipProcess table and every handler of                     *)
(* checkin-app/src/lib/membership that moves a row through it.             *)
(*                                                                         *)
(* Granularity.  A step is one database transaction.  A handler whose      *)
(* reads happen inside its transaction under the row lock, or whose write  *)
(* is a conditional updateMany that rechecks everything it read, is one    *)
(* action.  A handler that decides on a read made OUTSIDE its transaction  *)
(* is two: the first leaves a request in `calls' holding what it read, the *)
(* second consumes it, and any other step may come between.  A request can *)
(* also die between its two steps (a crash, a timeout, a rejected write).  *)
(*                                                                         *)
(* Left out: audit rows, mail, stageEnteredAt, intake form data, the Zoho  *)
(* request ids, and handlers that return without writing.                  *)
(***************************************************************************)
EXTENDS Integers, MembershipLifecycle

CONSTANTS
  Processes,    \* ids of OrgMembershipProcess rows
  Households,   \* each has one OrgMembership
  People,
  Requests,     \* slots for handlers caught between two transactions
  HouseholdOf,  \* Person.householdId
  Leads,        \* live persons with isHouseholdLead
  Adults,       \* persons whose age makes a check due (personBgVerdict)
  Signers,      \* persons of an age to sign for themselves (hasKnownAdultAge)
  Reviewers,    \* canReviewBackgroundChecks: reviewers and board members
  Board,        \* board members and sysadmins, who run the ops routes
  Designated,   \* households one of whose leads is on the volunteer allowlist
  OpenKinds,    \* BOUND: the kinds of row a model may open
  Inherited,    \* BOUND: the kinds of which a row may predate this release
  Marks,        \* BOUND: values reviewers give isMarkedVolunteer
  ByHand,       \* BOUND: the standings the ops routes may set, and of whom
  None          \* a null foreign key

\* OrgMembershipStatus: never or no longer a member, a member, a former one,
\* and a household whose people may not even sign in.
Standings == {"NONE", "ACTIVE", "REVOKED", "DENIED"}

ASSUME PopulationAssumption ==
  /\ HouseholdOf \in [People -> Households]
  /\ Leads \subseteq People
  /\ Adults \subseteq People
  /\ Signers \subseteq People
  /\ Reviewers \subseteq People
  /\ Board \subseteq Reviewers
  /\ Designated \subseteq Households
  /\ OpenKinds \subseteq Kinds
  /\ Inherited \subseteq HouseholdKinds
  /\ Marks \subseteq BOOLEAN
  /\ ByHand \subseteq Households \X Standings
  /\ None \notin Processes \cup Households \cup People

VARIABLES
  proc,        \* proc[p]: the row with id p
  membership,  \* membership[h]: OrgMembership.status
  volunteer,   \* households whose OrgMembership.isVolunteer is set
  valid,       \* persons whose lastBackgroundCheck still covers the boundary
  calls        \* calls[r]: what request r has read and not yet acted on

vars == <<proc, membership, volunteer, valid, calls>>

-----------------------------------------------------------------------------
(* Rows.                                                                   *)

Attestations ==
  [ reviewer: People, subject: People \cup {None},
    result: {"APPROVE", "REJECT"}, volunteer: BOOLEAN ]

\* `basis' is the provenance the audit trail records for bgClearedAt: two
\* reviewers, a still-valid prior check, a participant merge or the board.
Bases == {"none", "review", "prior", "merge", "board"}

Rows ==
  [ kind: Kinds \cup {Null}, home: Households \cup {None},
    subject: People \cup {None}, status: Statuses \cup {Null},
    from: Statuses \cup {Null}, signed: BOOLEAN, consent: BOOLEAN,
    cleared: BOOLEAN, paid: BOOLEAN, basis: Bases,
    attests: SUBSET Attestations ]

NewRow(kind, home, subject, status) ==
  [ kind |-> kind, home |-> home, subject |-> subject, status |-> status,
    from |-> Null, signed |-> FALSE, consent |-> FALSE, cleared |-> FALSE,
    paid |-> FALSE, basis |-> "none", attests |-> {} ]

FreeRow == NewRow(Null, None, None, Null)

Exists(p) == proc[p].kind # Null
IsHousehold(row) == row.kind \in HouseholdKinds

\* The household a review, an override or a certification must not be done by.
ApplicantHousehold(row) ==
  IF row.subject # None THEN HouseholdOf[row.subject] ELSE row.home

\* Some administrator without a conflict of interest over the row.
UnconflictedBoard(row) ==
  \E b \in Board : HouseholdOf[b] # ApplicantHousehold(row)

LeadsOf(h) == {x \in Leads : HouseholdOf[x] = h}

HouseholdBgIsFresh(h) == LeadsOf(h) \cap valid # {}

\* Would row p, written as `row', violate membership_one_inflight_*?
Clash(p, row) ==
  \E q \in Processes \ {p} :
    /\ proc[q].kind = row.kind /\ proc[q].home = row.home
    /\ InFlight(proc[q]) /\ InFlight(row)

Save(p, row) == proc' = [proc EXCEPT ![p] = row]

\* A conditional write: nothing changes when the condition fails, or when the
\* database rejects the row (P2002) and the transaction rolls back.
SaveIf(cond, p, row) == IF cond /\ ~Clash(p, row) THEN Save(p, row) ELSE UNCHANGED proc

Insert(row) ==
  \E p \in Processes : /\ ~Exists(p) /\ ~Clash(p, row) /\ Save(p, row)

-----------------------------------------------------------------------------
(* Requests between two transactions.                                      *)

Ops == { "idle", "startIntake", "submitIntake", "advance", "archive",
         "unarchive", "reset", "approve", "openRenewal", "merge", "revoke" }

CallRecords ==
  [ op: Ops, row: Processes \cup {None}, home: Households \cup {None},
    status: Statuses \cup {Null}, who: People \cup {None}, fresh: BOOLEAN ]

Idle == [ op |-> "idle", row |-> None, home |-> None, status |-> Null,
          who |-> None, fresh |-> FALSE ]

OnRow(op, p) == [Idle EXCEPT !.op = op, !.row = p]
OnHome(op, h) == [Idle EXCEPT !.op = op, !.home = h]

Suspend(r, call) == /\ calls[r] = Idle
                    /\ calls' = [calls EXCEPT ![r] = call]
Resume(r, call) == calls' = [calls EXCEPT ![r] = call]
Finish(r) == Resume(r, Idle)

\* A handler dies between its two transactions: the Lambda is killed or times
\* out, or the database refuses the second one.
Abandon(r) == /\ calls[r] # Idle
              /\ Finish(r)
              /\ UNCHANGED <<proc, membership, volunteer, valid>>

-----------------------------------------------------------------------------
(* intake.ts: an application is started and submitted.                     *)

\* startIntake, up to the membership upsert.
StartIntake(r, h) ==
  /\ "INITIAL" \in OpenKinds
  /\ LeadsOf(h) # {}
  /\ membership[h] # "ACTIVE"
  /\ Suspend(r, OnHome("startIntake", h))
  /\ UNCHANGED <<proc, membership, volunteer, valid>>

\* startIntake's transaction, which holds the membership row.
CreateIntake(r) ==
  LET h == calls[r].home IN
  /\ calls[r].op = "startIntake"
  /\ IF \E p \in Processes : /\ proc[p].kind = "INITIAL" /\ proc[p].home = h
                             /\ InFlight(proc[p])
     THEN UNCHANGED proc
     ELSE Insert(NewRow("INITIAL", h, None, "INTAKE"))
  /\ Finish(r)
  /\ UNCHANGED <<membership, volunteer, valid>>

\* submitIntake, up to the freshness lookup.
SubmitIntake(r, p) ==
  /\ proc[p].kind = "INITIAL" /\ proc[p].status = "INTAKE"
  /\ Suspend(r, [OnRow("submitIntake", p) EXCEPT
                   !.fresh = HouseholdBgIsFresh(proc[p].home)])
  /\ UNCHANGED <<proc, membership, volunteer, valid>>

\* submitIntake's update, which has no condition on the row's status, then the
\* volunteer flag, then on to advanceExternalIfComplete.
RecordSubmission(r) ==
  LET p == calls[r].row
      row == IF calls[r].fresh
             THEN [proc[p] EXCEPT !.status = "PENDING_EXTERNAL_ACTION",
                                  !.cleared = TRUE, !.basis = "prior"]
             ELSE [proc[p] EXCEPT !.status = "PENDING_EXTERNAL_ACTION"]
  IN
  /\ calls[r].op = "submitIntake"
  /\ IF Clash(p, row)
     THEN Finish(r) /\ UNCHANGED <<proc, volunteer>>
     ELSE /\ Save(p, row)
          /\ volunteer' = IF calls[r].fresh
                          THEN volunteer \cup ({row.home} \cap Designated)
                          ELSE volunteer
          /\ Resume(r, OnRow("advance", p))
  /\ UNCHANGED <<membership, valid>>

-----------------------------------------------------------------------------
(* external.ts: the contract, the consent, and the advance to payment.     *)

\* markContractSigned's transaction: the Zoho webhook and its retries, the
\* return-from-signing sync and the board's mark.  A person's own agreement is
\* settled by it outright; a household row goes on to the advance.
MarkContractSigned(r, p) ==
  LET agreement == proc[p].kind = "PERSON_AGREEMENT" IN
  /\ Exists(p)
  /\ Save(p, IF proc[p].signed THEN proc[p]
             ELSE IF agreement
                  THEN [proc[p] EXCEPT !.signed = TRUE, !.status = "ACTIVE"]
                  ELSE [proc[p] EXCEPT !.signed = TRUE])
  /\ calls[r] = Idle
  /\ Resume(r, IF agreement THEN Idle ELSE OnRow("advance", p))
  /\ UNCHANGED <<membership, volunteer, valid>>

\* Mutant: only the signature goes on to the advance.
MutantMarkBgConsent(r, p) ==
  /\ Exists(p)
  /\ Save(p, [proc[p] EXCEPT !.consent = TRUE])
  /\ calls[r] = Idle
  /\ UNCHANGED <<membership, volunteer, valid, calls>>

\* markBgConsent's transaction: self-reported, or marked by the board.
MarkBgConsent(r, p) ==
  /\ Exists(p)
  /\ Save(p, [proc[p] EXCEPT !.consent = TRUE])
  /\ Suspend(r, OnRow("advance", p))
  /\ UNCHANGED <<membership, volunteer, valid>>

\* Mutant: the signature alone opens payment.
MutantGateMet(row) ==
  row.status = "PENDING_EXTERNAL_ACTION" /\ row.signed

\* Are both external actions done? (advanceExternalIfComplete's conditional write)
GateMet(row) ==
  /\ row.status = "PENDING_EXTERNAL_ACTION"
  /\ row.signed
  /\ row.cleared \/ row.consent

\* Mutant: the volunteer allowlist is only consulted at clearance.
MutantAdvance(r) ==
  LET p == calls[r].row IN
  /\ calls[r].op = "advance"
  /\ IsHousehold(proc[p]) /\ GateMet(proc[p])
  /\ Save(p, [proc[p] EXCEPT !.status = "PENDING_PAYMENT"])
  /\ Finish(r)
  /\ UNCHANGED <<membership, volunteer, valid>>

\* advanceExternalIfComplete.  On a person's row it finds nothing to do, or
\* fails on the null orgMembershipId before it writes.
Advance(r) ==
  LET p == calls[r].row
      row == proc[p]
      opens == IsHousehold(row) /\ GateMet(row)
  IN
  /\ calls[r].op = "advance"
  /\ IF opens
     THEN /\ Save(p, [row EXCEPT !.status = "PENDING_PAYMENT"])
          /\ volunteer' = volunteer \cup ({row.home} \cap Designated)
     ELSE UNCHANGED <<proc, volunteer>>
  /\ Finish(r)
  /\ UNCHANGED <<membership, valid>>

-----------------------------------------------------------------------------
(* payment.ts: activate, from the Shopify webhook or a board certificate.  *)

\* Mutant: dues alone make a member.
MutantSettledStatus(row) == "ACTIVE"

\* Where a row awaiting dues goes once they are recorded.
SettledStatus(row) == IF row.cleared THEN "ACTIVE" ELSE "PENDING_BG_CLEARANCE"

\* Dues recorded on a row awaiting them: the payment half of the convergence.
Settle(p) ==
  /\ IsHousehold(proc[p]) /\ ~proc[p].paid
  /\ proc[p].status = "PENDING_PAYMENT"
  /\ Save(p, [proc[p] EXCEPT !.paid = TRUE, !.status = SettledStatus(proc[p])])
  /\ membership' = IF proc[p].cleared
                   THEN [membership EXCEPT ![proc[p].home] = "ACTIVE"]
                   ELSE membership
  /\ UNCHANGED <<volunteer, valid, calls>>

\* The rejection landed first: keep the money on record and the row blocked.
PaidWhileBlocked(p) ==
  /\ IsHousehold(proc[p]) /\ ~proc[p].paid
  /\ proc[p].status = "BLOCKED"
  /\ Save(p, [proc[p] EXCEPT !.paid = TRUE])
  /\ UNCHANGED <<membership, volunteer, valid, calls>>

-----------------------------------------------------------------------------
(* review.ts: attestations, clearance, the board's reset and override.     *)

Approvals(row, x) ==
  {a \in row.attests : a.result = "APPROVE" /\ a.subject = x}

\* REQUIRED_APPROVALS is two.
Two(approvals) == \E a, b \in approvals : a # b

\* The adults an attested household review has cleared: named ones only.
SubjectsWithTwoApprovals(row) == {x \in People : Two(Approvals(row, x))}

\* Mutant: a clearance dates every lead of the household.
MutantClearedPeople(row, named) ==
  IF row.subject # None THEN {row.subject} ELSE named \cup LeadsOf(row.home)

\* Whose lastBackgroundCheck a clearance stamps.
ClearedPeople(row, named) == IF row.subject # None THEN {row.subject} ELSE named

\* Mutant: a household that has paid is still sent to payment.
MutantClearedStatus(row) == IF row.subject # None THEN "ACTIVE" ELSE "PENDING_PAYMENT"

\* A person's check is done; a household row converges on the payment.
ClearedStatus(row) ==
  IF row.subject # None \/ row.paid THEN "ACTIVE" ELSE "PENDING_PAYMENT"

ClearedRow(row, basis) ==
  [row EXCEPT !.cleared = TRUE, !.basis = basis, !.status = ClearedStatus(row)]

\* clearBackgroundCheck, on the row as its caller leaves it.  It looks at no status.
ClearBackgroundCheck(p, row, named, basis) ==
  /\ Save(p, ClearedRow(row, basis))
  /\ valid' = valid \cup ClearedPeople(row, named)
  /\ membership' = IF row.subject = None /\ row.paid
                   THEN [membership EXCEPT ![row.home] = "ACTIVE"]
                   ELSE membership
  /\ volunteer' = IF \/ row.subject # None
                     \/ row.home \notin Designated /\ \A a \in row.attests : ~a.volunteer
                  THEN volunteer
                  ELSE volunteer \cup {row.home}

\* Mutant: two reviewers of one household may both attest.
MutantMayAttest(v, row) ==
  /\ v \in Reviewers
  /\ AwaitingBgReview(row)
  /\ HouseholdOf[v] # ApplicantHousehold(row)
  /\ \A a \in row.attests : a.reviewer # v

\* The reviewers' queue, and their mail: a person's check is in it only once the
\* board has submitted it, though attest would take an approval before.
InQueue(row) == AwaitingBgReview(row) /\ (row.kind = "PERSON_BG" => row.consent)

\* attest's eligibility test: not the reviewer's own household, and nobody of
\* that household, the reviewer included, has attested yet.
MayAttest(v, row) ==
  /\ v \in Reviewers
  /\ AwaitingBgReview(row)
  /\ HouseholdOf[v] # ApplicantHousehold(row)
  /\ \A a \in row.attests : HouseholdOf[a.reviewer] # HouseholdOf[v]

\* Mutant: the second reviewer may name another adult.
MutantNames(row, x) ==
  IF row.subject # None THEN x = None ELSE x \in LeadsOf(row.home)

\* The adult an approval names: the first one picks a lead of the household,
\* a later one confirms.  A person's check already carries its subject.
Names(row, x) ==
  LET settled == {a \in row.attests : a.result = "APPROVE" /\ a.subject # None} IN
  IF row.subject # None THEN x = None
  ELSE IF settled = {} THEN x \in LeadsOf(row.home)
       ELSE \A a \in settled : x = a.subject

Attested(row, v, x, result, mark) ==
  [row EXCEPT !.attests = @ \cup
     {[reviewer |-> v, subject |-> x, result |-> result, volunteer |-> mark]}]

Approve(v, p, x, mark) ==
  LET row == Attested(proc[p], v, x, "APPROVE", mark) IN
  /\ MayAttest(v, proc[p])
  /\ Names(proc[p], x)
  /\ IF Two(Approvals(row, x))
     THEN ClearBackgroundCheck(p, row, SubjectsWithTwoApprovals(row), "review")
     ELSE Save(p, row) /\ UNCHANGED <<membership, volunteer, valid>>
  /\ UNCHANGED calls

Reject(v, p, mark) ==
  /\ MayAttest(v, proc[p])
  /\ Save(p, [Attested(proc[p], v, None, "REJECT", mark) EXCEPT !.status = "BLOCKED"])
  /\ UNCHANGED <<membership, volunteer, valid, calls>>

\* Mutant: a reset forgets that the household has paid.
MutantBlockedResetStatus(row) ==
  CASE row.kind = "PERSON_BG" -> "PENDING_BG_REVIEW"
    [] row.kind = "RENEWAL" /\ ~row.consent -> "PENDING_EXTERNAL_ACTION"
    [] OTHER -> "PENDING_PAYMENT"

\* The status a blocked row resumes at.
BlockedResetStatus(row) ==
  CASE row.kind = "PERSON_BG" -> "PENDING_BG_REVIEW"
    [] row.kind = "RENEWAL" /\ ~row.consent -> "PENDING_EXTERNAL_ACTION"
    [] row.kind # "PERSON_BG" /\ (row.kind = "RENEWAL" => row.consent) ->
         IF row.paid THEN "PENDING_BG_CLEARANCE" ELSE "PENDING_PAYMENT"

\* overrideBlocked(reset), up to its transaction.
RequestReset(r, p) ==
  /\ Exists(p) /\ UnconflictedBoard(proc[p])
  /\ Suspend(r, [OnRow("reset", p) EXCEPT !.status = BlockedResetStatus(proc[p])])
  /\ UNCHANGED <<proc, membership, volunteer, valid>>

\* Mutant: a reset leaves the attestations where they are.
MutantReset(r) ==
  LET p == calls[r].row
      blocked == proc[p].status = "BLOCKED"
  IN
  /\ calls[r].op = "reset"
  /\ SaveIf(blocked \/ AwaitingBgReview(proc[p]), p,
            [proc[p] EXCEPT !.status = IF blocked THEN calls[r].status ELSE @,
                            !.cleared = FALSE, !.basis = "none"])
  /\ Finish(r)
  /\ UNCHANGED <<membership, volunteer, valid>>

\* The reset proper: the phase is rechecked under the lock, the status a
\* blocked row goes to is still the one computed from the earlier read.
Reset(r) ==
  LET p == calls[r].row
      blocked == proc[p].status = "BLOCKED"
  IN
  /\ calls[r].op = "reset"
  /\ SaveIf(blocked \/ AwaitingBgReview(proc[p]), p,
            [proc[p] EXCEPT !.status = IF blocked THEN calls[r].status ELSE @,
                            !.attests = {}, !.cleared = FALSE, !.basis = "none"])
  /\ Finish(r)
  /\ UNCHANGED <<membership, volunteer, valid>>

\* overrideBlocked(approve), up to its transaction.
RequestOverride(r, p, x) ==
  /\ proc[p].status = "BLOCKED" /\ UnconflictedBoard(proc[p])
  /\ IF proc[p].subject # None THEN x = None ELSE x \in LeadsOf(proc[p].home)
  /\ Suspend(r, [OnRow("approve", p) EXCEPT !.who = x])
  /\ UNCHANGED <<proc, membership, volunteer, valid>>

\* The override proper: it locks the row and clears it, whatever its status is now.
Override(r) ==
  LET p == calls[r].row IN
  /\ calls[r].op = "approve"
  /\ IF Clash(p, ClearedRow(proc[p], "board"))
     THEN UNCHANGED <<proc, membership, volunteer, valid>>
     ELSE ClearBackgroundCheck(p, proc[p], {calls[r].who} \ {None}, "board")
  /\ Finish(r)

-----------------------------------------------------------------------------
(* archive.ts: disposal and recovery.                                      *)

RequestArchive(r, p) ==
  /\ Exists(p) /\ proc[p].status \notin {"ACTIVE", "ARCHIVED"}
  /\ Suspend(r, [OnRow("archive", p) EXCEPT !.status = proc[p].status])
  /\ UNCHANGED <<proc, membership, volunteer, valid>>

\* The archive write has no condition, and captures the status read earlier.
Archive(r) ==
  /\ calls[r].op = "archive"
  /\ Save(calls[r].row, [proc[calls[r].row] EXCEPT !.status = "ARCHIVED",
                                                   !.from = calls[r].status])
  /\ Finish(r)
  /\ UNCHANGED <<membership, volunteer, valid>>

RequestUnarchive(r, p) ==
  /\ proc[p].status = "ARCHIVED" /\ proc[p].from \in Restorable
  /\ Suspend(r, [OnRow("unarchive", p) EXCEPT !.status = proc[p].from])
  /\ UNCHANGED <<proc, membership, volunteer, valid>>

\* Mutant: the restore leaves archivedFromStatus behind.
MutantUnarchive(r) ==
  LET p == calls[r].row IN
  /\ calls[r].op = "unarchive"
  /\ SaveIf(proc[p].status = "ARCHIVED", p, [proc[p] EXCEPT !.status = calls[r].status])
  /\ Finish(r)
  /\ UNCHANGED <<membership, volunteer, valid>>

Unarchive(r) ==
  LET p == calls[r].row IN
  /\ calls[r].op = "unarchive"
  /\ SaveIf(proc[p].status = "ARCHIVED", p,
            [proc[p] EXCEPT !.status = calls[r].status, !.from = Null])
  /\ Finish(r)
  /\ UNCHANGED <<membership, volunteer, valid>>

-----------------------------------------------------------------------------
(* renewal.ts: a renewal is opened and begun.                              *)

RenewalInFlight(h) ==
  \E p \in Processes :
    proc[p].kind = "RENEWAL" /\ proc[p].home = h /\ InFlight(proc[p])

\* runRenewalSweep and openRenewalsForAllActive list the memberships that are due.
ListForRenewal(r, h) ==
  /\ "RENEWAL" \in OpenKinds
  /\ membership[h] = "ACTIVE" /\ ~RenewalInFlight(h)
  /\ Suspend(r, OnHome("openRenewal", h))
  /\ UNCHANGED <<proc, membership, volunteer, valid>>

\* createRenewalProcess, which holds the membership row.
CreateRenewal(r) ==
  LET h == calls[r].home IN
  /\ calls[r].op = "openRenewal"
  /\ IF RenewalInFlight(h) THEN UNCHANGED proc
     ELSE Insert(NewRow("RENEWAL", h, None, "PENDING_RENEWAL"))
  /\ Finish(r)
  /\ UNCHANGED <<membership, volunteer, valid>>

\* beginRenewal: the status is rechecked by the conditional write.
BeginRenewal(p) ==
  /\ proc[p].status = "PENDING_RENEWAL"
  /\ Save(p, IF HouseholdBgIsFresh(proc[p].home)
             THEN [proc[p] EXCEPT !.status = "PENDING_EXTERNAL_ACTION",
                                  !.cleared = TRUE, !.basis = "prior"]
             ELSE [proc[p] EXCEPT !.status = "PENDING_EXTERNAL_ACTION"])
  /\ UNCHANGED <<membership, volunteer, valid, calls>>

-----------------------------------------------------------------------------
(* mergeBgAdvance.ts: a participant merge carries a valid check in.        *)

MergeStages == << "PENDING_EXTERNAL_ACTION", "PENDING_PAYMENT",
                  "PENDING_BG_REVIEW", "PENDING_BG_CLEARANCE" >>

\* The merge transaction leaves lead x with the newer check.  Only a household
\* the merge has made covered goes on to the advance.
MergeLead(r, x) ==
  LET h == HouseholdOf[x] IN
  /\ x \in Leads \ valid
  /\ valid' = valid \cup {x}
  /\ calls[r] = Idle
  /\ Resume(r, IF HouseholdBgIsFresh(h) THEN Idle
               ELSE [OnHome("merge", h) EXCEPT !.status = MergeStages[1]])
  /\ UNCHANGED <<proc, membership, volunteer>>

\* Rows the current stage may take up, as its locked recheck sees them.
MergeCandidate(r, p) ==
  /\ calls[r].op = "merge"
  /\ IsHousehold(proc[p]) /\ proc[p].home = calls[r].home
  /\ proc[p].status = calls[r].status
  /\ ~proc[p].cleared
  /\ proc[p].attests = {}

\* stampPendingExternal and stampParallelPayment; the former runs the advance.
StampBgCleared(r, p) ==
  LET stamped == [proc[p] EXCEPT !.cleared = TRUE, !.basis = "merge"] IN
  /\ MergeCandidate(r, p)
  /\ calls[r].status \in {"PENDING_EXTERNAL_ACTION", "PENDING_PAYMENT"}
  /\ Save(p, IF GateMet(stamped) THEN [stamped EXCEPT !.status = "PENDING_PAYMENT"]
             ELSE stamped)
  /\ volunteer' = volunteer \cup ({proc[p].home} \cap Designated)
  /\ UNCHANGED <<membership, valid, calls>>

\* clearHeldRow: a held row has no exit but the real clearance.
ClearHeldRow(r, p) ==
  /\ MergeCandidate(r, p)
  /\ calls[r].status \in {"PENDING_BG_REVIEW", "PENDING_BG_CLEARANCE"}
  /\ ClearBackgroundCheck(p, proc[p], {}, "merge")
  /\ UNCHANGED calls

\* Each stage lists its rows once, so it may miss one that arrives later.
NextMergeStage(r) ==
  /\ calls[r].op = "merge"
  /\ \E i \in 1 .. 4 :
       /\ calls[r].status = MergeStages[i]
       /\ IF i = 4 THEN Finish(r)
          ELSE Resume(r, [calls[r] EXCEPT !.status = MergeStages[i + 1]])
  /\ UNCHANGED <<proc, membership, volunteer, valid>>

-----------------------------------------------------------------------------
(* personBgTriggers.ts and personAgreementTriggers.ts.                     *)

\* Mutant: a blocked check is no bar to another.
MutantOpenWhileBlocked(x) ==
  /\ "PERSON_BG" \in OpenKinds
  /\ x \in Adults \ valid
  /\ \A p \in Processes :
       proc[p].subject = x /\ proc[p].kind = "PERSON_BG" => proc[p].status # "PENDING_BG_REVIEW"
  /\ Insert(NewRow("PERSON_BG", None, x, "PENDING_BG_REVIEW"))
  /\ UNCHANGED <<membership, volunteer, valid, calls>>

\* openPersonBg, which holds the Person row.
OpenPersonBg(x) ==
  /\ "PERSON_BG" \in OpenKinds
  /\ x \in Adults \ valid
  /\ \A p \in Processes : proc[p].subject = x => ~PersonBgOpen(proc[p])
  /\ Insert(NewRow("PERSON_BG", None, x, "PENDING_BG_REVIEW"))
  /\ UNCHANGED <<membership, volunteer, valid, calls>>

\* openPersonAgreement, which holds the Person row.  An agreement settled or
\* archived before the cycle floor does not count, so neither is a bar here.
OpenPersonAgreement(x) ==
  /\ "PERSON_AGREEMENT" \in OpenKinds
  /\ x \in Signers \ Leads
  /\ \A p \in Processes :
       ~ /\ proc[p].kind = "PERSON_AGREEMENT" /\ proc[p].subject = x
         /\ proc[p].status = "PENDING_EXTERNAL_ACTION"
  /\ Insert(NewRow("PERSON_AGREEMENT", None, x, "PENDING_EXTERNAL_ACTION"))
  /\ UNCHANGED <<membership, volunteer, valid, calls>>

-----------------------------------------------------------------------------
(* The ops routes set a household's standing, whatever its rows are doing.  *)

SetStanding(h, standing) ==
  /\ <<h, standing>> \in ByHand
  /\ membership' = [membership EXCEPT ![h] = standing]

\* The board admits a household that is not the administrator's own.
GrantMembership(h) ==
  /\ \E b \in Board : HouseholdOf[b] # h
  /\ SetStanding(h, "ACTIVE")
  /\ UNCHANGED <<proc, volunteer, valid, calls>>

\* The member import admits whatever household its row names.
ImportMembership(h) ==
  /\ SetStanding(h, "ACTIVE")
  /\ UNCHANGED <<proc, volunteer, valid, calls>>

\* No household of a board member may be denied.
DenyMembership(h) ==
  /\ \A b \in Board : HouseholdOf[b] # h
  /\ SetStanding(h, "DENIED")
  /\ UNCHANGED <<proc, volunteer, valid, calls>>

\* The denial is lifted: a write with no condition on the standing it replaces.
RestoreMembership(h) ==
  /\ SetStanding(h, "NONE")
  /\ UNCHANGED <<proc, volunteer, valid, calls>>

\* Deactivation reads the standing first ...
RequestRevoke(r, h) ==
  /\ membership[h] = "ACTIVE" /\ <<h, "REVOKED">> \in ByHand
  /\ Suspend(r, OnHome("revoke", h))
  /\ UNCHANGED <<proc, membership, volunteer, valid>>

\* ... and writes it without looking again.
Revoke(r) ==
  /\ calls[r].op = "revoke"
  /\ SetStanding(calls[r].home, "REVOKED")
  /\ Finish(r)
  /\ UNCHANGED <<proc, volunteer, valid>>

-----------------------------------------------------------------------------
(* Time.                                                                   *)

\* A check stops covering the boundary: the membership year rolls over.
CheckLapses(x) ==
  /\ x \in valid
  /\ valid' = valid \ {x}
  /\ UNCHANGED <<proc, membership, volunteer, calls>>

-----------------------------------------------------------------------------
(* The specification.                                                      *)

\* Rows an earlier release left behind: an application still in the review
\* that used to come before payment, a renewal blocked before it had consented,
\* and an archived renewal of the retired status.
LegacyRows(h) ==
  { [NewRow("INITIAL", h, None, "PENDING_BG_REVIEW") EXCEPT !.signed = TRUE,
                                                            !.consent = TRUE],
    NewRow("RENEWAL", h, None, "BLOCKED"),
    [NewRow("RENEWAL", h, None, "ARCHIVED") EXCEPT !.from = "RENEWAL_PENDING_BG"] }

\* A household with leads may already be a member (an import, a board grant, an
\* earlier year) and anyone whose check matters may hold a valid one; at most
\* one row predates this release.
Init ==
  /\ \/ proc = [p \in Processes |-> FreeRow]
     \/ \E q \in Processes, x \in Leads : \E row \in LegacyRows(HouseholdOf[x]) :
          /\ row.kind \in Inherited
          /\ proc = [p \in Processes |-> IF p = q THEN row ELSE FreeRow]
  /\ \E members \in SUBSET {HouseholdOf[x] : x \in Leads} :
       membership = [h \in Households |-> IF h \in members THEN "ACTIVE" ELSE "NONE"]
  /\ volunteer = {}
  /\ valid \in SUBSET (Leads \cup Adults)
  /\ calls = [r \in Requests |-> Idle]

\* Handlers, or first halves of them, that arrive from outside.
Arrive ==
  \/ \E r \in Requests :
       \/ \E h \in Households :
            StartIntake(r, h) \/ ListForRenewal(r, h) \/ RequestRevoke(r, h)
       \/ \E x \in People : MergeLead(r, x)
       \/ \E p \in Processes :
            \/ SubmitIntake(r, p)
            \/ MarkContractSigned(r, p)
            \/ MarkBgConsent(r, p)
            \/ RequestReset(r, p)
            \/ \E x \in People \cup {None} : RequestOverride(r, p, x)
            \/ RequestArchive(r, p)
            \/ RequestUnarchive(r, p)
  \/ \E p \in Processes :
       \/ Settle(p)
       \/ PaidWhileBlocked(p)
       \/ BeginRenewal(p)
       \/ \E v \in People, mark \in Marks :
            \/ Reject(v, p, mark)
            \/ \E x \in People \cup {None} : Approve(v, p, x, mark)
  \/ \E x \in People : OpenPersonBg(x) \/ OpenPersonAgreement(x) \/ CheckLapses(x)

\* The board or an import writes a standing, in a single write.
WriteStanding ==
  \E h \in Households : \/ GrantMembership(h)
                       \/ ImportMembership(h)
                       \/ DenyMembership(h)
                       \/ RestoreMembership(h)

\* The second half of the handler in slot r.
Continue(r) ==
  \/ CreateIntake(r)
  \/ RecordSubmission(r)
  \/ Advance(r)
  \/ Reset(r)
  \/ Override(r)
  \/ Archive(r)
  \/ Unarchive(r)
  \/ CreateRenewal(r)
  \/ Revoke(r)
  \/ NextMergeStage(r)
  \/ \E p \in Processes : StampBgCleared(r, p) \/ ClearHeldRow(r, p)

Next ==
  \/ Arrive
  \/ WriteStanding
  \/ \E r \in Requests : Continue(r) \/ Abandon(r)

Spec == Init /\ [][Next]_vars

\* The same handlers, each run to its end before the next one arrives; only the
\* standing may be written at any time.
Quiet == \A r \in Requests : calls[r] = Idle

SerialNext ==
  \/ Quiet /\ Arrive
  \/ WriteStanding
  \/ \E r \in Requests : Continue(r) \/ Abandon(r)

SerialSpec == Init /\ [][SerialNext]_vars

\* Handlers that have started run on, and each reviewer eventually takes up a
\* review that stays open to them in the queue.  Nobody need submit a person's
\* check, and nobody need look at one that was not.
FairSpec ==
  /\ SerialSpec
  /\ \A r \in Requests : WF_vars(Continue(r))
  /\ \A v \in Reviewers, p \in Processes :
       WF_vars(\E x \in People \cup {None}, mark \in Marks :
                 InQueue(proc[p]) /\ Approve(v, p, x, mark))

=============================================================================
