------------------------ MODULE MembershipProperties ------------------------
(***************************************************************************)
(* What must be true of the membership process machine.  The first group   *)
(* holds whatever comes between the two halves of a handler (Spec); the    *)
(* second only when handlers run one after another (SerialSpec); the last  *)
(* states sentences of the repository that the program does not keep.      *)
(***************************************************************************)
EXTENDS MembershipProcess

-----------------------------------------------------------------------------
(* Whatever the interleaving.                                              *)

\* A row that exists belongs to a household or to a person, never to both, as
\* its kind says (schema.prisma:478-490, the two nullable foreign keys).
WellFormed(row) ==
  /\ row.kind = Null => row = FreeRow
  /\ row.kind # Null => row.status # Null
  /\ row.kind \in HouseholdKinds => row.home \in Households /\ row.subject = None
  /\ row.kind \in Kinds \ HouseholdKinds => row.home = None /\ row.subject \in People

\* The type invariant, and the shape of a row.
TypeOK ==
  /\ proc \in [Processes -> Rows]
  /\ membership \in [Households -> Standings]
  /\ volunteer \subseteq Households
  /\ valid \subseteq People
  /\ calls \in [Requests -> CallRecords]
  /\ \A p \in Processes : WellFormed(proc[p])

Earned(row) ==
  /\ row.kind \in HouseholdKinds => row.paid /\ row.cleared
  /\ row.kind = "PERSON_BG" => row.cleared
  /\ row.kind = "PERSON_AGREEMENT" => row.signed

\* Nothing is ACTIVE that was not earned: a membership has its dues and its
\* background check, a person's check has cleared, a person's agreement has a
\* signature (lifecycle.ts INVARIANTS "active-is-bg-cleared", and the two-track
\* gate of payment.ts and review.ts), however stale the writes that met.
ActiveIsEarned ==
  \A p \in Processes : proc[p].status = "ACTIVE" => Earned(proc[p])

\* Nobody is asked to pay, waits for reviewers or is blocked by them without a
\* consented or an already satisfied background check: otherwise the reviewers'
\* queue never lists the row and it is stranded (renewal.ts:399-401 and
\* review.ts:565-575 say so).  A renewal blocked by an earlier release is exempt.
NobodyIsStranded ==
  \A p \in Processes :
    /\ proc[p].status \in {"PENDING_PAYMENT", "PENDING_BG_CLEARANCE", "BLOCKED"}
    /\ proc[p].kind \in HouseholdKinds
    /\ "RENEWAL" \in Inherited => proc[p].kind = "INITIAL"
    => proc[p].consent \/ proc[p].cleared

\* A household never has two applications, or two renewals, under way at once,
\* whichever handlers open, restore, reset or resubmit them (the sweep, the
\* go-live opening, startIntake, unarchive, override).
OneApplicationUnderWay ==
  \A p, q \in Processes :
    /\ p # q
    /\ proc[p].kind \in HouseholdKinds
    /\ proc[p].kind = proc[q].kind /\ proc[p].home = proc[q].home
    => \/ proc[p].status \in {"ACTIVE", "BLOCKED", "ARCHIVED"}
       \/ proc[q].status \in {"ACTIVE", "BLOCKED", "ARCHIVED"}

\* A check cleared by review rests on two approvals of the same adult by
\* reviewers of different households, neither of them the applicant's, and no
\* reset, restore or override takes them away (attest, clearBackgroundCheck and
\* overrideBlocked in review.ts).
ClearedByTwoHouseholds ==
  \A p \in Processes :
    LET row == proc[p] IN
    row.cleared /\ row.basis = "review" =>
      \E a, b \in row.attests :
        /\ a.result = "APPROVE" /\ b.result = "APPROVE"
        /\ a.subject = b.subject
        /\ HouseholdOf[a.reviewer] # HouseholdOf[b.reviewer]
        /\ ApplicantHousehold(row)
             \notin {HouseholdOf[a.reviewer], HouseholdOf[b.reviewer]}

\* A clearance dates the check of no one but the adult it was about: the subject
\* of the row, the adult two reviewers named, or the adult the board named (one
\* lead of the household).  Only a merge carries a date in otherwise.
OnlyTheReviewedAreDated ==
  [][ \A x \in valid' \ valid :
        \/ UNCHANGED proc
        \/ \E p \in Processes :
             /\ proc'[p].cleared /\ proc'[p] # proc[p]
             /\ \/ proc'[p].subject = x
                \/ proc'[p].basis = "review" /\ Two(Approvals(proc'[p], x))
                \/ /\ proc'[p].basis = "board" /\ x \in LeadsOf(proc'[p].home)
                   /\ valid' \ valid = {x} ]_vars

\* The volunteer allowlist decides what a household owes before it is asked to
\* pay (#874): a designated household standing at payment already has the flag.
DuesFollowTheAllowlist ==
  \A p \in Processes :
    /\ proc[p].status = "PENDING_PAYMENT" /\ proc[p].kind \notin Inherited
    /\ proc[p].home \in Designated
    => proc[p].home \in volunteer

\* A household's row whose external actions are all done, that no handler under
\* way is about to advance.
Unattended(p) ==
  /\ IsHousehold(proc[p]) /\ GateMet(proc[p])
  /\ \A r \in Requests : calls[r] # OnRow("advance", p)

\* No wake-up is lost: whichever of the signature, the consent, a prior check and
\* a submission comes last, and however they cross, the handler that completes
\* the gate also takes the row through it ("without this the process would strand
\* here with its gate already met", intake.ts:468-475).  It stays behind only
\* when that handler dies, when the row arrives complete by beginRenewal or by a
\* restore (renewal.ts:262, archive.ts:66), or when a reset puts it back by what
\* it read before the consent (review.ts:522).
GateIsAttended ==
  [][ \A p \in Processes :
        Unattended(p)' /\ ~Unattended(p) =>
          \/ UNCHANGED proc
          \/ proc[p].status \in {"PENDING_RENEWAL", "ARCHIVED"}
          \/ \E r \in Requests :
               /\ calls[r].op = "reset" /\ calls[r].row = p
               /\ calls[r].status # BlockedResetStatus(proc[p]) ]_vars

\* What a person owes in their own name: a check that is open for them, or an
\* agreement they have not signed.
Owed(row) ==
  \/ PersonBgOpen(row)
  \/ row.kind = "PERSON_AGREEMENT" /\ row.status = "PENDING_EXTERNAL_ACTION"

\* Nobody comes to owe the same thing twice ("two concurrent 2-of-N reviews",
\* lifecycle.ts:110-114) but by the restore of a row the board had archived:
\* neither the sweep, an activation and a self-service submission that meet, nor
\* a review that reopens, a stale override or a stale archive brings it about
\* (personBgTriggers.ts:21-25, archive.ts:61).
OnlyARestoreDoubles ==
  [][ \A p, q \in Processes :
        /\ p # q
        /\ Owed(proc'[p]) /\ Owed(proc'[q])
        /\ proc'[p].kind = proc'[q].kind /\ proc'[p].subject = proc'[q].subject
        => \/ Owed(proc[p]) /\ Owed(proc[q])
           \/ "ARCHIVED" \in {proc[p].status, proc[q].status} ]_vars

-----------------------------------------------------------------------------
(* When handlers run one after another.                                    *)

\* Every status change is an edge of the documented transition table
\* (lifecycle.ts TRANSITIONS).  The table leaves out the retired status on
\* purpose; agreements are LateSignature's.
LegalTransitions ==
  [][ \A p \in Processes :
        /\ proc'[p].status # proc[p].status
        /\ proc'[p].kind # "PERSON_AGREEMENT"
        /\ "RENEWAL_PENDING_BG" \notin {proc[p].status, proc'[p].status}
        => LegalTransition(proc'[p].kind, proc[p].status, proc'[p].status) ]_vars

\* The status an archive collapsed is on the row exactly while it is archived
\* (schema.prisma:492-495), so a restore always knows where to go.
CapturedWhileArchived ==
  \A p \in Processes :
    proc[p].kind # "PERSON_AGREEMENT" =>
      (proc[p].status = "ARCHIVED" <=> proc[p].from # Null)

\* A row and the standing of its household move together: the step that makes a
\* household row ACTIVE makes the household a member, and a step that touches a
\* row and the standing of a household has just made a row of that household
\* ACTIVE.  Payment, review, override and merge each write the two tables
\* (payment.ts:209-216, review.ts:406-413); only the ops routes write the
\* standing alone, and may at any time: what they took away comes back by their
\* hand or with a row earned.
StandingFollowsTheRow ==
  [][ /\ \A p \in Processes :
           /\ proc'[p].kind \in HouseholdKinds
           /\ proc'[p].status = "ACTIVE" /\ proc[p].status # "ACTIVE"
           => membership'[proc'[p].home] = "ACTIVE"
      /\ \A h \in Households :
           membership'[h] # membership[h] /\ ~UNCHANGED proc =>
             /\ membership'[h] = "ACTIVE"
             /\ \E p \in Processes :
                  /\ proc'[p].kind \in HouseholdKinds /\ proc'[p].home = h
                  /\ proc'[p].status = "ACTIVE" /\ proc[p].status # "ACTIVE" ]_vars

\* A single rejection blocks (docs/rules/membership.md:197): while it stands on
\* the row, the review is not open to approvals that would outweigh it.
RejectionBlocks ==
  \A p \in Processes :
    (\E a \in proc[p].attests : a.result = "REJECT") => ~AwaitingBgReview(proc[p])

\* A review in the reviewers' queue does not stay there for ever: whoever the
\* reviewers name and in whatever order they come, two willing households suffice
\* to end it, unless the board keeps restarting it (attest's rule that the first
\* approval fixes the subject exists for this, review.ts:302-309).  A person's
\* check that was never submitted is in no queue and may wait for ever
\* (review.ts:76-87).
ReviewEnds ==
  \A p \in Processes :
    \/ []<><< ~(proc[p].attests \subseteq proc'[p].attests) >>_vars
    \/ InQueue(proc[p]) ~> ~InQueue(proc[p])

\* The two-track gate, as a household row shows it.
PhaseOf(row) ==
  CASE row.kind \notin HouseholdKinds -> "none"
    [] row.kind \in HouseholdKinds ->
         CASE row.status = "PENDING_PAYMENT" -> "payment"
           [] row.status = "PENDING_BG_CLEARANCE" -> "held"
           [] row.status = "ACTIVE" -> "member"
           [] row.status = "BLOCKED" -> "blocked"
           [] row.status = "ARCHIVED" -> "archived"
           [] row.status \in { "INTAKE", "PENDING_EXTERNAL_ACTION", "PENDING_RENEWAL",
                               "PENDING_BG_REVIEW", "RENEWAL_PENDING_BG" } -> "pending"

Gate == INSTANCE TwoTrackGate WITH
  Ids <- Processes,
  phase <- [p \in Processes |-> PhaseOf(proc[p])],
  paid <- [p \in Processes |-> IsHousehold(proc[p]) /\ proc[p].paid],
  cleared <- [p \in Processes |-> IsHousehold(proc[p]) /\ proc[p].cleared]

\* The handlers implement the two-track gate: a paid and cleared row is a
\* membership, a paid and uncleared one is held, and nothing else is either.
ImplementsGate == Gate!GateSpec

-----------------------------------------------------------------------------
(* What the repository says and the program does not do.                   *)

\* "A single rejection blocks the application; approvals do not outweigh it."
\* (docs/rules/membership.md:197): nothing is cleared by review over a rejection.
ApprovalsDoNotOutweighARejection ==
  \A p \in Processes :
    proc[p].cleared /\ proc[p].basis = "review" =>
      \A a \in proc[p].attests : a.result = "APPROVE"

\* "approve stays BLOCKED-only - force-clearing a review still open to its second
\* reviewer is what the two-reviewer rule forbids" (review.ts:490-491).
OverrideClearsOnlyBlocked ==
  [][ \A p \in Processes :
        /\ AwaitingBgReview(proc[p])
        /\ proc'[p].cleared
        => proc'[p].basis # "board" ]_vars

\* "Unarchive restores from this and clears it; null on every process that is not
\* (or never was) archived" (schema.prisma:492-495): an agreement that is settled
\* keeps nothing of an archive.
SettledAgreementIsNotArchived ==
  \A p \in Processes :
    proc[p].kind = "PERSON_AGREEMENT" /\ proc[p].status = "ACTIVE" => proc[p].from = Null

=============================================================================
