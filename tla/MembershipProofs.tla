-------------------------- MODULE MembershipProofs --------------------------
(***************************************************************************)
(* For every population, every number of rows and every number of handlers *)
(* in flight: the type invariant, and that nothing is ACTIVE unearned;     *)
(* for serial handlers, that a standing follows the household's row; and   *)
(* the two-reviewer rule.                                                  *)
(*                                                                         *)
(* ActiveIsEarned is not inductive: a stale write could carry a wrong      *)
(* status in from a request, and a clearance settles whatever row it is    *)
(* given.  IInv adds what the requests may hold (CallOK) and where a       *)
(* person's agreement may stand (RowOK).                                   *)
(***************************************************************************)
EXTENDS MembershipProperties, TLAPS

-----------------------------------------------------------------------------
(* The inductive invariant.                                                *)

\* One row: its shape, what ACTIVE means, and an agreement's few statuses.
RowOK(row) ==
  /\ row \in Rows
  /\ WellFormed(row)
  /\ row.status = "ACTIVE" => Earned(row)
  /\ row.kind = "PERSON_AGREEMENT" =>
       /\ row.status \in {"PENDING_EXTERNAL_ACTION", "ACTIVE", "ARCHIVED"}
       /\ row.from \in {Null, "PENDING_EXTERNAL_ACTION"}

RowsOK(rows) ==
  /\ rows \in [Processes -> Rows]
  /\ \A p \in Processes : RowOK(rows[p])

RowOps == {"submitIntake", "advance", "archive", "unarchive", "reset", "approve"}
HomeOps == {"startIntake", "openRenewal", "merge", "revoke"}

\* One request, against the rows it is about to act on.
CallOK(call, rows) ==
  /\ call \in CallRecords
  /\ call.op \in RowOps => call.row \in Processes /\ rows[call.row].kind # Null
  /\ call.op \in HomeOps => call.home \in Households
  /\ call.op = "submitIntake" => rows[call.row].kind = "INITIAL"
  /\ call.op = "approve" => rows[call.row].kind # "PERSON_AGREEMENT"
  /\ call.op = "reset" => call.status \in Statuses \ {"ACTIVE"}
  /\ call.op \in {"archive", "unarchive"} =>
       /\ call.status \in Restorable
       /\ rows[call.row].kind = "PERSON_AGREEMENT" =>
            call.status = "PENDING_EXTERNAL_ACTION"

CallsOK(requests, rows) ==
  /\ requests \in [Requests -> CallRecords]
  /\ \A r \in Requests : CallOK(requests[r], rows)

RestOK ==
  /\ membership \in [Households -> Standings]
  /\ volunteer \subseteq Households
  /\ valid \subseteq People

IInv == RowsOK(proc) /\ CallsOK(calls, proc) /\ RestOK

\* No step changes the kind of a row that exists.
KindsKept == \A p \in Processes : proc[p].kind # Null => proc'[p].kind = proc[p].kind

-----------------------------------------------------------------------------
(* Writing a row, and resuming a request.                                  *)

\* A fresh row is a good row.
LEMMA FreeRowOK == RowOK(FreeRow)
  BY PopulationAssumption DEF RowOK, FreeRow, NewRow, Rows, WellFormed, Earned, Kinds,
     Statuses, Bases, HouseholdKinds, Null

LEMMA IdleOK == ASSUME NEW rows PROVE CallOK(Idle, rows)
  BY PopulationAssumption DEF CallOK, Idle, CallRecords, Ops, RowOps, HomeOps, Null

\* Saving a good row of the same kind keeps the table good.
LEMMA Saved ==
  ASSUME RowsOK(proc), NEW p \in Processes, NEW row, RowOK(row),
         proc[p].kind # Null => row.kind = proc[p].kind,
         Save(p, row)
  PROVE  RowsOK(proc') /\ KindsKept
<1>1. proc' = [proc EXCEPT ![p] = row] /\ row \in Rows
  BY DEF Save, RowOK
<1>2. \A q \in Processes : proc'[q] = IF q = p THEN row ELSE proc[q]
  BY <1>1 DEF RowsOK
<1>3. proc' \in [Processes -> Rows]
  BY <1>1 DEF RowsOK
<1>4. QED
  BY <1>2, <1>3 DEF RowsOK, KindsKept

LEMMA NothingSaved ==
  ASSUME RowsOK(proc), UNCHANGED proc
  PROVE  RowsOK(proc') /\ KindsKept
  BY DEF KindsKept

LEMMA Inserted ==
  ASSUME RowsOK(proc), NEW row, RowOK(row), Insert(row)
  PROVE  RowsOK(proc') /\ KindsKept
<1>1. PICK p \in Processes : ~Exists(p) /\ Save(p, row)
  BY DEF Insert
<1>2. QED
  BY <1>1, Saved DEF Exists

\* A good request stays good: it only looks at the kinds of rows that exist.
LEMMA CallKept ==
  ASSUME NEW call, CallOK(call, proc), KindsKept
  PROVE  CallOK(call, proc')
  BY DEF CallOK, KindsKept, RowOps

LEMMA CallsKept ==
  ASSUME CallsOK(calls, proc), KindsKept, UNCHANGED calls
  PROVE  CallsOK(calls', proc')
  BY CallKept DEF CallsOK

LEMMA Resumed ==
  ASSUME CallsOK(calls, proc), KindsKept, NEW r \in Requests, NEW call,
         CallOK(call, proc'), Resume(r, call)
  PROVE  CallsOK(calls', proc')
<1>1. call \in CallRecords /\ calls' = [calls EXCEPT ![r] = call]
  BY DEF CallOK, Resume
<1>2. calls' \in [Requests -> CallRecords]
  BY <1>1 DEF CallsOK
<1>3. \A s \in Requests : calls'[s] = IF s = r THEN call ELSE calls[s]
  BY <1>1 DEF CallsOK
<1>4. \A s \in Requests : CallOK(calls[s], proc')
  BY CallKept DEF CallsOK
<1>5. QED
  BY <1>2, <1>3, <1>4 DEF CallsOK

LEMMA Finished ==
  ASSUME CallsOK(calls, proc), KindsKept, NEW r \in Requests, Finish(r)
  PROVE  CallsOK(calls', proc')
  BY Resumed, IdleOK DEF Finish

\* A handler that only reads leaves a good request behind.
LEMMA Suspended ==
  ASSUME IInv, NEW r \in Requests, NEW call, CallOK(call, proc), Suspend(r, call),
         UNCHANGED <<proc, membership, volunteer, valid>>
  PROVE  IInv'
<1>1. KindsKept
  BY DEF KindsKept
<1>2. CallOK(call, proc') /\ Resume(r, call)
  BY DEF Suspend, Resume
<1>3. CallsOK(calls', proc')
  BY <1>1, <1>2, Resumed DEF IInv
<1>4. QED
  BY <1>3 DEF IInv, RestOK

-----------------------------------------------------------------------------
(* The actions, by the file they are in.                                   *)

\* intake.ts
LEMMA IntakeKeeps ==
  ASSUME IInv, NEW r \in Requests,
         \/ \E h \in Households : StartIntake(r, h)
         \/ CreateIntake(r)
         \/ \E p \in Processes : SubmitIntake(r, p)
         \/ RecordSubmission(r)
  PROVE  IInv'
<1>1. ASSUME NEW h \in Households, StartIntake(r, h) PROVE IInv'
  <2>1. CallOK(OnHome("startIntake", h), proc)
    BY PopulationAssumption DEF CallOK, OnHome, Idle, CallRecords, Ops, RowOps, HomeOps, Null
  <2>2. QED
    BY <1>1, <2>1, Suspended DEF StartIntake
<1>2. CASE CreateIntake(r)
  <2>1. calls[r].home \in Households
    BY <1>2 DEF CreateIntake, IInv, CallsOK, CallOK, HomeOps
  <2>2. RowOK(NewRow("INITIAL", calls[r].home, None, "INTAKE"))
    BY <2>1, PopulationAssumption DEF RowOK, FreeRow, NewRow, Rows, WellFormed, Earned,
       Kinds, Statuses, Bases, HouseholdKinds, Null
  <2>3. RowsOK(proc') /\ KindsKept
    BY <1>2, <2>2, Inserted, NothingSaved DEF CreateIntake, IInv
  <2>4. QED
    BY <1>2, <2>3, Finished DEF CreateIntake, IInv, RestOK
<1>3. ASSUME NEW p \in Processes, SubmitIntake(r, p) PROVE IInv'
  <2> DEFINE call == [OnRow("submitIntake", p) EXCEPT
                        !.fresh = HouseholdBgIsFresh(proc[p].home)]
  <2>1. HouseholdBgIsFresh(proc[p].home) \in BOOLEAN
    BY DEF HouseholdBgIsFresh
  <2>2. CallOK(call, proc)
    BY <1>3, <2>1, PopulationAssumption DEF SubmitIntake, CallOK, OnRow, Idle, CallRecords,
       Ops, RowOps, HomeOps, Null
  <2>3. QED
    BY <1>3, <2>2, Suspended DEF SubmitIntake
<1>4. CASE RecordSubmission(r)
  <2> DEFINE p == calls[r].row
             row == IF calls[r].fresh
                    THEN [proc[p] EXCEPT !.status = "PENDING_EXTERNAL_ACTION",
                                         !.cleared = TRUE, !.basis = "prior"]
                    ELSE [proc[p] EXCEPT !.status = "PENDING_EXTERNAL_ACTION"]
  <2>1. p \in Processes /\ proc[p].kind = "INITIAL"
    BY <1>4 DEF RecordSubmission, IInv, CallsOK, CallOK, RowOps
  <2>2. RowOK(proc[p])
    BY <2>1 DEF IInv, RowsOK
  <2>3. RowOK(row) /\ row.kind = proc[p].kind
    <3>1. CASE calls[r].fresh
      BY <2>1, <2>2, <3>1 DEF RowOK, Rows, WellFormed, Statuses, Bases, HouseholdKinds, Null
    <3>2. CASE ~calls[r].fresh
      BY <2>1, <2>2, <3>2 DEF RowOK, Rows, WellFormed, Statuses, HouseholdKinds, Null
    <3>3. QED
      BY <3>1, <3>2
  <2>4. CASE Clash(p, row)
    <3>1. UNCHANGED <<proc, membership, volunteer, valid>> /\ Finish(r)
      BY <1>4, <2>4 DEF RecordSubmission
    <3>2. RowsOK(proc') /\ KindsKept
      BY <3>1, NothingSaved DEF IInv
    <3>3. QED
      BY <3>1, <3>2, Finished DEF IInv, RestOK
  <2>5. CASE ~Clash(p, row)
    <3>1. /\ Save(p, row) /\ Resume(r, OnRow("advance", p))
          /\ volunteer' = IF calls[r].fresh
                          THEN volunteer \cup ({row.home} \cap Designated)
                          ELSE volunteer
          /\ UNCHANGED <<membership, valid>>
      BY <1>4, <2>5 DEF RecordSubmission
    <3>2. RowsOK(proc') /\ KindsKept
      BY <3>1, <2>1, <2>3, Saved DEF IInv
    <3>3. CallOK(OnRow("advance", p), proc')
      BY <2>1, <3>2, PopulationAssumption DEF CallOK, OnRow, Idle, CallRecords, Ops, RowOps,
         HomeOps, Null, KindsKept
    <3>4. CallsOK(calls', proc')
      BY <3>1, <3>2, <3>3, Resumed DEF IInv
    <3>5. QED
      BY <3>1, <3>2, <3>4, PopulationAssumption DEF IInv, RestOK
  <2>6. QED
    BY <2>4, <2>5
<1>5. QED
  BY <1>1, <1>2, <1>3, <1>4

\* external.ts
LEMMA ExternalKeeps ==
  ASSUME IInv, NEW r \in Requests,
         \/ \E p \in Processes : MarkContractSigned(r, p) \/ MarkBgConsent(r, p)
         \/ Advance(r)
  PROVE  IInv'
<1>1. ASSUME NEW p \in Processes, MarkContractSigned(r, p) PROVE IInv'
  <2> DEFINE agreement == proc[p].kind = "PERSON_AGREEMENT"
             row == IF proc[p].signed THEN proc[p]
                    ELSE IF agreement
                         THEN [proc[p] EXCEPT !.signed = TRUE, !.status = "ACTIVE"]
                         ELSE [proc[p] EXCEPT !.signed = TRUE]
             call == IF agreement THEN Idle ELSE OnRow("advance", p)
  <2>1. Exists(p) /\ Save(p, row) /\ Resume(r, call) /\ UNCHANGED <<membership, volunteer, valid>>
    BY <1>1 DEF MarkContractSigned
  <2>2. RowOK(row) /\ row.kind = proc[p].kind
    <3>1. RowOK(proc[p]) /\ proc[p].kind # Null
      BY <2>1 DEF IInv, RowsOK, Exists
    <3>2. CASE agreement /\ ~proc[p].signed
      BY <3>1, <3>2 DEF RowOK, Rows, WellFormed, Earned, Statuses, HouseholdKinds, Null
    <3>3. CASE ~agreement /\ ~proc[p].signed
      BY <3>1, <3>3 DEF RowOK, Rows, WellFormed, Earned, HouseholdKinds
    <3>4. QED
      BY <3>1, <3>2, <3>3
  <2>3. RowsOK(proc') /\ KindsKept
    BY <2>1, <2>2, Saved DEF IInv
  <2>4. CallOK(OnRow("advance", p), proc')
    BY <2>1, <2>3, PopulationAssumption DEF CallOK, OnRow, Idle, CallRecords, Ops, RowOps,
       HomeOps, Null, KindsKept, Exists
  <2>5. CallsOK(calls', proc')
    BY <2>1, <2>3, <2>4, IdleOK, Resumed DEF IInv
  <2>6. QED
    BY <2>1, <2>3, <2>5 DEF IInv, RestOK
<1>2. ASSUME NEW p \in Processes, MarkBgConsent(r, p) PROVE IInv'
  <2> DEFINE row == [proc[p] EXCEPT !.consent = TRUE]
  <2>1. /\ Exists(p) /\ Save(p, row) /\ Resume(r, OnRow("advance", p))
        /\ UNCHANGED <<membership, volunteer, valid>>
    BY <1>2 DEF MarkBgConsent, Suspend, Resume
  <2>2. RowOK(row) /\ row.kind = proc[p].kind
    BY <2>1 DEF IInv, RowsOK, RowOK, Rows, WellFormed, Earned, Kinds, HouseholdKinds, Null,
       Exists
  <2>3. RowsOK(proc') /\ KindsKept
    BY <2>1, <2>2, Saved DEF IInv
  <2>4. CallOK(OnRow("advance", p), proc')
    BY <2>1, <2>3, PopulationAssumption DEF CallOK, OnRow, Idle, CallRecords, Ops, RowOps,
       HomeOps, Null, KindsKept, Exists
  <2>5. CallsOK(calls', proc')
    BY <2>1, <2>3, <2>4, Resumed DEF IInv
  <2>6. QED
    BY <2>1, <2>3, <2>5 DEF IInv, RestOK
<1>3. CASE Advance(r)
  <2> DEFINE p == calls[r].row
             row == [proc[p] EXCEPT !.status = "PENDING_PAYMENT"]
  <2>1. p \in Processes /\ proc[p].kind # Null /\ RowOK(proc[p])
    BY <1>3 DEF Advance, IInv, CallsOK, CallOK, RowOps, RowsOK
  <2>2. CASE IsHousehold(proc[p]) /\ GateMet(proc[p])
    <3>1. Save(p, row) /\ volunteer' = volunteer \cup ({proc[p].home} \cap Designated)
      BY <1>3, <2>2 DEF Advance
    <3>2. RowOK(row) /\ row.kind = proc[p].kind
      BY <2>1, <2>2 DEF RowOK, Rows, WellFormed, Earned, Kinds, Statuses, HouseholdKinds,
         Null, IsHousehold
    <3>3. RowsOK(proc') /\ KindsKept
      BY <2>1, <3>1, <3>2, Saved DEF IInv
    <3>4. QED
      BY <1>3, <3>1, <3>3, Finished, PopulationAssumption DEF Advance, IInv, RestOK
  <2>3. CASE ~(IsHousehold(proc[p]) /\ GateMet(proc[p]))
    <3>1. UNCHANGED <<proc, volunteer>>
      BY <1>3, <2>3 DEF Advance
    <3>2. RowsOK(proc') /\ KindsKept
      BY <3>1, NothingSaved DEF IInv
    <3>3. QED
      BY <1>3, <3>1, <3>2, Finished DEF Advance, IInv, RestOK
  <2>4. QED
    BY <2>2, <2>3
<1>4. QED
  BY <1>1, <1>2, <1>3

\* payment.ts
LEMMA PaymentKeeps ==
  ASSUME IInv, NEW p \in Processes, Settle(p) \/ PaidWhileBlocked(p)
  PROVE  IInv'
<1> DEFINE settled == [proc[p] EXCEPT !.paid = TRUE, !.status = SettledStatus(proc[p])]
           kept == [proc[p] EXCEPT !.paid = TRUE]
<1>1. RowOK(proc[p]) /\ IsHousehold(proc[p]) /\ proc[p].kind # Null
  BY DEF Settle, PaidWhileBlocked, IInv, RowsOK, IsHousehold, HouseholdKinds, Null
<1>2. RowOK(settled) /\ settled.kind = proc[p].kind
  BY <1>1 DEF RowOK, Rows, WellFormed, Earned, Kinds, Statuses, HouseholdKinds, Null,
     IsHousehold, SettledStatus
<1>3. proc[p].status = "BLOCKED" => RowOK(kept) /\ kept.kind = proc[p].kind
  BY <1>1 DEF RowOK, Rows, WellFormed, Earned, Kinds, HouseholdKinds, Null, IsHousehold
<1>4. RowsOK(proc') /\ KindsKept
  BY <1>2, <1>3, Saved DEF Settle, PaidWhileBlocked, IInv
<1>5. membership' \in [Households -> Standings]
  BY DEF Settle, PaidWhileBlocked, IInv, RestOK, Standings
<1>6. QED
  BY <1>4, <1>5, CallsKept DEF Settle, PaidWhileBlocked, IInv, RestOK

\* Clearing a row that is not an agreement, whatever else it holds.
LEMMA ClearingKeeps ==
  ASSUME IInv, NEW p \in Processes, NEW row, RowOK(row), NEW named \in SUBSET People,
         NEW basis \in Bases, proc[p].kind # Null, row.kind = proc[p].kind,
         row.kind # "PERSON_AGREEMENT", ClearBackgroundCheck(p, row, named, basis)
  PROVE  RowsOK(proc') /\ KindsKept /\ RestOK'
<1>1. RowOK(ClearedRow(row, basis)) /\ ClearedRow(row, basis).kind = proc[p].kind
  <2>1. ClearedStatus(row) \in Statuses \ {Null}
    BY DEF ClearedStatus, Statuses, Null
  <2>2. ClearedRow(row, basis) \in Rows
    BY <2>1 DEF ClearedRow, RowOK, Rows
  <2>3. QED
    BY <2>1, <2>2 DEF ClearedRow, ClearedStatus, RowOK, Rows, WellFormed, Earned, Kinds,
       HouseholdKinds, Null
<1>2. RowsOK(proc') /\ KindsKept
  BY <1>1, Saved DEF ClearBackgroundCheck, IInv
<1>3. row.subject \in People \cup {None} /\ (row.subject = None => row.home \in Households)
  BY PopulationAssumption DEF RowOK, Rows, WellFormed, Kinds, HouseholdKinds
<1>4. /\ valid' \subseteq People
      /\ volunteer' \subseteq Households
      /\ membership' \in [Households -> Standings]
  BY <1>3 DEF ClearBackgroundCheck, ClearedPeople, IInv, RestOK, Standings
<1>5. QED
  BY <1>2, <1>4 DEF RestOK

\* review.ts: the reviewers.
LEMMA AttestKeeps ==
  ASSUME IInv, NEW p \in Processes, NEW v \in People, NEW mark \in Marks,
         \/ Reject(v, p, mark)
         \/ \E x \in People \cup {None} : Approve(v, p, x, mark)
  PROVE  IInv'
<1>1. RowOK(proc[p]) /\ proc[p] \in Rows
  BY DEF IInv, RowsOK, RowOK
<1>2. proc[p].kind # Null /\ proc[p].kind # "PERSON_AGREEMENT"
  BY <1>1 DEF Reject, Approve, MayAttest, AwaitingBgReview, RowOK, WellFormed, FreeRow,
     NewRow, Null
<1>3. ASSUME NEW x \in People \cup {None}, NEW result \in {"APPROVE", "REJECT"}
      PROVE  /\ RowOK(Attested(proc[p], v, x, result, mark))
             /\ Attested(proc[p], v, x, result, mark).kind = proc[p].kind
  <2>1. [reviewer |-> v, subject |-> x, result |-> result, volunteer |-> mark] \in Attestations
    BY PopulationAssumption DEF Attestations
  <2>2. Attested(proc[p], v, x, result, mark) \in Rows
    BY <1>1, <2>1 DEF Attested, Rows
  <2>3. QED
    BY <1>1, <1>2, <2>2 DEF Attested, RowOK, WellFormed, Earned, Rows
<1>4. CASE Reject(v, p, mark)
  <2> DEFINE row == Attested(proc[p], v, None, "REJECT", mark)
             blocked == [row EXCEPT !.status = "BLOCKED"]
  <2>1. RowOK(row) /\ row.kind = proc[p].kind
    BY <1>3
  <2>2. RowOK(blocked) /\ blocked.kind = proc[p].kind
    BY <1>2, <2>1 DEF RowOK, Rows, WellFormed, Earned, Statuses, Null
  <2>3. RowsOK(proc') /\ KindsKept
    BY <1>4, <2>2, Saved DEF Reject, IInv
  <2>4. QED
    BY <1>4, <2>3, CallsKept DEF Reject, IInv, RestOK
<1>5. ASSUME NEW x \in People \cup {None}, Approve(v, p, x, mark) PROVE IInv'
  <2> DEFINE row == Attested(proc[p], v, x, "APPROVE", mark)
  <2>1. RowOK(row) /\ row.kind = proc[p].kind
    BY <1>3
  <2>2. CASE Two(Approvals(row, x))
    <3>1. ClearBackgroundCheck(p, row, SubjectsWithTwoApprovals(row), "review")
          /\ UNCHANGED calls
      BY <1>5, <2>2 DEF Approve
    <3>2. SubjectsWithTwoApprovals(row) \in SUBSET People
      BY DEF SubjectsWithTwoApprovals
    <3>3. "review" \in Bases
      BY DEF Bases
    <3>4. RowsOK(proc') /\ KindsKept /\ RestOK'
      BY <1>2, <2>1, <3>1, <3>2, <3>3, ClearingKeeps
    <3>5. QED
      BY <3>1, <3>4, CallsKept DEF IInv
  <2>3. CASE ~Two(Approvals(row, x))
    <3>1. Save(p, row) /\ UNCHANGED <<membership, volunteer, valid, calls>>
      BY <1>5, <2>3 DEF Approve
    <3>2. RowsOK(proc') /\ KindsKept
      BY <2>1, <3>1, Saved DEF IInv
    <3>3. QED
      BY <3>1, <3>2, CallsKept DEF IInv, RestOK
  <2>4. QED
    BY <2>2, <2>3
<1>6. QED
  BY <1>4, <1>5

\* What a reset leaves of a row.
Restarted(row, status) ==
  [row EXCEPT !.status = status, !.attests = {}, !.cleared = FALSE, !.basis = "none"]

LEMMA RestartedRow ==
  ASSUME NEW row \in Rows, NEW status \in Statuses \cup {Null}
  PROVE  Restarted(row, status) \in Rows /\ Restarted(row, status).status = status
<1>1. "none" \in Bases
  BY DEF Bases
<1>2. QED
  BY <1>1 DEF Restarted, Rows

\* review.ts: the board.
LEMMA OverrideKeeps ==
  ASSUME IInv, NEW r \in Requests,
         \/ \E p \in Processes : RequestReset(r, p)
         \/ Reset(r)
         \/ \E p \in Processes, x \in People \cup {None} : RequestOverride(r, p, x)
         \/ Override(r)
  PROVE  IInv'
<1>1. ASSUME NEW p \in Processes, RequestReset(r, p) PROVE IInv'
  <2> DEFINE call == [OnRow("reset", p) EXCEPT !.status = BlockedResetStatus(proc[p])]
  <2>1. RowOK(proc[p]) /\ proc[p].kind # Null
    BY <1>1 DEF RequestReset, Exists, IInv, RowsOK
  <2>2. BlockedResetStatus(proc[p]) \in Statuses \ {"ACTIVE"}
    BY <2>1 DEF BlockedResetStatus, Statuses, RowOK, Rows, Kinds, Null
  <2>3. CallOK(call, proc)
    BY <2>1, <2>2, PopulationAssumption DEF CallOK, OnRow, Idle, CallRecords, Ops, RowOps,
       HomeOps, Null
  <2>4. QED
    BY <1>1, <2>3, Suspended DEF RequestReset
<1>2. CASE Reset(r)
  <2> DEFINE p == calls[r].row
             isBlocked == proc[p].status = "BLOCKED"
             row == [proc[p] EXCEPT !.status = IF isBlocked THEN calls[r].status ELSE @,
                                    !.attests = {}, !.cleared = FALSE, !.basis = "none"]
  <2>1. /\ p \in Processes /\ proc[p].kind # Null /\ RowOK(proc[p])
        /\ calls[r].status \in Statuses \ {"ACTIVE"}
    BY <1>2 DEF Reset, IInv, CallsOK, CallOK, RowOps, RowsOK
  <2>2. ASSUME isBlocked \/ AwaitingBgReview(proc[p])
        PROVE  RowOK(row) /\ row.kind = proc[p].kind
    <3> DEFINE status == IF isBlocked THEN calls[r].status ELSE proc[p].status
    <3>1. proc[p].kind # "PERSON_AGREEMENT"
      BY <2>1, <2>2 DEF RowOK, AwaitingBgReview
    <3>2. status \in Statuses \ {"ACTIVE"}
      BY <2>1, <2>2 DEF AwaitingBgReview, Statuses
    <3>3. row \in Rows /\ row.status = status
      <4>1. proc[p] \in Rows /\ status \in Statuses \cup {Null}
        BY <2>1, <3>2 DEF RowOK
      <4>2. row = Restarted(proc[p], status)
        BY DEF Restarted
      <4>3. QED
        BY <4>1, <4>2, RestartedRow
    <3>4. row.status # "ACTIVE" /\ row.status # Null
      BY <3>2, <3>3 DEF Statuses, Null
    <3>5. row.kind = proc[p].kind /\ row.home = proc[p].home /\ row.subject = proc[p].subject
      BY <2>1 DEF RowOK, Rows
    <3>6. QED
      BY <2>1, <3>1, <3>3, <3>4, <3>5 DEF RowOK, WellFormed
  <2>3. SaveIf(isBlocked \/ AwaitingBgReview(proc[p]), p, row)
    BY <1>2 DEF Reset
  <2>4. RowsOK(proc') /\ KindsKept
    BY <2>1, <2>2, <2>3, Saved, NothingSaved DEF SaveIf, IInv
  <2>5. QED
    BY <1>2, <2>4, Finished DEF Reset, IInv, RestOK
<1>3. ASSUME NEW p \in Processes, NEW x \in People \cup {None}, RequestOverride(r, p, x)
      PROVE  IInv'
  <2> DEFINE call == [OnRow("approve", p) EXCEPT !.who = x]
  <2>1. RowOK(proc[p]) /\ proc[p].status = "BLOCKED"
    BY <1>3 DEF RequestOverride, IInv, RowsOK
  <2>2. proc[p].kind # Null /\ proc[p].kind # "PERSON_AGREEMENT"
    BY <2>1 DEF RowOK, WellFormed, FreeRow, NewRow, Null
  <2>3. CallOK(call, proc)
    BY <2>2, PopulationAssumption DEF CallOK, OnRow, Idle, CallRecords, Ops, RowOps, HomeOps,
       Null
  <2>4. QED
    BY <1>3, <2>3, Suspended DEF RequestOverride
<1>4. CASE Override(r)
  <2> DEFINE p == calls[r].row
  <2>1. /\ p \in Processes /\ proc[p].kind # Null /\ RowOK(proc[p])
        /\ proc[p].kind # "PERSON_AGREEMENT"
        /\ calls[r].who \in People \cup {None}
    BY <1>4 DEF Override, IInv, CallsOK, CallOK, CallRecords, RowOps, RowsOK
  <2>2. CASE Clash(p, ClearedRow(proc[p], "board"))
    <3>1. UNCHANGED <<proc, membership, volunteer, valid>> /\ Finish(r)
      BY <1>4, <2>2 DEF Override
    <3>2. RowsOK(proc') /\ KindsKept
      BY <3>1, NothingSaved DEF IInv
    <3>3. QED
      BY <3>1, <3>2, Finished DEF IInv, RestOK
  <2>3. CASE ~Clash(p, ClearedRow(proc[p], "board"))
    <3>1. ClearBackgroundCheck(p, proc[p], {calls[r].who} \ {None}, "board") /\ Finish(r)
      BY <1>4, <2>3 DEF Override
    <3>2. "board" \in Bases /\ {calls[r].who} \ {None} \in SUBSET People
      BY <2>1 DEF Bases
    <3>3. RowsOK(proc') /\ KindsKept /\ RestOK'
      BY <2>1, <3>1, <3>2, ClearingKeeps
    <3>4. QED
      BY <3>1, <3>3, Finished DEF IInv
  <2>4. QED
    BY <2>2, <2>3
<1>5. QED
  BY <1>1, <1>2, <1>3, <1>4

\* archive.ts
LEMMA ArchiveKeeps ==
  ASSUME IInv, NEW r \in Requests,
         \/ \E p \in Processes : RequestArchive(r, p) \/ RequestUnarchive(r, p)
         \/ Archive(r)
         \/ Unarchive(r)
  PROVE  IInv'
<1>1. ASSUME NEW p \in Processes, RequestArchive(r, p) PROVE IInv'
  <2> DEFINE call == [OnRow("archive", p) EXCEPT !.status = proc[p].status]
  <2>1. RowOK(proc[p]) /\ proc[p].kind # Null
    BY <1>1 DEF RequestArchive, Exists, IInv, RowsOK
  <2>2. /\ proc[p].status \in Restorable
        /\ proc[p].kind = "PERSON_AGREEMENT" => proc[p].status = "PENDING_EXTERNAL_ACTION"
    BY <1>1, <2>1 DEF RequestArchive, Restorable, RowOK, Rows, WellFormed
  <2>3. CallOK(call, proc)
    BY <2>1, <2>2, PopulationAssumption DEF CallOK, OnRow, Idle, CallRecords, Ops, RowOps,
       HomeOps, Null, Restorable
  <2>4. QED
    BY <1>1, <2>3, Suspended DEF RequestArchive
<1>2. ASSUME NEW p \in Processes, RequestUnarchive(r, p) PROVE IInv'
  <2> DEFINE call == [OnRow("unarchive", p) EXCEPT !.status = proc[p].from]
  <2>1. RowOK(proc[p]) /\ proc[p].kind # Null
    BY <1>2 DEF RequestUnarchive, IInv, RowsOK, RowOK, WellFormed, FreeRow, NewRow, Null
  <2>2. /\ proc[p].from \in Restorable
        /\ proc[p].kind = "PERSON_AGREEMENT" => proc[p].from = "PENDING_EXTERNAL_ACTION"
    BY <1>2, <2>1 DEF RequestUnarchive, Restorable, Statuses, RowOK, Null
  <2>3. CallOK(call, proc)
    BY <2>1, <2>2, PopulationAssumption DEF CallOK, OnRow, Idle, CallRecords, Ops, RowOps,
       HomeOps, Null, Restorable
  <2>4. QED
    BY <1>2, <2>3, Suspended DEF RequestUnarchive
<1>3. ASSUME Archive(r) \/ Unarchive(r)
      PROVE  /\ calls[r].row \in Processes
             /\ proc[calls[r].row].kind # Null
             /\ RowOK(proc[calls[r].row])
             /\ calls[r].status \in Restorable
             /\ proc[calls[r].row].kind = "PERSON_AGREEMENT" =>
                  calls[r].status = "PENDING_EXTERNAL_ACTION"
  BY <1>3 DEF Archive, Unarchive, IInv, CallsOK, CallOK, RowOps, RowsOK
<1>4. CASE Archive(r)
  <2> DEFINE p == calls[r].row
             row == [proc[p] EXCEPT !.status = "ARCHIVED", !.from = calls[r].status]
  <2>1. RowOK(row) /\ row.kind = proc[p].kind
    <3>1. row \in Rows /\ row.status = "ARCHIVED" /\ row.from = calls[r].status
      BY <1>3, <1>4 DEF RowOK, Rows, Statuses, Restorable
    <3>2. row.kind = proc[p].kind /\ row.home = proc[p].home /\ row.subject = proc[p].subject
      BY <1>3, <1>4 DEF RowOK, Rows
    <3>3. QED
      BY <1>3, <1>4, <3>1, <3>2 DEF RowOK, WellFormed, Null
  <2>2. RowsOK(proc') /\ KindsKept
    BY <1>3, <1>4, <2>1, Saved DEF Archive, IInv
  <2>3. QED
    BY <1>4, <2>2, Finished DEF Archive, IInv, RestOK
<1>5. CASE Unarchive(r)
  <2> DEFINE p == calls[r].row
             row == [proc[p] EXCEPT !.status = calls[r].status, !.from = Null]
  <2>1. RowOK(row) /\ row.kind = proc[p].kind
    <3>1. row \in Rows /\ row.status \in Restorable /\ row.status = calls[r].status
      BY <1>3, <1>5 DEF RowOK, Rows, Restorable
    <3>2. row.from = Null /\ row.status # "ACTIVE" /\ row.status # Null
      BY <1>3, <1>5, <3>1 DEF RowOK, Rows, Restorable, Statuses, Null
    <3>3. row.kind = proc[p].kind /\ row.home = proc[p].home /\ row.subject = proc[p].subject
      BY <1>3, <1>5 DEF RowOK, Rows
    <3>4. QED
      BY <1>3, <1>5, <3>1, <3>2, <3>3 DEF RowOK, WellFormed
  <2>2. SaveIf(proc[p].status = "ARCHIVED", p, row)
    BY <1>5 DEF Unarchive
  <2>3. RowsOK(proc') /\ KindsKept
    BY <1>3, <1>5, <2>1, <2>2, Saved, NothingSaved DEF SaveIf, IInv
  <2>4. QED
    BY <1>5, <2>3, Finished DEF Unarchive, IInv, RestOK
<1>6. QED
  BY <1>1, <1>2, <1>4, <1>5

\* renewal.ts
LEMMA RenewalKeeps ==
  ASSUME IInv,
         \/ \E r \in Requests :
              (\E h \in Households : ListForRenewal(r, h)) \/ CreateRenewal(r)
         \/ \E p \in Processes : BeginRenewal(p)
  PROVE  IInv'
<1>1. ASSUME NEW r \in Requests, NEW h \in Households, ListForRenewal(r, h) PROVE IInv'
  <2>1. CallOK(OnHome("openRenewal", h), proc)
    BY PopulationAssumption DEF CallOK, OnHome, Idle, CallRecords, Ops, RowOps, HomeOps, Null
  <2>2. QED
    BY <1>1, <2>1, Suspended DEF ListForRenewal
<1>2. ASSUME NEW r \in Requests, CreateRenewal(r) PROVE IInv'
  <2>1. calls[r].home \in Households
    BY <1>2 DEF CreateRenewal, IInv, CallsOK, CallOK, HomeOps
  <2>2. RowOK(NewRow("RENEWAL", calls[r].home, None, "PENDING_RENEWAL"))
    BY <2>1, PopulationAssumption DEF RowOK, FreeRow, NewRow, Rows, WellFormed, Earned,
       Kinds, Statuses, Bases, HouseholdKinds, Null
  <2>3. RowsOK(proc') /\ KindsKept
    BY <1>2, <2>2, Inserted, NothingSaved DEF CreateRenewal, IInv
  <2>4. QED
    BY <1>2, <2>3, Finished DEF CreateRenewal, IInv, RestOK
<1>3. ASSUME NEW p \in Processes, BeginRenewal(p) PROVE IInv'
  <2> DEFINE row == IF HouseholdBgIsFresh(proc[p].home)
                    THEN [proc[p] EXCEPT !.status = "PENDING_EXTERNAL_ACTION",
                                         !.cleared = TRUE, !.basis = "prior"]
                    ELSE [proc[p] EXCEPT !.status = "PENDING_EXTERNAL_ACTION"]
  <2>1. RowOK(proc[p]) /\ proc[p].status = "PENDING_RENEWAL"
    BY <1>3 DEF BeginRenewal, IInv, RowsOK
  <2>2. row.kind = proc[p].kind /\ RowOK(row)
    <3>1. proc[p].kind # Null /\ proc[p].kind # "PERSON_AGREEMENT"
      BY <2>1 DEF RowOK, WellFormed, FreeRow, NewRow, Null
    <3>2. /\ row \in Rows /\ row.status = "PENDING_EXTERNAL_ACTION"
          /\ row.kind = proc[p].kind /\ row.home = proc[p].home
          /\ row.subject = proc[p].subject
      BY <2>1 DEF RowOK, Rows, Statuses, Bases
    <3>3. QED
      BY <2>1, <3>1, <3>2 DEF RowOK, WellFormed, Null
  <2>3. RowsOK(proc') /\ KindsKept
    BY <1>3, <2>2, Saved DEF BeginRenewal, IInv
  <2>4. QED
    BY <1>3, <2>3, CallsKept DEF BeginRenewal, IInv, RestOK
<1>4. QED
  BY <1>1, <1>2, <1>3

\* mergeBgAdvance.ts
LEMMA MergeKeeps ==
  ASSUME IInv, NEW r \in Requests,
         \/ \E x \in People : MergeLead(r, x)
         \/ \E p \in Processes : StampBgCleared(r, p) \/ ClearHeldRow(r, p)
         \/ NextMergeStage(r)
  PROVE  IInv'
<1>1. ASSUME NEW x \in People, MergeLead(r, x) PROVE IInv'
  <2> DEFINE h == HouseholdOf[x]
             stage == [OnHome("merge", h) EXCEPT !.status = MergeStages[1]]
             call == IF HouseholdBgIsFresh(h) THEN Idle ELSE stage
  <2>1. /\ UNCHANGED <<proc, membership, volunteer>>
        /\ valid' = valid \cup {x}
        /\ Resume(r, call)
    BY <1>1 DEF MergeLead
  <2>2. h \in Households
    BY PopulationAssumption
  <2>3. CallOK(stage, proc)
    <3>1. MergeStages[1] = "PENDING_EXTERNAL_ACTION"
      BY DEF MergeStages
    <3>2. stage \in CallRecords /\ stage.op = "merge" /\ stage.home \in Households
      BY <2>2, <3>1 DEF OnHome, Idle, CallRecords, Ops, Statuses
    <3>3. QED
      BY <3>2 DEF CallOK, RowOps, HomeOps
  <2>4. CallOK(call, proc')
    BY <2>1, <2>3, IdleOK
  <2>5. RowsOK(proc') /\ KindsKept
    BY <2>1, NothingSaved DEF IInv
  <2>6. CallsOK(calls', proc')
    BY <2>1, <2>4, <2>5, Resumed DEF IInv
  <2>7. QED
    BY <2>1, <2>5, <2>6 DEF IInv, RestOK
<1>2. ASSUME NEW p \in Processes, StampBgCleared(r, p) PROVE IInv'
  <2> DEFINE stamped == [proc[p] EXCEPT !.cleared = TRUE, !.basis = "merge"]
             row == IF GateMet(stamped) THEN [stamped EXCEPT !.status = "PENDING_PAYMENT"]
                    ELSE stamped
  <2>1. /\ RowOK(proc[p]) /\ IsHousehold(proc[p]) /\ proc[p].status # "ACTIVE"
        /\ proc[p].kind # Null
    BY <1>2 DEF StampBgCleared, MergeCandidate, IInv, RowsOK, IsHousehold, HouseholdKinds,
       Null
  <2>2. RowOK(stamped) /\ stamped.kind = proc[p].kind
    BY <2>1 DEF RowOK, Rows, WellFormed, Bases, IsHousehold, HouseholdKinds
  <2>3. RowOK([stamped EXCEPT !.status = "PENDING_PAYMENT"])
    BY <2>1, <2>2 DEF RowOK, Rows, WellFormed, Statuses, IsHousehold, HouseholdKinds, Null
  <2>4. RowOK(row) /\ row.kind = proc[p].kind
    BY <2>2, <2>3
  <2>5. RowsOK(proc') /\ KindsKept
    BY <1>2, <2>4, Saved DEF StampBgCleared, IInv
  <2>6. QED
    BY <1>2, <2>5, CallsKept, PopulationAssumption DEF StampBgCleared, IInv, RestOK
<1>3. ASSUME NEW p \in Processes, ClearHeldRow(r, p) PROVE IInv'
  <2>1. /\ RowOK(proc[p]) /\ proc[p].kind # "PERSON_AGREEMENT" /\ proc[p].kind # Null
        /\ ClearBackgroundCheck(p, proc[p], {}, "merge") /\ UNCHANGED calls
    BY <1>3 DEF ClearHeldRow, MergeCandidate, IInv, RowsOK, IsHousehold, HouseholdKinds, Null
  <2>2. "merge" \in Bases /\ {} \in SUBSET People
    BY DEF Bases
  <2>3. RowsOK(proc') /\ KindsKept /\ RestOK'
    BY <2>1, <2>2, ClearingKeeps
  <2>4. QED
    BY <2>1, <2>3, CallsKept DEF IInv
<1>4. CASE NextMergeStage(r)
  <2>1. /\ UNCHANGED <<proc, membership, volunteer, valid>>
        /\ calls[r].op = "merge" /\ calls[r].home \in Households /\ calls[r] \in CallRecords
    BY <1>4 DEF NextMergeStage, IInv, CallsOK, CallOK, HomeOps
  <2>2. RowsOK(proc') /\ KindsKept
    BY <2>1, NothingSaved DEF IInv
  <2>3. CASE Finish(r)
    BY <2>1, <2>2, <2>3, Finished DEF IInv, RestOK
  <2>4. ASSUME NEW i \in 1 .. 3, Resume(r, [calls[r] EXCEPT !.status = MergeStages[i + 1]])
        PROVE  IInv'
    <3>1. MergeStages[i + 1] \in Statuses
      BY DEF MergeStages, Statuses
    <3>2. CallOK([calls[r] EXCEPT !.status = MergeStages[i + 1]], proc')
      BY <2>1, <3>1 DEF CallOK, CallRecords, RowOps, HomeOps
    <3>3. CallsOK(calls', proc')
      BY <2>2, <2>4, <3>2, Resumed DEF IInv
    <3>4. QED
      BY <2>1, <2>2, <3>3 DEF IInv, RestOK
  <2>5. QED
    BY <1>4, <2>3, <2>4 DEF NextMergeStage
<1>5. QED
  BY <1>1, <1>2, <1>3, <1>4

\* personBgTriggers.ts, personAgreementTriggers.ts, and time.
LEMMA PersonKeeps ==
  ASSUME IInv, NEW x \in People,
         OpenPersonBg(x) \/ OpenPersonAgreement(x) \/ CheckLapses(x)
  PROVE  IInv'
<1>1. /\ RowOK(NewRow("PERSON_BG", None, x, "PENDING_BG_REVIEW"))
      /\ RowOK(NewRow("PERSON_AGREEMENT", None, x, "PENDING_EXTERNAL_ACTION"))
  BY PopulationAssumption DEF RowOK, FreeRow, NewRow, Rows, WellFormed, Earned, Kinds,
     Statuses, Bases, HouseholdKinds, Null
<1>2. RowsOK(proc') /\ KindsKept
  BY <1>1, Inserted, NothingSaved DEF OpenPersonBg, OpenPersonAgreement, CheckLapses, IInv
<1>3. QED
  BY <1>2, CallsKept DEF OpenPersonBg, OpenPersonAgreement, CheckLapses, IInv, RestOK

\* The ops routes write a standing and nothing else.
LEMMA StandingAlone ==
  ASSUME WriteStanding
  PROVE  UNCHANGED <<proc, volunteer, valid, calls>>
  BY DEF WriteStanding, GrantMembership, ImportMembership, DenyMembership, RestoreMembership

LEMMA StandingKeeps ==
  ASSUME IInv,
         \/ WriteStanding
         \/ \E r \in Requests : Revoke(r)
         \/ \E r \in Requests, h \in Households : RequestRevoke(r, h)
  PROVE  IInv'
<1>1. ASSUME NEW h, NEW standing, SetStanding(h, standing)
      PROVE  membership' \in [Households -> Standings]
  BY <1>1, PopulationAssumption DEF SetStanding, IInv, RestOK
<1>2. UNCHANGED <<proc, volunteer, valid>>
  BY StandingAlone DEF Revoke, RequestRevoke
<1>3. RowsOK(proc') /\ KindsKept
  BY <1>2, NothingSaved DEF IInv
<1>4. CASE WriteStanding
  <2>1. UNCHANGED calls /\ membership' \in [Households -> Standings]
    BY <1>1, <1>4, StandingAlone
       DEF WriteStanding, GrantMembership, ImportMembership, DenyMembership, RestoreMembership
  <2>2. QED
    BY <1>2, <1>3, <2>1, CallsKept DEF IInv, RestOK
<1>5. ASSUME NEW r \in Requests, Revoke(r) PROVE IInv'
  <2>1. Finish(r) /\ membership' \in [Households -> Standings]
    BY <1>1, <1>5 DEF Revoke
  <2>2. QED
    BY <1>2, <1>3, <2>1, Finished DEF IInv, RestOK
<1>6. ASSUME NEW r \in Requests, NEW h \in Households, RequestRevoke(r, h) PROVE IInv'
  <2>1. CallOK(OnHome("revoke", h), proc')
    BY PopulationAssumption DEF CallOK, OnHome, Idle, CallRecords, Ops, RowOps, HomeOps, Null
  <2>2. Suspend(r, OnHome("revoke", h)) /\ UNCHANGED membership
    BY <1>6 DEF RequestRevoke
  <2>3. QED
    BY <1>2, <1>3, <2>1, <2>2, Suspended DEF IInv, RestOK
<1>7. QED
  BY <1>4, <1>5, <1>6

LEMMA AbandonKeeps == ASSUME IInv, NEW r \in Requests, Abandon(r) PROVE IInv'
<1>1. RowsOK(proc') /\ KindsKept
  BY NothingSaved DEF Abandon, IInv
<1>2. QED
  BY <1>1, Finished DEF Abandon, IInv, RestOK

-----------------------------------------------------------------------------
(* The theorems.                                                           *)

LEMMA InitIInv == Init => IInv
<1> SUFFICES ASSUME Init PROVE IInv
  OBVIOUS
<1>1. \A x \in Leads : HouseholdOf[x] \in Households
  BY PopulationAssumption
<1>2. ASSUME NEW h \in Households, NEW row \in LegacyRows(h) PROVE RowOK(row)
  <2>1. RowOK([NewRow("INITIAL", h, None, "PENDING_BG_REVIEW") EXCEPT !.signed = TRUE,
                                                                    !.consent = TRUE])
    BY PopulationAssumption DEF RowOK, NewRow, Rows, WellFormed, Earned, Kinds, Statuses,
       Bases, HouseholdKinds, Null
  <2>2. RowOK(NewRow("RENEWAL", h, None, "BLOCKED"))
    BY PopulationAssumption DEF RowOK, NewRow, Rows, WellFormed, Earned, Kinds, Statuses,
       Bases, HouseholdKinds, Null
  <2>3. RowOK([NewRow("RENEWAL", h, None, "ARCHIVED") EXCEPT !.from = "RENEWAL_PENDING_BG"])
    BY PopulationAssumption DEF RowOK, NewRow, Rows, WellFormed, Earned, Kinds, Statuses,
       Bases, HouseholdKinds, Null
  <2>4. QED
    BY <1>2, <2>1, <2>2, <2>3 DEF LegacyRows
<1>3. RowsOK(proc)
  <2>1. CASE proc = [p \in Processes |-> FreeRow]
    BY <2>1, FreeRowOK DEF RowsOK, RowOK
  <2>2. ASSUME NEW q \in Processes, NEW x \in Leads, NEW row \in LegacyRows(HouseholdOf[x]),
               proc = [p \in Processes |-> IF p = q THEN row ELSE FreeRow]
        PROVE  RowsOK(proc)
    <3>1. RowOK(row)
      BY <1>1, <1>2
    <3>2. QED
      BY <2>2, <3>1, FreeRowOK DEF RowsOK, RowOK
  <2>3. QED
    BY <2>1, <2>2 DEF Init
<1>4. CallsOK(calls, proc)
  BY IdleOK DEF Init, CallsOK, CallOK
<1>5. valid \subseteq People
  BY PopulationAssumption DEF Init
<1>6. QED
  BY <1>3, <1>4, <1>5 DEF Init, IInv, RestOK, Standings

LEMMA NextIInv == IInv /\ [Next]_vars => IInv'
<1> SUFFICES ASSUME IInv, [Next]_vars PROVE IInv'
  OBVIOUS
<1>1. CASE Arrive
  BY <1>1, IntakeKeeps, ExternalKeeps, PaymentKeeps, AttestKeeps, OverrideKeeps,
     ArchiveKeeps, RenewalKeeps, MergeKeeps, PersonKeeps, StandingKeeps DEF Arrive
<1>2. ASSUME NEW r \in Requests, Continue(r) PROVE IInv'
  BY <1>2, IntakeKeeps, ExternalKeeps, OverrideKeeps, ArchiveKeeps, RenewalKeeps, MergeKeeps,
     StandingKeeps DEF Continue
<1>3. ASSUME NEW r \in Requests, Abandon(r) PROVE IInv'
  BY <1>3, AbandonKeeps
<1>4. CASE UNCHANGED vars
  <2>1. RowsOK(proc') /\ KindsKept
    BY <1>4, NothingSaved DEF IInv, vars
  <2>2. QED
    BY <1>4, <2>1, CallsKept DEF IInv, RestOK, vars
<1>5. QED
  BY <1>1, <1>2, <1>3, <1>4, StandingKeeps DEF Next

\* The inductive invariant holds in every behaviour of the process table.
THEOREM Inductive == Spec => []IInv
  BY InitIInv, NextIInv, PTL DEF Spec

\* Rows keep the shape their kind requires, and every variable its type, under
\* every interleaving of the membership handlers.
THEOREM TypeCorrect == Spec => []TypeOK
<1>1. IInv => TypeOK
  BY DEF IInv, RowsOK, RowOK, CallsOK, RestOK, TypeOK
<1>2. QED
  BY <1>1, Inductive, PTL

\* No membership is ACTIVE without dues and a cleared check, no person's check
\* without its clearance and no agreement without its signature, whatever stale
\* reset, archive, restore, override or submission lands in between.
THEOREM EarnedMembership == Spec => []ActiveIsEarned
<1>1. IInv => ActiveIsEarned
  BY DEF IInv, RowsOK, RowOK, ActiveIsEarned
<1>2. QED
  BY <1>1, Inductive, PTL

-----------------------------------------------------------------------------
(* A row and the standing of its household, when handlers take turns.      *)
(*                                                                         *)
(* All but one of the writes that make a row ACTIVE recheck its status     *)
(* under the lock.  The override does not: it relies on the row being as   *)
(* it was read (AsRead), which holds when nothing comes between.           *)

\* A household row that this step makes ACTIVE.
Joins(p) ==
  /\ proc'[p].kind \in HouseholdKinds
  /\ proc'[p].status = "ACTIVE" /\ proc[p].status # "ACTIVE"

Follows ==
  /\ \A p \in Processes : Joins(p) => membership'[proc'[p].home] = "ACTIVE"
  /\ \A h \in Households :
       membership'[h] # membership[h] /\ ~UNCHANGED proc =>
         /\ membership'[h] = "ACTIVE"
         /\ \E p \in Processes : Joins(p) /\ proc'[p].home = h

\* The requests that write by what they read of their row, and what they read.
Recalling == {"submitIntake", "archive", "unarchive", "reset", "approve"}

AsRead(call, row) ==
  /\ call.op = "submitIntake" => row.status = "INTAKE"
  /\ call.op = "archive" => /\ row.status = call.status
                            /\ row.status \notin {"ACTIVE", "ARCHIVED"}
  /\ call.op = "unarchive" => /\ row.status = "ARCHIVED"
                              /\ row.from = call.status /\ row.from \in Restorable
  /\ call.op = "reset" => call.status = BlockedResetStatus(row)
  /\ call.op = "approve" => /\ row.status = "BLOCKED"
                            /\ row.subject = None => call.who \in LeadsOf(row.home)

\* One request at a time, and its row as it was read.
TurnOK ==
  /\ \A r, s \in Requests : calls[r] # Idle /\ calls[s] # Idle => r = s
  /\ \A r \in Requests : AsRead(calls[r], proc[calls[r].row])

LEMMA UntouchedFollows == ASSUME UNCHANGED proc PROVE Follows
  BY DEF Follows, Joins

\* A row saved short of ACTIVE, or still ACTIVE, with every standing as it was.
LEMMA SavedFollows ==
  ASSUME IInv, NEW p \in Processes, NEW row, Save(p, row), UNCHANGED membership,
         row.kind \in HouseholdKinds /\ row.status = "ACTIVE" => proc[p].status = "ACTIVE"
  PROVE  Follows
<1>1. \A q \in Processes : proc'[q] = IF q = p THEN row ELSE proc[q]
  BY DEF Save, IInv, RowsOK
<1>2. QED
  BY <1>1 DEF Follows, Joins

LEMMA InsertedFollows ==
  ASSUME IInv, NEW row, Insert(row), UNCHANGED membership, row.status # "ACTIVE"
  PROVE  Follows
  BY SavedFollows DEF Insert

\* A row and its household together.
LEMMA JoinedFollows ==
  ASSUME IInv, NEW p \in Processes, NEW row, Save(p, row), proc[p].status # "ACTIVE",
         row.kind \in HouseholdKinds, row.home \in Households, row.status = "ACTIVE",
         membership' = [membership EXCEPT ![row.home] = "ACTIVE"]
  PROVE  Follows
<1>1. \A q \in Processes : proc'[q] = IF q = p THEN row ELSE proc[q]
  BY DEF Save, IInv, RowsOK
<1>2. \A h \in Households : membership'[h] = IF h = row.home THEN "ACTIVE" ELSE membership[h]
  BY DEF IInv, RestOK
<1>3. Joins(p) /\ \A q \in Processes : Joins(q) => q = p
  BY <1>1 DEF Joins
<1>4. QED
  BY <1>1, <1>2, <1>3 DEF Follows

LEMMA ClearingFollows ==
  ASSUME IInv, NEW p \in Processes, NEW row, RowOK(row), row.kind # Null, NEW named, NEW basis,
         ClearBackgroundCheck(p, row, named, basis), proc[p].status # "ACTIVE"
  PROVE  Follows
<1> DEFINE done == ClearedRow(row, basis)
<1>1. /\ Save(p, done)
      /\ done.kind = row.kind /\ done.home = row.home
      /\ done.status = ClearedStatus(row)
  BY DEF ClearBackgroundCheck, ClearedRow, RowOK, Rows
<1>2. /\ row.kind \in HouseholdKinds => row.home \in Households /\ row.subject = None
      /\ row.kind \notin HouseholdKinds => row.subject # None
  BY PopulationAssumption DEF RowOK, Rows, WellFormed, Kinds
<1>3. CASE row.subject = None /\ row.paid
  <2>1. done.status = "ACTIVE" /\ membership' = [membership EXCEPT ![done.home] = "ACTIVE"]
    BY <1>1, <1>3 DEF ClearedStatus, ClearBackgroundCheck
  <2>2. QED
    BY <1>1, <1>2, <1>3, <2>1, JoinedFollows
<1>4. CASE ~(row.subject = None /\ row.paid)
  <2>1. UNCHANGED membership
    BY <1>4 DEF ClearBackgroundCheck
  <2>2. done.kind \in HouseholdKinds => done.status # "ACTIVE"
    BY <1>1, <1>2, <1>4 DEF ClearedStatus
  <2>3. QED
    BY <1>1, <2>1, <2>2, SavedFollows
<1>5. QED
  BY <1>3, <1>4

\* What arrives from outside.
LEMMA ArrivingFollows == ASSUME IInv, Arrive PROVE Follows
<1>1. \A p \in Processes : RowOK(proc[p]) /\ proc[p] \in Rows
  BY DEF IInv, RowsOK, RowOK
<1>2. ASSUME NEW r \in Requests, NEW p \in Processes, MarkContractSigned(r, p) PROVE Follows
  <2> DEFINE row == IF proc[p].signed THEN proc[p]
                    ELSE IF proc[p].kind = "PERSON_AGREEMENT"
                         THEN [proc[p] EXCEPT !.signed = TRUE, !.status = "ACTIVE"]
                         ELSE [proc[p] EXCEPT !.signed = TRUE]
  <2>1. row.kind \in HouseholdKinds /\ row.status = "ACTIVE" => proc[p].status = "ACTIVE"
    BY <1>1 DEF Rows, HouseholdKinds
  <2>2. QED
    BY <1>2, <2>1, SavedFollows DEF MarkContractSigned
<1>3. ASSUME NEW r \in Requests, NEW p \in Processes, MarkBgConsent(r, p) PROVE Follows
  <2>1. [proc[p] EXCEPT !.consent = TRUE].status = proc[p].status
    BY <1>1 DEF Rows
  <2>2. QED
    BY <1>3, <2>1, SavedFollows DEF MarkBgConsent
<1>4. ASSUME NEW p \in Processes, Settle(p) PROVE Follows
  <2> DEFINE row == [proc[p] EXCEPT !.paid = TRUE, !.status = SettledStatus(proc[p])]
  <2>1. /\ row.kind = proc[p].kind /\ row.home = proc[p].home
        /\ row.status = SettledStatus(proc[p])
        /\ row.kind \in HouseholdKinds /\ row.home \in Households
    BY <1>1, <1>4 DEF Rows, Settle, IsHousehold, RowOK, WellFormed
  <2>2. Save(p, row) /\ proc[p].status # "ACTIVE"
    BY <1>4 DEF Settle
  <2>3. CASE proc[p].cleared
    BY <1>4, <2>1, <2>2, <2>3, JoinedFollows DEF Settle, SettledStatus
  <2>4. CASE ~proc[p].cleared
    <3>1. UNCHANGED membership /\ row.status # "ACTIVE"
      BY <1>4, <2>1, <2>4 DEF Settle, SettledStatus
    <3>2. QED
      BY <2>2, <3>1, SavedFollows
  <2>5. QED
    BY <2>3, <2>4
<1>5. ASSUME NEW p \in Processes, PaidWhileBlocked(p) PROVE Follows
  <2>1. [proc[p] EXCEPT !.paid = TRUE].status = proc[p].status
    BY <1>1 DEF Rows
  <2>2. QED
    BY <1>5, <2>1, SavedFollows DEF PaidWhileBlocked
<1>6. ASSUME NEW p \in Processes, BeginRenewal(p) PROVE Follows
  <2>1. /\ [proc[p] EXCEPT !.status = "PENDING_EXTERNAL_ACTION", !.cleared = TRUE,
                           !.basis = "prior"].status # "ACTIVE"
        /\ [proc[p] EXCEPT !.status = "PENDING_EXTERNAL_ACTION"].status # "ACTIVE"
    BY <1>1 DEF Rows
  <2>2. QED
    BY <1>6, <2>1, SavedFollows DEF BeginRenewal
<1>7. ASSUME NEW v \in People, NEW p \in Processes, NEW mark \in Marks, Reject(v, p, mark)
      PROVE  Follows
  <2> DEFINE row == [Attested(proc[p], v, None, "REJECT", mark) EXCEPT !.status = "BLOCKED"]
  <2>1. row.status = "BLOCKED"
    BY <1>1 DEF Rows, Attested
  <2>2. QED
    BY <1>7, <2>1, SavedFollows DEF Reject
<1>8. ASSUME NEW v \in People, NEW p \in Processes, NEW mark \in Marks,
             NEW x \in People \cup {None}, Approve(v, p, x, mark)
      PROVE  Follows
  <2> DEFINE row == Attested(proc[p], v, x, "APPROVE", mark)
  <2>1. /\ proc[p].status # "ACTIVE" /\ proc[p].kind # Null
        /\ row.status = proc[p].status /\ row.kind = proc[p].kind
    BY <1>1, <1>8 DEF Approve, MayAttest, AwaitingBgReview, RowOK, WellFormed, FreeRow,
       NewRow, Null, Rows, Attested
  <2>2. RowOK(row)
    <3>1. [reviewer |-> v, subject |-> x, result |-> "APPROVE", volunteer |-> mark]
            \in Attestations
      BY PopulationAssumption DEF Attestations
    <3>2. QED
      BY <1>1, <2>1, <3>1 DEF RowOK, Rows, WellFormed, Earned, Attested
  <2>3. QED
    BY <1>8, <2>1, <2>2, SavedFollows, ClearingFollows DEF Approve
<1>9. ASSUME NEW x \in People, OpenPersonBg(x) \/ OpenPersonAgreement(x) PROVE Follows
  <2>1. /\ NewRow("PERSON_BG", None, x, "PENDING_BG_REVIEW").status # "ACTIVE"
        /\ NewRow("PERSON_AGREEMENT", None, x, "PENDING_EXTERNAL_ACTION").status # "ACTIVE"
    BY DEF NewRow
  <2>2. QED
    BY <1>9, <2>1, InsertedFollows DEF OpenPersonBg, OpenPersonAgreement
<1>10. ASSUME NEW r \in Requests, NEW p \in Processes,
              \/ SubmitIntake(r, p) \/ RequestReset(r, p) \/ RequestArchive(r, p)
              \/ RequestUnarchive(r, p) \/ \E x \in People \cup {None} : RequestOverride(r, p, x)
       PROVE  Follows
  BY <1>10, UntouchedFollows
     DEF SubmitIntake, RequestReset, RequestArchive, RequestUnarchive, RequestOverride
<1>11. ASSUME NEW h \in Households, NEW r \in Requests,
              StartIntake(r, h) \/ ListForRenewal(r, h) \/ RequestRevoke(r, h)
       PROVE  Follows
  BY <1>11, UntouchedFollows DEF StartIntake, ListForRenewal, RequestRevoke
<1>12. ASSUME NEW x \in People, CheckLapses(x) \/ \E r \in Requests : MergeLead(r, x)
       PROVE  Follows
  BY <1>12, UntouchedFollows DEF CheckLapses, MergeLead
<1>13. QED
  BY <1>2, <1>3, <1>4, <1>5, <1>6, <1>7, <1>8, <1>9, <1>10, <1>11, <1>12 DEF Arrive

\* What goes on.
LEMMA ContinuingFollows ==
  ASSUME IInv, TurnOK, NEW r \in Requests, Continue(r)
  PROVE  Follows
<1> DEFINE p == calls[r].row
<1>1. \A q \in Processes : RowOK(proc[q]) /\ proc[q] \in Rows
  BY DEF IInv, RowsOK, RowOK
<1>2. CallOK(calls[r], proc) /\ (calls[r].op \in RowOps => p \in Processes)
  BY DEF IInv, CallsOK, CallOK
<1>3. CASE CreateIntake(r) \/ CreateRenewal(r)
  <2>1. \A h : /\ NewRow("INITIAL", h, None, "INTAKE").status # "ACTIVE"
               /\ NewRow("RENEWAL", h, None, "PENDING_RENEWAL").status # "ACTIVE"
    BY DEF NewRow
  <2>2. QED
    BY <1>3, <2>1, InsertedFollows, UntouchedFollows DEF CreateIntake, CreateRenewal
<1>4. CASE RecordSubmission(r)
  <2>1. p \in Processes
    BY <1>2, <1>4 DEF RecordSubmission, RowOps
  <2>2. /\ [proc[p] EXCEPT !.status = "PENDING_EXTERNAL_ACTION", !.cleared = TRUE,
                           !.basis = "prior"].status # "ACTIVE"
        /\ [proc[p] EXCEPT !.status = "PENDING_EXTERNAL_ACTION"].status # "ACTIVE"
    BY <1>1, <2>1 DEF Rows
  <2>3. QED
    BY <1>4, <2>1, <2>2, SavedFollows, UntouchedFollows DEF RecordSubmission
<1>5. CASE Advance(r)
  <2>1. p \in Processes
    BY <1>2, <1>5 DEF Advance, RowOps
  <2>2. [proc[p] EXCEPT !.status = "PENDING_PAYMENT"].status # "ACTIVE"
    BY <1>1, <2>1 DEF Rows
  <2>3. QED
    BY <1>5, <2>1, <2>2, SavedFollows, UntouchedFollows DEF Advance
<1>6. CASE Reset(r)
  <2> DEFINE row == [proc[p] EXCEPT
                       !.status = IF proc[p].status = "BLOCKED" THEN calls[r].status ELSE @,
                       !.attests = {}, !.cleared = FALSE, !.basis = "none"]
  <2>1. p \in Processes /\ calls[r].status # "ACTIVE"
    BY <1>2, <1>6 DEF Reset, RowOps, CallOK
  <2>2. row.status = "ACTIVE" => proc[p].status = "ACTIVE"
    BY <1>1, <2>1 DEF Rows
  <2>3. QED
    BY <1>6, <2>1, <2>2, SavedFollows, UntouchedFollows DEF Reset, SaveIf
<1>7. CASE Override(r)
  <2>1. p \in Processes /\ proc[p].kind # Null /\ proc[p].status = "BLOCKED"
    BY <1>2, <1>7 DEF Override, RowOps, CallOK, TurnOK, AsRead
  <2>2. QED
    BY <1>1, <1>7, <2>1, ClearingFollows, UntouchedFollows DEF Override
<1>8. CASE Archive(r) \/ Unarchive(r)
  <2>1. p \in Processes /\ calls[r].status # "ACTIVE"
    BY <1>2, <1>8 DEF Archive, Unarchive, RowOps, CallOK, Restorable
  <2>2. /\ [proc[p] EXCEPT !.status = "ARCHIVED", !.from = calls[r].status].status # "ACTIVE"
        /\ [proc[p] EXCEPT !.status = calls[r].status, !.from = Null].status # "ACTIVE"
    BY <1>1, <2>1 DEF Rows
  <2>3. QED
    BY <1>8, <2>1, <2>2, SavedFollows, UntouchedFollows DEF Archive, Unarchive, SaveIf
<1>9. ASSUME NEW q \in Processes, StampBgCleared(r, q) PROVE Follows
  <2> DEFINE stamped == [proc[q] EXCEPT !.cleared = TRUE, !.basis = "merge"]
  <2>1. stamped.status = proc[q].status /\ stamped \in Rows
    BY <1>1 DEF Rows, Bases
  <2>2. [stamped EXCEPT !.status = "PENDING_PAYMENT"].status # "ACTIVE"
    BY <2>1 DEF Rows
  <2>3. QED
    BY <1>9, <2>1, <2>2, SavedFollows DEF StampBgCleared
<1>10. ASSUME NEW q \in Processes, ClearHeldRow(r, q) PROVE Follows
  <2>1. proc[q].status # "ACTIVE" /\ proc[q].kind # Null
    BY <1>10 DEF ClearHeldRow, MergeCandidate, IsHousehold, HouseholdKinds, Null
  <2>2. QED
    BY <1>1, <1>10, <2>1, ClearingFollows DEF ClearHeldRow
<1>11. CASE Revoke(r) \/ NextMergeStage(r)
  BY <1>11, UntouchedFollows DEF Revoke, NextMergeStage
<1>12. QED
  BY <1>3, <1>4, <1>5, <1>6, <1>7, <1>8, <1>9, <1>10, <1>11 DEF Continue

\* A step resumes one request at most: one that recalls nothing of its row, or
\* one that has just read it.
Suspends(r) ==
  \E call : /\ Resume(r, call)
            /\ \/ call.op \notin Recalling
               \/ UNCHANGED proc /\ AsRead(call, proc[call.row])

LEMMA ArrivingSuspends ==
  ASSUME IInv, Arrive
  PROVE  UNCHANGED calls \/ \E r \in Requests : Suspends(r)
<1>1. ASSUME NEW r \in Requests, NEW h \in Households,
             StartIntake(r, h) \/ ListForRenewal(r, h) \/ RequestRevoke(r, h)
      PROVE  Suspends(r)
  <2>1. \A op \in {"startIntake", "openRenewal", "revoke"} : OnHome(op, h).op = op
    BY DEF OnHome, Idle
  <2>2. \E op \in {"startIntake", "openRenewal", "revoke"} : Resume(r, OnHome(op, h))
    BY <1>1 DEF StartIntake, ListForRenewal, RequestRevoke, Suspend, Resume
  <2>3. QED
    BY <2>1, <2>2 DEF Suspends, Recalling
<1>2. ASSUME NEW r \in Requests, NEW x \in People, MergeLead(r, x) PROVE Suspends(r)
  <2> DEFINE call == [OnHome("merge", HouseholdOf[x]) EXCEPT !.status = MergeStages[1]]
  <2>1. call.op = "merge" /\ Idle.op = "idle"
    BY DEF OnHome, Idle
  <2>2. Resume(r, Idle) \/ Resume(r, call)
    BY <1>2 DEF MergeLead
  <2>3. QED
    BY <2>1, <2>2 DEF Suspends, Recalling
<1>3. ASSUME NEW r \in Requests, NEW p \in Processes, SubmitIntake(r, p) PROVE Suspends(r)
  <2> DEFINE call == [OnRow("submitIntake", p) EXCEPT
                        !.fresh = HouseholdBgIsFresh(proc[p].home)]
  <2>1. call.op = "submitIntake" /\ call.row = p
    BY DEF OnRow, Idle
  <2>2. Resume(r, call) /\ UNCHANGED proc /\ proc[p].status = "INTAKE"
    BY <1>3 DEF SubmitIntake, Suspend, Resume
  <2>3. AsRead(call, proc[call.row])
    BY <2>1, <2>2 DEF AsRead
  <2>4. QED
    BY <2>2, <2>3 DEF Suspends
<1>4. ASSUME NEW r \in Requests, NEW p \in Processes,
             MarkContractSigned(r, p) \/ MarkBgConsent(r, p)
      PROVE  Suspends(r)
  <2>1. OnRow("advance", p).op = "advance" /\ Idle.op = "idle"
    BY DEF OnRow, Idle
  <2>2. Resume(r, Idle) \/ Resume(r, OnRow("advance", p))
    BY <1>4 DEF MarkContractSigned, MarkBgConsent, Suspend, Resume
  <2>3. QED
    BY <2>1, <2>2 DEF Suspends, Recalling
<1>5. ASSUME NEW r \in Requests, NEW p \in Processes, RequestReset(r, p) PROVE Suspends(r)
  <2> DEFINE call == [OnRow("reset", p) EXCEPT !.status = BlockedResetStatus(proc[p])]
  <2>1. call.op = "reset" /\ call.row = p /\ call.status = BlockedResetStatus(proc[p])
    BY DEF OnRow, Idle
  <2>2. Resume(r, call) /\ UNCHANGED proc
    BY <1>5 DEF RequestReset, Suspend, Resume
  <2>3. AsRead(call, proc[call.row])
    BY <2>1 DEF AsRead
  <2>4. QED
    BY <2>2, <2>3 DEF Suspends
<1>6. ASSUME NEW r \in Requests, NEW p \in Processes, RequestArchive(r, p) PROVE Suspends(r)
  <2> DEFINE call == [OnRow("archive", p) EXCEPT !.status = proc[p].status]
  <2>1. call.op = "archive" /\ call.row = p /\ call.status = proc[p].status
    BY DEF OnRow, Idle
  <2>2. Resume(r, call) /\ UNCHANGED proc /\ proc[p].status \notin {"ACTIVE", "ARCHIVED"}
    BY <1>6 DEF RequestArchive, Suspend, Resume
  <2>3. AsRead(call, proc[call.row])
    BY <2>1, <2>2 DEF AsRead
  <2>4. QED
    BY <2>2, <2>3 DEF Suspends
<1>7. ASSUME NEW r \in Requests, NEW p \in Processes, RequestUnarchive(r, p)
      PROVE  Suspends(r)
  <2> DEFINE call == [OnRow("unarchive", p) EXCEPT !.status = proc[p].from]
  <2>1. call.op = "unarchive" /\ call.row = p /\ call.status = proc[p].from
    BY DEF OnRow, Idle
  <2>2. /\ Resume(r, call) /\ UNCHANGED proc
        /\ proc[p].status = "ARCHIVED" /\ proc[p].from \in Restorable
    BY <1>7 DEF RequestUnarchive, Suspend, Resume
  <2>3. AsRead(call, proc[call.row])
    BY <2>1, <2>2 DEF AsRead
  <2>4. QED
    BY <2>2, <2>3 DEF Suspends
<1>8. ASSUME NEW r \in Requests, NEW p \in Processes, NEW x \in People \cup {None},
             RequestOverride(r, p, x)
      PROVE  Suspends(r)
  <2> DEFINE call == [OnRow("approve", p) EXCEPT !.who = x]
  <2>1. call.op = "approve" /\ call.row = p /\ call.who = x
    BY DEF OnRow, Idle
  <2>2. /\ Resume(r, call) /\ UNCHANGED proc /\ proc[p].status = "BLOCKED"
        /\ proc[p].subject = None => x \in LeadsOf(proc[p].home)
    BY <1>8 DEF RequestOverride, Suspend, Resume
  <2>3. AsRead(call, proc[call.row])
    BY <2>1, <2>2 DEF AsRead
  <2>4. QED
    BY <2>2, <2>3 DEF Suspends
<1>9. ASSUME NEW p \in Processes,
             \/ Settle(p) \/ PaidWhileBlocked(p) \/ BeginRenewal(p)
             \/ \E v \in People, mark \in Marks :
                  Reject(v, p, mark) \/ \E x \in People \cup {None} : Approve(v, p, x, mark)
      PROVE  UNCHANGED calls
  <2>1. ASSUME NEW v, NEW mark, NEW x, Reject(v, p, mark) \/ Approve(v, p, x, mark)
        PROVE  UNCHANGED calls
    BY <2>1 DEF Reject, Approve
  <2>2. CASE Settle(p) \/ PaidWhileBlocked(p) \/ BeginRenewal(p)
    BY <2>2 DEF Settle, PaidWhileBlocked, BeginRenewal
  <2>3. QED
    BY <1>9, <2>1, <2>2
<1>10. ASSUME NEW x \in People, OpenPersonBg(x) \/ OpenPersonAgreement(x) \/ CheckLapses(x)
       PROVE  UNCHANGED calls
  BY <1>10 DEF OpenPersonBg, OpenPersonAgreement, CheckLapses
<1>11. QED
  BY <1>1, <1>2, <1>3, <1>4, <1>5, <1>6, <1>7, <1>8, <1>9, <1>10 DEF Arrive

LEMMA ContinuingSuspends ==
  ASSUME IInv, NEW r \in Requests, Continue(r) \/ Abandon(r)
  PROVE  calls[r] # Idle /\ (Suspends(r) \/ (UNCHANGED calls /\ calls[r].op = "merge"))
<1>1. Idle.op = "idle"
  BY DEF Idle
<1>2. Continue(r) => calls[r].op # "idle"
  BY DEF Continue, CreateIntake, RecordSubmission, Advance, Reset, Override, Archive,
     Unarchive, CreateRenewal, Revoke, NextMergeStage, StampBgCleared, ClearHeldRow,
     MergeCandidate
<1>3. calls[r] # Idle
  BY <1>1, <1>2 DEF Abandon
<1>4. CASE Finish(r)
  BY <1>1, <1>3, <1>4 DEF Finish, Suspends, Recalling
<1>5. CASE RecordSubmission(r)
  <2>1. OnRow("advance", calls[r].row).op = "advance"
    BY DEF OnRow, Idle
  <2>2. QED
    BY <1>3, <1>4, <1>5, <2>1 DEF RecordSubmission, Suspends, Recalling
<1>6. CASE NextMergeStage(r)
  <2>1. calls[r] \in CallRecords
    BY DEF IInv, CallsOK
  <2>2. \A status : [calls[r] EXCEPT !.status = status].op = "merge"
    BY <1>6, <2>1 DEF NextMergeStage, CallRecords
  <2>3. QED
    BY <1>3, <1>4, <1>6, <2>2 DEF NextMergeStage, Suspends, Recalling
<1>7. QED
  BY <1>3, <1>4, <1>5, <1>6
     DEF Continue, Abandon, CreateIntake, Advance, Reset, Override, Archive, Unarchive,
         CreateRenewal, Revoke, StampBgCleared, ClearHeldRow, MergeCandidate

\* One request changes at a time, and in its turn.
LEMMA TurnKept ==
  ASSUME IInv, TurnOK, [SerialNext]_vars
  PROVE  TurnOK'
<1>1. \A row : AsRead(Idle, row)
  BY DEF AsRead, Idle
<1>2. ASSUME NEW r \in Requests, Suspends(r), \A s \in Requests \ {r} : calls[s] = Idle
      PROVE  TurnOK'
  <2>1. PICK call : /\ Resume(r, call)
                    /\ \/ call.op \notin Recalling
                       \/ UNCHANGED proc /\ AsRead(call, proc[call.row])
    BY <1>2 DEF Suspends
  <2>2. \A s \in Requests : calls'[s] = IF s = r THEN call ELSE Idle
    BY <1>2, <2>1 DEF Resume, IInv, CallsOK
  <2>3. AsRead(call, proc'[call.row])
    BY <2>1 DEF AsRead, Recalling
  <2>4. QED
    BY <1>1, <2>2, <2>3 DEF TurnOK
<1>3. CASE Quiet /\ Arrive
  <2>1. CASE UNCHANGED calls
    BY <1>1, <1>3, <2>1 DEF TurnOK, Quiet
  <2>2. QED
    BY <1>2, <1>3, <2>1, ArrivingSuspends DEF Quiet
<1>4. ASSUME NEW r \in Requests, Continue(r) \/ Abandon(r) PROVE TurnOK'
  <2>1. calls[r] # Idle /\ \A s \in Requests \ {r} : calls[s] = Idle
    BY <1>4, ContinuingSuspends DEF TurnOK
  <2>2. CASE UNCHANGED calls /\ calls[r].op = "merge"
    <3>1. AsRead(calls[r], proc'[calls[r].row])
      BY <2>2 DEF AsRead
    <3>2. QED
      BY <1>1, <2>1, <2>2, <3>1 DEF TurnOK
  <2>3. QED
    BY <1>2, <1>4, <2>1, <2>2, ContinuingSuspends
<1>5. CASE WriteStanding \/ UNCHANGED vars
  BY <1>5, StandingAlone DEF TurnOK, vars
<1>6. QED
  BY <1>3, <1>4, <1>5 DEF SerialNext

LEMMA InitTurn == Init => TurnOK
  BY DEF Init, TurnOK, AsRead, Idle

LEMMA SerialInductive == SerialSpec => [](IInv /\ TurnOK)
<1>1. [SerialNext]_vars => [Next]_vars
  BY DEF SerialNext, Next
<1>2. IInv /\ TurnOK /\ [SerialNext]_vars => IInv' /\ TurnOK'
  BY <1>1, NextIInv, TurnKept
<1>3. QED
  BY <1>2, InitIInv, InitTurn, PTL DEF SerialSpec

\* When handlers run one after another, whatever the board makes of the standing
\* meanwhile: a household that lost it gets it back only by the board's hand or
\* with a row that was earned in that step, and a row that becomes a membership
\* always takes the household with it.
THEOREM StandingFollows == SerialSpec => StandingFollowsTheRow
<1>1. IInv /\ TurnOK /\ [SerialNext]_vars => Follows
  <2>1. ASSUME WriteStanding \/ UNCHANGED vars PROVE Follows
    BY <2>1, StandingAlone, UntouchedFollows DEF vars
  <2>2. ASSUME NEW r \in Requests, Abandon(r) PROVE Follows
    BY <2>2, UntouchedFollows DEF Abandon
  <2>3. QED
    BY <2>1, <2>2, ArrivingFollows, ContinuingFollows DEF SerialNext
<1>2. Follows <=> StandingFollowsTheRow!1
  BY DEF Follows, Joins
<1>3. QED
  BY <1>1, <1>2, SerialInductive, PTL DEF SerialSpec, StandingFollowsTheRow

-----------------------------------------------------------------------------
(* The two-reviewer rule, for every population and every interleaving.     *)
(*                                                                         *)
(* Reviewed strengthens ClearedByTwoHouseholds with what attest's          *)
(* eligibility test maintains: no two attestations of a row come from one  *)
(* household, and none from the applicant's.  A step that is not a review  *)
(* leaves the attestations alone and claims no clearance by review         *)
(* (Inherits), so only attest and the board's reset have to be looked at.  *)
(*                                                                         *)
(* And whom a clearance dates: the lead an override chose is still one of  *)
(* the row's household when it writes (NamesLead), since no step moves a   *)
(* row to another household or subject (HomesKept).                        *)

Approved(row) ==
  \E a, b \in row.attests :
    a # b /\ a.result = "APPROVE" /\ b.result = "APPROVE" /\ a.subject = b.subject

ReviewOK(row) ==
  /\ \A a \in row.attests : HouseholdOf[a.reviewer] # ApplicantHousehold(row)
  /\ \A a, b \in row.attests :
       HouseholdOf[a.reviewer] = HouseholdOf[b.reviewer] => a = b
  /\ row.cleared /\ row.basis = "review" => Approved(row)

Reviewed == \A p \in Processes : ReviewOK(proc[p])

\* What a step that is not a review may do to a row.
Inherits(old, new) ==
  /\ new.attests = old.attests
  /\ new.subject = old.subject /\ new.home = old.home
  /\ new.cleared /\ new.basis = "review" => old.cleared /\ old.basis = "review"

-----------------------------------------------------------------------------

LEMMA InheritsOK ==
  ASSUME NEW old, NEW new, ReviewOK(old), Inherits(old, new) PROVE ReviewOK(new)
  BY DEF ReviewOK, Inherits, Approved, ApplicantHousehold

LEMMA ReviewSaved ==
  ASSUME IInv, Reviewed, NEW p \in Processes, NEW row, ReviewOK(row), Save(p, row)
  PROVE  Reviewed'
<1>1. \A q \in Processes : proc'[q] = IF q = p THEN row ELSE proc[q]
  BY DEF Save, IInv, RowsOK
<1>2. QED
  BY <1>1 DEF Reviewed

LEMMA ReviewKept ==
  ASSUME IInv, Reviewed, NEW p \in Processes, NEW row, Inherits(proc[p], row), Save(p, row)
  PROVE  Reviewed'
  BY InheritsOK, ReviewSaved DEF Reviewed

LEMMA ReviewUntouched == ASSUME Reviewed, UNCHANGED proc PROVE Reviewed'
  BY DEF Reviewed

LEMMA ReviewInserted ==
  ASSUME IInv, Reviewed, NEW kind, NEW home, NEW subject, NEW status,
         Insert(NewRow(kind, home, subject, status))
  PROVE  Reviewed'
<1>1. ReviewOK(NewRow(kind, home, subject, status))
  BY DEF ReviewOK, NewRow
<1>2. QED
  BY <1>1, ReviewSaved DEF Insert

\* A clearance that is not a review's.
LEMMA OtherClearance ==
  ASSUME IInv, Reviewed, NEW p \in Processes, NEW named, NEW basis, basis # "review",
         ClearBackgroundCheck(p, proc[p], named, basis)
  PROVE  Reviewed'
<1>1. proc[p] \in Rows
  BY DEF IInv, RowsOK
<1>2. Inherits(proc[p], ClearedRow(proc[p], basis))
  BY <1>1 DEF Inherits, ClearedRow, Rows
<1>3. QED
  BY <1>2, ReviewKept DEF ClearBackgroundCheck

-----------------------------------------------------------------------------

\* Intake, the external actions, payment, archive, renewals, merges, triggers.
LEMMA OtherSteps ==
  ASSUME IInv, Reviewed,
         \/ \E r \in Requests, h \in Households :
              \/ StartIntake(r, h) \/ ListForRenewal(r, h) \/ RequestRevoke(r, h)
         \/ \E r \in Requests, p \in Processes :
              \/ SubmitIntake(r, p) \/ MarkContractSigned(r, p) \/ MarkBgConsent(r, p)
              \/ RequestReset(r, p) \/ RequestArchive(r, p) \/ RequestUnarchive(r, p)
              \/ StampBgCleared(r, p) \/ ClearHeldRow(r, p)
              \/ \E x \in People \cup {None} : RequestOverride(r, p, x)
         \/ \E r \in Requests, x \in People : MergeLead(r, x)
         \/ \E r \in Requests :
              \/ CreateIntake(r) \/ RecordSubmission(r) \/ Advance(r) \/ Override(r)
              \/ Archive(r) \/ Unarchive(r) \/ CreateRenewal(r) \/ NextMergeStage(r)
              \/ Revoke(r) \/ Abandon(r)
         \/ \E p \in Processes : Settle(p) \/ PaidWhileBlocked(p) \/ BeginRenewal(p)
         \/ \E x \in People : OpenPersonBg(x) \/ OpenPersonAgreement(x) \/ CheckLapses(x)
  PROVE  Reviewed'
<1>1. ASSUME NEW p \in Processes
      PROVE  /\ Inherits(proc[p], [proc[p] EXCEPT !.signed = TRUE])
             /\ Inherits(proc[p], [proc[p] EXCEPT !.signed = TRUE, !.status = "ACTIVE"])
             /\ Inherits(proc[p], [proc[p] EXCEPT !.consent = TRUE])
             /\ Inherits(proc[p], [proc[p] EXCEPT !.paid = TRUE])
             /\ Inherits(proc[p], proc[p])
             /\ \A s \in Statuses :
                  /\ Inherits(proc[p], [proc[p] EXCEPT !.status = s])
                  /\ Inherits(proc[p], [proc[p] EXCEPT !.paid = TRUE, !.status = s])
                  /\ Inherits(proc[p], [proc[p] EXCEPT !.status = s, !.from = Null])
  <2>1. proc[p] \in Rows
    BY DEF IInv, RowsOK
  <2>2. QED
    BY <2>1 DEF Inherits, Rows
<1>2. ASSUME NEW r \in Requests, calls[r].op \in RowOps PROVE calls[r].row \in Processes
  BY <1>2 DEF IInv, CallsOK, CallOK
<1>3. ASSUME NEW r \in Requests, CreateIntake(r) \/ CreateRenewal(r) PROVE Reviewed'
  BY <1>3, ReviewInserted, ReviewUntouched DEF CreateIntake, CreateRenewal
<1>4. ASSUME NEW x \in People, OpenPersonBg(x) \/ OpenPersonAgreement(x) PROVE Reviewed'
  BY <1>4, ReviewInserted DEF OpenPersonBg, OpenPersonAgreement
<1>5. ASSUME NEW r \in Requests, RecordSubmission(r) PROVE Reviewed'
  <2> DEFINE p == calls[r].row
             fresh == [proc[p] EXCEPT !.status = "PENDING_EXTERNAL_ACTION",
                                      !.cleared = TRUE, !.basis = "prior"]
             stale == [proc[p] EXCEPT !.status = "PENDING_EXTERNAL_ACTION"]
  <2>1. p \in Processes
    BY <1>2, <1>5 DEF RecordSubmission, RowOps
  <2>2. proc[p] \in Rows
    BY <2>1 DEF IInv, RowsOK
  <2>3. Inherits(proc[p], fresh) /\ Inherits(proc[p], stale)
    BY <2>2 DEF Inherits, Rows
  <2>4. Save(p, fresh) \/ Save(p, stale) \/ UNCHANGED proc
    BY <1>5 DEF RecordSubmission
  <2>5. QED
    BY <2>1, <2>3, <2>4, ReviewKept, ReviewUntouched
<1>6. ASSUME NEW r \in Requests, NEW p \in Processes,
             MarkContractSigned(r, p) \/ MarkBgConsent(r, p)
      PROVE  Reviewed'
  BY <1>1, <1>6, ReviewKept DEF MarkContractSigned, MarkBgConsent
<1>7. ASSUME NEW r \in Requests, Advance(r) PROVE Reviewed'
  <2>1. calls[r].row \in Processes /\ "PENDING_PAYMENT" \in Statuses
    BY <1>2, <1>7 DEF Advance, RowOps, Statuses
  <2>2. QED
    BY <1>1, <1>7, <2>1, ReviewKept, ReviewUntouched DEF Advance
<1>8. ASSUME NEW p \in Processes, Settle(p) \/ PaidWhileBlocked(p) PROVE Reviewed'
  <2>1. SettledStatus(proc[p]) \in Statuses
    BY DEF SettledStatus, Statuses
  <2>2. QED
    BY <1>1, <1>8, <2>1, ReviewKept DEF Settle, PaidWhileBlocked
<1>9. ASSUME NEW r \in Requests, Archive(r) \/ Unarchive(r) PROVE Reviewed'
  <2> DEFINE p == calls[r].row
             row == [proc[p] EXCEPT !.status = "ARCHIVED", !.from = calls[r].status]
             restored == [proc[p] EXCEPT !.status = calls[r].status, !.from = Null]
  <2>1. p \in Processes
    BY <1>2, <1>9 DEF Archive, Unarchive, RowOps
  <2>2. proc[p] \in Rows
    BY <2>1 DEF IInv, RowsOK
  <2>3. Inherits(proc[p], row) /\ Inherits(proc[p], restored)
    BY <2>2 DEF Inherits, Rows
  <2>4. Save(p, row) \/ Save(p, restored) \/ UNCHANGED proc
    BY <1>9 DEF Archive, Unarchive, SaveIf
  <2>5. QED
    BY <2>1, <2>3, <2>4, ReviewKept, ReviewUntouched
<1>10. ASSUME NEW p \in Processes, BeginRenewal(p) PROVE Reviewed'
  <2> DEFINE fresh == [proc[p] EXCEPT !.status = "PENDING_EXTERNAL_ACTION",
                                      !.cleared = TRUE, !.basis = "prior"]
             stale == [proc[p] EXCEPT !.status = "PENDING_EXTERNAL_ACTION"]
  <2>1. proc[p] \in Rows
    BY DEF IInv, RowsOK
  <2>2. Inherits(proc[p], fresh) /\ Inherits(proc[p], stale)
    BY <2>1 DEF Inherits, Rows
  <2>3. Save(p, fresh) \/ Save(p, stale)
    BY <1>10 DEF BeginRenewal
  <2>4. QED
    BY <2>2, <2>3, ReviewKept
<1>11. ASSUME NEW r \in Requests, NEW p \in Processes, StampBgCleared(r, p) PROVE Reviewed'
  <2> DEFINE stamped == [proc[p] EXCEPT !.cleared = TRUE, !.basis = "merge"]
             opened == [stamped EXCEPT !.status = "PENDING_PAYMENT"]
  <2>1. proc[p] \in Rows
    BY DEF IInv, RowsOK
  <2>2. Inherits(proc[p], stamped) /\ Inherits(proc[p], opened)
    BY <2>1 DEF Inherits, Rows
  <2>3. Save(p, stamped) \/ Save(p, opened)
    BY <1>11 DEF StampBgCleared
  <2>4. QED
    BY <2>2, <2>3, ReviewKept
<1>12. ASSUME NEW r \in Requests, NEW p \in Processes, ClearHeldRow(r, p) PROVE Reviewed'
  BY <1>12, OtherClearance DEF ClearHeldRow
<1>13. ASSUME NEW r \in Requests, Override(r) PROVE Reviewed'
  <2>1. calls[r].row \in Processes
    BY <1>2, <1>13 DEF Override, RowOps
  <2>2. QED
    BY <1>13, <2>1, OtherClearance, ReviewUntouched DEF Override
<1>14. QED
  BY <1>3, <1>4, <1>5, <1>6, <1>7, <1>8, <1>9, <1>10, <1>11, <1>12, <1>13, ReviewUntouched
     DEF StartIntake, ListForRenewal, SubmitIntake, RequestReset, RequestArchive,
         RequestUnarchive, RequestOverride, MergeLead, NextMergeStage, Abandon, CheckLapses,
         RequestRevoke, Revoke

\* A reset takes the attestations and the clearance away together.
LEMMA ResetStep == ASSUME IInv, Reviewed, NEW r \in Requests, Reset(r) PROVE Reviewed'
<1> DEFINE p == calls[r].row
           isBlocked == proc[p].status = "BLOCKED"
           row == [proc[p] EXCEPT !.status = IF isBlocked THEN calls[r].status ELSE @,
                                  !.attests = {}, !.cleared = FALSE, !.basis = "none"]
<1>1. p \in Processes
  BY DEF Reset, IInv, CallsOK, CallOK, RowOps
<1>2. proc[p] \in Rows
  BY <1>1 DEF IInv, RowsOK
<1>3. row.attests = {} /\ row.cleared = FALSE
  BY <1>2 DEF Rows
<1>4. ReviewOK(row)
  BY <1>3 DEF ReviewOK
<1>5. Save(p, row) \/ UNCHANGED proc
  BY DEF Reset, SaveIf
<1>6. QED
  BY <1>1, <1>4, <1>5, ReviewSaved, ReviewUntouched

\* An attestation comes from a household that has not attested and is not the
\* applicant's; the second approval of the named adult is what clears.
LEMMA AttestStep ==
  ASSUME IInv, Reviewed, NEW p \in Processes, NEW v \in People, NEW mark \in Marks,
         \/ Reject(v, p, mark)
         \/ \E x \in People \cup {None} : Approve(v, p, x, mark)
  PROVE  Reviewed'
<1>1. proc[p] \in Rows /\ ReviewOK(proc[p]) /\ MayAttest(v, proc[p])
  BY DEF IInv, RowsOK, Reviewed, Reject, Approve
<1>2. ASSUME NEW x, NEW result
      PROVE  LET row == Attested(proc[p], v, x, result, mark)
                 a == [reviewer |-> v, subject |-> x, result |-> result, volunteer |-> mark]
             IN  /\ row.attests = proc[p].attests \cup {a}
                 /\ row.subject = proc[p].subject /\ row.home = proc[p].home
                 /\ row.cleared = FALSE
                 /\ ReviewOK(row)
  <2> DEFINE a == [reviewer |-> v, subject |-> x, result |-> result, volunteer |-> mark]
             row == Attested(proc[p], v, x, result, mark)
  <2>1. /\ row.attests = proc[p].attests \cup {a}
        /\ row.subject = proc[p].subject /\ row.home = proc[p].home
        /\ row.cleared = proc[p].cleared
    BY <1>1 DEF Attested, Rows
  <2>2. proc[p].cleared = FALSE
    BY <1>1 DEF MayAttest, AwaitingBgReview, Rows
  <2>3. \A b \in row.attests : HouseholdOf[b.reviewer] # ApplicantHousehold(row)
    BY <1>1, <2>1 DEF MayAttest, ReviewOK, ApplicantHousehold
  <2>4. \A b, d \in row.attests : HouseholdOf[b.reviewer] = HouseholdOf[d.reviewer] => b = d
    BY <1>1, <2>1 DEF MayAttest, ReviewOK
  <2>5. ReviewOK(row)
    BY <2>1, <2>2, <2>3, <2>4 DEF ReviewOK
  <2>6. QED
    BY <2>1, <2>2, <2>5
<1>3. CASE Reject(v, p, mark)
  <2> DEFINE row == Attested(proc[p], v, None, "REJECT", mark)
             blocked == [row EXCEPT !.status = "BLOCKED"]
  <2>1. ReviewOK(row) /\ Inherits(row, blocked)
    BY <1>1, <1>2 DEF Inherits, Attested, Rows
  <2>2. QED
    BY <1>3, <2>1, InheritsOK, ReviewSaved DEF Reject
<1>4. ASSUME NEW x \in People \cup {None}, Approve(v, p, x, mark) PROVE Reviewed'
  <2> DEFINE row == Attested(proc[p], v, x, "APPROVE", mark)
             clear == ClearedRow(row, "review")
  <2>1. ReviewOK(row)
    BY <1>2
  <2>2. CASE Two(Approvals(row, x))
    <3>1. Save(p, clear)
      BY <1>4, <2>2 DEF Approve, ClearBackgroundCheck
    <3>2. /\ clear.attests = row.attests
          /\ clear.subject = row.subject /\ clear.home = row.home
      BY <1>1 DEF ClearedRow, Attested, Rows
    <3>3. Approved(clear)
      BY <2>2, <3>2 DEF Two, Approvals, Approved
    <3>4. ReviewOK(clear)
      BY <2>1, <3>2, <3>3 DEF ReviewOK, ApplicantHousehold
    <3>5. QED
      BY <3>1, <3>4, ReviewSaved
  <2>3. CASE ~Two(Approvals(row, x))
    BY <1>4, <2>1, <2>3, ReviewSaved DEF Approve
  <2>4. QED
    BY <2>2, <2>3
<1>5. QED
  BY <1>3, <1>4

LEMMA InitReviewed == Init => Reviewed
<1> SUFFICES ASSUME Init PROVE Reviewed
  OBVIOUS
<1>1. ReviewOK(FreeRow)
  BY DEF ReviewOK, FreeRow, NewRow
<1>2. ASSUME NEW h, NEW row \in LegacyRows(h) PROVE ReviewOK(row)
  <2> DEFINE application == NewRow("INITIAL", h, None, "PENDING_BG_REVIEW")
             inReview == [application EXCEPT !.signed = TRUE, !.consent = TRUE]
             blocked == NewRow("RENEWAL", h, None, "BLOCKED")
             renewal == NewRow("RENEWAL", h, None, "ARCHIVED")
             archived == [renewal EXCEPT !.from = "RENEWAL_PENDING_BG"]
  <2>1. inReview.attests = {} /\ inReview.cleared = FALSE
    BY DEF NewRow
  <2>2. blocked.attests = {} /\ blocked.cleared = FALSE
    BY DEF NewRow
  <2>3. archived.attests = {} /\ archived.cleared = FALSE
    BY DEF NewRow
  <2>4. row \in {inReview, blocked, archived}
    BY <1>2 DEF LegacyRows
  <2>5. row.attests = {} /\ row.cleared = FALSE
    BY <2>1, <2>2, <2>3, <2>4
  <2>6. QED
    BY <2>5 DEF ReviewOK
<1>3. QED
  BY <1>1, <1>2 DEF Init, Reviewed

LEMMA NextReviewed == IInv /\ Reviewed /\ [Next]_vars => Reviewed'
<1> SUFFICES ASSUME IInv, Reviewed, [Next]_vars PROVE Reviewed'
  OBVIOUS
<1>1. CASE Arrive
  BY <1>1, OtherSteps, AttestStep DEF Arrive
<1>2. ASSUME NEW r \in Requests, Continue(r) PROVE Reviewed'
  BY <1>2, OtherSteps, ResetStep DEF Continue
<1>3. ASSUME NEW r \in Requests, Abandon(r) PROVE Reviewed'
  BY <1>3, OtherSteps
<1>4. CASE WriteStanding \/ UNCHANGED vars
  BY <1>4, StandingAlone, ReviewUntouched DEF vars
<1>5. QED
  BY <1>1, <1>2, <1>3, <1>4 DEF Next

\* A check cleared by review always has, on the row, the approvals of two
\* households for one adult, neither of them the applicant's: attest's rule
\* survives every reset, restore, override, merge and resubmission.
THEOREM TwoReviewerRule == Spec => []ClearedByTwoHouseholds
<1>1. Reviewed => ClearedByTwoHouseholds
  BY DEF Reviewed, ReviewOK, Approved, ClearedByTwoHouseholds
<1>2. QED
  BY <1>1, InitReviewed, NextReviewed, Inductive, PTL DEF Spec

-----------------------------------------------------------------------------
(* Whose check a clearance dates.                                          *)
(*                                                                         *)
(* An override carries the adult it names from before its transaction.     *)
(* That the name still fits is an invariant, because no step changes the   *)
(* household or the subject of a row.                                      *)

\* No step changes the household or the subject of a row that exists.
HomesKept ==
  \A p \in Processes : Exists(p) =>
    proc'[p].home = proc[p].home /\ proc'[p].subject = proc[p].subject

\* A suspended override of a household's row names a lead of that household.
Fits(call, row) ==
  call.op = "approve" /\ row.subject = None => call.who \in LeadsOf(row.home)

NamesLead == \A r \in Requests : Fits(calls[r], proc[calls[r].row])

LEMMA HomeSaved ==
  ASSUME IInv, NEW p \in Processes, NEW row, Save(p, row),
         Exists(p) => row.home = proc[p].home /\ row.subject = proc[p].subject
  PROVE  HomesKept
<1>1. \A q \in Processes : proc'[q] = IF q = p THEN row ELSE proc[q]
  BY DEF Save, IInv, RowsOK
<1>2. QED
  BY <1>1 DEF HomesKept

LEMMA HomeInserted == ASSUME IInv, NEW row, Insert(row) PROVE HomesKept
  BY HomeSaved DEF Insert

LEMMA HomeUntouched == ASSUME UNCHANGED proc PROVE HomesKept
  BY DEF HomesKept

LEMMA HomeCleared ==
  ASSUME IInv, NEW p \in Processes, NEW row \in Rows, NEW named, NEW basis,
         row.home = proc[p].home, row.subject = proc[p].subject,
         ClearBackgroundCheck(p, row, named, basis)
  PROVE  HomesKept
<1>1. ClearedRow(row, basis).home = row.home /\ ClearedRow(row, basis).subject = row.subject
  BY DEF ClearedRow, Rows
<1>2. QED
  BY <1>1, HomeSaved DEF ClearBackgroundCheck

LEMMA ArrivingKeepsHomes == ASSUME IInv, Arrive PROVE HomesKept
<1>1. \A p \in Processes : proc[p] \in Rows
  BY DEF IInv, RowsOK, RowOK
<1>2. ASSUME NEW r \in Requests, NEW p \in Processes,
             MarkContractSigned(r, p) \/ MarkBgConsent(r, p)
      PROVE  HomesKept
  <2> DEFINE new == IF proc[p].signed THEN proc[p]
                    ELSE IF proc[p].kind = "PERSON_AGREEMENT"
                         THEN [proc[p] EXCEPT !.signed = TRUE, !.status = "ACTIVE"]
                         ELSE [proc[p] EXCEPT !.signed = TRUE]
  <2>1. new.home = proc[p].home /\ new.subject = proc[p].subject
    BY <1>1 DEF Rows
  <2>2. CASE MarkContractSigned(r, p)
    <3>1. Save(p, new)
      BY <2>2 DEF MarkContractSigned
    <3>2. QED
      BY <2>1, <3>1, HomeSaved
  <2>3. CASE MarkBgConsent(r, p)
    <3> DEFINE row == [proc[p] EXCEPT !.consent = TRUE]
    <3>1. row.home = proc[p].home /\ row.subject = proc[p].subject
      BY <1>1 DEF Rows
    <3>2. QED
      BY <2>3, <3>1, HomeSaved DEF MarkBgConsent
  <2>4. QED
    BY <1>2, <2>2, <2>3
<1>3. ASSUME NEW p \in Processes, Settle(p) \/ PaidWhileBlocked(p) \/ BeginRenewal(p)
      PROVE  HomesKept
  <2>1. CASE Settle(p)
    <3> DEFINE row == [proc[p] EXCEPT !.paid = TRUE, !.status = SettledStatus(proc[p])]
    <3>1. row.home = proc[p].home /\ row.subject = proc[p].subject
      BY <1>1 DEF Rows
    <3>2. QED
      BY <2>1, <3>1, HomeSaved DEF Settle
  <2>2. CASE PaidWhileBlocked(p)
    <3> DEFINE row == [proc[p] EXCEPT !.paid = TRUE]
    <3>1. row.home = proc[p].home /\ row.subject = proc[p].subject
      BY <1>1 DEF Rows
    <3>2. QED
      BY <2>2, <3>1, HomeSaved DEF PaidWhileBlocked
  <2>3. CASE BeginRenewal(p)
    <3> DEFINE fresh == [proc[p] EXCEPT !.status = "PENDING_EXTERNAL_ACTION",
                                        !.cleared = TRUE, !.basis = "prior"]
               stale == [proc[p] EXCEPT !.status = "PENDING_EXTERNAL_ACTION"]
    <3>1. /\ fresh.home = proc[p].home /\ fresh.subject = proc[p].subject
          /\ stale.home = proc[p].home /\ stale.subject = proc[p].subject
      BY <1>1 DEF Rows
    <3>2. Save(p, fresh) \/ Save(p, stale)
      BY <2>3 DEF BeginRenewal
    <3>3. QED
      BY <3>1, <3>2, HomeSaved
  <2>4. QED
    BY <1>3, <2>1, <2>2, <2>3
<1>4. ASSUME NEW v \in People, NEW p \in Processes, NEW mark \in Marks,
             \/ Reject(v, p, mark)
             \/ \E x \in People \cup {None} : Approve(v, p, x, mark)
      PROVE  HomesKept
  <2>1. ASSUME NEW x \in People \cup {None}, NEW result \in {"APPROVE", "REJECT"}
        PROVE  /\ Attested(proc[p], v, x, result, mark) \in Rows
               /\ Attested(proc[p], v, x, result, mark).home = proc[p].home
               /\ Attested(proc[p], v, x, result, mark).subject = proc[p].subject
    BY <1>1, PopulationAssumption DEF Attested, Rows, Attestations
  <2>2. CASE Reject(v, p, mark)
    <3> DEFINE row == [Attested(proc[p], v, None, "REJECT", mark) EXCEPT !.status = "BLOCKED"]
    <3>1. row.home = proc[p].home /\ row.subject = proc[p].subject
      BY <2>1 DEF Rows
    <3>2. QED
      BY <2>2, <3>1, HomeSaved DEF Reject
  <2>3. ASSUME NEW x \in People \cup {None}, Approve(v, p, x, mark) PROVE HomesKept
    BY <2>1, <2>3, HomeSaved, HomeCleared DEF Approve
  <2>4. QED
    BY <1>4, <2>2, <2>3
<1>5. QED
  BY <1>2, <1>3, <1>4, HomeInserted, HomeUntouched
     DEF Arrive, StartIntake, ListForRenewal, RequestRevoke, MergeLead, SubmitIntake,
         RequestReset, RequestArchive, RequestUnarchive, RequestOverride, OpenPersonBg,
         OpenPersonAgreement, CheckLapses

LEMMA ContinuingKeepsHomes ==
  ASSUME IInv, NEW r \in Requests, Continue(r)
  PROVE  HomesKept
<1> DEFINE p == calls[r].row
<1>1. \A q \in Processes : proc[q] \in Rows
  BY DEF IInv, RowsOK, RowOK
<1>2. calls[r].op \in RowOps => p \in Processes
  BY DEF IInv, CallsOK, CallOK
<1>3. CASE RecordSubmission(r) \/ Advance(r) \/ Reset(r) \/ Archive(r) \/ Unarchive(r)
  <2>1. p \in Processes
    BY <1>2, <1>3 DEF RecordSubmission, Advance, Reset, Archive, Unarchive, RowOps
  <2>2. \/ UNCHANGED proc
        \/ \E status :
             \/ Save(p, [proc[p] EXCEPT !.status = status])
             \/ Save(p, [proc[p] EXCEPT !.status = status, !.cleared = TRUE, !.basis = "prior"])
             \/ Save(p, [proc[p] EXCEPT !.status = status, !.attests = {}, !.cleared = FALSE,
                                        !.basis = "none"])
             \/ \E from : Save(p, [proc[p] EXCEPT !.status = status, !.from = from])
    <3>1. CASE RecordSubmission(r)
      BY <3>1 DEF RecordSubmission
    <3>2. CASE Advance(r)
      BY <3>2 DEF Advance
    <3>3. CASE Reset(r)
      <4> DEFINE to == IF proc[p].status = "BLOCKED" THEN calls[r].status ELSE proc[p].status
      <4>1. \/ UNCHANGED proc
            \/ Save(p, [proc[p] EXCEPT !.status = to, !.attests = {}, !.cleared = FALSE,
                                       !.basis = "none"])
        BY <3>3 DEF Reset, SaveIf
      <4>2. QED
        BY <4>1
    <3>4. CASE Archive(r)
      BY <3>4 DEF Archive
    <3>5. CASE Unarchive(r)
      <4>1. \/ UNCHANGED proc
            \/ Save(p, [proc[p] EXCEPT !.status = calls[r].status, !.from = Null])
        BY <3>5 DEF Unarchive, SaveIf
      <4>2. QED
        BY <4>1
    <3>6. QED
      BY <1>3, <3>1, <3>2, <3>3, <3>4, <3>5
  <2>3. ASSUME NEW status, NEW from
        PROVE  LET Same(row) == row.home = proc[p].home /\ row.subject = proc[p].subject IN
               /\ Same([proc[p] EXCEPT !.status = status])
               /\ Same([proc[p] EXCEPT !.status = status, !.cleared = TRUE,
                                       !.basis = "prior"])
               /\ Same([proc[p] EXCEPT !.status = status, !.attests = {},
                                       !.cleared = FALSE, !.basis = "none"])
               /\ Same([proc[p] EXCEPT !.status = status, !.from = from])
    OBVIOUS
  <2>4. QED
    BY <2>1, <2>2, <2>3, HomeSaved, HomeUntouched
<1>4. CASE Override(r)
  <2>1. p \in Processes
    BY <1>2, <1>4 DEF Override, RowOps
  <2>2. QED
    BY <1>1, <1>4, <2>1, HomeCleared, HomeUntouched DEF Override
<1>5. ASSUME NEW q \in Processes, StampBgCleared(r, q) PROVE HomesKept
  <2> DEFINE stamped == [proc[q] EXCEPT !.cleared = TRUE, !.basis = "merge"]
  <2>1. Save(q, stamped) \/ Save(q, [stamped EXCEPT !.status = "PENDING_PAYMENT"])
    BY <1>5 DEF StampBgCleared
  <2>2. stamped.home = proc[q].home /\ stamped.subject = proc[q].subject /\ stamped \in Rows
    BY <1>1 DEF Rows, Bases
  <2>3. LET row == [stamped EXCEPT !.status = "PENDING_PAYMENT"] IN
        row.home = proc[q].home /\ row.subject = proc[q].subject
    BY <2>2 DEF Rows
  <2>4. QED
    BY <2>1, <2>2, <2>3, HomeSaved
<1>6. ASSUME NEW q \in Processes, ClearHeldRow(r, q) PROVE HomesKept
  BY <1>1, <1>6, HomeCleared DEF ClearHeldRow
<1>7. QED
  BY <1>3, <1>4, <1>5, <1>6, HomeInserted, HomeUntouched
     DEF Continue, CreateIntake, CreateRenewal, Revoke, NextMergeStage

LEMMA InitNamesLead == Init => NamesLead
  BY DEF Init, NamesLead, Fits, Idle

LEMMA NextNamesLead == IInv /\ NamesLead /\ [Next]_vars => NamesLead'
<1> SUFFICES ASSUME IInv, NamesLead, [Next]_vars PROVE NamesLead'
  OBVIOUS
<1>1. HomesKept
  BY ArrivingKeepsHomes, ContinuingKeepsHomes, StandingAlone, HomeUntouched
     DEF Next, Abandon, vars
<1>2. ASSUME NEW r \in Requests, calls[r].op = "approve"
      PROVE  Exists(calls[r].row) /\ calls[r].row \in Processes
  BY <1>2 DEF IInv, CallsOK, CallOK, RowOps, Exists
<1>3. ASSUME NEW r, NEW call, Resume(r, call)
      PROVE  \A s \in Requests : calls'[s] = IF s = r THEN call ELSE calls[s]
  BY <1>3 DEF Resume, IInv, CallsOK
<1>4. ASSUME NEW r \in Requests, calls'[r] = calls[r]
      PROVE  Fits(calls'[r], proc'[calls'[r].row])
  BY <1>1, <1>2, <1>4 DEF HomesKept, NamesLead, Fits
<1>5. CASE UNCHANGED calls
  BY <1>4, <1>5 DEF NamesLead
<1>6. ASSUME NEW r \in Requests, Suspends(r) PROVE NamesLead'
  <2>1. PICK call : /\ Resume(r, call)
                    /\ \/ call.op \notin Recalling
                       \/ UNCHANGED proc /\ AsRead(call, proc[call.row])
    BY <1>6 DEF Suspends
  <2>2. Fits(call, proc'[call.row])
    BY <2>1 DEF Fits, AsRead, Recalling
  <2>3. \A s \in Requests : calls'[s] = IF s = r THEN call ELSE calls[s]
    BY <1>3, <2>1
  <2>4. QED
    BY <1>4, <2>2, <2>3 DEF NamesLead
<1>7. QED
  BY <1>5, <1>6, ArrivingSuspends, ContinuingSuspends, StandingAlone DEF Next, vars

\* What the property asks of a step.
Dated ==
  \A x \in valid' \ valid :
    \/ UNCHANGED proc
    \/ \E p \in Processes :
         /\ proc'[p].cleared /\ proc'[p] # proc[p]
         /\ \/ proc'[p].subject = x
            \/ proc'[p].basis = "review" /\ Two(Approvals(proc'[p], x))
            \/ /\ proc'[p].basis = "board" /\ x \in LeadsOf(proc'[p].home)
               /\ valid' \ valid = {x}

\* A clearance dates the subject of the row or else the adults it is told.
LEMMA ClearingDates ==
  ASSUME IInv, NEW p \in Processes, NEW row \in Rows, NEW named, NEW basis,
         ClearBackgroundCheck(p, row, named, basis)
  PROVE  /\ proc'[p].cleared /\ proc'[p].basis = basis
         /\ proc'[p].subject = row.subject /\ proc'[p].home = row.home
         /\ proc'[p].attests = row.attests
         /\ ~UNCHANGED proc => proc'[p] # proc[p]
         /\ valid' = valid \cup ClearedPeople(row, named)
<1>1. proc'[p] = ClearedRow(row, basis) /\ \A q \in Processes \ {p} : proc'[q] = proc[q]
  BY DEF ClearBackgroundCheck, Save, IInv, RowsOK
<1>2. ~UNCHANGED proc => proc'[p] # proc[p]
  BY <1>1 DEF ClearBackgroundCheck, Save, IInv, RowsOK
<1>3. QED
  BY <1>1, <1>2 DEF ClearBackgroundCheck, ClearedRow, Rows

LEMMA ApprovingDates ==
  ASSUME IInv, NEW v \in People, NEW p \in Processes, NEW x \in People \cup {None},
         NEW mark \in Marks, Approve(v, p, x, mark)
  PROVE  Dated
<1> DEFINE row == Attested(proc[p], v, x, "APPROVE", mark)
<1>1. row \in Rows
  BY PopulationAssumption DEF Attested, Rows, Attestations, IInv, RowsOK, RowOK
<1>2. CASE Two(Approvals(row, x))
  <2> DEFINE named == SubjectsWithTwoApprovals(row)
  <2>1. ClearBackgroundCheck(p, row, named, "review")
    BY <1>2 DEF Approve
  <2>2. ASSUME NEW y \in ClearedPeople(row, named), ~UNCHANGED proc
        PROVE  \/ proc'[p].subject = y
               \/ Two(Approvals(proc'[p], y))
    <3>1. proc'[p].subject = row.subject /\ proc'[p].attests = row.attests
      BY <1>1, <2>1, ClearingDates
    <3>2. QED
      BY <2>2, <3>1 DEF ClearedPeople, SubjectsWithTwoApprovals, Approvals
  <2>3. QED
    BY <1>1, <2>1, <2>2, ClearingDates DEF Dated
<1>3. CASE ~Two(Approvals(row, x))
  BY <1>3 DEF Approve, Dated
<1>4. QED
  BY <1>2, <1>3

LEMMA OverrideDates ==
  ASSUME IInv, NamesLead, NEW r \in Requests, Override(r)
  PROVE  Dated
<1> DEFINE p == calls[r].row
           named == {calls[r].who} \ {None}
<1>1. p \in Processes /\ proc[p] \in Rows
  BY DEF Override, RowOps, IInv, CallsOK, CallOK, RowsOK, RowOK
<1>2. CASE UNCHANGED valid
  BY <1>2 DEF Dated
<1>3. CASE ClearBackgroundCheck(p, proc[p], named, "board")
  <2>1. /\ proc'[p].cleared /\ proc'[p].basis = "board"
        /\ proc'[p].subject = proc[p].subject /\ proc'[p].home = proc[p].home
        /\ ~UNCHANGED proc => proc'[p] # proc[p]
        /\ valid' = valid \cup ClearedPeople(proc[p], named)
    BY <1>1, <1>3, ClearingDates
  <2>2. CASE proc[p].subject # None
    BY <1>1, <2>1, <2>2 DEF Dated, ClearedPeople
  <2>3. CASE proc[p].subject = None
    <3>1. calls[r].who \in LeadsOf(proc'[p].home)
      BY <2>1, <2>3 DEF NamesLead, Fits, Override
    <3>2. \A x \in valid' \ valid : x = calls[r].who /\ valid' \ valid = {x}
      BY <2>1, <2>3 DEF ClearedPeople
    <3>3. QED
      BY <1>1, <2>1, <3>1, <3>2 DEF Dated
  <2>4. QED
    BY <2>2, <2>3
<1>4. QED
  BY <1>2, <1>3 DEF Override

\* A row held for its check is a household's, and the merge names nobody.
LEMMA MergeDates ==
  ASSUME IInv, NEW r \in Requests, NEW p \in Processes, ClearHeldRow(r, p)
  PROVE  Dated
<1>1. proc[p] \in Rows /\ proc[p].subject = None
  BY DEF ClearHeldRow, MergeCandidate, IsHousehold, IInv, RowsOK, RowOK, WellFormed
<1>2. valid' = valid
  BY <1>1 DEF ClearHeldRow, ClearBackgroundCheck, ClearedPeople
<1>3. QED
  BY <1>2 DEF Dated

\* A clearance dates the check of nobody but the adult it was about, however
\* long the board's override had been under way when it wrote.
THEOREM ReviewedAreDated == Spec => OnlyTheReviewedAreDated
<1>1. IInv /\ NamesLead /\ [Next]_vars => Dated
  <2> SUFFICES ASSUME IInv, NamesLead, [Next]_vars PROVE Dated
    OBVIOUS
  <2>1. CASE Arrive
    <3>1. ASSUME UNCHANGED proc PROVE Dated
      BY <3>1 DEF Dated
    <3>2. ASSUME valid' \subseteq valid PROVE Dated
      BY <3>2 DEF Dated
    <3>3. ASSUME NEW r \in Requests, NEW p \in Processes,
                 \/ SubmitIntake(r, p) \/ MarkContractSigned(r, p) \/ MarkBgConsent(r, p)
                 \/ RequestReset(r, p) \/ RequestArchive(r, p) \/ RequestUnarchive(r, p)
                 \/ \E x \in People \cup {None} : RequestOverride(r, p, x)
          PROVE  Dated
      BY <3>2, <3>3
         DEF SubmitIntake, MarkContractSigned, MarkBgConsent, RequestReset, RequestOverride,
             RequestArchive, RequestUnarchive
    <3>4. ASSUME NEW r \in Requests, NEW h \in Households,
                 StartIntake(r, h) \/ ListForRenewal(r, h) \/ RequestRevoke(r, h)
          PROVE  Dated
      BY <3>2, <3>4 DEF StartIntake, ListForRenewal, RequestRevoke
    <3>5. ASSUME NEW p \in Processes,
                 \/ Settle(p) \/ PaidWhileBlocked(p) \/ BeginRenewal(p)
                 \/ \E v \in People, mark \in Marks : Reject(v, p, mark)
          PROVE  Dated
      BY <3>2, <3>5 DEF Settle, PaidWhileBlocked, BeginRenewal, Reject
    <3>6. ASSUME NEW x \in People,
                 \/ OpenPersonBg(x) \/ OpenPersonAgreement(x) \/ CheckLapses(x)
                 \/ \E r \in Requests : MergeLead(r, x)
          PROVE  Dated
      BY <3>1, <3>2, <3>6 DEF OpenPersonBg, OpenPersonAgreement, CheckLapses, MergeLead
    <3>7. QED
      BY <2>1, <3>3, <3>4, <3>5, <3>6, ApprovingDates DEF Arrive
  <2>2. ASSUME NEW r \in Requests, Continue(r) PROVE Dated
    <3>1. ASSUME UNCHANGED valid PROVE Dated
      BY <3>1 DEF Dated
    <3>2. QED
      BY <2>2, <3>1, OverrideDates, MergeDates
         DEF Continue, CreateIntake, RecordSubmission, Advance, Reset, Archive, Unarchive,
             CreateRenewal, Revoke, NextMergeStage, StampBgCleared
  <2>3. ASSUME UNCHANGED valid PROVE Dated
    BY <2>3 DEF Dated
  <2>4. QED
    BY <2>1, <2>2, <2>3, StandingAlone DEF Next, Abandon, vars
<1>2. Dated <=> OnlyTheReviewedAreDated!1
  BY DEF Dated
<1>3. Spec => [](IInv /\ NamesLead)
  BY InitNamesLead, NextNamesLead, InitIInv, NextIInv, PTL DEF Spec
<1>4. QED
  BY <1>1, <1>2, <1>3, PTL DEF Spec, OnlyTheReviewedAreDated

=============================================================================
