--------------------------- MODULE StandingProofs ---------------------------
(***************************************************************************)
(* Where a row may stand, for every population.                            *)
(*                                                                         *)
(* Three invariants hold under every interleaving.  Each is about the      *)
(* rows, about what an archive captured of them and about the statuses     *)
(* that requests in flight still hold.                                     *)
(*                                                                         *)
(* Rivals gives OneApplicationUnderWay.  Only some writes can be refused   *)
(* by the partial unique indexes; the others are safe because they move a  *)
(* row that already stands inside its index (MovesOn), which takes knowing *)
(* where a row of each kind may stand (Placed).                            *)
(*                                                                         *)
(* Vouching gives NobodyIsStranded and DuesFollowTheAllowlist.             *)
(*                                                                         *)
(* Checks, which says where personal rows stand, gives OnlyARestoreDoubles.*)
(* GateIsAttended needs only the types: it is about what each step leaves  *)
(* behind.                                                                 *)
(*                                                                         *)
(* Two more hold when handlers take turns (Sound and Balanced).  They give *)
(* the archive's bookkeeping, the standing of a rejection, the documented  *)
(* transition table and the refinement of the two-track gate.              *)
(***************************************************************************)
EXTENDS MembershipProofs

Resting == {"ACTIVE", "BLOCKED", "ARCHIVED"}

\* The statuses inside both indexes.
Shared == InFlightInitial \cap InFlightRenewal

\* Where a row of a kind may stand, and what an archive may have captured.
Placed(kind, status) ==
  /\ kind = "INITIAL" => status \in InFlightInitial \cup Resting \cup {Null}
  /\ kind = "RENEWAL" => status \in InFlightRenewal \cup Resting \cup {Null}

RowPlaced(row) == Placed(row.kind, row.status) /\ Placed(row.kind, row.from)

CallPlaced(call, rows) ==
  /\ call.op \in {"archive", "unarchive"} => Placed(rows[call.row].kind, call.status)
  /\ call.op = "reset" => call.status \in Shared

Alone(rows) ==
  \A p, q \in Processes :
    /\ p # q /\ InFlight(rows[p])
    /\ rows[p].kind = rows[q].kind /\ rows[p].home = rows[q].home
    => ~InFlight(rows[q])

Rivals ==
  /\ \A p \in Processes : RowPlaced(proc[p])
  /\ \A r \in Requests : CallPlaced(calls[r], proc)
  /\ Alone(proc)

\* A row that goes to rest, stays where it is, or moves within its index.
MovesOn(old, new) ==
  /\ new.kind = old.kind /\ new.home = old.home /\ new.from = old.from
  /\ \/ new.status \in {old.status, "ACTIVE", "BLOCKED"}
     \/ new.status \in Shared /\ (old.kind \in HouseholdKinds => InFlight(old))

\* No request that carries a status was opened in this step.
NoStatusCarried ==
  \A r \in Requests :
    calls'[r] = calls[r] \/ calls'[r].op \notin {"archive", "unarchive", "reset"}

\* Handler r reads, and takes no status along.
OnlyReads(r) ==
  \E call : /\ Resume(r, call) /\ UNCHANGED <<proc, volunteer>>
            /\ call.op \notin {"archive", "unarchive", "reset"}

-----------------------------------------------------------------------------

\* Writing a row the index has room for.
LEMMA RivalSaved ==
  ASSUME IInv, Rivals, NEW p \in Processes, NEW row, RowPlaced(row), ~Clash(p, row),
         proc[p].kind # Null => row.kind = proc[p].kind,
         Save(p, row), NoStatusCarried
  PROVE  Rivals'
<1>1. \A q \in Processes : proc'[q] = IF q = p THEN row ELSE proc[q]
  BY DEF Save, IInv, RowsOK
<1>2. \A q \in Processes : RowPlaced(proc'[q])
  BY <1>1 DEF Rivals
<1>3. ASSUME NEW r \in Requests PROVE CallPlaced(calls'[r], proc')
  <2>1. CallPlaced(calls[r], proc) /\ CallOK(calls[r], proc)
    BY DEF Rivals, IInv, CallsOK
  <2>2. CallPlaced(calls[r], proc')
    BY <1>1, <2>1 DEF CallPlaced, CallOK, RowOps
  <2>3. QED
    BY <2>2 DEF NoStatusCarried, CallPlaced
<1>4. Alone(proc')
  BY <1>1 DEF Rivals, Alone, Clash
<1>5. QED
  BY <1>2, <1>3, <1>4 DEF Rivals

\* A row that moves on cannot clash: its rivals were out already.
LEMMA RivalMoved ==
  ASSUME IInv, Rivals, NEW p \in Processes, NEW row, MovesOn(proc[p], row),
         Save(p, row), NoStatusCarried
  PROVE  Rivals'
<1>1. RowPlaced(proc[p]) /\ Alone(proc)
  BY DEF Rivals
<1>2. RowPlaced(row)
  BY <1>1 DEF RowPlaced, Placed, MovesOn, Shared, Resting
<1>3. InFlight(row) => InFlight(proc[p])
  BY DEF MovesOn, InFlight, HouseholdKinds, InFlightInitial, InFlightRenewal
<1>4. ~Clash(p, row)
  BY <1>1, <1>3 DEF Clash, Alone, MovesOn
<1>5. QED
  BY <1>2, <1>4, RivalSaved DEF MovesOn

LEMMA RivalUntouched ==
  ASSUME Rivals, UNCHANGED proc,
         \A r \in Requests : calls'[r] = calls[r] \/ CallPlaced(calls'[r], proc)
  PROVE  Rivals'
  BY DEF Rivals

LEMMA RivalIdle == ASSUME Rivals, UNCHANGED proc, NoStatusCarried PROVE Rivals'
  BY RivalUntouched DEF NoStatusCarried, CallPlaced

LEMMA RivalInserted ==
  ASSUME IInv, Rivals, NEW row, RowPlaced(row), Insert(row), NoStatusCarried
  PROVE  Rivals'
  BY RivalSaved DEF Insert, Exists

\* What becomes of the requests.
LEMMA ResumedCalls ==
  ASSUME IInv, NEW r \in Requests, NEW call, Resume(r, call)
  PROVE  \A s \in Requests : calls'[s] = IF s = r THEN call ELSE calls[s]
  BY DEF Resume, IInv, CallsOK

LEMMA NothingCarried ==
  ASSUME IInv, NEW r \in Requests, NEW call, Resume(r, call),
         call.op \notin {"archive", "unarchive", "reset"}
  PROVE  NoStatusCarried
  BY ResumedCalls DEF NoStatusCarried

LEMMA FinishedCarries ==
  ASSUME IInv, NEW r \in Requests, Finish(r) PROVE NoStatusCarried
<1>1. Idle.op = "idle"
  BY DEF Idle
<1>2. QED
  BY <1>1, NothingCarried DEF Finish

\* A handler that only reads.
LEMMA RivalSuspended ==
  ASSUME IInv, Rivals, NEW r \in Requests, NEW call, CallPlaced(call, proc),
         Resume(r, call), UNCHANGED proc
  PROVE  Rivals'
  BY ResumedCalls, RivalUntouched

-----------------------------------------------------------------------------
(* The actions, by what they do to the index.                              *)

\* The first halves, and the steps that write no row.
LEMMA ReadingSteps ==
  ASSUME IInv, NEW r \in Requests,
         \/ \E h \in Households :
              StartIntake(r, h) \/ ListForRenewal(r, h) \/ RequestRevoke(r, h)
         \/ \E x \in People : MergeLead(r, x)
         \/ \E p \in Processes :
              \/ SubmitIntake(r, p)
              \/ \E x \in People \cup {None} : RequestOverride(r, p, x)
         \/ NextMergeStage(r) \/ Revoke(r) \/ Abandon(r)
  PROVE  OnlyReads(r)
<1> DEFINE Plain(call) == /\ Resume(r, call) /\ UNCHANGED <<proc, volunteer>>
                         /\ call.op \notin {"archive", "unarchive", "reset"}
<1>1. ASSUME NEW call, Plain(call) PROVE OnlyReads(r)
  BY <1>1 DEF OnlyReads
<1>2. Idle.op = "idle"
  BY DEF Idle
<1>3. ASSUME NEW h \in Households, StartIntake(r, h) \/ ListForRenewal(r, h) \/ RequestRevoke(r, h)
      PROVE  OnlyReads(r)
  <2>1. /\ OnHome("startIntake", h).op = "startIntake"
        /\ OnHome("openRenewal", h).op = "openRenewal"
        /\ OnHome("revoke", h).op = "revoke"
    BY DEF OnHome, Idle
  <2>2. \E op : Plain(OnHome(op, h))
    BY <1>3, <2>1 DEF StartIntake, ListForRenewal, RequestRevoke, Suspend, Resume
  <2>3. QED
    BY <1>1, <2>2
<1>4. ASSUME NEW x \in People, MergeLead(r, x) PROVE OnlyReads(r)
  <2> DEFINE call == [OnHome("merge", HouseholdOf[x]) EXCEPT !.status = MergeStages[1]]
  <2>1. call.op = "merge"
    BY DEF OnHome, Idle
  <2>2. Plain(Idle) \/ Plain(call)
    BY <1>2, <1>4, <2>1 DEF MergeLead
  <2>3. QED
    BY <1>1, <2>2
<1>5. ASSUME NEW p \in Processes, SubmitIntake(r, p) PROVE OnlyReads(r)
  <2> DEFINE call == [OnRow("submitIntake", p) EXCEPT
                        !.fresh = HouseholdBgIsFresh(proc[p].home)]
  <2>1. call.op = "submitIntake"
    BY DEF OnRow, Idle
  <2>2. Plain(call)
    BY <1>5, <2>1 DEF SubmitIntake, Suspend, Resume
  <2>3. QED
    BY <1>1, <2>2
<1>6. ASSUME NEW p \in Processes, NEW x \in People \cup {None}, RequestOverride(r, p, x)
      PROVE  OnlyReads(r)
  <2> DEFINE call == [OnRow("approve", p) EXCEPT !.who = x]
  <2>1. call.op = "approve"
    BY DEF OnRow, Idle
  <2>2. Plain(call)
    BY <1>6, <2>1 DEF RequestOverride, Suspend, Resume
  <2>3. QED
    BY <1>1, <2>2
<1>7. CASE NextMergeStage(r)
  <2>1. calls[r] \in CallRecords
    BY DEF IInv, CallsOK
  <2>2. \A s : [calls[r] EXCEPT !.status = s].op = "merge"
    BY <1>7, <2>1 DEF NextMergeStage, CallRecords
  <2>3. Plain(Idle) \/ \E s : Plain([calls[r] EXCEPT !.status = s])
    BY <1>2, <1>7, <2>2 DEF NextMergeStage, Finish
  <2>4. QED
    BY <1>1, <2>3
<1>8. CASE Abandon(r)
  BY <1>1, <1>2, <1>8 DEF Abandon, Finish
<1>9. CASE Revoke(r)
  BY <1>1, <1>2, <1>9 DEF Revoke, Finish
<1>10. QED
  BY <1>3, <1>4, <1>5, <1>6, <1>7, <1>8, <1>9

LEMMA RivalRead == ASSUME IInv, Rivals, NEW r \in Requests, OnlyReads(r) PROVE Rivals'
  BY RivalSuspended DEF OnlyReads, CallPlaced

\* What an archive captures, what a restore goes back to and what a reset
\* resumes at are read from a row that is well placed.
LEMMA CapturingSteps ==
  ASSUME IInv, Rivals, NEW r \in Requests, NEW p \in Processes,
         RequestArchive(r, p) \/ RequestUnarchive(r, p) \/ RequestReset(r, p)
  PROVE  Rivals'
<1>1. proc[p] \in Rows /\ RowPlaced(proc[p])
  BY DEF IInv, RowsOK, Rivals
<1>2. CASE RequestArchive(r, p)
  <2> DEFINE call == [OnRow("archive", p) EXCEPT !.status = proc[p].status]
  <2>1. call.op = "archive" /\ call.row = p /\ call.status = proc[p].status
    BY DEF OnRow, Idle
  <2>2. CallPlaced(call, proc)
    BY <1>1, <2>1 DEF CallPlaced, RowPlaced
  <2>3. QED
    BY <1>2, <2>2, RivalSuspended DEF RequestArchive, Suspend, Resume
<1>3. CASE RequestUnarchive(r, p)
  <2> DEFINE call == [OnRow("unarchive", p) EXCEPT !.status = proc[p].from]
  <2>1. call.op = "unarchive" /\ call.row = p /\ call.status = proc[p].from
    BY DEF OnRow, Idle
  <2>2. CallPlaced(call, proc)
    BY <1>1, <2>1 DEF CallPlaced, RowPlaced
  <2>3. QED
    BY <1>3, <2>2, RivalSuspended DEF RequestUnarchive, Suspend, Resume
<1>4. CASE RequestReset(r, p)
  <2> DEFINE call == [OnRow("reset", p) EXCEPT !.status = BlockedResetStatus(proc[p])]
  <2>1. call.op = "reset" /\ call.status = BlockedResetStatus(proc[p])
    BY DEF OnRow, Idle
  <2>2. BlockedResetStatus(proc[p]) \in Shared
    BY <1>1 DEF BlockedResetStatus, Shared, InFlightInitial, InFlightRenewal, Rows
  <2>3. CallPlaced(call, proc)
    BY <2>1, <2>2 DEF CallPlaced
  <2>4. QED
    BY <1>4, <2>3, RivalSuspended DEF RequestReset, Suspend, Resume
<1>5. QED
  BY <1>2, <1>3, <1>4

\* Rows that are opened: the index refuses a second one.
LEMMA OpeningSteps ==
  ASSUME IInv, Rivals,
         \/ \E r \in Requests : CreateIntake(r) \/ CreateRenewal(r)
         \/ \E x \in People : OpenPersonBg(x) \/ OpenPersonAgreement(x)
  PROVE  Rivals'
<1>1. ASSUME NEW h, NEW x
      PROVE  /\ RowPlaced(NewRow("INITIAL", h, None, "INTAKE"))
             /\ RowPlaced(NewRow("RENEWAL", h, None, "PENDING_RENEWAL"))
             /\ RowPlaced(NewRow("PERSON_BG", None, x, "PENDING_BG_REVIEW"))
             /\ RowPlaced(NewRow("PERSON_AGREEMENT", None, x, "PENDING_EXTERNAL_ACTION"))
  BY DEF RowPlaced, Placed, NewRow, InFlightInitial, InFlightRenewal
<1>2. ASSUME NEW r \in Requests, CreateIntake(r) \/ CreateRenewal(r) PROVE Rivals'
  <2>1. NoStatusCarried
    BY <1>2, FinishedCarries DEF CreateIntake, CreateRenewal
  <2>2. CASE UNCHANGED proc
    BY <2>1, <2>2, RivalIdle
  <2>3. CASE ~UNCHANGED proc
    BY <1>1, <1>2, <2>1, <2>3, RivalInserted DEF CreateIntake, CreateRenewal
  <2>4. QED
    BY <2>2, <2>3
<1>3. ASSUME NEW x \in People, OpenPersonBg(x) \/ OpenPersonAgreement(x) PROVE Rivals'
  <2>1. NoStatusCarried
    BY <1>3 DEF OpenPersonBg, OpenPersonAgreement, NoStatusCarried
  <2>2. QED
    BY <1>1, <1>3, <2>1, RivalInserted DEF OpenPersonBg, OpenPersonAgreement
<1>4. QED
  BY <1>2, <1>3

\* Writes the index may refuse.
LEMMA RefusableSteps ==
  ASSUME IInv, Rivals, NEW r \in Requests,
         RecordSubmission(r) \/ Reset(r) \/ Unarchive(r) \/ Override(r)
  PROVE  Rivals'
<1> DEFINE p == calls[r].row
<1>1. p \in Processes /\ proc[p] \in Rows /\ RowPlaced(proc[p])
  BY DEF RecordSubmission, Reset, Unarchive, Override, IInv, CallsOK, CallOK, RowOps,
     RowsOK, Rivals
<1>2. CallPlaced(calls[r], proc)
  BY DEF Rivals
<1>3. ASSUME UNCHANGED proc, NoStatusCarried PROVE Rivals'
  BY <1>3, RivalIdle
<1>4. CASE RecordSubmission(r)
  <2> DEFINE row == IF calls[r].fresh
                    THEN [proc[p] EXCEPT !.status = "PENDING_EXTERNAL_ACTION",
                                         !.cleared = TRUE, !.basis = "prior"]
                    ELSE [proc[p] EXCEPT !.status = "PENDING_EXTERNAL_ACTION"]
  <2>1. OnRow("advance", p).op = "advance"
    BY DEF OnRow, Idle
  <2>2. NoStatusCarried
    BY <1>4, <2>1, FinishedCarries, NothingCarried DEF RecordSubmission
  <2>3. RowPlaced(row) /\ row.kind = proc[p].kind
    BY <1>1 DEF RowPlaced, Placed, Rows, InFlightInitial, InFlightRenewal
  <2>4. CASE Clash(p, row)
    BY <1>3, <1>4, <2>2, <2>4 DEF RecordSubmission
  <2>5. CASE ~Clash(p, row)
    <3>1. Save(p, row)
      BY <1>4, <2>5 DEF RecordSubmission
    <3>2. QED
      BY <1>1, <2>2, <2>3, <2>5, <3>1, RivalSaved
  <2>6. QED
    BY <2>4, <2>5
<1>5. CASE Reset(r)
  <2> DEFINE isBlocked == proc[p].status = "BLOCKED"
             row == [proc[p] EXCEPT !.status = IF isBlocked THEN calls[r].status ELSE @,
                                    !.attests = {}, !.cleared = FALSE, !.basis = "none"]
  <2>1. NoStatusCarried
    BY <1>5, FinishedCarries DEF Reset
  <2>2. RowPlaced(row) /\ row.kind = proc[p].kind
    BY <1>1, <1>2, <1>5 DEF Reset, CallPlaced, RowPlaced, Placed, Rows, Shared
  <2>3. UNCHANGED proc \/ (~Clash(p, row) /\ Save(p, row))
    BY <1>5 DEF Reset, SaveIf
  <2>4. QED
    BY <1>1, <1>3, <2>1, <2>2, <2>3, RivalSaved
<1>6. CASE Unarchive(r)
  <2> DEFINE row == [proc[p] EXCEPT !.status = calls[r].status, !.from = Null]
  <2>1. NoStatusCarried
    BY <1>6, FinishedCarries DEF Unarchive
  <2>2. RowPlaced(row) /\ row.kind = proc[p].kind
    BY <1>1, <1>2, <1>6 DEF Unarchive, CallPlaced, RowPlaced, Placed, Rows
  <2>3. UNCHANGED proc \/ (~Clash(p, row) /\ Save(p, row))
    BY <1>6 DEF Unarchive, SaveIf
  <2>4. QED
    BY <1>1, <1>3, <2>1, <2>2, <2>3, RivalSaved
<1>7. CASE Override(r)
  <2> DEFINE row == ClearedRow(proc[p], "board")
  <2>1. NoStatusCarried
    BY <1>7, FinishedCarries DEF Override
  <2>2. RowPlaced(row) /\ row.kind = proc[p].kind
    BY <1>1 DEF ClearedRow, ClearedStatus, RowPlaced, Placed, Rows, InFlightInitial,
       InFlightRenewal, Resting
  <2>3. UNCHANGED proc \/ (~Clash(p, row) /\ Save(p, row))
    BY <1>7 DEF Override, ClearBackgroundCheck
  <2>4. QED
    BY <1>1, <1>3, <2>1, <2>2, <2>3, RivalSaved
<1>8. QED
  BY <1>4, <1>5, <1>6, <1>7

\* An archive leaves the index; what it captured is well placed.
LEMMA ArchiveStep == ASSUME IInv, Rivals, NEW r \in Requests, Archive(r) PROVE Rivals'
<1> DEFINE p == calls[r].row
           row == [proc[p] EXCEPT !.status = "ARCHIVED", !.from = calls[r].status]
<1>1. p \in Processes /\ proc[p] \in Rows /\ RowPlaced(proc[p]) /\ CallPlaced(calls[r], proc)
  BY DEF Archive, IInv, CallsOK, CallOK, RowOps, RowsOK, Rivals
<1>2. RowPlaced(row) /\ row.kind = proc[p].kind /\ ~InFlight(row)
  BY <1>1 DEF Archive, CallPlaced, RowPlaced, Placed, Rows, Resting, InFlight,
     InFlightInitial, InFlightRenewal
<1>3. ~Clash(p, row) /\ NoStatusCarried /\ Save(p, row)
  BY <1>2, FinishedCarries DEF Archive, Clash
<1>4. QED
  BY <1>1, <1>2, <1>3, RivalSaved

\* Writes no index guards: every one of them moves a row on.
LEMMA MovingSteps ==
  ASSUME IInv, Rivals, NEW p \in Processes,
         \/ Settle(p) \/ PaidWhileBlocked(p) \/ BeginRenewal(p)
         \/ \E v \in People, mark \in Marks :
              Reject(v, p, mark) \/ \E x \in People \cup {None} : Approve(v, p, x, mark)
         \/ \E r \in Requests : StampBgCleared(r, p) \/ ClearHeldRow(r, p)
  PROVE  Rivals'
<1>1. proc[p] \in Rows /\ RowPlaced(proc[p])
  BY DEF IInv, RowsOK, Rivals
<1>2. NoStatusCarried
  BY DEF NoStatusCarried, Settle, PaidWhileBlocked, BeginRenewal, Reject, Approve,
     StampBgCleared, ClearHeldRow
<1>3. ASSUME NEW row, MovesOn(proc[p], row), Save(p, row) PROVE Rivals'
  BY <1>2, <1>3, RivalMoved
<1>4. CASE Settle(p) \/ PaidWhileBlocked(p)
  <2> DEFINE settled == [proc[p] EXCEPT !.paid = TRUE, !.status = SettledStatus(proc[p])]
             kept == [proc[p] EXCEPT !.paid = TRUE]
  <2>1. proc[p].status = "PENDING_PAYMENT" => MovesOn(proc[p], settled)
    BY <1>1 DEF MovesOn, SettledStatus, Rows, Shared, InFlight, InFlightInitial,
       InFlightRenewal, HouseholdKinds
  <2>2. MovesOn(proc[p], kept)
    BY <1>1 DEF MovesOn, Rows
  <2>3. QED
    BY <1>3, <1>4, <2>1, <2>2 DEF Settle, PaidWhileBlocked
<1>5. CASE BeginRenewal(p)
  <2> DEFINE fresh == [proc[p] EXCEPT !.status = "PENDING_EXTERNAL_ACTION",
                                      !.cleared = TRUE, !.basis = "prior"]
             stale == [proc[p] EXCEPT !.status = "PENDING_EXTERNAL_ACTION"]
  <2>1. MovesOn(proc[p], fresh) /\ MovesOn(proc[p], stale)
    BY <1>1, <1>5 DEF BeginRenewal, MovesOn, Rows, RowPlaced, Placed, Shared, Resting, Null,
       InFlight, InFlightInitial, InFlightRenewal, HouseholdKinds
  <2>2. QED
    BY <1>3, <1>5, <2>1 DEF BeginRenewal
<1>6. ASSUME NEW row, NEW basis, row \in Rows, row.kind = proc[p].kind,
             row.home = proc[p].home, row.from = proc[p].from,
             proc[p].kind \in HouseholdKinds => InFlight(proc[p])
      PROVE  MovesOn(proc[p], ClearedRow(row, basis))
  BY <1>6 DEF MovesOn, ClearedRow, ClearedStatus, Rows, Shared, InFlightInitial,
     InFlightRenewal
<1>7. ASSUME NEW v \in People, NEW mark \in Marks,
             Reject(v, p, mark) \/ \E x \in People \cup {None} : Approve(v, p, x, mark)
      PROVE  Rivals'
  <2>1. proc[p].kind \in HouseholdKinds => InFlight(proc[p])
    BY <1>1, <1>7 DEF Reject, Approve, MayAttest, AwaitingBgReview, RowPlaced, Placed, Null,
       Resting, InFlight, InFlightInitial, InFlightRenewal, HouseholdKinds
  <2>2. ASSUME NEW x \in People \cup {None}, NEW result \in {"APPROVE", "REJECT"}
        PROVE  LET row == Attested(proc[p], v, x, result, mark) IN
               /\ row \in Rows /\ row.kind = proc[p].kind /\ row.home = proc[p].home
               /\ row.from = proc[p].from /\ row.status = proc[p].status
    <3>1. [reviewer |-> v, subject |-> x, result |-> result, volunteer |-> mark]
            \in Attestations
      BY PopulationAssumption DEF Attestations
    <3>2. QED
      BY <1>1, <3>1 DEF Attested, Rows
  <2>3. CASE Reject(v, p, mark)
    <3> DEFINE blocked == [Attested(proc[p], v, None, "REJECT", mark) EXCEPT
                             !.status = "BLOCKED"]
    <3>1. MovesOn(proc[p], blocked)
      BY <2>2 DEF MovesOn, Rows
    <3>2. QED
      BY <1>3, <2>3, <3>1 DEF Reject
  <2>4. ASSUME NEW x \in People \cup {None}, Approve(v, p, x, mark) PROVE Rivals'
    <3> DEFINE row == Attested(proc[p], v, x, "APPROVE", mark)
    <3>1. MovesOn(proc[p], row)
      BY <2>2 DEF MovesOn
    <3>2. MovesOn(proc[p], ClearedRow(row, "review"))
      BY <1>6, <2>1, <2>2
    <3>3. Save(p, row) \/ Save(p, ClearedRow(row, "review"))
      BY <2>4 DEF Approve, ClearBackgroundCheck
    <3>4. QED
      BY <1>3, <3>1, <3>2, <3>3
  <2>5. QED
    BY <1>7, <2>3, <2>4
<1>8. ASSUME NEW r \in Requests, StampBgCleared(r, p) PROVE Rivals'
  <2> DEFINE stamped == [proc[p] EXCEPT !.cleared = TRUE, !.basis = "merge"]
             opened == [stamped EXCEPT !.status = "PENDING_PAYMENT"]
  <2>1. proc[p].kind \in HouseholdKinds => InFlight(proc[p])
    BY <1>8 DEF StampBgCleared, MergeCandidate, InFlight, InFlightInitial, InFlightRenewal,
       HouseholdKinds
  <2>2. MovesOn(proc[p], stamped) /\ MovesOn(proc[p], opened)
    BY <1>1, <2>1 DEF MovesOn, Rows, Shared, InFlightInitial, InFlightRenewal
  <2>3. Save(p, stamped) \/ Save(p, opened)
    BY <1>8 DEF StampBgCleared
  <2>4. QED
    BY <1>3, <2>2, <2>3
<1>9. ASSUME NEW r \in Requests, ClearHeldRow(r, p) PROVE Rivals'
  <2>1. proc[p].kind \in HouseholdKinds => InFlight(proc[p])
    BY <1>9 DEF ClearHeldRow, MergeCandidate, InFlight, InFlightInitial, InFlightRenewal,
       HouseholdKinds
  <2>2. MovesOn(proc[p], ClearedRow(proc[p], "merge"))
    BY <1>1, <1>6, <2>1
  <2>3. QED
    BY <1>3, <1>9, <2>2 DEF ClearHeldRow, ClearBackgroundCheck
<1>10. QED
  BY <1>4, <1>5, <1>7, <1>8, <1>9

\* The contract, the consent and the advance.
LEMMA ExternalSteps ==
  ASSUME IInv, Rivals, NEW r \in Requests,
         \/ \E p \in Processes : MarkContractSigned(r, p) \/ MarkBgConsent(r, p)
         \/ Advance(r)
  PROVE  Rivals'
<1>1. Idle.op = "idle" /\ \A p : OnRow("advance", p).op = "advance"
  BY DEF OnRow, Idle
<1>2. ASSUME NEW p \in Processes, MarkContractSigned(r, p) \/ MarkBgConsent(r, p)
      PROVE  Rivals'
  <2> DEFINE signed == [proc[p] EXCEPT !.signed = TRUE]
             settled == [proc[p] EXCEPT !.signed = TRUE, !.status = "ACTIVE"]
             consented == [proc[p] EXCEPT !.consent = TRUE]
  <2>1. proc[p] \in Rows
    BY DEF IInv, RowsOK
  <2>2. /\ MovesOn(proc[p], signed) /\ MovesOn(proc[p], settled)
        /\ MovesOn(proc[p], consented) /\ MovesOn(proc[p], proc[p])
    BY <2>1 DEF MovesOn, Rows
  <2>3. NoStatusCarried
    BY <1>1, <1>2, NothingCarried DEF MarkContractSigned, MarkBgConsent, Suspend, Resume
  <2>4. Save(p, signed) \/ Save(p, settled) \/ Save(p, consented) \/ Save(p, proc[p])
    BY <1>2 DEF MarkContractSigned, MarkBgConsent
  <2>5. QED
    BY <2>2, <2>3, <2>4, RivalMoved
<1>3. CASE Advance(r)
  <2> DEFINE p == calls[r].row
             row == [proc[p] EXCEPT !.status = "PENDING_PAYMENT"]
  <2>1. p \in Processes /\ proc[p] \in Rows
    BY <1>3 DEF Advance, IInv, CallsOK, CallOK, RowOps, RowsOK
  <2>2. NoStatusCarried
    BY <1>3, FinishedCarries DEF Advance
  <2>3. GateMet(proc[p]) => MovesOn(proc[p], row)
    BY <2>1 DEF GateMet, MovesOn, Rows, Shared, InFlight, InFlightInitial, InFlightRenewal,
       HouseholdKinds
  <2>4. UNCHANGED proc \/ (GateMet(proc[p]) /\ Save(p, row))
    BY <1>3 DEF Advance
  <2>5. CASE UNCHANGED proc
    BY <2>2, <2>5, RivalIdle
  <2>6. QED
    BY <2>1, <2>2, <2>3, <2>4, <2>5, RivalMoved
<1>4. QED
  BY <1>2, <1>3

-----------------------------------------------------------------------------

LEMMA InitRivals == Init => Rivals
<1> SUFFICES ASSUME Init PROVE Rivals
  OBVIOUS
<1>1. FreeRow.kind = Null /\ RowPlaced(FreeRow) /\ ~InFlight(FreeRow)
  BY DEF FreeRow, NewRow, RowPlaced, Placed, InFlight, Null
<1>2. ASSUME NEW h, NEW row \in LegacyRows(h) PROVE RowPlaced(row)
  <2> DEFINE application == NewRow("INITIAL", h, None, "PENDING_BG_REVIEW")
             inReview == [application EXCEPT !.signed = TRUE, !.consent = TRUE]
             blocked == NewRow("RENEWAL", h, None, "BLOCKED")
             renewal == NewRow("RENEWAL", h, None, "ARCHIVED")
             archived == [renewal EXCEPT !.from = "RENEWAL_PENDING_BG"]
  <2>1. RowPlaced(inReview)
    BY DEF NewRow, RowPlaced, Placed, InFlightInitial
  <2>2. RowPlaced(blocked)
    BY DEF NewRow, RowPlaced, Placed, Resting
  <2>3. RowPlaced(archived)
    BY DEF NewRow, RowPlaced, Placed, Resting, InFlightRenewal
  <2>4. row \in {inReview, blocked, archived}
    BY <1>2 DEF LegacyRows
  <2>5. QED
    BY <2>1, <2>2, <2>3, <2>4
<1>3. \E q, row : /\ RowPlaced(row)
                  /\ \A p \in Processes : proc[p] = IF p = q THEN row ELSE FreeRow
  BY <1>1, <1>2 DEF Init
<1>4. (\A p \in Processes : RowPlaced(proc[p])) /\ Alone(proc)
  BY <1>1, <1>3 DEF Alone
<1>5. \A r \in Requests : CallPlaced(calls[r], proc)
  BY DEF Init, CallPlaced, Idle
<1>6. QED
  BY <1>4, <1>5 DEF Rivals

LEMMA NextRivals == IInv /\ Rivals /\ [Next]_vars => Rivals'
<1> SUFFICES ASSUME IInv, Rivals, [Next]_vars PROVE Rivals'
  OBVIOUS
<1>1. CASE Arrive
  <2>1. ASSUME NEW x \in People, CheckLapses(x) PROVE Rivals'
    BY <2>1, RivalUntouched DEF CheckLapses
  <2>2. QED
    BY <1>1, <2>1, ReadingSteps, RivalRead, CapturingSteps, OpeningSteps, MovingSteps,
       ExternalSteps
       DEF Arrive
<1>2. ASSUME NEW r \in Requests, Continue(r) PROVE Rivals'
  BY <1>2, OpeningSteps, RefusableSteps, ExternalSteps, ArchiveStep, ReadingSteps,
     RivalRead, MovingSteps DEF Continue
<1>3. ASSUME NEW r \in Requests, Abandon(r) PROVE Rivals'
  BY <1>3, ReadingSteps, RivalRead
<1>4. CASE WriteStanding \/ UNCHANGED vars
  BY <1>4, StandingAlone, RivalUntouched DEF vars
<1>5. QED
  BY <1>1, <1>2, <1>3, <1>4 DEF Next

\* A household never has two applications, or two renewals, under way: the two
\* partial unique indexes and the unguarded writes together see to it, though
\* archive, restore and reset act on statuses read before.
THEOREM OneEach == Spec => []OneApplicationUnderWay
<1>1. IInv /\ Rivals => OneApplicationUnderWay
  <2> SUFFICES ASSUME IInv, Rivals,
                      NEW p \in Processes, NEW q \in Processes, p # q,
                      proc[p].kind \in HouseholdKinds,
                      proc[p].kind = proc[q].kind, proc[p].home = proc[q].home
               PROVE  proc[p].status \in Resting \/ proc[q].status \in Resting
    BY DEF OneApplicationUnderWay, Resting
  <2>1. ASSUME NEW s \in Processes, proc[s].kind \in HouseholdKinds,
               proc[s].status \notin Resting
        PROVE  InFlight(proc[s])
    <3>1. proc[s].status # Null /\ RowPlaced(proc[s])
      BY <2>1 DEF IInv, RowsOK, RowOK, WellFormed, HouseholdKinds, Null, Rivals
    <3>2. QED
      BY <2>1, <3>1 DEF RowPlaced, Placed, InFlight, HouseholdKinds
  <2>2. QED
    BY <2>1 DEF Rivals, Alone
<1>2. QED
  BY <1>1, InitRivals, NextRivals, Inductive, PTL DEF Spec

-----------------------------------------------------------------------------
(* Consent and the allowlist.                                              *)
(*                                                                         *)
(* A household row beyond the external actions is vouched for: it has      *)
(* consented, or it stands at payment with a cleared check; and its        *)
(* designation has been acted on.  A reset takes a clearance away, but     *)
(* only from a row that has consented, so what an archive captured and     *)
(* what a request still holds stay vouched for too.                        *)

\* The statuses beyond the external actions, short of membership.
Gated == { "PENDING_BG_REVIEW", "RENEWAL_PENDING_BG", "PENDING_PAYMENT",
           "PENDING_BG_CLEARANCE", "BLOCKED" }

\* The rows NobodyIsStranded speaks of.
Counted(row) ==
  /\ row.kind \in HouseholdKinds
  /\ "RENEWAL" \in Inherited => row.kind = "INITIAL"

Vouched(row, status, flagged) ==
  status \in Gated =>
    /\ Counted(row) =>
         \/ row.consent
         \/ row.cleared /\ status \in {"PENDING_PAYMENT", "PENDING_BG_CLEARANCE"}
    /\ row.kind \in HouseholdKinds \ Inherited /\ row.home \in Designated =>
         row.home \in flagged

Vouching ==
  /\ \A p \in Processes : /\ Vouched(proc[p], proc[p].status, volunteer)
                          /\ Vouched(proc[p], proc[p].from, volunteer)
  /\ \A r \in Requests : calls[r].op \in {"archive", "unarchive"} =>
       Vouched(proc[calls[r].row], calls[r].status, volunteer)

\* What may not be taken from a row.
Keeps(old, new) ==
  /\ new.kind = old.kind /\ new.home = old.home
  /\ Counted(old) => /\ old.consent => new.consent
                     /\ old.cleared => new.cleared \/ new.consent

LEMMA KeepsVouched ==
  ASSUME NEW old, NEW new, NEW status, NEW flagged, NEW grown, Keeps(old, new),
         Vouched(old, status, flagged), flagged \subseteq grown,
         old.consent \in BOOLEAN, old.cleared \in BOOLEAN,
         new.consent \in BOOLEAN, new.cleared \in BOOLEAN
  PROVE  Vouched(new, status, grown)
  BY DEF Keeps, Vouched, Counted

\* Writing a row that keeps its consent and whose new statuses are vouched for.
LEMMA VouchSaved ==
  ASSUME IInv, Vouching, NEW p \in Processes, NEW row \in Rows,
         proc[p].kind # Null => Keeps(proc[p], row),
         Vouched(row, row.status, volunteer'), Vouched(row, row.from, volunteer'),
         volunteer \subseteq volunteer', Save(p, row), NoStatusCarried
  PROVE  Vouching'
<1>1. \A q \in Processes : proc'[q] = IF q = p THEN row ELSE proc[q]
  BY DEF Save, IInv, RowsOK
<1>2. ASSUME NEW q \in Processes PROVE Keeps(proc[q], proc[q])
  BY DEF Keeps
<1>3. \A q \in Processes : proc[q].consent \in BOOLEAN /\ proc[q].cleared \in BOOLEAN
  BY DEF IInv, RowsOK, Rows
<1>4. row.consent \in BOOLEAN /\ row.cleared \in BOOLEAN
  BY DEF Rows
<1>5. ASSUME NEW q \in Processes
      PROVE  /\ Vouched(proc'[q], proc'[q].status, volunteer')
             /\ Vouched(proc'[q], proc'[q].from, volunteer')
  <2>1. CASE q = p
    BY <1>1, <2>1
  <2>2. CASE q # p
    BY <1>1, <1>2, <1>3, <2>2, KeepsVouched DEF Vouching
  <2>3. QED
    BY <2>1, <2>2
<1>6. ASSUME NEW r \in Requests, calls'[r].op \in {"archive", "unarchive"}
      PROVE  Vouched(proc'[calls'[r].row], calls'[r].status, volunteer')
  <2> DEFINE q == calls[r].row
  <2>1. calls'[r] = calls[r]
    BY <1>6 DEF NoStatusCarried
  <2>2. q \in Processes /\ proc[q].kind # Null
    BY <1>6, <2>1 DEF IInv, CallsOK, CallOK, RowOps
  <2>3. Keeps(proc[q], proc'[q])
    BY <1>1, <1>2, <2>2
  <2>4. Vouched(proc[q], calls[r].status, volunteer)
    BY <1>6, <2>1 DEF Vouching
  <2>5. proc'[q].consent \in BOOLEAN /\ proc'[q].cleared \in BOOLEAN
    BY <1>1, <1>3, <1>4, <2>2
  <2>6. QED
    BY <1>3, <2>1, <2>2, <2>3, <2>4, <2>5, KeepsVouched
<1>7. QED
  BY <1>5, <1>6 DEF Vouching

\* A row that keeps its consent and goes nowhere new beyond the gate.
LEMMA VouchKept ==
  ASSUME IInv, Vouching, NEW p \in Processes, NEW row \in Rows, Keeps(proc[p], row),
         row.from = proc[p].from, row.status = proc[p].status \/ row.status \notin Gated,
         volunteer \subseteq volunteer', Save(p, row), NoStatusCarried
  PROVE  Vouching'
<1>1. /\ proc[p].consent \in BOOLEAN /\ proc[p].cleared \in BOOLEAN
      /\ row.consent \in BOOLEAN /\ row.cleared \in BOOLEAN
  BY DEF IInv, RowsOK, Rows
<1>2. /\ Vouched(proc[p], proc[p].status, volunteer)
      /\ Vouched(proc[p], proc[p].from, volunteer)
  BY DEF Vouching
<1>3. Vouched(row, proc[p].status, volunteer') /\ Vouched(row, proc[p].from, volunteer')
  BY <1>1, <1>2, KeepsVouched
<1>4. Vouched(row, row.status, volunteer') /\ Vouched(row, row.from, volunteer')
  BY <1>3 DEF Vouched
<1>5. QED
  BY <1>4, VouchSaved

LEMMA VouchIdle ==
  ASSUME IInv, Vouching, UNCHANGED <<proc, volunteer>>,
         \A r \in Requests :
           \/ calls'[r] = calls[r]
           \/ calls'[r].op \in {"archive", "unarchive"} =>
                Vouched(proc[calls'[r].row], calls'[r].status, volunteer)
  PROVE  Vouching'
  BY DEF Vouching

LEMMA VouchSuspended ==
  ASSUME IInv, Vouching, NEW r \in Requests, NEW call, Resume(r, call),
         UNCHANGED <<proc, volunteer>>,
         call.op \in {"archive", "unarchive"} =>
           Vouched(proc[call.row], call.status, volunteer)
  PROVE  Vouching'
  BY ResumedCalls, VouchIdle

\* A clearance vouches for the row itself, and flags a designated household.
LEMMA VouchCleared ==
  ASSUME IInv, Vouching, NEW p \in Processes, NEW row \in Rows, NEW named, NEW basis \in Bases,
         Keeps(proc[p], row), WellFormed(row), row.from = proc[p].from,
         ClearBackgroundCheck(p, row, named, basis), NoStatusCarried
  PROVE  Vouching'
<1> DEFINE clear == ClearedRow(row, basis)
<1>1. /\ clear \in Rows /\ clear.cleared = TRUE /\ clear.from = proc[p].from
      /\ clear.kind = row.kind /\ clear.home = row.home /\ clear.consent = row.consent
      /\ clear.status \in {"ACTIVE", "PENDING_PAYMENT"}
  BY DEF ClearedRow, ClearedStatus, Rows, Statuses
<1>2. Keeps(proc[p], clear)
  BY <1>1 DEF Keeps
<1>3. row.kind \in HouseholdKinds => row.subject = None
  BY DEF WellFormed
<1>4. /\ volunteer \subseteq volunteer'
      /\ row.kind \in HouseholdKinds /\ row.home \in Designated => row.home \in volunteer'
  BY <1>3 DEF ClearBackgroundCheck
<1>5. Vouched(clear, clear.status, volunteer')
  BY <1>1, <1>4 DEF Vouched, Gated
<1>6. /\ proc[p].consent \in BOOLEAN /\ proc[p].cleared \in BOOLEAN
      /\ clear.consent \in BOOLEAN /\ clear.cleared \in BOOLEAN
  BY <1>1 DEF IInv, RowsOK, Rows
<1>7. Vouched(clear, clear.from, volunteer')
  BY <1>1, <1>2, <1>4, <1>6, KeepsVouched DEF Vouching
<1>8. Save(p, clear)
  BY DEF ClearBackgroundCheck
<1>9. QED
  BY <1>1, <1>2, <1>4, <1>5, <1>7, <1>8, VouchSaved

LEMMA VouchRead == ASSUME IInv, Vouching, NEW r \in Requests, OnlyReads(r) PROVE Vouching'
  BY VouchSuspended DEF OnlyReads

LEMMA VouchCapturing ==
  ASSUME IInv, Vouching, NEW r \in Requests, NEW p \in Processes,
         RequestArchive(r, p) \/ RequestUnarchive(r, p) \/ RequestReset(r, p)
  PROVE  Vouching'
<1> DEFINE archive == [OnRow("archive", p) EXCEPT !.status = proc[p].status]
           restore == [OnRow("unarchive", p) EXCEPT !.status = proc[p].from]
           reset == [OnRow("reset", p) EXCEPT !.status = BlockedResetStatus(proc[p])]
<1>1. /\ archive.op = "archive" /\ archive.row = p /\ archive.status = proc[p].status
      /\ restore.op = "unarchive" /\ restore.row = p /\ restore.status = proc[p].from
      /\ reset.op = "reset"
  BY DEF OnRow, Idle
<1>2. UNCHANGED <<proc, volunteer>>
  BY DEF RequestArchive, RequestUnarchive, RequestReset
<1>3. Resume(r, archive) \/ Resume(r, restore) \/ Resume(r, reset)
  BY DEF RequestArchive, RequestUnarchive, RequestReset, Suspend, Resume
<1>4. Vouched(proc[p], proc[p].status, volunteer) /\ Vouched(proc[p], proc[p].from, volunteer)
  BY DEF Vouching
<1>5. CASE Resume(r, archive)
  BY <1>1, <1>2, <1>4, <1>5, VouchSuspended
<1>6. CASE Resume(r, restore)
  BY <1>1, <1>2, <1>4, <1>6, VouchSuspended
<1>7. CASE Resume(r, reset)
  BY <1>1, <1>2, <1>7, VouchSuspended
<1>8. QED
  BY <1>3, <1>5, <1>6, <1>7

LEMMA VouchInserted ==
  ASSUME IInv, Vouching, NEW row \in Rows, Insert(row), UNCHANGED volunteer, NoStatusCarried,
         row.from = Null, row.kind \in HouseholdKinds => row.status \notin Gated
  PROVE  Vouching'
<1>1. Vouched(row, row.status, volunteer') /\ Vouched(row, row.from, volunteer')
  BY DEF Vouched, Counted, Gated, Null
<1>2. PICK p \in Processes : ~Exists(p) /\ Save(p, row)
  BY DEF Insert
<1>3. QED
  BY <1>1, <1>2, VouchSaved DEF Exists

LEMMA VouchOpening ==
  ASSUME IInv, Vouching,
         \/ \E r \in Requests : CreateIntake(r) \/ CreateRenewal(r)
         \/ \E x \in People : OpenPersonBg(x) \/ OpenPersonAgreement(x)
  PROVE  Vouching'
<1> DEFINE Opens(row) == /\ row \in Rows /\ row.from = Null
                         /\ row.kind \in HouseholdKinds => row.status \notin Gated
<1>1. ASSUME NEW h \in Households
      PROVE  /\ Opens(NewRow("INITIAL", h, None, "INTAKE"))
             /\ Opens(NewRow("RENEWAL", h, None, "PENDING_RENEWAL"))
  BY DEF NewRow, Rows, Kinds, Statuses, Bases, Gated, Null
<1>2. ASSUME NEW x \in People
      PROVE  /\ Opens(NewRow("PERSON_BG", None, x, "PENDING_BG_REVIEW"))
             /\ Opens(NewRow("PERSON_AGREEMENT", None, x, "PENDING_EXTERNAL_ACTION"))
  BY DEF NewRow, Rows, Kinds, Statuses, Bases, HouseholdKinds, Null
<1>3. ASSUME NEW r \in Requests, CreateIntake(r) \/ CreateRenewal(r) PROVE Vouching'
  <2>1. NoStatusCarried /\ UNCHANGED volunteer
    BY <1>3, FinishedCarries DEF CreateIntake, CreateRenewal
  <2>2. calls[r].home \in Households
    BY <1>3 DEF CreateIntake, CreateRenewal, IInv, CallsOK, CallOK, HomeOps
  <2>3. CASE UNCHANGED proc
    BY <2>1, <2>3, VouchIdle DEF NoStatusCarried
  <2>4. CASE ~UNCHANGED proc
    BY <1>1, <1>3, <2>1, <2>2, <2>4, VouchInserted DEF CreateIntake, CreateRenewal
  <2>5. QED
    BY <2>3, <2>4
<1>4. ASSUME NEW x \in People, OpenPersonBg(x) \/ OpenPersonAgreement(x) PROVE Vouching'
  <2>1. NoStatusCarried /\ UNCHANGED volunteer
    BY <1>4 DEF OpenPersonBg, OpenPersonAgreement, NoStatusCarried
  <2>2. QED
    BY <1>2, <1>4, <2>1, VouchInserted DEF OpenPersonBg, OpenPersonAgreement
<1>5. QED
  BY <1>3, <1>4

\* Writes on a request's row: a submission, a reset, a restore, an override and
\* an archive.  A reset may drop a clearance: the row it drops it from is blocked
\* or in review, and either has consented.
LEMMA VouchRequests ==
  ASSUME IInv, Vouching, NEW r \in Requests,
         RecordSubmission(r) \/ Reset(r) \/ Unarchive(r) \/ Override(r) \/ Archive(r)
  PROVE  Vouching'
<1> DEFINE p == calls[r].row
<1>1. p \in Processes /\ proc[p] \in Rows /\ WellFormed(proc[p]) /\ calls[r] \in CallRecords
  BY DEF RecordSubmission, Reset, Unarchive, Override, Archive, IInv, CallsOK, CallOK,
     RowOps, RowsOK, RowOK
<1>2. /\ proc[p].consent \in BOOLEAN /\ proc[p].cleared \in BOOLEAN
      /\ Vouched(proc[p], proc[p].status, volunteer)
      /\ Vouched(proc[p], proc[p].from, volunteer)
  BY <1>1 DEF Rows, Vouching
<1>3. ASSUME UNCHANGED <<proc, volunteer>>, NoStatusCarried PROVE Vouching'
  BY <1>3, VouchIdle DEF NoStatusCarried
<1>4. CASE RecordSubmission(r)
  <2> DEFINE fresh == [proc[p] EXCEPT !.status = "PENDING_EXTERNAL_ACTION",
                                      !.cleared = TRUE, !.basis = "prior"]
             stale == [proc[p] EXCEPT !.status = "PENDING_EXTERNAL_ACTION"]
  <2>1. OnRow("advance", p).op = "advance"
    BY DEF OnRow, Idle
  <2>2. NoStatusCarried
    BY <1>4, <2>1, FinishedCarries, NothingCarried DEF RecordSubmission
  <2>3. ASSUME NEW row \in {fresh, stale}
        PROVE  /\ row \in Rows /\ Keeps(proc[p], row) /\ row.from = proc[p].from
               /\ row.status \notin Gated
    <3>1. CASE row = fresh
      BY <1>1, <3>1 DEF Keeps, Rows, Statuses, Bases, Gated
    <3>2. CASE row = stale
      BY <1>1, <3>2 DEF Keeps, Rows, Statuses, Gated
    <3>3. QED
      BY <3>1, <3>2
  <2>4. \/ UNCHANGED <<proc, volunteer>>
        \/ volunteer \subseteq volunteer' /\ \E row \in {fresh, stale} : Save(p, row)
    BY <1>4 DEF RecordSubmission
  <2>5. QED
    BY <1>1, <1>3, <2>2, <2>3, <2>4, VouchKept
<1>5. CASE Reset(r)
  <2> DEFINE isBlocked == proc[p].status = "BLOCKED"
             row == [proc[p] EXCEPT !.status = IF isBlocked THEN calls[r].status ELSE @,
                                    !.attests = {}, !.cleared = FALSE, !.basis = "none"]
             resets == isBlocked \/ AwaitingBgReview(proc[p])
  <2>1. NoStatusCarried /\ UNCHANGED volunteer
    BY <1>5, FinishedCarries DEF Reset
  <2>2. /\ row.kind = proc[p].kind /\ row.home = proc[p].home
        /\ row.consent = proc[p].consent /\ row.from = proc[p].from /\ row.cleared = FALSE
        /\ row.status = IF isBlocked THEN calls[r].status ELSE proc[p].status
    BY <1>1 DEF Rows
  <2>3. row \in Rows
    <3>1. (IF isBlocked THEN calls[r].status ELSE proc[p].status) \in Statuses \cup {Null}
      BY <1>1 DEF Rows, CallRecords
    <3>2. ASSUME NEW s \in Statuses \cup {Null}
          PROVE  [proc[p] EXCEPT !.status = s, !.attests = {}, !.cleared = FALSE,
                                 !.basis = "none"] \in Rows
      BY <1>1 DEF Rows, Bases
    <3>3. QED
      BY <3>1, <3>2
  <2> HIDE DEF row
  <2>4. CASE resets
    <3>1. Counted(proc[p]) => proc[p].consent
      BY <1>2, <2>4 DEF Vouched, Gated, AwaitingBgReview
    <3>2. Keeps(proc[p], row)
      BY <2>2, <3>1 DEF Keeps
    <3>3. proc[p].status \in Gated
      BY <2>4 DEF Gated, AwaitingBgReview
    <3>4. Vouched(row, row.status, volunteer')
      BY <1>2, <2>1, <2>2, <3>1, <3>3 DEF Vouched, Counted
    <3>5. row.consent \in BOOLEAN /\ row.cleared \in BOOLEAN
      BY <2>3 DEF Rows
    <3>6. Vouched(row, row.from, volunteer')
      BY <1>2, <2>1, <2>2, <3>2, <3>5, KeepsVouched
    <3>7. UNCHANGED proc \/ Save(p, row)
      BY <1>5 DEF Reset, SaveIf, row
    <3>8. QED
      BY <1>1, <1>3, <2>1, <2>3, <3>2, <3>4, <3>6, <3>7, VouchSaved
  <2>5. CASE ~resets
    <3>1. UNCHANGED proc
      BY <1>5, <2>5 DEF Reset, SaveIf
    <3>2. QED
      BY <1>3, <2>1, <3>1
  <2>6. QED
    BY <2>4, <2>5
<1>6. CASE Unarchive(r) \/ Archive(r)
  <2> DEFINE restored == [proc[p] EXCEPT !.status = calls[r].status, !.from = Null]
             archived == [proc[p] EXCEPT !.status = "ARCHIVED", !.from = calls[r].status]
  <2>1. NoStatusCarried /\ UNCHANGED volunteer
    BY <1>6, FinishedCarries DEF Archive, Unarchive
  <2>2. calls[r].op \in {"archive", "unarchive"}
    BY <1>6 DEF Archive, Unarchive
  <2>3. Vouched(proc[p], calls[r].status, volunteer)
    BY <2>2 DEF Vouching
  <2>4. ASSUME NEW row \in {restored, archived}
        PROVE  /\ row \in Rows /\ Keeps(proc[p], row)
               /\ row.consent \in BOOLEAN /\ row.cleared \in BOOLEAN
               /\ row.status \in {calls[r].status, "ARCHIVED"}
               /\ row.from \in {calls[r].status, Null}
    <3>1. proc[p] \in Rows /\ calls[r].status \in Statuses \cup {Null}
      BY <1>1 DEF CallRecords
    <3>2. CASE row = restored
      BY <3>1, <3>2 DEF Keeps, Rows
    <3>3. CASE row = archived
      BY <3>1, <3>3 DEF Keeps, Rows, Statuses
    <3>4. QED
      BY <3>2, <3>3
  <2>5. ASSUME NEW row \in {restored, archived}
        PROVE  Vouched(row, row.status, volunteer') /\ Vouched(row, row.from, volunteer')
    <3>1. Vouched(row, calls[r].status, volunteer')
      BY <1>2, <2>1, <2>3, <2>4, KeepsVouched
    <3>2. Vouched(row, "ARCHIVED", volunteer') /\ Vouched(row, Null, volunteer')
      BY DEF Vouched, Gated, Null
    <3>3. QED
      BY <2>4, <3>1, <3>2
  <2>6. UNCHANGED proc \/ \E row \in {restored, archived} : Save(p, row)
    BY <1>6 DEF Archive, Unarchive, SaveIf
  <2>7. QED
    BY <1>1, <1>3, <2>1, <2>4, <2>5, <2>6, VouchSaved
<1>7. CASE Override(r)
  <2>1. NoStatusCarried
    BY <1>7, FinishedCarries DEF Override
  <2>2. Keeps(proc[p], proc[p]) /\ "board" \in Bases
    BY DEF Keeps, Bases
  <2>3. CASE Clash(p, ClearedRow(proc[p], "board"))
    BY <1>3, <1>7, <2>1, <2>3 DEF Override
  <2>4. CASE ~Clash(p, ClearedRow(proc[p], "board"))
    BY <1>1, <1>7, <2>1, <2>2, <2>4, VouchCleared DEF Override
  <2>5. QED
    BY <2>3, <2>4
<1>8. QED
  BY <1>4, <1>5, <1>6, <1>7

LEMMA VouchMoving ==
  ASSUME IInv, Vouching, NEW p \in Processes,
         \/ Settle(p) \/ PaidWhileBlocked(p) \/ BeginRenewal(p)
         \/ \E v \in People, mark \in Marks :
              Reject(v, p, mark) \/ \E x \in People \cup {None} : Approve(v, p, x, mark)
         \/ \E r \in Requests : StampBgCleared(r, p) \/ ClearHeldRow(r, p)
  PROVE  Vouching'
<1>1. proc[p] \in Rows /\ WellFormed(proc[p])
  BY DEF IInv, RowsOK, RowOK
<1>2. /\ proc[p].consent \in BOOLEAN /\ proc[p].cleared \in BOOLEAN
      /\ Vouched(proc[p], proc[p].status, volunteer)
      /\ Vouched(proc[p], proc[p].from, volunteer)
  BY <1>1 DEF Rows, Vouching
<1>3. NoStatusCarried
  BY DEF NoStatusCarried, Settle, PaidWhileBlocked, BeginRenewal, Reject, Approve,
     StampBgCleared, ClearHeldRow
\* A row within the gate that keeps its consent stays vouched for.
<1>4. ASSUME NEW row \in Rows, Keeps(proc[p], row), row.from = proc[p].from,
             proc[p].status \in Gated,
             Counted(proc[p]) => \/ row.consent
                                 \/ /\ row.cleared
                                    /\ row.status \in {"PENDING_PAYMENT", "PENDING_BG_CLEARANCE",
                                                       "ACTIVE"},
             UNCHANGED volunteer, Save(p, row)
      PROVE  Vouching'
  <2>1. Vouched(row, row.status, volunteer')
    BY <1>2, <1>4 DEF Vouched, Keeps, Counted, Gated
  <2>2. row.consent \in BOOLEAN /\ row.cleared \in BOOLEAN
    BY DEF Rows
  <2>3. Vouched(row, row.from, volunteer')
    BY <1>2, <1>4, <2>2, KeepsVouched
  <2>4. QED
    BY <1>3, <1>4, <2>1, <2>3, VouchSaved
<1>5. CASE Settle(p)
  <2> DEFINE row == [proc[p] EXCEPT !.paid = TRUE, !.status = SettledStatus(proc[p])]
  <2>1. /\ row \in Rows /\ row.from = proc[p].from /\ row.consent = proc[p].consent
        /\ row.cleared = proc[p].cleared /\ row.kind = proc[p].kind
        /\ row.home = proc[p].home
        /\ row.status \in {"ACTIVE", "PENDING_BG_CLEARANCE"}
    BY <1>1 DEF SettledStatus, Rows, Statuses
  <2>2. Keeps(proc[p], row)
    BY <2>1 DEF Keeps
  <2>3. proc[p].status = "PENDING_PAYMENT" /\ Save(p, row) /\ UNCHANGED volunteer
    BY <1>5 DEF Settle
  <2>4. Counted(proc[p]) => row.consent \/ row.cleared
    BY <1>2, <2>1, <2>3 DEF Vouched, Gated
  <2>5. QED
    BY <1>4, <2>1, <2>2, <2>3, <2>4 DEF Gated
<1>6. CASE PaidWhileBlocked(p)
  <2> DEFINE row == [proc[p] EXCEPT !.paid = TRUE]
  <2>1. row \in Rows /\ Keeps(proc[p], row) /\ row.from = proc[p].from
        /\ row.status = proc[p].status
    BY <1>1 DEF Keeps, Rows
  <2>2. QED
    BY <1>3, <1>6, <2>1, VouchKept DEF PaidWhileBlocked
<1>7. CASE BeginRenewal(p)
  <2> DEFINE fresh == [proc[p] EXCEPT !.status = "PENDING_EXTERNAL_ACTION",
                                      !.cleared = TRUE, !.basis = "prior"]
             stale == [proc[p] EXCEPT !.status = "PENDING_EXTERNAL_ACTION"]
  <2>1. ASSUME NEW row \in {fresh, stale}
        PROVE  /\ row \in Rows /\ Keeps(proc[p], row) /\ row.from = proc[p].from
               /\ row.status \notin Gated
    <3>1. CASE row = fresh
      BY <1>1, <3>1 DEF Keeps, Rows, Statuses, Bases, Gated
    <3>2. CASE row = stale
      BY <1>1, <3>2 DEF Keeps, Rows, Statuses, Gated
    <3>3. QED
      BY <3>1, <3>2
  <2>2. UNCHANGED volunteer /\ \E row \in {fresh, stale} : Save(p, row)
    BY <1>7 DEF BeginRenewal
  <2>3. QED
    BY <1>3, <2>1, <2>2, VouchKept
<1>8. ASSUME NEW v \in People, NEW mark \in Marks,
             Reject(v, p, mark) \/ \E x \in People \cup {None} : Approve(v, p, x, mark)
      PROVE  Vouching'
  <2>1. ASSUME NEW x \in People \cup {None}, NEW result \in {"APPROVE", "REJECT"}
        PROVE  LET row == Attested(proc[p], v, x, result, mark) IN
               /\ row \in Rows /\ Keeps(proc[p], row) /\ WellFormed(row)
               /\ row.from = proc[p].from /\ row.status = proc[p].status
               /\ row.consent = proc[p].consent
    <3> DEFINE row == Attested(proc[p], v, x, result, mark)
    <3>1. [reviewer |-> v, subject |-> x, result |-> result, volunteer |-> mark]
            \in Attestations
      BY PopulationAssumption DEF Attestations
    <3>2. /\ row \in Rows /\ row.from = proc[p].from /\ row.status = proc[p].status
          /\ row.consent = proc[p].consent /\ row.cleared = proc[p].cleared
          /\ row.kind = proc[p].kind /\ row.home = proc[p].home
          /\ row.subject = proc[p].subject
      BY <1>1, <3>1 DEF Attested, Rows
    <3>3. proc[p].kind # Null
      BY <1>1, <1>8 DEF Reject, Approve, MayAttest, AwaitingBgReview, WellFormed, FreeRow,
         NewRow, Null
    <3>4. Keeps(proc[p], row) /\ WellFormed(row)
      BY <1>1, <3>2, <3>3 DEF Keeps, WellFormed
    <3>5. QED
      BY <3>2, <3>4
  <2>2. AwaitingBgReview(proc[p]) /\ proc[p].status \in Gated
    BY <1>8 DEF Reject, Approve, MayAttest, AwaitingBgReview, Gated
  <2>3. Counted(proc[p]) => proc[p].consent
    BY <1>2, <2>2 DEF AwaitingBgReview, Vouched
  <2>4. CASE Reject(v, p, mark)
    <3> DEFINE row == Attested(proc[p], v, None, "REJECT", mark)
               blocked == [row EXCEPT !.status = "BLOCKED"]
    <3>1. /\ blocked \in Rows /\ Keeps(proc[p], blocked) /\ blocked.from = proc[p].from
          /\ blocked.consent = proc[p].consent
      BY <2>1 DEF Keeps, Rows, Statuses
    <3>2. QED
      BY <1>4, <2>2, <2>3, <2>4, <3>1 DEF Reject
  <2>5. ASSUME NEW x \in People \cup {None}, Approve(v, p, x, mark) PROVE Vouching'
    <3> DEFINE row == Attested(proc[p], v, x, "APPROVE", mark)
    <3>1. "review" \in Bases
      BY DEF Bases
    <3>2. CASE Two(Approvals(row, x))
      BY <1>3, <2>1, <2>5, <3>1, <3>2, VouchCleared DEF Approve
    <3>3. CASE ~Two(Approvals(row, x))
      BY <1>3, <2>1, <2>5, <3>3, VouchKept DEF Approve
    <3>4. QED
      BY <3>2, <3>3
  <2>6. QED
    BY <1>8, <2>4, <2>5
<1>9. ASSUME NEW r \in Requests, StampBgCleared(r, p) PROVE Vouching'
  <2> DEFINE stamped == [proc[p] EXCEPT !.cleared = TRUE, !.basis = "merge"]
             opened == [stamped EXCEPT !.status = "PENDING_PAYMENT"]
  <2>1. /\ proc[p].status \in {"PENDING_EXTERNAL_ACTION", "PENDING_PAYMENT"}
        /\ volunteer' = volunteer \cup ({proc[p].home} \cap Designated)
        /\ \E row \in {stamped, opened} : Save(p, row)
    BY <1>9 DEF StampBgCleared, MergeCandidate
  <2>2. ASSUME NEW row \in {stamped, opened}
        PROVE  /\ row \in Rows /\ row.from = proc[p].from /\ row.cleared = TRUE
               /\ row.kind = proc[p].kind /\ row.home = proc[p].home
               /\ row.consent = proc[p].consent
               /\ row.status \in {proc[p].status, "PENDING_PAYMENT"}
    BY <1>1 DEF Rows, Statuses, Bases
  <2>3. ASSUME NEW row \in {stamped, opened}
        PROVE  /\ Keeps(proc[p], row)
               /\ Vouched(row, row.status, volunteer') /\ Vouched(row, row.from, volunteer')
    <3>1. Keeps(proc[p], row)
      BY <2>2 DEF Keeps
    <3>2. Vouched(row, row.status, volunteer')
      BY <2>1, <2>2 DEF Vouched, Gated
    <3>3. row.consent \in BOOLEAN /\ row.cleared \in BOOLEAN
      BY <2>2 DEF Rows
    <3>4. volunteer \subseteq volunteer'
      BY <2>1
    <3>5. Vouched(row, row.from, volunteer')
      BY <1>2, <2>2, <3>1, <3>3, <3>4, KeepsVouched
    <3>6. QED
      BY <3>1, <3>2, <3>5
  <2>4. QED
    BY <1>3, <2>1, <2>2, <2>3, VouchSaved
<1>10. ASSUME NEW r \in Requests, ClearHeldRow(r, p) PROVE Vouching'
  <2>1. Keeps(proc[p], proc[p]) /\ "merge" \in Bases
    BY DEF Keeps, Bases
  <2>2. QED
    BY <1>1, <1>3, <1>10, <2>1, VouchCleared DEF ClearHeldRow
<1>11. QED
  BY <1>5, <1>6, <1>7, <1>8, <1>9, <1>10

LEMMA VouchExternal ==
  ASSUME IInv, Vouching, NEW r \in Requests,
         \/ \E p \in Processes : MarkContractSigned(r, p) \/ MarkBgConsent(r, p)
         \/ Advance(r)
  PROVE  Vouching'
<1>1. Idle.op = "idle" /\ \A p : OnRow("advance", p).op = "advance"
  BY DEF OnRow, Idle
<1>2. ASSUME NEW p \in Processes, MarkContractSigned(r, p) \/ MarkBgConsent(r, p)
      PROVE  Vouching'
  <2> DEFINE signed == [proc[p] EXCEPT !.signed = TRUE]
             settled == [proc[p] EXCEPT !.signed = TRUE, !.status = "ACTIVE"]
             consented == [proc[p] EXCEPT !.consent = TRUE]
             outcomes == {signed, settled, consented, proc[p]}
  <2>1. proc[p] \in Rows
    BY DEF IInv, RowsOK
  <2>2. ASSUME NEW row \in outcomes
        PROVE  /\ row \in Rows /\ Keeps(proc[p], row) /\ row.from = proc[p].from
               /\ row.status = proc[p].status \/ row.status \notin Gated
    <3>1. CASE row = settled
      BY <2>1, <3>1 DEF Keeps, Rows, Statuses, Gated
    <3>2. CASE row = signed
      BY <2>1, <3>2 DEF Keeps, Rows
    <3>3. CASE row = consented
      BY <2>1, <3>3 DEF Keeps, Rows
    <3>4. CASE row = proc[p]
      BY <2>1, <3>4 DEF Keeps
    <3>5. QED
      BY <3>1, <3>2, <3>3, <3>4
  <2>3. NoStatusCarried /\ UNCHANGED volunteer
    BY <1>1, <1>2, NothingCarried DEF MarkContractSigned, MarkBgConsent, Suspend, Resume
  <2>4. \E row \in outcomes : Save(p, row)
    BY <1>2 DEF MarkContractSigned, MarkBgConsent
  <2>5. QED
    BY <2>2, <2>3, <2>4, VouchKept
<1>3. CASE Advance(r)
  <2> DEFINE p == calls[r].row
             row == [proc[p] EXCEPT !.status = "PENDING_PAYMENT"]
  <2>1. p \in Processes /\ proc[p] \in Rows
    BY <1>3 DEF Advance, IInv, CallsOK, CallOK, RowOps, RowsOK
  <2>2. NoStatusCarried
    BY <1>3, FinishedCarries DEF Advance
  <2>3. CASE UNCHANGED <<proc, volunteer>>
    BY <2>2, <2>3, VouchIdle DEF NoStatusCarried
  <2>4. CASE ~UNCHANGED <<proc, volunteer>>
    <3>1. /\ GateMet(proc[p]) /\ Save(p, row)
          /\ volunteer' = volunteer \cup ({proc[p].home} \cap Designated)
      BY <1>3, <2>4 DEF Advance
    <3>2. /\ row \in Rows /\ row.from = proc[p].from /\ row.status = "PENDING_PAYMENT"
          /\ row.kind = proc[p].kind /\ row.home = proc[p].home
          /\ row.consent = proc[p].consent /\ row.cleared = proc[p].cleared
      BY <2>1 DEF Rows, Statuses
    <3>3. Keeps(proc[p], row) /\ volunteer \subseteq volunteer'
      BY <3>1, <3>2 DEF Keeps
    <3>4. Vouched(row, row.status, volunteer')
      BY <3>1, <3>2 DEF Vouched, GateMet
    <3>5. /\ proc[p].consent \in BOOLEAN /\ proc[p].cleared \in BOOLEAN
          /\ row.consent \in BOOLEAN /\ row.cleared \in BOOLEAN
      BY <2>1, <3>2 DEF Rows
    <3>6. Vouched(row, row.from, volunteer')
      BY <2>1, <3>2, <3>3, <3>5, KeepsVouched DEF Vouching
    <3>7. QED
      BY <2>1, <2>2, <3>1, <3>2, <3>3, <3>4, <3>6, VouchSaved
  <2>5. QED
    BY <2>3, <2>4
<1>4. QED
  BY <1>2, <1>3

LEMMA InitVouching == Init => Vouching
<1> SUFFICES ASSUME Init PROVE Vouching
  OBVIOUS
<1> DEFINE Sure(row) == \A s : s \in {row.status, row.from} => Vouched(row, s, volunteer)
<1>1. Sure(FreeRow)
  BY DEF FreeRow, NewRow, Vouched, Gated, Null
<1>2. ASSUME NEW h, NEW row \in LegacyRows(h), row.kind \in Inherited PROVE Sure(row)
  <2> DEFINE application == NewRow("INITIAL", h, None, "PENDING_BG_REVIEW")
             inReview == [application EXCEPT !.signed = TRUE, !.consent = TRUE]
             blocked == NewRow("RENEWAL", h, None, "BLOCKED")
             renewal == NewRow("RENEWAL", h, None, "ARCHIVED")
             archived == [renewal EXCEPT !.from = "RENEWAL_PENDING_BG"]
  <2>1. inReview.kind = "INITIAL" /\ inReview.consent = TRUE
    BY DEF NewRow
  <2>2. blocked.kind = "RENEWAL" /\ archived.kind = "RENEWAL"
    BY DEF NewRow
  <2>3. row \in {inReview, blocked, archived}
    BY <1>2 DEF LegacyRows
  <2>4. (row.kind = "INITIAL" /\ row.consent = TRUE) \/ row.kind = "RENEWAL"
    BY <2>1, <2>2, <2>3
  <2>5. QED
    BY <1>2, <2>4 DEF Vouched, Counted
<1>3. \E q, row : /\ Sure(row)
                  /\ \A p \in Processes : proc[p] = IF p = q THEN row ELSE FreeRow
  BY <1>1, <1>2 DEF Init
<1>4. \A p \in Processes : Sure(proc[p])
  BY <1>1, <1>3
<1>5. \A r \in Requests : calls[r].op = "idle"
  BY DEF Init, Idle
<1>6. QED
  BY <1>4, <1>5 DEF Vouching

LEMMA NextVouching == IInv /\ Vouching /\ [Next]_vars => Vouching'
<1> SUFFICES ASSUME IInv, Vouching, [Next]_vars PROVE Vouching'
  OBVIOUS
<1>1. CASE Arrive
  <2>1. ASSUME NEW x \in People, CheckLapses(x) PROVE Vouching'
    BY <2>1, VouchIdle DEF CheckLapses
  <2>2. QED
    BY <1>1, <2>1, ReadingSteps, VouchRead, VouchCapturing, VouchOpening, VouchMoving,
       VouchExternal DEF Arrive
<1>2. ASSUME NEW r \in Requests, Continue(r) PROVE Vouching'
  BY <1>2, ReadingSteps, VouchRead, VouchOpening, VouchRequests, VouchExternal, VouchMoving
     DEF Continue
<1>3. ASSUME NEW r \in Requests, Abandon(r) PROVE Vouching'
  BY <1>3, ReadingSteps, VouchRead
<1>4. CASE WriteStanding \/ UNCHANGED vars
  BY <1>4, StandingAlone, VouchIdle DEF vars
<1>5. QED
  BY <1>1, <1>2, <1>3, <1>4 DEF Next

\* Nobody is asked to pay, held or blocked without a consented or an already
\* satisfied check, however often the board resets, archives and restores: a
\* row the reviewers' queue would never list cannot come about.
THEOREM NoneStranded == Spec => []NobodyIsStranded
<1>1. IInv /\ Vouching => NobodyIsStranded
  <2>1. ASSUME Vouching, NEW p \in Processes, proc[p].status \in Gated, Counted(proc[p])
        PROVE  proc[p].consent \/ proc[p].cleared
    BY <2>1 DEF Vouching, Vouched
  <2>2. QED
    BY <2>1 DEF NobodyIsStranded, Gated, Counted
<1>2. QED
  BY <1>1, InitVouching, NextVouching, Inductive, PTL DEF Spec

\* A designated household standing at payment already has the flag, whichever
\* way it came there: the advance, a clearance, a merge, a reset or a restore.
THEOREM AllowlistFirst == Spec => []DuesFollowTheAllowlist
<1>1. IInv /\ Vouching => DuesFollowTheAllowlist
  <2> SUFFICES ASSUME IInv, Vouching, NEW p \in Processes,
                      proc[p].status = "PENDING_PAYMENT", proc[p].kind \notin Inherited,
                      proc[p].home \in Designated
               PROVE  proc[p].home \in volunteer
    BY DEF DuesFollowTheAllowlist
  <2>1. WellFormed(proc[p]) /\ proc[p] \in Rows
    BY DEF IInv, RowsOK, RowOK
  <2>2. proc[p].home # None
    BY PopulationAssumption
  <2>3. proc[p].kind \in HouseholdKinds
    BY <2>1, <2>2 DEF WellFormed, FreeRow, NewRow, Rows, Null
  <2>4. QED
    BY <2>3 DEF Vouching, Vouched, Gated
<1>2. QED
  BY <1>1, InitVouching, NextVouching, Inductive, PTL DEF Spec

-----------------------------------------------------------------------------
(* What a person owes.                                                     *)
(*                                                                         *)
(* A check is open, done or archived, and nothing but an open status is    *)
(* captured of it or carried to it by a request.  So a row that exists     *)
(* comes to owe something only out of the archive, however stale the write *)
(* (NobodyOwesMore), and a row that is opened finds nothing owed.          *)

\* The statuses a check is open in.
Outstanding == {"PENDING_BG_REVIEW", "BLOCKED"}

CheckStands(row) ==
  row.kind = "PERSON_BG" =>
    /\ row.status \in Outstanding \cup {"ACTIVE", "ARCHIVED"}
    /\ row.from \in Outstanding \cup {Null}

CheckCarried(call, rows) ==
  /\ call.op \in {"archive", "unarchive", "reset"}
  /\ rows[call.row].kind = "PERSON_BG"
  => call.status \in Outstanding

Checks ==
  /\ \A p \in Processes : CheckStands(proc[p])
  /\ \A r \in Requests : CheckCarried(calls[r], proc)

\* What is owed after a write was owed before it, or had been archived.
OwesNoMore(old, new) == Owed(new) => Owed(old) \/ old.status = "ARCHIVED"

NobodyOwesMore == \A p \in Processes : OwesNoMore(proc[p], proc'[p])

\* A write to a row that keeps to both.
Proceeds(old, new) ==
  new.kind = old.kind /\ CheckStands(new) /\ OwesNoMore(old, new)

LEMMA HouseholdProceeds ==
  ASSUME NEW old, NEW new, new.kind = old.kind,
         new.kind \notin {"PERSON_BG", "PERSON_AGREEMENT"}
  PROVE  Proceeds(old, new)
  BY DEF Proceeds, CheckStands, OwesNoMore, Owed, PersonBgOpen

\* A row that stays where it is, or is done.
LEMMA RestProceeds ==
  ASSUME NEW old, NEW new, CheckStands(old), new.kind = old.kind, new.from = old.from,
         new.status \in {old.status, "ACTIVE"}
  PROVE  Proceeds(old, new)
  BY DEF Proceeds, CheckStands, OwesNoMore, Owed, PersonBgOpen

\* A check that is open stays open.
LEMMA OpenProceeds ==
  ASSUME NEW old, NEW new, CheckStands(old), new.kind = old.kind, new.from = old.from,
         old.kind = "PERSON_BG", old.status \in Outstanding, new.status \in Outstanding
  PROVE  Proceeds(old, new)
  BY DEF Proceeds, CheckStands, OwesNoMore, Owed, PersonBgOpen, Outstanding

\* A clearance ends what a person owes.
LEMMA ClearedProceeds ==
  ASSUME NEW old, NEW row \in Rows, NEW basis, CheckStands(old), RowOK(row),
         row.kind = old.kind, row.from = old.from
  PROVE  Proceeds(old, ClearedRow(row, basis))
<1> DEFINE new == ClearedRow(row, basis)
<1>1. new.kind = old.kind /\ new.from = old.from /\ new.status = ClearedStatus(row)
  BY DEF ClearedRow, Rows
<1>2. CASE row.kind \in {"PERSON_BG", "PERSON_AGREEMENT"}
  <2>1. row.subject # None
    BY <1>2, PopulationAssumption DEF RowOK, WellFormed, Kinds, HouseholdKinds
  <2>2. new.status = "ACTIVE"
    BY <1>1, <2>1 DEF ClearedStatus
  <2>3. QED
    BY <1>1, <2>2, RestProceeds
<1>3. CASE row.kind \notin {"PERSON_BG", "PERSON_AGREEMENT"}
  BY <1>1, <1>3, HouseholdProceeds
<1>4. QED
  BY <1>2, <1>3

LEMMA ChecksSaved ==
  ASSUME IInv, Checks, NEW p \in Processes, NEW row, CheckStands(row),
         proc[p].kind # Null => row.kind = proc[p].kind,
         Save(p, row), NoStatusCarried
  PROVE  Checks'
<1>1. \A q \in Processes : proc'[q] = IF q = p THEN row ELSE proc[q]
  BY DEF Save, IInv, RowsOK
<1>2. ASSUME NEW r \in Requests PROVE CheckCarried(calls'[r], proc')
  <2>1. CheckCarried(calls[r], proc) /\ CallOK(calls[r], proc)
    BY DEF Checks, IInv, CallsOK
  <2>2. CheckCarried(calls[r], proc')
    BY <1>1, <2>1 DEF CheckCarried, CallOK, RowOps
  <2>3. QED
    BY <2>2 DEF NoStatusCarried, CheckCarried
<1>3. QED
  BY <1>1, <1>2 DEF Checks

LEMMA ProceedsSaved ==
  ASSUME IInv, Checks, NEW p \in Processes, NEW row, Proceeds(proc[p], row),
         Save(p, row), NoStatusCarried
  PROVE  Checks' /\ NobodyOwesMore
<1>1. \A q \in Processes : proc'[q] = IF q = p THEN row ELSE proc[q]
  BY DEF Save, IInv, RowsOK
<1>2. NobodyOwesMore
  BY <1>1 DEF NobodyOwesMore, OwesNoMore, Proceeds
<1>3. QED
  BY <1>2, ChecksSaved DEF Proceeds

LEMMA ChecksUntouched ==
  ASSUME Checks, UNCHANGED proc,
         \A r \in Requests : calls'[r] = calls[r] \/ CheckCarried(calls'[r], proc)
  PROVE  Checks' /\ NobodyOwesMore
  BY DEF Checks, NobodyOwesMore, OwesNoMore

LEMMA ChecksIdle ==
  ASSUME Checks, UNCHANGED proc, NoStatusCarried
  PROVE  Checks' /\ NobodyOwesMore
  BY ChecksUntouched DEF NoStatusCarried, CheckCarried

LEMMA ChecksSuspended ==
  ASSUME IInv, Checks, NEW r \in Requests, NEW call, CheckCarried(call, proc),
         Resume(r, call), UNCHANGED proc
  PROVE  Checks' /\ NobodyOwesMore
  BY ResumedCalls, ChecksUntouched

\* A handler that only reads.
LEMMA ChecksRead ==
  ASSUME IInv, Checks, NEW r \in Requests, OnlyReads(r)
  PROVE  Checks' /\ NobodyOwesMore
  BY ChecksSuspended DEF OnlyReads, CheckCarried

\* What a request takes along of a check is an open status.
LEMMA ChecksCaptured ==
  ASSUME IInv, Checks, NEW r \in Requests, NEW p \in Processes,
         RequestArchive(r, p) \/ RequestUnarchive(r, p) \/ RequestReset(r, p)
  PROVE  Checks' /\ NobodyOwesMore
<1>1. proc[p] \in Rows /\ CheckStands(proc[p])
  BY DEF IInv, RowsOK, Checks
<1>2. CASE RequestArchive(r, p)
  <2> DEFINE call == [OnRow("archive", p) EXCEPT !.status = proc[p].status]
  <2>1. call.row = p /\ call.status = proc[p].status
    BY DEF OnRow, Idle
  <2>2. CheckCarried(call, proc)
    BY <1>1, <1>2, <2>1 DEF RequestArchive, CheckCarried, CheckStands
  <2>3. QED
    BY <1>2, <2>2, ChecksSuspended DEF RequestArchive, Suspend, Resume
<1>3. CASE RequestUnarchive(r, p)
  <2> DEFINE call == [OnRow("unarchive", p) EXCEPT !.status = proc[p].from]
  <2>1. call.row = p /\ call.status = proc[p].from
    BY DEF OnRow, Idle
  <2>2. CheckCarried(call, proc)
    BY <1>1, <1>3, <2>1 DEF RequestUnarchive, CheckCarried, CheckStands, Restorable, Statuses,
       Null
  <2>3. QED
    BY <1>3, <2>2, ChecksSuspended DEF RequestUnarchive, Suspend, Resume
<1>4. CASE RequestReset(r, p)
  <2> DEFINE call == [OnRow("reset", p) EXCEPT !.status = BlockedResetStatus(proc[p])]
  <2>1. call.row = p /\ call.status = BlockedResetStatus(proc[p])
    BY DEF OnRow, Idle
  <2>2. proc[p].kind = "PERSON_BG" => BlockedResetStatus(proc[p]) = "PENDING_BG_REVIEW"
    BY DEF BlockedResetStatus
  <2>3. CheckCarried(call, proc)
    BY <2>1, <2>2 DEF CheckCarried, Outstanding
  <2>4. QED
    BY <1>4, <2>3, ChecksSuspended DEF RequestReset, Suspend, Resume
<1>5. QED
  BY <1>2, <1>3, <1>4

\* Payment, renewal, the reviewers and the merge.
LEMMA ChecksMoving ==
  ASSUME IInv, Checks, NEW p \in Processes,
         \/ Settle(p) \/ PaidWhileBlocked(p) \/ BeginRenewal(p)
         \/ \E v \in People, mark \in Marks :
              Reject(v, p, mark) \/ \E x \in People \cup {None} : Approve(v, p, x, mark)
         \/ \E r \in Requests : StampBgCleared(r, p) \/ ClearHeldRow(r, p)
  PROVE  Checks' /\ NobodyOwesMore
<1>1. proc[p] \in Rows /\ RowOK(proc[p]) /\ CheckStands(proc[p])
  BY DEF IInv, RowsOK, RowOK, Checks
<1>2. NoStatusCarried
  BY DEF NoStatusCarried, Settle, PaidWhileBlocked, BeginRenewal, Reject, Approve,
     StampBgCleared, ClearHeldRow
<1>3. ASSUME NEW row, Proceeds(proc[p], row), Save(p, row) PROVE Checks' /\ NobodyOwesMore
  BY <1>2, <1>3, ProceedsSaved
<1>4. ASSUME NEW row, row.kind = proc[p].kind, Save(p, row), IsHousehold(proc[p])
      PROVE  Checks' /\ NobodyOwesMore
  BY <1>3, <1>4, HouseholdProceeds DEF IsHousehold, HouseholdKinds
<1>5. CASE Settle(p) \/ PaidWhileBlocked(p)
  <2> DEFINE settled == [proc[p] EXCEPT !.paid = TRUE, !.status = SettledStatus(proc[p])]
             kept == [proc[p] EXCEPT !.paid = TRUE]
  <2>1. settled.kind = proc[p].kind /\ kept.kind = proc[p].kind
    BY <1>1 DEF Rows
  <2>2. IsHousehold(proc[p]) /\ (Save(p, settled) \/ Save(p, kept))
    BY <1>5 DEF Settle, PaidWhileBlocked
  <2>3. QED
    BY <1>4, <2>1, <2>2
<1>6. CASE BeginRenewal(p)
  <2> DEFINE fresh == [proc[p] EXCEPT !.status = "PENDING_EXTERNAL_ACTION",
                                      !.cleared = TRUE, !.basis = "prior"]
             stale == [proc[p] EXCEPT !.status = "PENDING_EXTERNAL_ACTION"]
  <2>1. fresh.kind = proc[p].kind /\ stale.kind = proc[p].kind
    BY <1>1 DEF Rows
  <2>2. IsHousehold(proc[p])
    BY <1>1, <1>6 DEF BeginRenewal, CheckStands, Outstanding, RowOK, WellFormed, FreeRow,
       NewRow, Rows, Kinds, IsHousehold, HouseholdKinds, Null
  <2>3. Save(p, fresh) \/ Save(p, stale)
    BY <1>6 DEF BeginRenewal
  <2>4. QED
    BY <1>4, <2>1, <2>2, <2>3
<1>7. ASSUME NEW v \in People, NEW mark \in Marks,
             Reject(v, p, mark) \/ \E x \in People \cup {None} : Approve(v, p, x, mark)
      PROVE  Checks' /\ NobodyOwesMore
  <2>1. proc[p].kind # "PERSON_AGREEMENT" /\ proc[p].kind # Null
    BY <1>1, <1>7 DEF Reject, Approve, MayAttest, AwaitingBgReview, RowOK, WellFormed,
       FreeRow, NewRow, Null
  <2>2. proc[p].kind = "PERSON_BG" => proc[p].status \in Outstanding
    BY <1>1, <1>7 DEF Reject, Approve, MayAttest, AwaitingBgReview, CheckStands
  <2>3. ASSUME NEW x \in People \cup {None}, NEW result \in {"APPROVE", "REJECT"}
        PROVE  LET row == Attested(proc[p], v, x, result, mark) IN
               /\ row \in Rows /\ RowOK(row) /\ row.kind = proc[p].kind
               /\ row.from = proc[p].from /\ row.status = proc[p].status
    <3> DEFINE attest == [reviewer |-> v, subject |-> x, result |-> result, volunteer |-> mark]
               row == Attested(proc[p], v, x, result, mark)
    <3>1. attest \in Attestations
      BY PopulationAssumption DEF Attestations
    <3>2. row \in Rows /\ row.kind = proc[p].kind /\ row.from = proc[p].from
          /\ row.status = proc[p].status
      BY <1>1, <3>1 DEF Attested, Rows
    <3>3. RowOK(row)
      BY <1>1, <2>1, <3>1, <3>2 DEF Attested, RowOK, WellFormed, Earned, Rows
    <3>4. QED
      BY <3>2, <3>3
  <2>4. CASE Reject(v, p, mark)
    <3> DEFINE blocked == [Attested(proc[p], v, None, "REJECT", mark) EXCEPT
                             !.status = "BLOCKED"]
    <3>1. /\ blocked.kind = proc[p].kind /\ blocked.from = proc[p].from
          /\ blocked.status = "BLOCKED"
      BY <2>3 DEF Rows
    <3> HIDE DEF blocked
    <3>2. Proceeds(proc[p], blocked)
      <4>1. CASE proc[p].kind = "PERSON_BG"
        BY <1>1, <2>2, <3>1, <4>1, OpenProceeds DEF Outstanding
      <4>2. CASE proc[p].kind # "PERSON_BG"
        BY <2>1, <3>1, <4>2, HouseholdProceeds
      <4>3. QED
        BY <4>1, <4>2
    <3>3. Save(p, blocked)
      BY <2>4 DEF Reject, blocked
    <3>4. QED
      BY <1>3, <3>2, <3>3
  <2>5. ASSUME NEW x \in People \cup {None}, Approve(v, p, x, mark)
        PROVE  Checks' /\ NobodyOwesMore
    <3> DEFINE row == Attested(proc[p], v, x, "APPROVE", mark)
    <3>1. Proceeds(proc[p], row)
      BY <1>1, <2>3, RestProceeds
    <3>2. Proceeds(proc[p], ClearedRow(row, "review"))
      BY <1>1, <2>3, ClearedProceeds
    <3>3. Save(p, row) \/ Save(p, ClearedRow(row, "review"))
      BY <2>5 DEF Approve, ClearBackgroundCheck
    <3>4. QED
      BY <1>3, <3>1, <3>2, <3>3
  <2>6. QED
    BY <1>7, <2>4, <2>5
<1>8. ASSUME NEW r \in Requests, StampBgCleared(r, p) PROVE Checks' /\ NobodyOwesMore
  <2> DEFINE stamped == [proc[p] EXCEPT !.cleared = TRUE, !.basis = "merge"]
             opened == [stamped EXCEPT !.status = "PENDING_PAYMENT"]
  <2>1. stamped.kind = proc[p].kind /\ opened.kind = proc[p].kind
    BY <1>1 DEF Rows
  <2>2. IsHousehold(proc[p]) /\ (Save(p, stamped) \/ Save(p, opened))
    BY <1>8 DEF StampBgCleared, MergeCandidate
  <2>3. QED
    BY <1>4, <2>1, <2>2
<1>9. ASSUME NEW r \in Requests, ClearHeldRow(r, p) PROVE Checks' /\ NobodyOwesMore
  <2>1. Proceeds(proc[p], ClearedRow(proc[p], "merge"))
    BY <1>1, ClearedProceeds
  <2>2. QED
    BY <1>3, <1>9, <2>1 DEF ClearHeldRow, ClearBackgroundCheck
<1>10. QED
  BY <1>5, <1>6, <1>7, <1>8, <1>9

\* The contract, the consent and the advance.
LEMMA ChecksExternal ==
  ASSUME IInv, Checks, NEW r \in Requests,
         \/ \E p \in Processes : MarkContractSigned(r, p) \/ MarkBgConsent(r, p)
         \/ Advance(r)
  PROVE  Checks' /\ NobodyOwesMore
<1>1. Idle.op = "idle" /\ \A p : OnRow("advance", p).op = "advance"
  BY DEF OnRow, Idle
<1>2. ASSUME NEW p \in Processes, MarkContractSigned(r, p) \/ MarkBgConsent(r, p)
      PROVE  Checks' /\ NobodyOwesMore
  <2> DEFINE signed == [proc[p] EXCEPT !.signed = TRUE]
             settled == [proc[p] EXCEPT !.signed = TRUE, !.status = "ACTIVE"]
             consented == [proc[p] EXCEPT !.consent = TRUE]
  <2>1. proc[p] \in Rows /\ CheckStands(proc[p])
    BY DEF IInv, RowsOK, Checks
  <2>2. ASSUME NEW row \in {signed, settled, consented, proc[p]}
        PROVE  Proceeds(proc[p], row)
    <3>1. /\ row.kind = proc[p].kind /\ row.from = proc[p].from
          /\ row.status \in {proc[p].status, "ACTIVE"}
      BY <2>1 DEF Rows
    <3>2. QED
      BY <2>1, <3>1, RestProceeds
  <2>3. NoStatusCarried
    BY <1>1, <1>2, NothingCarried DEF MarkContractSigned, MarkBgConsent, Suspend, Resume
  <2>4. Save(p, signed) \/ Save(p, settled) \/ Save(p, consented) \/ Save(p, proc[p])
    BY <1>2 DEF MarkContractSigned, MarkBgConsent
  <2>5. QED
    BY <2>2, <2>3, <2>4, ProceedsSaved
<1>3. CASE Advance(r)
  <2> DEFINE p == calls[r].row
             row == [proc[p] EXCEPT !.status = "PENDING_PAYMENT"]
  <2>1. p \in Processes /\ proc[p] \in Rows
    BY <1>3 DEF Advance, IInv, CallsOK, CallOK, RowOps, RowsOK
  <2>2. NoStatusCarried
    BY <1>3, FinishedCarries DEF Advance
  <2>3. row.kind = proc[p].kind
    BY <2>1 DEF Rows
  <2>4. UNCHANGED proc \/ (IsHousehold(proc[p]) /\ Save(p, row))
    BY <1>3 DEF Advance
  <2>5. IsHousehold(proc[p]) => Proceeds(proc[p], row)
    BY <2>3, HouseholdProceeds DEF IsHousehold, HouseholdKinds
  <2>6. QED
    BY <2>1, <2>2, <2>4, <2>5, ChecksIdle, ProceedsSaved
<1>4. QED
  BY <1>2, <1>3

\* The second halves, which write what was read before.
LEMMA ChecksResumed ==
  ASSUME IInv, Checks, NEW r \in Requests,
         RecordSubmission(r) \/ Reset(r) \/ Archive(r) \/ Unarchive(r) \/ Override(r)
  PROVE  Checks' /\ NobodyOwesMore
<1> DEFINE p == calls[r].row
<1>1. p \in Processes /\ proc[p] \in Rows /\ RowOK(proc[p]) /\ CheckStands(proc[p])
  BY DEF RecordSubmission, Reset, Archive, Unarchive, Override, IInv, CallsOK, CallOK, RowOps,
     RowsOK, Checks
<1>2. CheckCarried(calls[r], proc) /\ CallOK(calls[r], proc)
  BY DEF Checks, IInv, CallsOK
<1>3. proc[p].kind = "PERSON_AGREEMENT" =>
        proc[p].status \in {"PENDING_EXTERNAL_ACTION", "ACTIVE", "ARCHIVED"}
  BY <1>1 DEF RowOK
<1>4. CASE RecordSubmission(r)
  <2> DEFINE row == IF calls[r].fresh
                    THEN [proc[p] EXCEPT !.status = "PENDING_EXTERNAL_ACTION",
                                         !.cleared = TRUE, !.basis = "prior"]
                    ELSE [proc[p] EXCEPT !.status = "PENDING_EXTERNAL_ACTION"]
  <2>1. OnRow("advance", p).op = "advance"
    BY DEF OnRow, Idle
  <2>2. NoStatusCarried
    BY <1>4, <2>1, FinishedCarries, NothingCarried DEF RecordSubmission
  <2>3. row.kind = proc[p].kind
    BY <1>1 DEF Rows
  <2>4. proc[p].kind = "INITIAL"
    BY <1>2, <1>4 DEF RecordSubmission, CallOK
  <2>5. Proceeds(proc[p], row)
    BY <2>3, <2>4, HouseholdProceeds
  <2>6. UNCHANGED proc \/ Save(p, row)
    BY <1>4 DEF RecordSubmission
  <2>7. QED
    BY <1>1, <2>2, <2>5, <2>6, ChecksIdle, ProceedsSaved
<1>5. CASE Reset(r)
  <2> DEFINE isBlocked == proc[p].status = "BLOCKED"
             reopens == isBlocked \/ AwaitingBgReview(proc[p])
             to == IF isBlocked THEN calls[r].status ELSE proc[p].status
             row == [proc[p] EXCEPT !.status = IF isBlocked THEN calls[r].status ELSE @,
                                    !.attests = {}, !.cleared = FALSE, !.basis = "none"]
  <2>1. NoStatusCarried
    BY <1>5, FinishedCarries DEF Reset
  <2>2. UNCHANGED proc \/ (reopens /\ Save(p, row))
    BY <1>5 DEF Reset, SaveIf
  <2>3. row.kind = proc[p].kind /\ row.from = proc[p].from /\ row.status = to
    BY <1>1 DEF Rows
  <2> HIDE DEF row
  <2>4. proc[p].kind # "PERSON_BG" /\ reopens => Proceeds(proc[p], row)
    BY <1>3, <2>3, HouseholdProceeds DEF AwaitingBgReview
  <2>5. proc[p].kind = "PERSON_BG" /\ reopens => Proceeds(proc[p], row)
    <3> SUFFICES ASSUME proc[p].kind = "PERSON_BG", reopens PROVE Proceeds(proc[p], row)
      OBVIOUS
    <3>1. proc[p].status \in Outstanding
      BY <1>1 DEF AwaitingBgReview, CheckStands, Outstanding
    <3>2. to \in Outstanding
      BY <1>2, <1>5, <3>1 DEF Reset, CheckCarried
    <3>3. QED
      BY <1>1, <2>3, <3>1, <3>2, OpenProceeds
  <2>6. QED
    BY <1>1, <2>1, <2>2, <2>4, <2>5, ChecksIdle, ProceedsSaved
<1>6. CASE Archive(r)
  <2> DEFINE row == [proc[p] EXCEPT !.status = "ARCHIVED", !.from = calls[r].status]
  <2>1. NoStatusCarried /\ Save(p, row)
    BY <1>6, FinishedCarries DEF Archive
  <2>2. row.kind = proc[p].kind /\ row.status = "ARCHIVED" /\ row.from = calls[r].status
    BY <1>1 DEF Rows
  <2>3. Proceeds(proc[p], row)
    BY <1>2, <1>6, <2>2 DEF Archive, Proceeds, CheckCarried, CheckStands, OwesNoMore, Owed,
       PersonBgOpen
  <2>4. QED
    BY <1>1, <2>1, <2>3, ProceedsSaved
<1>7. CASE Unarchive(r)
  <2> DEFINE row == [proc[p] EXCEPT !.status = calls[r].status, !.from = Null]
  <2>1. NoStatusCarried
    BY <1>7, FinishedCarries DEF Unarchive
  <2>2. UNCHANGED proc \/ (proc[p].status = "ARCHIVED" /\ Save(p, row))
    BY <1>7 DEF Unarchive, SaveIf
  <2>3. row.kind = proc[p].kind /\ row.status = calls[r].status /\ row.from = Null
    BY <1>1 DEF Rows
  <2>4. proc[p].status = "ARCHIVED" => Proceeds(proc[p], row)
    BY <1>2, <1>7, <2>3 DEF Unarchive, Proceeds, CheckCarried, CheckStands, OwesNoMore
  <2>5. QED
    BY <1>1, <2>1, <2>2, <2>4, ChecksIdle, ProceedsSaved
<1>8. CASE Override(r)
  <2>1. NoStatusCarried
    BY <1>8, FinishedCarries DEF Override
  <2>2. Proceeds(proc[p], ClearedRow(proc[p], "board"))
    BY <1>1, ClearedProceeds
  <2>3. UNCHANGED proc \/ Save(p, ClearedRow(proc[p], "board"))
    BY <1>8 DEF Override, ClearBackgroundCheck
  <2>4. QED
    BY <1>1, <2>1, <2>2, <2>3, ChecksIdle, ProceedsSaved
<1>9. QED
  BY <1>4, <1>5, <1>6, <1>7, <1>8

\* A household's row is no person's.
LEMMA ChecksHousehold ==
  ASSUME IInv, Checks, NEW r \in Requests, CreateIntake(r) \/ CreateRenewal(r)
  PROVE  Checks' /\ NobodyOwesMore
<1>1. NoStatusCarried
  BY FinishedCarries DEF CreateIntake, CreateRenewal
<1>2. ASSUME NEW row, row.kind \in HouseholdKinds, Insert(row)
      PROVE  Checks' /\ NobodyOwesMore
  <2>1. PICK p \in Processes : proc[p].kind = Null /\ Save(p, row)
    BY <1>2 DEF Insert, Exists
  <2>2. CheckStands(row) /\ ~Owed(row)
    BY <1>2 DEF CheckStands, Owed, PersonBgOpen, HouseholdKinds
  <2>3. \A q \in Processes : proc'[q] = IF q = p THEN row ELSE proc[q]
    BY <2>1 DEF Save, IInv, RowsOK
  <2>4. NobodyOwesMore
    BY <2>2, <2>3 DEF NobodyOwesMore, OwesNoMore
  <2>5. QED
    BY <1>1, <2>1, <2>2, <2>4, ChecksSaved
<1>3. ASSUME NEW h
      PROVE  /\ NewRow("INITIAL", h, None, "INTAKE").kind \in HouseholdKinds
             /\ NewRow("RENEWAL", h, None, "PENDING_RENEWAL").kind \in HouseholdKinds
  BY DEF NewRow, HouseholdKinds
<1>4. QED
  BY <1>1, <1>2, <1>3, ChecksIdle DEF CreateIntake, CreateRenewal

\* OnlyARestoreDoubles, of one step.
Doubling ==
  \A p, q \in Processes :
    /\ p # q
    /\ Owed(proc'[p]) /\ Owed(proc'[q])
    /\ proc'[p].kind = proc'[q].kind /\ proc'[p].subject = proc'[q].subject
    => \/ Owed(proc[p]) /\ Owed(proc[q])
       \/ "ARCHIVED" \in {proc[p].status, proc[q].status}

\* What is opened for a person was not owed.
LEMMA ChecksOpened ==
  ASSUME IInv, Checks, NEW x \in People, OpenPersonBg(x) \/ OpenPersonAgreement(x)
  PROVE  Checks' /\ Doubling
<1>1. NoStatusCarried
  BY DEF OpenPersonBg, OpenPersonAgreement, NoStatusCarried
<1>2. ASSUME NEW row, Insert(row), CheckStands(row), row.subject = x,
             \A q \in Processes :
               proc[q].kind = row.kind /\ proc[q].subject = x => ~Owed(proc[q])
      PROVE  Checks' /\ Doubling
  <2>1. PICK p \in Processes : proc[p].kind = Null /\ Save(p, row)
    BY <1>2 DEF Insert, Exists
  <2>2. \A q \in Processes : proc'[q] = IF q = p THEN row ELSE proc[q]
    BY <2>1 DEF Save, IInv, RowsOK
  <2>3. Doubling
    BY <1>2, <2>2 DEF Doubling
  <2>4. QED
    BY <1>1, <1>2, <2>1, <2>3, ChecksSaved
<1>3. CASE OpenPersonBg(x)
  <2> DEFINE row == NewRow("PERSON_BG", None, x, "PENDING_BG_REVIEW")
  <2>1. CheckStands(row) /\ row.subject = x /\ row.kind = "PERSON_BG"
    BY DEF CheckStands, NewRow, Outstanding
  <2>2. \A q \in Processes :
          proc[q].kind = "PERSON_BG" /\ proc[q].subject = x => ~Owed(proc[q])
    BY <1>3 DEF OpenPersonBg, Owed
  <2>3. Insert(row)
    BY <1>3 DEF OpenPersonBg
  <2>4. QED
    BY <1>2, <2>1, <2>2, <2>3
<1>4. CASE OpenPersonAgreement(x)
  <2> DEFINE row == NewRow("PERSON_AGREEMENT", None, x, "PENDING_EXTERNAL_ACTION")
  <2>1. CheckStands(row) /\ row.subject = x /\ row.kind = "PERSON_AGREEMENT"
    BY DEF CheckStands, NewRow
  <2>2. \A q \in Processes :
          proc[q].kind = "PERSON_AGREEMENT" /\ proc[q].subject = x => ~Owed(proc[q])
    BY <1>4 DEF OpenPersonAgreement, Owed, PersonBgOpen
  <2>3. Insert(row)
    BY <1>4 DEF OpenPersonAgreement
  <2>4. QED
    BY <1>2, <2>1, <2>2, <2>3
<1>5. QED
  BY <1>3, <1>4

LEMMA InitChecks == Init => Checks
<1> SUFFICES ASSUME Init PROVE Checks
  OBVIOUS
<1>1. CheckStands(FreeRow) /\ Idle.op = "idle"
  BY DEF CheckStands, FreeRow, NewRow, Null, Idle
<1>2. ASSUME NEW h, NEW row \in LegacyRows(h) PROVE CheckStands(row)
  <2> DEFINE application == NewRow("INITIAL", h, None, "PENDING_BG_REVIEW")
             inReview == [application EXCEPT !.signed = TRUE, !.consent = TRUE]
             blocked == NewRow("RENEWAL", h, None, "BLOCKED")
             renewal == NewRow("RENEWAL", h, None, "ARCHIVED")
             archived == [renewal EXCEPT !.from = "RENEWAL_PENDING_BG"]
  <2>1. row \in {inReview, blocked, archived}
    BY <1>2 DEF LegacyRows
  <2>2. CheckStands(inReview)
    BY DEF NewRow, CheckStands
  <2>3. CheckStands(blocked)
    BY DEF NewRow, CheckStands
  <2>4. CheckStands(archived)
    BY DEF NewRow, CheckStands
  <2>5. QED
    BY <2>1, <2>2, <2>3, <2>4
<1>3. \E q, row : /\ CheckStands(row)
                  /\ \A p \in Processes : proc[p] = IF p = q THEN row ELSE FreeRow
  BY <1>1, <1>2 DEF Init
<1>4. QED
  BY <1>1, <1>3 DEF Checks, CheckCarried, Init

LEMMA NextChecks == IInv /\ Checks /\ [Next]_vars => Checks' /\ Doubling
<1> SUFFICES ASSUME IInv, Checks, [Next]_vars PROVE Checks' /\ Doubling
  OBVIOUS
<1>1. ASSUME NobodyOwesMore PROVE Doubling
  BY <1>1 DEF NobodyOwesMore, OwesNoMore, Doubling
<1>2. CASE Arrive
  <2>1. ASSUME NEW x \in People, CheckLapses(x) PROVE Checks' /\ NobodyOwesMore
    BY <2>1, ChecksUntouched DEF CheckLapses
  <2>2. QED
    BY <1>1, <1>2, <2>1, ReadingSteps, ChecksRead, ChecksCaptured, ChecksOpened,
       ChecksMoving, ChecksExternal DEF Arrive
<1>3. ASSUME NEW r \in Requests, Continue(r) PROVE Checks' /\ Doubling
  BY <1>1, <1>3, ChecksHousehold, ChecksResumed, ChecksExternal, ChecksMoving,
     ReadingSteps, ChecksRead DEF Continue
<1>4. ASSUME NEW r \in Requests, Abandon(r) PROVE Checks' /\ Doubling
  BY <1>1, <1>4, ReadingSteps, ChecksRead
<1>5. CASE WriteStanding \/ UNCHANGED vars
  BY <1>1, <1>5, StandingAlone, ChecksUntouched DEF vars
<1>6. QED
  BY <1>2, <1>3, <1>4, <1>5 DEF Next

\* Nobody comes to owe a check, or an agreement, twice but by a restore from the
\* archive: the lock on the Person row sees to what is opened, and no write that
\* comes late reopens what is done.
THEOREM RestoreAloneDoubles == Spec => OnlyARestoreDoubles
<1>1. Doubling <=> OnlyARestoreDoubles!1
  BY DEF Doubling
<1>2. Spec => [](IInv /\ Checks)
  BY InitChecks, NextChecks, InitIInv, NextIInv, PTL DEF Spec
<1>3. QED
  BY <1>1, <1>2, NextChecks, PTL DEF Spec, OnlyARestoreDoubles

-----------------------------------------------------------------------------
(* Nobody waits at a gate that is met.                                     *)
(*                                                                         *)
(* A step leaves the advances under way alone, unless it is one of them or *)
(* a handler dies; and what it makes ready it advances, or is about to.    *)

\* Whose external actions are done.
Ready(row) == IsHousehold(row) /\ GateMet(row)

\* Where the code runs no advance.
Excused(p) ==
  \/ proc[p].status \in {"PENDING_RENEWAL", "ARCHIVED"}
  \/ \E r \in Requests :
       /\ calls[r].op = "reset" /\ calls[r].row = p
       /\ calls[r].status # BlockedResetStatus(proc[p])

\* GateIsAttended, of one row and one step.
Attends(p) == Unattended(p)' /\ ~Unattended(p) => UNCHANGED proc \/ Excused(p)

Attended == \A p \in Processes : Attends(p)

AdvancesStay ==
  \A s \in Requests : calls[s].op = "advance" => calls'[s] = calls[s]

\* What a write makes ready, a handler is about to advance.
Seen(p, row) ==
  Ready(row) => \/ Ready(proc[p])
                \/ Excused(p)
                \/ \E s \in Requests : calls'[s] = OnRow("advance", p)

LEMMA AdvanceRequest ==
  ASSUME NEW p PROVE OnRow("advance", p).op = "advance" /\ OnRow("advance", p).row = p
  BY DEF OnRow, Idle

LEMMA AttendedSaved ==
  ASSUME IInv, NEW p \in Processes, NEW row, Save(p, row), Seen(p, row), AdvancesStay
  PROVE  Attended
<1>1. \A q \in Processes : proc'[q] = IF q = p THEN row ELSE proc[q]
  BY DEF Save, IInv, RowsOK
<1>2. ASSUME NEW q \in Processes, Unattended(q)', ~Unattended(q) PROVE Excused(q)
  <2>1. Ready(proc'[q]) /\ \A s \in Requests : calls'[s] # OnRow("advance", q)
    BY <1>2 DEF Unattended, Ready, IsHousehold, GateMet
  <2>2. \A s \in Requests : calls[s] # OnRow("advance", q)
    BY <2>1, AdvanceRequest DEF AdvancesStay
  <2>3. ~Ready(proc[q])
    BY <1>2, <2>2 DEF Unattended, Ready
  <2>4. q = p
    BY <1>1, <2>1, <2>3
  <2>5. QED
    BY <1>1, <2>1, <2>3, <2>4 DEF Seen
<1>3. QED
  BY <1>2 DEF Attended, Attends

LEMMA AttendedIdle == ASSUME UNCHANGED proc PROVE Attended
  BY DEF Attended, Attends

LEMMA AttendedInserted ==
  ASSUME IInv, NEW row, ~Ready(row), Insert(row), AdvancesStay PROVE Attended
  BY AttendedSaved DEF Insert, Seen

\* A request takes a slot that is free, or follows one that is no advance.
LEMMA AdvancesLeft ==
  ASSUME IInv, NEW r \in Requests, NEW call, Resume(r, call), calls[r].op # "advance"
  PROVE  AdvancesStay
  BY ResumedCalls DEF AdvancesStay

LEMMA ClearedIsNotReady ==
  ASSUME NEW row \in Rows, NEW basis PROVE ~Ready(ClearedRow(row, basis))
<1>1. ClearedRow(row, basis).status = ClearedStatus(row)
  BY DEF ClearedRow, Rows
<1>2. ClearedStatus(row) # "PENDING_EXTERNAL_ACTION"
  BY DEF ClearedStatus
<1>3. QED
  BY <1>1, <1>2 DEF Ready, GateMet

\* The marks go on to the advance.
LEMMA MarksAttended ==
  ASSUME IInv, NEW r \in Requests, NEW p \in Processes,
         MarkContractSigned(r, p) \/ MarkBgConsent(r, p)
  PROVE  Attended
<1>1. proc[p] \in Rows
  BY DEF IInv, RowsOK
<1>2. calls[r] = Idle /\ Idle.op = "idle"
  BY DEF MarkContractSigned, MarkBgConsent, Suspend, Idle
<1>3. AdvancesStay
  BY <1>2, AdvancesLeft DEF MarkContractSigned, MarkBgConsent, Suspend, Resume
<1>4. CASE proc[p].kind = "PERSON_AGREEMENT" /\ MarkContractSigned(r, p)
  <2> DEFINE settled == [proc[p] EXCEPT !.signed = TRUE, !.status = "ACTIVE"]
  <2>1. settled.kind = "PERSON_AGREEMENT"
    BY <1>1, <1>4 DEF Rows
  <2>2. Seen(p, settled) /\ Seen(p, proc[p])
    BY <1>4, <2>1 DEF Seen, Ready, IsHousehold, HouseholdKinds
  <2>3. Save(p, settled) \/ Save(p, proc[p])
    BY <1>4 DEF MarkContractSigned
  <2>4. QED
    BY <1>3, <2>2, <2>3, AttendedSaved
<1>5. CASE ~(proc[p].kind = "PERSON_AGREEMENT" /\ MarkContractSigned(r, p))
  <2>1. Resume(r, OnRow("advance", p))
    BY <1>5 DEF MarkContractSigned, MarkBgConsent, Suspend, Resume
  <2>2. calls'[r] = OnRow("advance", p)
    BY <2>1, ResumedCalls
  <2>3. \E row : Save(p, row)
    BY DEF MarkContractSigned, MarkBgConsent
  <2>4. QED
    BY <1>3, <2>2, <2>3, AttendedSaved DEF Seen
<1>6. QED
  BY <1>4, <1>5

LEMMA MovesAttended ==
  ASSUME IInv, NEW p \in Processes,
         \/ Settle(p) \/ PaidWhileBlocked(p) \/ BeginRenewal(p)
         \/ \E v \in People, mark \in Marks :
              Reject(v, p, mark) \/ \E x \in People \cup {None} : Approve(v, p, x, mark)
         \/ \E r \in Requests : StampBgCleared(r, p) \/ ClearHeldRow(r, p)
  PROVE  Attended
<1>1. proc[p] \in Rows
  BY DEF IInv, RowsOK
<1>2. AdvancesStay
  BY DEF AdvancesStay, Settle, PaidWhileBlocked, BeginRenewal, Reject, Approve,
     StampBgCleared, ClearHeldRow
<1>3. ASSUME NEW row, Seen(p, row), Save(p, row) PROVE Attended
  BY <1>2, <1>3, AttendedSaved
<1>4. CASE Settle(p)
  <2> DEFINE row == [proc[p] EXCEPT !.paid = TRUE, !.status = SettledStatus(proc[p])]
  <2>1. row.status # "PENDING_EXTERNAL_ACTION"
    BY <1>1 DEF SettledStatus, Rows
  <2>2. QED
    BY <1>3, <1>4, <2>1 DEF Settle, Seen, Ready, GateMet
<1>5. CASE PaidWhileBlocked(p)
  <2> DEFINE row == [proc[p] EXCEPT !.paid = TRUE]
  <2>1. row.status = "BLOCKED"
    BY <1>1, <1>5 DEF PaidWhileBlocked, Rows
  <2>2. QED
    BY <1>3, <1>5, <2>1 DEF PaidWhileBlocked, Seen, Ready, GateMet
<1>6. CASE BeginRenewal(p)
  <2>1. Excused(p) /\ \E row : Save(p, row)
    BY <1>6 DEF BeginRenewal, Excused
  <2>2. QED
    BY <1>3, <2>1 DEF Seen
<1>7. ASSUME NEW v \in People, NEW mark \in Marks,
             Reject(v, p, mark) \/ \E x \in People \cup {None} : Approve(v, p, x, mark)
      PROVE  Attended
  <2>1. proc[p].status # "PENDING_EXTERNAL_ACTION"
    BY <1>7 DEF Reject, Approve, MayAttest, AwaitingBgReview
  <2>2. ASSUME NEW x \in People \cup {None}, NEW result \in {"APPROVE", "REJECT"}
        PROVE  LET row == Attested(proc[p], v, x, result, mark) IN
               row \in Rows /\ row.status = proc[p].status
    <3>1. [reviewer |-> v, subject |-> x, result |-> result, volunteer |-> mark]
            \in Attestations
      BY PopulationAssumption DEF Attestations
    <3>2. QED
      BY <1>1, <3>1 DEF Attested, Rows
  <2>3. CASE Reject(v, p, mark)
    <3> DEFINE blocked == [Attested(proc[p], v, None, "REJECT", mark) EXCEPT
                             !.status = "BLOCKED"]
    <3>1. blocked.status = "BLOCKED"
      BY <2>2 DEF Rows
    <3>2. QED
      BY <1>3, <2>3, <3>1 DEF Reject, Seen, Ready, GateMet
  <2>4. ASSUME NEW x \in People \cup {None}, Approve(v, p, x, mark) PROVE Attended
    <3> DEFINE row == Attested(proc[p], v, x, "APPROVE", mark)
    <3>1. Seen(p, row)
      BY <2>1, <2>2 DEF Seen, Ready, GateMet
    <3>2. Seen(p, ClearedRow(row, "review"))
      BY <2>2, ClearedIsNotReady DEF Seen
    <3>3. Save(p, row) \/ Save(p, ClearedRow(row, "review"))
      BY <2>4 DEF Approve, ClearBackgroundCheck
    <3>4. QED
      BY <1>3, <3>1, <3>2, <3>3
  <2>5. QED
    BY <1>7, <2>3, <2>4
<1>8. ASSUME NEW r \in Requests, StampBgCleared(r, p) PROVE Attended
  <2> DEFINE stamped == [proc[p] EXCEPT !.cleared = TRUE, !.basis = "merge"]
             opened == [stamped EXCEPT !.status = "PENDING_PAYMENT"]
  <2>1. opened.status = "PENDING_PAYMENT"
    BY <1>1 DEF Rows
  <2>2. Seen(p, opened)
    BY <2>1 DEF Seen, Ready, GateMet
  <2>3. ~GateMet(stamped) => Seen(p, stamped)
    BY DEF Seen, Ready
  <2>4. Save(p, opened) \/ (~GateMet(stamped) /\ Save(p, stamped))
    BY <1>8 DEF StampBgCleared
  <2>5. QED
    BY <1>3, <2>2, <2>3, <2>4
<1>9. ASSUME NEW r \in Requests, ClearHeldRow(r, p) PROVE Attended
  BY <1>1, <1>3, <1>9, ClearedIsNotReady DEF ClearHeldRow, ClearBackgroundCheck, Seen
<1>10. QED
  BY <1>4, <1>5, <1>6, <1>7, <1>8, <1>9

LEMMA OpeningsAttended ==
  ASSUME IInv,
         \/ \E r \in Requests : CreateIntake(r) \/ CreateRenewal(r)
         \/ \E x \in People : OpenPersonBg(x) \/ OpenPersonAgreement(x)
  PROVE  Attended
<1>1. ASSUME NEW h, NEW x
      PROVE  /\ ~Ready(NewRow("INITIAL", h, None, "INTAKE"))
             /\ ~Ready(NewRow("RENEWAL", h, None, "PENDING_RENEWAL"))
             /\ ~Ready(NewRow("PERSON_BG", None, x, "PENDING_BG_REVIEW"))
             /\ ~Ready(NewRow("PERSON_AGREEMENT", None, x, "PENDING_EXTERNAL_ACTION"))
  BY DEF Ready, GateMet, NewRow
<1>2. ASSUME NEW r \in Requests, CreateIntake(r) \/ CreateRenewal(r) PROVE Attended
  <2>1. AdvancesStay
    BY <1>2, AdvancesLeft DEF CreateIntake, CreateRenewal, Finish
  <2>2. QED
    BY <1>1, <1>2, <2>1, AttendedInserted, AttendedIdle DEF CreateIntake, CreateRenewal
<1>3. ASSUME NEW x \in People, OpenPersonBg(x) \/ OpenPersonAgreement(x) PROVE Attended
  <2>1. AdvancesStay
    BY <1>3 DEF OpenPersonBg, OpenPersonAgreement, AdvancesStay
  <2>2. QED
    BY <1>1, <1>3, <2>1, AttendedInserted DEF OpenPersonBg, OpenPersonAgreement
<1>4. QED
  BY <1>2, <1>3

\* An advance takes its row through, and a submission goes on to one.  A reset
\* that goes by the row as it is asks for the consent again.
LEMMA ResumedAttended ==
  ASSUME IInv, NEW r \in Requests,
         \/ RecordSubmission(r) \/ Advance(r) \/ Reset(r)
         \/ Archive(r) \/ Unarchive(r) \/ Override(r)
  PROVE  Attended
<1> DEFINE p == calls[r].row
<1>1. p \in Processes /\ proc[p] \in Rows
  BY DEF RecordSubmission, Advance, Reset, Archive, Unarchive, Override, IInv, CallsOK, CallOK,
     RowOps, RowsOK
<1>2. ASSUME ~UNCHANGED proc PROVE Attended
  <2>1. CASE RecordSubmission(r)
    <3>1. (\E row : Save(p, row)) /\ Resume(r, OnRow("advance", p))
      BY <1>2, <2>1 DEF RecordSubmission
    <3>2. AdvancesStay /\ calls'[r] = OnRow("advance", p)
      BY <2>1, <3>1, AdvancesLeft, ResumedCalls DEF RecordSubmission
    <3>3. QED
      BY <1>1, <3>1, <3>2, AttendedSaved DEF Seen
  <2>2. CASE Advance(r)
    <3> DEFINE row == [proc[p] EXCEPT !.status = "PENDING_PAYMENT"]
    <3>1. Save(p, row) /\ Finish(r)
      BY <1>2, <2>2 DEF Advance
    <3>2. \A q \in Processes : proc'[q] = IF q = p THEN row ELSE proc[q]
      BY <3>1 DEF Save, IInv, RowsOK
    <3>3. ~Ready(row)
      <4>1. row.status = "PENDING_PAYMENT"
        BY <1>1 DEF Rows
      <4>2. QED
        BY <4>1 DEF Ready, GateMet
    <3> HIDE DEF row
    <3>4. ASSUME NEW q \in Processes, q # p PROVE Unattended(q)' => Unattended(q)
      <4>1. calls[r] # OnRow("advance", q)
        BY <3>4, AdvanceRequest
      <4>2. \A s \in Requests : calls[s] = OnRow("advance", q) => calls'[s] = calls[s]
        BY <3>1, <4>1, ResumedCalls DEF Finish
      <4>3. proc'[q] = proc[q]
        BY <3>2, <3>4
      <4>4. QED
        BY <4>2, <4>3 DEF Unattended, IsHousehold, GateMet
    <3>5. ASSUME NEW q \in Processes, q = p PROVE ~Unattended(q)'
      <4>1. ~Ready(proc'[q])
        BY <3>2, <3>3, <3>5
      <4>2. QED
        BY <4>1 DEF Unattended, Ready, IsHousehold, GateMet
    <3>6. ASSUME NEW q \in Processes PROVE Unattended(q)' => Unattended(q)
      BY <3>4, <3>5
    <3>7. QED
      BY <3>6 DEF Attended, Attends
  <2>3. CASE Reset(r)
    <3> DEFINE isBlocked == proc[p].status = "BLOCKED"
               reopens == isBlocked \/ AwaitingBgReview(proc[p])
               to == IF isBlocked THEN calls[r].status ELSE proc[p].status
               row == [proc[p] EXCEPT !.status = IF isBlocked THEN calls[r].status ELSE @,
                                      !.attests = {}, !.cleared = FALSE, !.basis = "none"]
    <3>1. AdvancesStay
      BY <2>3, AdvancesLeft DEF Reset, Finish
    <3>2. reopens /\ Save(p, row)
      BY <1>2, <2>3 DEF Reset, SaveIf
    <3>3. /\ row.status = to /\ row.consent = proc[p].consent /\ ~row.cleared
          /\ row.kind = proc[p].kind
      BY <1>1 DEF Rows
    <3> HIDE DEF row
    <3>4. ASSUME Ready(row) PROVE Excused(p)
      <4>1. isBlocked /\ calls[r].status = "PENDING_EXTERNAL_ACTION"
        BY <3>2, <3>3, <3>4 DEF Ready, GateMet, AwaitingBgReview
      <4>2. proc[p].consent /\ proc[p].kind \in HouseholdKinds
        BY <3>3, <3>4 DEF Ready, GateMet, IsHousehold
      <4>3. BlockedResetStatus(proc[p]) # "PENDING_EXTERNAL_ACTION"
        BY <4>2 DEF BlockedResetStatus, HouseholdKinds
      <4>4. QED
        BY <2>3, <4>1, <4>3 DEF Reset, Excused
    <3>5. QED
      BY <1>1, <3>1, <3>2, <3>4, AttendedSaved DEF Seen
  <2>4. CASE Archive(r)
    <3> DEFINE row == [proc[p] EXCEPT !.status = "ARCHIVED", !.from = calls[r].status]
    <3>1. AdvancesStay /\ Save(p, row)
      BY <2>4, AdvancesLeft DEF Archive, Finish
    <3>2. row.status = "ARCHIVED"
      BY <1>1 DEF Rows
    <3>3. QED
      BY <1>1, <3>1, <3>2, AttendedSaved DEF Seen, Ready, GateMet
  <2>5. CASE Unarchive(r)
    <3>1. AdvancesStay
      BY <2>5, AdvancesLeft DEF Unarchive, Finish
    <3>2. proc[p].status = "ARCHIVED" /\ \E row : Save(p, row)
      BY <1>2, <2>5 DEF Unarchive, SaveIf
    <3>3. QED
      BY <1>1, <3>1, <3>2, AttendedSaved DEF Seen, Excused
  <2>6. CASE Override(r)
    <3>1. AdvancesStay /\ Save(p, ClearedRow(proc[p], "board"))
      BY <1>2, <2>6, AdvancesLeft DEF Override, ClearBackgroundCheck, Finish
    <3>2. QED
      BY <1>1, <3>1, AttendedSaved, ClearedIsNotReady DEF Seen
  <2>7. QED
    BY <2>1, <2>2, <2>3, <2>4, <2>5, <2>6
<1>3. QED
  BY <1>2, AttendedIdle

\* No wake-up is lost, however the signature, the consent, the merge and the
\* submission cross: what completes a gate goes on to the advance.
THEOREM GateAttended == Spec => GateIsAttended
<1>1. IInv /\ [Next]_vars => Attended
  <2> SUFFICES ASSUME IInv, [Next]_vars PROVE Attended
    OBVIOUS
  <2>1. CASE Arrive
    <3>1. ASSUME NEW r \in Requests, OnlyReads(r) PROVE Attended
      BY <3>1, AttendedIdle DEF OnlyReads
    <3>2. ASSUME NEW r \in Requests, NEW p \in Processes,
                 RequestArchive(r, p) \/ RequestUnarchive(r, p) \/ RequestReset(r, p)
          PROVE  Attended
      BY <3>2, AttendedIdle DEF RequestArchive, RequestUnarchive, RequestReset
    <3>3. ASSUME NEW x \in People, CheckLapses(x) PROVE Attended
      BY <3>3, AttendedIdle DEF CheckLapses
    <3>4. QED
      BY <2>1, <3>1, <3>2, <3>3, ReadingSteps, MarksAttended, MovesAttended, OpeningsAttended
         DEF Arrive
  <2>2. ASSUME NEW r \in Requests, Continue(r) PROVE Attended
    <3>1. ASSUME OnlyReads(r) PROVE Attended
      BY <3>1, AttendedIdle DEF OnlyReads
    <3>2. QED
      BY <2>2, <3>1, ReadingSteps, ResumedAttended, MovesAttended, OpeningsAttended
         DEF Continue
  <2>3. ASSUME UNCHANGED proc PROVE Attended
    BY <2>3, AttendedIdle
  <2>4. QED
    BY <2>1, <2>2, <2>3, StandingAlone DEF Next, Abandon, vars
<1>2. Attended <=> GateIsAttended!1
  BY DEF Attended, Attends, Excused
<1>3. QED
  BY <1>1, <1>2, Inductive, PTL DEF Spec, GateIsAttended

-----------------------------------------------------------------------------
(* Handlers that take turns.                                               *)
(*                                                                         *)
(* When nothing comes between its two halves, a handler finds its row as   *)
(* it read it (TurnOK), so every write is a move of one row that depends   *)
(* on that row alone (Move).  What such moves keep, the handlers keep: a   *)
(* row is archived with what it was and restored to it (Sound), and stands *)
(* where its two tracks allow (Balanced).                                  *)

\* The writes of serial handlers, by the row they find.
Open(new) ==
  \/ \E h \in Households : new \in { NewRow("INITIAL", h, None, "INTAKE"),
                                  NewRow("RENEWAL", h, None, "PENDING_RENEWAL") }
  \/ \E x \in People : new = NewRow("PERSON_BG", None, x, "PENDING_BG_REVIEW")

\* A signature or a consent is noted.
Note(old, new) ==
  new \in {old, [old EXCEPT !.signed = TRUE], [old EXCEPT !.consent = TRUE]}

\* An application is submitted, or a renewal begun.
Begin(old, new) ==
  /\ \/ old.kind = "INITIAL" /\ old.status = "INTAKE"
     \/ old.status = "PENDING_RENEWAL"
  /\ new \in { [old EXCEPT !.status = "PENDING_EXTERNAL_ACTION"],
               [old EXCEPT !.status = "PENDING_EXTERNAL_ACTION",
                           !.cleared = TRUE, !.basis = "prior"] }

\* The external actions are done, or a merge brings the check in.
Carry(old, new) ==
  /\ old.kind \in HouseholdKinds
  /\ \/ /\ old.status = "PENDING_EXTERNAL_ACTION"
        /\ \/ new = [old EXCEPT !.status = "PENDING_PAYMENT"]
           \/ new = [old EXCEPT !.cleared = TRUE, !.basis = "merge",
                                !.status = "PENDING_PAYMENT"]
     \/ /\ old.status \in {"PENDING_EXTERNAL_ACTION", "PENDING_PAYMENT"}
        /\ new = [old EXCEPT !.cleared = TRUE, !.basis = "merge"]

Collect(old, new) ==
  /\ old.kind \in HouseholdKinds /\ ~old.paid
  /\ \/ /\ old.status = "PENDING_PAYMENT"
        /\ new = [old EXCEPT !.paid = TRUE, !.status = SettledStatus(old)]
     \/ old.status = "BLOCKED" /\ new = [old EXCEPT !.paid = TRUE]

Judge(old, new) ==
  /\ AwaitingBgReview(old)
  /\ \E v \in People, x \in People \cup {None}, mark \in BOOLEAN :
       LET approved == Attested(old, v, x, "APPROVE", mark)
           rejected == Attested(old, v, x, "REJECT", mark)
       IN  new \in { approved, ClearedRow(approved, "review"),
                     [rejected EXCEPT !.status = "BLOCKED"] }

\* The board or a merge clears a row that has not settled.
Discharge(old, new) ==
  /\ old.status \in {"BLOCKED", "PENDING_BG_REVIEW", "PENDING_BG_CLEARANCE"}
  /\ new \in {ClearedRow(old, "board"), ClearedRow(old, "merge")}

Restart(old, new) ==
  \/ old.status = "BLOCKED" /\ new = Restarted(old, BlockedResetStatus(old))
  \/ AwaitingBgReview(old) /\ new = Restarted(old, old.status)

Shelve(old, new) ==
  /\ old.status \notin {"ACTIVE", "ARCHIVED"}
  /\ new = [old EXCEPT !.status = "ARCHIVED", !.from = old.status]

Retrieve(old, new) ==
  /\ old.status = "ARCHIVED" /\ old.from \in Restorable
  /\ new = [old EXCEPT !.status = old.from, !.from = Null]

\* What a serial handler may make of a row that is not a person's agreement.
Move(old, new) ==
  /\ old.kind \in {"INITIAL", "RENEWAL", "PERSON_BG"}
  /\ \/ Note(old, new) \/ Begin(old, new) \/ Carry(old, new) \/ Collect(old, new)
     \/ Judge(old, new) \/ Discharge(old, new) \/ Restart(old, new)
     \/ Shelve(old, new) \/ Retrieve(old, new)

Apart(row) == row.kind = "PERSON_AGREEMENT"

\* A row is opened or moves, or an agreement is opened or written.
Writes(p, row) ==
  /\ Save(p, row)
  /\ \/ proc[p] = FreeRow /\ Open(row)
     \/ Move(proc[p], row)
     \/ Apart(row) /\ proc[p].kind \in {Null, row.kind}

Moves == \E p \in Processes : \E row : Writes(p, row)

\* Where a row stands, looking through an archive.
Place(row) == IF row.status = "ARCHIVED" THEN row.from ELSE row.status

Sound(row) ==
  /\ row.status = "ARCHIVED" <=> row.from # Null
  /\ row.from # "ACTIVE"
  /\ row.kind = "INITIAL" => Place(row) \in InFlightInitial \cup {"ACTIVE", "BLOCKED"}
  /\ row.kind = "RENEWAL" => Place(row) \in InFlightRenewal \cup {"ACTIVE", "BLOCKED"}
  /\ row.kind = "PERSON_BG" => Place(row) \in {"PENDING_BG_REVIEW", "ACTIVE", "BLOCKED"}
  /\ row.kind \in HouseholdKinds /\ Place(row) = "PENDING_BG_CLEARANCE" => row.paid
  /\ \/ \A a \in row.attests : a.result # "REJECT"
     \/ row.cleared
     \/ Place(row) = "BLOCKED"

\* The two tracks of a household row.
Balanced(row) ==
  row.kind \in HouseholdKinds =>
    /\ row.paid => Place(row) \in {"PENDING_BG_CLEARANCE", "ACTIVE", "BLOCKED"}
    /\ row.cleared => Place(row) \notin {"PENDING_BG_CLEARANCE", "BLOCKED"}

AllSound == \A p \in Processes : Apart(proc[p]) \/ Sound(proc[p])
AllBalanced == \A p \in Processes : Balanced(proc[p])

-----------------------------------------------------------------------------
(* What every move keeps.                                                  *)

\* The fields of the rows that the longer moves write.
LEMMA JudgedRow ==
  ASSUME NEW old \in Rows, NEW new, Judge(old, new)
  PROVE  /\ new.kind = old.kind /\ new.home = old.home
         /\ new.from = old.from /\ new.paid = old.paid
         /\ \/ /\ new.status = old.status /\ new.cleared = old.cleared
               /\ \A a \in new.attests : a \in old.attests \/ a.result = "APPROVE"
            \/ new.status = ClearedStatus(old) /\ new.cleared = TRUE
            \/ new.status = "BLOCKED" /\ new.cleared = old.cleared
<1>1. PICK v \in People, x \in People \cup {None}, mark \in BOOLEAN :
        LET approved == Attested(old, v, x, "APPROVE", mark)
            rejected == Attested(old, v, x, "REJECT", mark)
        IN  new \in { approved, ClearedRow(approved, "review"),
                      [rejected EXCEPT !.status = "BLOCKED"] }
  BY DEF Judge
<1> DEFINE row(result) == Attested(old, v, x, result, mark)
<1>2. ASSUME NEW result \in {"APPROVE", "REJECT"}
      PROVE  /\ row(result) \in Rows
             /\ row(result).kind = old.kind /\ row(result).home = old.home
             /\ row(result).subject = old.subject /\ row(result).status = old.status
             /\ row(result).from = old.from /\ row(result).paid = old.paid
             /\ row(result).cleared = old.cleared
             /\ \A a \in row(result).attests : a \in old.attests \/ a.result = result
  <2>1. [reviewer |-> v, subject |-> x, result |-> result, volunteer |-> mark]
          \in Attestations
    BY DEF Attestations
  <2>2. QED
    BY <2>1 DEF Attested, Rows
<1>3. CASE new = row("APPROVE")
  BY <1>2, <1>3
<1>4. CASE new = ClearedRow(row("APPROVE"), "review")
  <2>1. row("APPROVE") \in Rows
    BY <1>2
  <2>2. /\ new.kind = row("APPROVE").kind /\ new.home = row("APPROVE").home
        /\ new.from = row("APPROVE").from /\ new.paid = row("APPROVE").paid
        /\ new.status = ClearedStatus(row("APPROVE")) /\ new.cleared = TRUE
    BY <1>4, <2>1 DEF ClearedRow, Rows
  <2>3. ClearedStatus(row("APPROVE")) = ClearedStatus(old)
    BY <1>2 DEF ClearedStatus
  <2>4. QED
    BY <1>2, <2>2, <2>3
<1>5. CASE new = [row("REJECT") EXCEPT !.status = "BLOCKED"]
  <2>1. row("REJECT") \in Rows
    BY <1>2
  <2>2. /\ new.kind = row("REJECT").kind /\ new.home = row("REJECT").home
        /\ new.from = row("REJECT").from /\ new.paid = row("REJECT").paid
        /\ new.status = "BLOCKED" /\ new.cleared = row("REJECT").cleared
    BY <1>5, <2>1 DEF Rows
  <2>3. QED
    BY <1>2, <2>2
<1>6. QED
  BY <1>1, <1>3, <1>4, <1>5

LEMMA JudgedFields ==
  ASSUME NEW old \in Rows, NEW new, Judge(old, new)
  PROVE  /\ new.kind = old.kind /\ new.from = old.from /\ new.paid = old.paid
         /\ \/ new.status = old.status /\ new.cleared = old.cleared
            \/ new.status = ClearedStatus(old) /\ new.cleared
            \/ new.status = "BLOCKED" /\ new.cleared = old.cleared
  BY JudgedRow

\* Where a clearance leads.
LEMMA ClearsTo ==
  ASSUME NEW row, RowOK(row), row.kind \in Kinds
  PROVE  ClearedStatus(row) = IF row.kind \in HouseholdKinds /\ ~row.paid
                              THEN "PENDING_PAYMENT" ELSE "ACTIVE"
<1>1. row.kind \in HouseholdKinds <=> row.subject = None
  BY PopulationAssumption DEF RowOK, WellFormed, Kinds
<1>2. QED
  BY <1>1 DEF ClearedStatus

LEMMA DischargedRow ==
  ASSUME NEW old \in Rows, NEW new, Discharge(old, new)
  PROVE  /\ new.kind = old.kind /\ new.home = old.home
         /\ new.from = old.from /\ new.paid = old.paid
         /\ new.status = ClearedStatus(old) /\ new.cleared = TRUE
<1>1. \E basis : new = ClearedRow(old, basis)
  BY DEF Discharge
<1>2. QED
  BY <1>1 DEF ClearedRow, Rows

LEMMA RestartingRow ==
  ASSUME NEW old \in Rows, NEW new, Restart(old, new)
  PROVE  /\ new.kind = old.kind /\ new.home = old.home
         /\ new.from = old.from /\ new.paid = old.paid
         /\ new.cleared = FALSE /\ new.attests = {}
         /\ new.status = IF old.status = "BLOCKED" THEN BlockedResetStatus(old)
                         ELSE old.status
<1>1. \E status : /\ new = Restarted(old, status)
                  /\ status = IF old.status = "BLOCKED" THEN BlockedResetStatus(old)
                              ELSE old.status
  BY DEF Restart, AwaitingBgReview
<1>2. QED
  BY <1>1 DEF Restarted, Rows

\* An archive and a restore change where the row is kept, not where it stands.
LEMMA FiledRow ==
  ASSUME NEW old \in Rows, NEW new, Shelve(old, new) \/ Retrieve(old, new),
         old.status # "ARCHIVED" => old.from = Null
  PROVE  /\ new.kind = old.kind /\ new.home = old.home /\ new.paid = old.paid
         /\ new.cleared = old.cleared /\ new.attests = old.attests
         /\ Place(new) = Place(old)
         /\ \/ /\ old.status \notin {"ACTIVE", "ARCHIVED"}
               /\ new.status = "ARCHIVED" /\ new.from = old.status
            \/ /\ old.status = "ARCHIVED" /\ old.from \in Restorable
               /\ new.status = old.from /\ new.from = Null
<1>1. CASE Shelve(old, new)
  BY <1>1 DEF Shelve, Place, Rows
<1>2. CASE Retrieve(old, new)
  BY <1>2 DEF Retrieve, Place, Restorable, Rows
<1>3. QED
  BY <1>1, <1>2

LEMMA MoveSound ==
  ASSUME NEW old, RowOK(old), Sound(old), NEW new, Move(old, new)
  PROVE  Sound(new)
<1>1. old \in Rows
  BY DEF RowOK
<1>2. old.kind \in {"INITIAL", "RENEWAL", "PERSON_BG"} \cap Kinds /\ old.status \in Statuses
  BY <1>1 DEF Move, RowOK, WellFormed, Rows, Kinds, Null
<1>judged. Judge(old, new) =>
        /\ new.kind = old.kind /\ new.from = old.from /\ new.paid = old.paid
        /\ \/ /\ new.status = old.status /\ new.cleared = old.cleared
              /\ \A a \in new.attests : a \in old.attests \/ a.result = "APPROVE"
           \/ new.status = ClearedStatus(old) /\ new.cleared = TRUE
           \/ new.status = "BLOCKED" /\ new.cleared = old.cleared
  BY <1>1, JudgedRow
<1> USE DEF Sound, Place, HouseholdKinds, InFlightInitial, InFlightRenewal
<1>3. CASE Note(old, new)
  BY <1>1, <1>3 DEF Note, Rows
<1>4. CASE Begin(old, new)
  BY <1>1, <1>4 DEF Begin, Rows
<1>5. CASE Carry(old, new)
  BY <1>1, <1>5 DEF Carry, Rows
<1>6. CASE Collect(old, new)
  BY <1>1, <1>6 DEF Collect, SettledStatus, Rows
<1>7. CASE Judge(old, new)
  <2>1. AwaitingBgReview(old)
    BY <1>7 DEF Judge
  <2>2. /\ ~old.cleared /\ old.status \notin {"ARCHIVED", "ACTIVE", "BLOCKED"}
        /\ old.paid \in BOOLEAN
    BY <1>1, <2>1 DEF AwaitingBgReview, Rows
  <2>3. ClearedStatus(old) = IF old.kind \in HouseholdKinds /\ ~old.paid
                             THEN "PENDING_PAYMENT" ELSE "ACTIVE"
    BY <1>2, ClearsTo
  <2>4. /\ new.kind = old.kind /\ new.from = old.from /\ new.paid = old.paid
        /\ \/ /\ new.status = old.status /\ new.cleared = old.cleared
              /\ \A a \in new.attests : a \in old.attests \/ a.result = "APPROVE"
           \/ new.status = ClearedStatus(old) /\ new.cleared = TRUE
           \/ new.status = "BLOCKED" /\ new.cleared = old.cleared
    BY <1>7, <1>judged
  <2>5. CASE /\ new.status = old.status /\ new.cleared = old.cleared
             /\ \A a \in new.attests : a \in old.attests \/ a.result = "APPROVE"
    BY <2>2, <2>4, <2>5
  <2>6. CASE new.status = ClearedStatus(old) /\ new.cleared = TRUE
    BY <1>2, <2>2, <2>3, <2>4, <2>6
  <2>7. CASE new.status = "BLOCKED" /\ new.cleared = old.cleared
    BY <2>2, <2>4, <2>7
  <2>8. QED
    BY <2>4, <2>5, <2>6, <2>7
<1>8. CASE Discharge(old, new)
  <2>1. old.status \in {"BLOCKED", "PENDING_BG_REVIEW", "PENDING_BG_CLEARANCE"}
    BY <1>8 DEF Discharge
  <2>2. ClearedStatus(old) = IF old.kind \in HouseholdKinds /\ ~old.paid
                             THEN "PENDING_PAYMENT" ELSE "ACTIVE"
    BY <1>2, ClearsTo
  <2>3. old.paid \in BOOLEAN
    BY <1>1 DEF Rows
  <2>4. QED
    BY <1>1, <1>2, <1>8, <2>1, <2>2, <2>3, DischargedRow
<1>9. CASE Restart(old, new)
  <2>1. old.status = "BLOCKED" \/ AwaitingBgReview(old)
    BY <1>9 DEF Restart
  <2>2. QED
    BY <1>1, <1>9, <2>1, RestartingRow DEF AwaitingBgReview, BlockedResetStatus
<1>10. CASE Shelve(old, new) \/ Retrieve(old, new)
  BY <1>1, <1>2, <1>10, FiledRow DEF Restorable, Statuses, Null, Rows
<1>11. QED
  BY <1>3, <1>4, <1>5, <1>6, <1>7, <1>8, <1>9, <1>10 DEF Move

LEMMA MoveLegal ==
  ASSUME NEW old, RowOK(old), Sound(old), NEW new, Move(old, new),
         new.status # old.status,
         "RENEWAL_PENDING_BG" \notin {old.status, new.status}
  PROVE  LegalTransition(new.kind, old.status, new.status)
<1> USE DEF LegalTransition, AnyKindEdges, KindEdges
<1>1. old \in Rows
  BY DEF RowOK
<1>2. old.status # "ARCHIVED" => old.from = Null /\ Place(old) = old.status
  BY DEF Sound, Place
<1>3. old.kind \in {"INITIAL", "RENEWAL", "PERSON_BG"} \cap Kinds /\ old.status \in Statuses
  BY <1>1 DEF Move, RowOK, WellFormed, Rows, Kinds, Null
<1>4. CASE Note(old, new)
  BY <1>1, <1>4 DEF Note, Rows
<1>5. CASE Begin(old, new)
  <2>1. new.kind = old.kind /\ new.status = "PENDING_EXTERNAL_ACTION"
    BY <1>1, <1>5 DEF Begin, Rows
  <2>2. \/ old.kind = "INITIAL" /\ old.status = "INTAKE"
        \/ old.kind = "RENEWAL" /\ old.status = "PENDING_RENEWAL"
    BY <1>2, <1>3, <1>5 DEF Begin, Sound, InFlightInitial
  <2>3. QED
    BY <2>1, <2>2
<1>6. CASE Carry(old, new)
  BY <1>1, <1>6 DEF Carry, Rows
<1>7. CASE Collect(old, new)
  BY <1>1, <1>7 DEF Collect, SettledStatus, Rows
<1>8. CASE Judge(old, new)
  <2>1. AwaitingBgReview(old)
    BY <1>8 DEF Judge
  <2>2. /\ new.kind = old.kind
        /\ new.status \in {old.status, ClearedStatus(old), "BLOCKED"}
    BY <1>1, <1>8, JudgedRow
  <2>3. ClearedStatus(old) = IF old.kind \in HouseholdKinds /\ ~old.paid
                             THEN "PENDING_PAYMENT" ELSE "ACTIVE"
    BY <1>3, ClearsTo
  <2>4. old.status = "PENDING_BG_CLEARANCE" => old.kind \in HouseholdKinds /\ old.paid
    BY <1>2, <1>3 DEF Sound, HouseholdKinds
  <2>5. QED
    BY <2>1, <2>2, <2>3, <2>4 DEF AwaitingBgReview
<1>9. CASE Discharge(old, new)
  <2>1. old.status \in {"BLOCKED", "PENDING_BG_REVIEW", "PENDING_BG_CLEARANCE"}
    BY <1>9 DEF Discharge
  <2>2. new.kind = old.kind /\ new.status = ClearedStatus(old)
    BY <1>1, <1>9, DischargedRow
  <2>3. ClearedStatus(old) = IF old.kind \in HouseholdKinds /\ ~old.paid
                             THEN "PENDING_PAYMENT" ELSE "ACTIVE"
    BY <1>3, ClearsTo
  <2>4. old.status = "PENDING_BG_CLEARANCE" => old.kind \in HouseholdKinds /\ old.paid
    BY <1>2, <1>3 DEF Sound, HouseholdKinds
  <2>5. QED
    BY <2>1, <2>2, <2>3, <2>4
<1>10. CASE Restart(old, new)
  <2>1. /\ new.kind = old.kind
        /\ new.status = IF old.status = "BLOCKED" THEN BlockedResetStatus(old)
                        ELSE old.status
    BY <1>1, <1>10, RestartingRow
  <2>2. old.status = "BLOCKED"
    BY <2>1
  <2>3. QED
    BY <1>3, <2>1, <2>2 DEF BlockedResetStatus
<1>11. CASE Shelve(old, new) \/ Retrieve(old, new)
  BY <1>1, <1>2, <1>3, <1>11, FiledRow DEF Archivable, Restorable
<1>12. QED
  BY <1>4, <1>5, <1>6, <1>7, <1>8, <1>9, <1>10, <1>11 DEF Move

LEMMA MoveBalanced ==
  ASSUME NEW old, RowOK(old), Sound(old), Balanced(old), NEW new, Move(old, new),
         old.kind = "RENEWAL" /\ old.status = "BLOCKED" => old.consent
  PROVE  Balanced(new)
<1>1. old \in Rows
  BY DEF RowOK
<1>2. old.kind \in {"INITIAL", "RENEWAL", "PERSON_BG"} \cap Kinds /\ old.status \in Statuses
  BY <1>1 DEF Move, RowOK, WellFormed, Rows, Kinds, Null
<1>judged. Judge(old, new) =>
        /\ new.kind = old.kind /\ new.from = old.from /\ new.paid = old.paid
        /\ \/ new.status = old.status /\ new.cleared = old.cleared
           \/ new.status = ClearedStatus(old) /\ new.cleared
           \/ new.status = "BLOCKED" /\ new.cleared = old.cleared
  BY <1>1, JudgedFields
<1> USE DEF Balanced, Sound, Place, HouseholdKinds
<1>3. CASE Note(old, new)
  BY <1>1, <1>3 DEF Note, Rows
<1>4. CASE Begin(old, new)
  BY <1>1, <1>4 DEF Begin, Rows
<1>5. CASE Carry(old, new)
  BY <1>1, <1>5 DEF Carry, Rows
<1>6. CASE Collect(old, new)
  BY <1>1, <1>6 DEF Collect, SettledStatus, Rows
<1>7. CASE Judge(old, new)
  <2>1. AwaitingBgReview(old)
    BY <1>7 DEF Judge
  <2>2. /\ ~old.cleared /\ old.status \notin {"ARCHIVED", "ACTIVE", "BLOCKED"}
        /\ old.paid \in BOOLEAN
    BY <1>1, <2>1 DEF AwaitingBgReview, Rows
  <2>3. ClearedStatus(old) = IF old.kind \in HouseholdKinds /\ ~old.paid
                             THEN "PENDING_PAYMENT" ELSE "ACTIVE"
    BY <1>2, ClearsTo
  <2>4. /\ new.kind = old.kind /\ new.from = old.from /\ new.paid = old.paid
        /\ \/ new.status = old.status /\ new.cleared = old.cleared
           \/ new.status = ClearedStatus(old) /\ new.cleared
           \/ new.status = "BLOCKED" /\ new.cleared = old.cleared
    BY <1>7, <1>judged
  <2>5. CASE new.status = old.status /\ new.cleared = old.cleared
    BY <2>2, <2>4, <2>5
  <2>6. CASE new.status = ClearedStatus(old) /\ new.cleared
    BY <1>2, <2>2, <2>3, <2>4, <2>6
  <2>7. CASE new.status = "BLOCKED" /\ new.cleared = old.cleared
    BY <2>2, <2>4, <2>7
  <2>8. QED
    BY <2>4, <2>5, <2>6, <2>7
<1>8. CASE Discharge(old, new)
  <2>1. old.status \in {"BLOCKED", "PENDING_BG_REVIEW", "PENDING_BG_CLEARANCE"}
    BY <1>8 DEF Discharge
  <2>2. ClearedStatus(old) = IF old.kind \in HouseholdKinds /\ ~old.paid
                             THEN "PENDING_PAYMENT" ELSE "ACTIVE"
    BY <1>2, ClearsTo
  <2>3. old.paid \in BOOLEAN
    BY <1>1 DEF Rows
  <2>4. QED
    BY <1>1, <1>2, <1>8, <2>1, <2>2, <2>3, DischargedRow
<1>9. CASE Restart(old, new)
  <2>1. old.status = "BLOCKED" \/ AwaitingBgReview(old)
    BY <1>9 DEF Restart
  <2>2. QED
    BY <1>1, <1>9, <2>1, RestartingRow DEF AwaitingBgReview, BlockedResetStatus
<1>10. CASE Shelve(old, new) \/ Retrieve(old, new)
  BY <1>1, <1>10, FiledRow
<1>11. QED
  BY <1>3, <1>4, <1>5, <1>6, <1>7, <1>8, <1>9, <1>10 DEF Move

-----------------------------------------------------------------------------
(* What a handler writes is a move, when nothing has come between.         *)

LEMMA SavedMoves ==
  ASSUME IInv, NEW p \in Processes, NEW row, Save(p, row), Exists(p),
         proc[p].kind # "PERSON_AGREEMENT" =>
           \/ Note(proc[p], row) \/ Begin(proc[p], row) \/ Carry(proc[p], row)
           \/ Collect(proc[p], row) \/ Judge(proc[p], row) \/ Discharge(proc[p], row)
           \/ Restart(proc[p], row) \/ Shelve(proc[p], row) \/ Retrieve(proc[p], row),
         proc[p].kind = "PERSON_AGREEMENT" => row.kind = "PERSON_AGREEMENT"
  PROVE  Moves
<1>1. proc[p].kind \in {"INITIAL", "RENEWAL", "PERSON_BG", "PERSON_AGREEMENT"}
  BY DEF IInv, RowsOK, Rows, Kinds, Exists
<1>2. CASE proc[p].kind = "PERSON_AGREEMENT"
  BY <1>2 DEF Moves, Writes, Apart
<1>3. CASE proc[p].kind # "PERSON_AGREEMENT"
  <2>1. Move(proc[p], row)
    BY <1>1, <1>3 DEF Move
  <2>2. QED
    BY <2>1 DEF Moves, Writes
<1>4. QED
  BY <1>2, <1>3

LEMMA InsertedMoves ==
  ASSUME IInv, NEW row, Insert(row), Open(row) \/ Apart(row)
  PROVE  Moves
<1>1. PICK p \in Processes : proc[p].kind = Null /\ Save(p, row)
  BY DEF Insert, Exists
<1>2. proc[p] = FreeRow
  BY <1>1 DEF IInv, RowsOK, RowOK, WellFormed
<1>3. QED
  BY <1>1, <1>2 DEF Moves, Writes

\* A row that is somewhere exists, and an agreement is nowhere reviewers look.
LEMMA RowThere ==
  ASSUME IInv, NEW p \in Processes
  PROVE  /\ RowOK(proc[p]) /\ proc[p] \in Rows
         /\ proc[p].status # Null => Exists(p)
         /\ proc[p].kind \in HouseholdKinds => Exists(p)
         /\ proc[p].kind = "PERSON_AGREEMENT" => 
              /\ ~AwaitingBgReview(proc[p])
              /\ proc[p].status \notin {"BLOCKED", "INTAKE", "PENDING_RENEWAL"}
  BY DEF IInv, RowsOK, RowOK, WellFormed, Exists, FreeRow, NewRow, HouseholdKinds, Null,
     AwaitingBgReview

LEMMA ArrivingMoves == ASSUME IInv, Arrive PROVE Moves \/ UNCHANGED proc
<1>1. \A p \in Processes : RowOK(proc[p]) /\ proc[p] \in Rows
  BY DEF IInv, RowsOK, RowOK
<1>2. ASSUME NEW r \in Requests, NEW p \in Processes, MarkContractSigned(r, p) PROVE Moves
  <2> DEFINE row == IF proc[p].signed THEN proc[p]
                    ELSE IF proc[p].kind = "PERSON_AGREEMENT"
                         THEN [proc[p] EXCEPT !.signed = TRUE, !.status = "ACTIVE"]
                         ELSE [proc[p] EXCEPT !.signed = TRUE]
  <2>1. row.kind = proc[p].kind /\ Exists(p) /\ Save(p, row)
    BY <1>1, <1>2 DEF Rows, MarkContractSigned
  <2>2. proc[p].kind # "PERSON_AGREEMENT" => Note(proc[p], row)
    BY DEF Note
  <2>3. QED
    BY <2>1, <2>2, SavedMoves
<1>3. ASSUME NEW r \in Requests, NEW p \in Processes, MarkBgConsent(r, p) PROVE Moves
  <2> DEFINE row == [proc[p] EXCEPT !.consent = TRUE]
  <2>1. row.kind = proc[p].kind /\ Exists(p) /\ Save(p, row) /\ Note(proc[p], row)
    BY <1>1, <1>3 DEF Rows, MarkBgConsent, Note
  <2>2. QED
    BY <2>1, SavedMoves
<1>4. ASSUME NEW p \in Processes, Settle(p) \/ PaidWhileBlocked(p) PROVE Moves
  <2> DEFINE settled == [proc[p] EXCEPT !.paid = TRUE, !.status = SettledStatus(proc[p])]
             paid == [proc[p] EXCEPT !.paid = TRUE]
  <2>1. PICK row \in {settled, paid} : Save(p, row) /\ Collect(proc[p], row)
    BY <1>4 DEF Settle, PaidWhileBlocked, Collect, IsHousehold
  <2>2. Exists(p) /\ proc[p].kind # "PERSON_AGREEMENT"
    BY <1>4, RowThere DEF Settle, PaidWhileBlocked, IsHousehold, HouseholdKinds
  <2>3. QED
    BY <2>1, <2>2, SavedMoves
<1>5. ASSUME NEW p \in Processes, BeginRenewal(p) PROVE Moves
  <2>1. PICK row : Save(p, row) /\ Begin(proc[p], row)
    BY <1>5 DEF BeginRenewal, Begin
  <2>2. Exists(p) /\ proc[p].kind # "PERSON_AGREEMENT"
    BY <1>5, RowThere DEF BeginRenewal, Null
  <2>3. QED
    BY <2>1, <2>2, SavedMoves
<1>6. ASSUME NEW v \in People, NEW p \in Processes, NEW mark \in Marks,
             Reject(v, p, mark) \/ \E x \in People \cup {None} : Approve(v, p, x, mark)
      PROVE  Moves
  <2>1. mark \in BOOLEAN /\ AwaitingBgReview(proc[p])
    BY <1>6, PopulationAssumption DEF Reject, Approve, MayAttest
  <2>2. Exists(p) /\ proc[p].kind # "PERSON_AGREEMENT"
    BY <2>1, RowThere DEF AwaitingBgReview, Null
  <2>3. CASE Reject(v, p, mark)
    <3> DEFINE row == [Attested(proc[p], v, None, "REJECT", mark) EXCEPT !.status = "BLOCKED"]
    <3>1. Judge(proc[p], row)
      BY <2>1 DEF Judge
    <3>2. QED
      BY <2>2, <2>3, <3>1, SavedMoves DEF Reject
  <2>4. ASSUME NEW x \in People \cup {None}, Approve(v, p, x, mark) PROVE Moves
    <3> DEFINE row == Attested(proc[p], v, x, "APPROVE", mark)
    <3>1. Judge(proc[p], row) /\ Judge(proc[p], ClearedRow(row, "review"))
      BY <2>1 DEF Judge
    <3>2. Save(p, row) \/ Save(p, ClearedRow(row, "review"))
      BY <2>4 DEF Approve, ClearBackgroundCheck
    <3>3. QED
      BY <2>2, <3>1, <3>2, SavedMoves
  <2>5. QED
    BY <1>6, <2>3, <2>4
<1>7. ASSUME NEW x \in People, OpenPersonBg(x) \/ OpenPersonAgreement(x) PROVE Moves
  <2> DEFINE check == NewRow("PERSON_BG", None, x, "PENDING_BG_REVIEW")
             agreement == NewRow("PERSON_AGREEMENT", None, x, "PENDING_EXTERNAL_ACTION")
  <2>1. Insert(check) \/ Insert(agreement)
    BY <1>7 DEF OpenPersonBg, OpenPersonAgreement
  <2>2. Open(check) /\ Apart(agreement)
    BY DEF Open, Apart, NewRow
  <2>3. QED
    BY <2>1, <2>2, InsertedMoves
<1>8. ASSUME NEW r \in Requests, NEW p \in Processes,
             \/ SubmitIntake(r, p) \/ RequestReset(r, p) \/ RequestArchive(r, p)
             \/ RequestUnarchive(r, p) \/ \E x \in People \cup {None} : RequestOverride(r, p, x)
      PROVE  UNCHANGED proc
  BY <1>8 DEF SubmitIntake, RequestReset, RequestArchive, RequestUnarchive, RequestOverride
<1>9. ASSUME NEW h \in Households, NEW r \in Requests,
             StartIntake(r, h) \/ ListForRenewal(r, h) \/ RequestRevoke(r, h)
      PROVE  UNCHANGED proc
  BY <1>9 DEF StartIntake, ListForRenewal, RequestRevoke
<1>10. ASSUME NEW x \in People, CheckLapses(x) \/ \E r \in Requests : MergeLead(r, x)
       PROVE  UNCHANGED proc
  BY <1>10 DEF CheckLapses, MergeLead
<1>11. QED
  BY <1>2, <1>3, <1>4, <1>5, <1>6, <1>7, <1>8, <1>9, <1>10 DEF Arrive

LEMMA ContinuingMoves ==
  ASSUME IInv, TurnOK, NEW r \in Requests, Continue(r)
  PROVE  Moves \/ UNCHANGED proc
<1> DEFINE p == calls[r].row
           old == proc[p]
<1>1. AsRead(calls[r], proc[p])
  BY DEF TurnOK
<1>2. CallOK(calls[r], proc) /\ (calls[r].op \in RowOps => p \in Processes /\ Exists(p))
  BY DEF IInv, CallsOK, CallOK, Exists
<1>3. CASE CreateIntake(r) \/ CreateRenewal(r)
  <2>1. calls[r].home \in Households
    BY <1>2, <1>3 DEF CreateIntake, CreateRenewal, CallOK, HomeOps
  <2>2. QED
    BY <1>3, <2>1, InsertedMoves DEF CreateIntake, CreateRenewal, Open
<1>4. CASE RecordSubmission(r)
  <2>1. p \in Processes /\ Exists(p) /\ old.kind = "INITIAL" /\ old.status = "INTAKE"
    BY <1>1, <1>2, <1>4 DEF RecordSubmission, RowOps, CallOK, AsRead
  <2>2. UNCHANGED proc \/ \E row : Save(p, row) /\ Begin(old, row)
    BY <1>4, <2>1 DEF RecordSubmission, Begin
  <2>3. QED
    BY <2>1, <2>2, SavedMoves
<1>5. CASE Advance(r)
  <2>1. p \in Processes /\ Exists(p)
    BY <1>2, <1>5 DEF Advance, RowOps
  <2>2. \/ UNCHANGED proc
        \/ /\ old.kind \in HouseholdKinds
           /\ \E row : Save(p, row) /\ Carry(old, row)
    BY <1>5 DEF Advance, Carry, GateMet, IsHousehold
  <2>3. QED
    BY <2>1, <2>2, SavedMoves DEF HouseholdKinds
<1>6. CASE Reset(r)
  <2> DEFINE row == [old EXCEPT
                       !.status = IF old.status = "BLOCKED" THEN calls[r].status ELSE @,
                       !.attests = {}, !.cleared = FALSE, !.basis = "none"]
  <2>1. p \in Processes /\ Exists(p) /\ calls[r].status = BlockedResetStatus(old)
    BY <1>1, <1>2, <1>6 DEF Reset, RowOps, AsRead
  <2>2. \/ UNCHANGED proc
        \/ Save(p, row) /\ (old.status = "BLOCKED" \/ AwaitingBgReview(old))
    BY <1>6 DEF Reset, SaveIf
  <2>3. CASE Save(p, row) /\ (old.status = "BLOCKED" \/ AwaitingBgReview(old))
    <3>1. old \in Rows /\ old.kind # "PERSON_AGREEMENT"
      BY <2>1, <2>3, RowThere
    <3>2. row = Restarted(old, IF old.status = "BLOCKED" THEN BlockedResetStatus(old)
                               ELSE old.status)
      BY <2>1, <3>1 DEF Restarted, Rows
    <3>3. Restart(old, row)
      BY <2>3, <3>2 DEF Restart
    <3>4. QED
      BY <2>1, <2>3, <3>1, <3>3, SavedMoves
  <2>4. QED
    BY <2>2, <2>3
<1>7. CASE Override(r)
  <2>1. p \in Processes /\ Exists(p) /\ old.status = "BLOCKED"
    BY <1>1, <1>2, <1>7 DEF Override, RowOps, AsRead
  <2>2. UNCHANGED proc \/ Save(p, ClearedRow(old, "board"))
    BY <1>7 DEF Override, ClearBackgroundCheck
  <2>3. Discharge(old, ClearedRow(old, "board")) /\ old.kind # "PERSON_AGREEMENT"
    BY <2>1, RowThere DEF Discharge
  <2>4. QED
    BY <2>1, <2>2, <2>3, SavedMoves
<1>8. CASE Archive(r)
  <2> DEFINE row == [old EXCEPT !.status = "ARCHIVED", !.from = calls[r].status]
  <2>1. /\ p \in Processes /\ Exists(p)
        /\ old.status = calls[r].status /\ old.status \notin {"ACTIVE", "ARCHIVED"}
    BY <1>1, <1>2, <1>8 DEF Archive, RowOps, AsRead
  <2>2. Save(p, row) /\ Shelve(old, row) /\ row.kind = old.kind
    BY <1>8, <2>1, RowThere DEF Archive, Shelve, Rows
  <2>3. QED
    BY <2>1, <2>2, SavedMoves
<1>9. CASE Unarchive(r)
  <2> DEFINE row == [old EXCEPT !.status = calls[r].status, !.from = Null]
  <2>1. /\ p \in Processes /\ Exists(p)
        /\ old.status = "ARCHIVED" /\ old.from = calls[r].status /\ old.from \in Restorable
    BY <1>1, <1>2, <1>9 DEF Unarchive, RowOps, AsRead
  <2>2. /\ UNCHANGED proc \/ Save(p, row)
        /\ Retrieve(old, row) /\ row.kind = old.kind
    BY <1>9, <2>1, RowThere DEF Unarchive, SaveIf, Retrieve, Rows
  <2>3. QED
    BY <2>1, <2>2, SavedMoves
<1>10. ASSUME NEW q \in Processes, StampBgCleared(r, q) PROVE Moves
  <2> DEFINE stamped == [proc[q] EXCEPT !.cleared = TRUE, !.basis = "merge"]
             advanced == [stamped EXCEPT !.status = "PENDING_PAYMENT"]
  <2>1. /\ proc[q].kind \in HouseholdKinds /\ Exists(q) /\ proc[q] \in Rows
        /\ proc[q].status \in {"PENDING_EXTERNAL_ACTION", "PENDING_PAYMENT"}
    BY <1>10, RowThere DEF StampBgCleared, MergeCandidate, IsHousehold
  <2>2. /\ Save(q, IF GateMet(stamped) THEN advanced ELSE stamped)
        /\ GateMet(stamped) => proc[q].status = "PENDING_EXTERNAL_ACTION"
    BY <1>10, <2>1 DEF StampBgCleared, GateMet, Rows
  <2>3. advanced = [proc[q] EXCEPT !.cleared = TRUE, !.basis = "merge",
                                   !.status = "PENDING_PAYMENT"]
    OBVIOUS
  <2>4. Carry(proc[q], IF GateMet(stamped) THEN advanced ELSE stamped)
    BY <2>1, <2>2, <2>3 DEF Carry
  <2>5. QED
    BY <2>1, <2>2, <2>4, SavedMoves DEF HouseholdKinds
<1>11. ASSUME NEW q \in Processes, ClearHeldRow(r, q) PROVE Moves
  <2>1. /\ proc[q].kind \in HouseholdKinds /\ Exists(q)
        /\ proc[q].status \in {"PENDING_BG_REVIEW", "PENDING_BG_CLEARANCE"}
        /\ Save(q, ClearedRow(proc[q], "merge"))
    BY <1>11, RowThere
       DEF ClearHeldRow, MergeCandidate, IsHousehold, ClearBackgroundCheck
  <2>2. Discharge(proc[q], ClearedRow(proc[q], "merge"))
    BY <2>1 DEF Discharge
  <2>3. QED
    BY <2>1, <2>2, SavedMoves DEF HouseholdKinds
<1>12. CASE Revoke(r) \/ NextMergeStage(r)
  BY <1>12 DEF Revoke, NextMergeStage
<1>13. QED
  BY <1>3, <1>4, <1>5, <1>6, <1>7, <1>8, <1>9, <1>10, <1>11, <1>12 DEF Continue

LEMMA TurnsMove == IInv /\ TurnOK /\ [SerialNext]_vars => Moves \/ UNCHANGED proc
<1> SUFFICES ASSUME IInv, TurnOK, [SerialNext]_vars PROVE Moves \/ UNCHANGED proc
  OBVIOUS
<1>1. ASSUME NEW r \in Requests, Continue(r) \/ Abandon(r) PROVE Moves \/ UNCHANGED proc
  BY <1>1, ContinuingMoves DEF Abandon
<1>2. CASE WriteStanding \/ UNCHANGED vars
  BY <1>2, StandingAlone DEF vars
<1>3. QED
  BY <1>1, <1>2, ArrivingMoves DEF SerialNext

LEMMA SerialIsNext == [SerialNext]_vars => [Next]_vars
  BY DEF SerialNext, Next

\* A household row or a person's check keeps its kind.
LEMMA MoveKind ==
  ASSUME NEW old \in Rows, NEW new, Move(old, new)
  PROVE  new.kind = old.kind
<1>1. Note(old, new) \/ Begin(old, new) \/ Carry(old, new) \/ Collect(old, new)
        => new.kind = old.kind
  BY DEF Note, Begin, Carry, Collect, Rows
<1>2. Shelve(old, new) \/ Retrieve(old, new) => new.kind = old.kind
  BY DEF Shelve, Retrieve, Rows
<1>3. Judge(old, new) => new.kind = old.kind
  BY JudgedRow
<1>4. Discharge(old, new) => new.kind = old.kind
  BY DischargedRow
<1>5. Restart(old, new) => new.kind = old.kind
  BY RestartingRow
<1>6. QED
  BY <1>1, <1>2, <1>3, <1>4, <1>5 DEF Move

LEMMA OpenRow ==
  ASSUME NEW new, Open(new)
  PROVE  /\ Sound(new) /\ Balanced(new)
         /\ new.kind \in Kinds \ {"PERSON_AGREEMENT"}
         /\ ~new.paid /\ ~new.cleared
         /\ <<Null, new.status>> \in KindEdges(new.kind)
         /\ new.kind \in HouseholdKinds => new.status \in {"INTAKE", "PENDING_RENEWAL"}
  BY DEF Open, NewRow, Sound, Balanced, Place, Kinds, HouseholdKinds, InFlightInitial,
     InFlightRenewal, KindEdges, Null

-----------------------------------------------------------------------------
(* What holds of every row.                                                *)

\* A row an earlier release left behind.
LEMMA LegacyRow ==
  ASSUME NEW h, NEW row \in LegacyRows(h)
  PROVE  /\ row.attests = {} /\ ~row.paid /\ ~row.cleared
         /\ \/ /\ row.kind = "INITIAL" /\ row.status = "PENDING_BG_REVIEW"
               /\ row.from = Null
            \/ row.kind = "RENEWAL" /\ row.status = "BLOCKED" /\ row.from = Null
            \/ /\ row.kind = "RENEWAL" /\ row.status = "ARCHIVED"
               /\ row.from = "RENEWAL_PENDING_BG"
<1>1. CASE row = [NewRow("INITIAL", h, None, "PENDING_BG_REVIEW") EXCEPT !.signed = TRUE,
                                                                       !.consent = TRUE]
  BY <1>1 DEF NewRow
<1>2. CASE row = NewRow("RENEWAL", h, None, "BLOCKED")
  BY <1>2 DEF NewRow
<1>3. CASE row = [NewRow("RENEWAL", h, None, "ARCHIVED") EXCEPT !.from = "RENEWAL_PENDING_BG"]
  BY <1>3 DEF NewRow
<1>4. QED
  BY <1>1, <1>2, <1>3 DEF LegacyRows

LEMMA InitSound == Init => AllSound
<1> SUFFICES ASSUME Init, NEW p \in Processes PROVE Sound(proc[p])
  BY DEF AllSound
<1>1. proc[p] = FreeRow \/ \E h : proc[p] \in LegacyRows(h)
  BY DEF Init
<1>2. Sound(FreeRow)
  BY DEF Sound, FreeRow, NewRow, Place, HouseholdKinds, Null
<1>3. ASSUME NEW h, NEW row \in LegacyRows(h) PROVE Sound(row)
  BY <1>3, LegacyRow DEF Sound, Place, HouseholdKinds, InFlightInitial, InFlightRenewal, Null
<1>4. QED
  BY <1>1, <1>2, <1>3

LEMMA SoundKept == IInv /\ AllSound /\ (Moves \/ UNCHANGED proc) => AllSound'
<1> SUFFICES ASSUME IInv, AllSound, Moves PROVE AllSound'
  BY DEF AllSound
<1>pick. PICK p \in Processes : \E row : Writes(p, row)
  BY DEF Moves
<1>1. PICK row :
        /\ Save(p, row)
        /\ \/ proc[p] = FreeRow /\ Open(row)
           \/ Move(proc[p], row)
           \/ Apart(row) /\ proc[p].kind \in {Null, row.kind}
  BY <1>pick DEF Writes
<1>2. \A q \in Processes : proc'[q] = IF q = p THEN row ELSE proc[q]
  BY <1>1 DEF Save, IInv, RowsOK
<1>3. RowOK(proc[p]) /\ (Apart(proc[p]) \/ Sound(proc[p]))
  BY DEF IInv, RowsOK, AllSound
<1>4. Move(proc[p], row) => ~Apart(proc[p])
  BY DEF Move, Apart
<1>5. Apart(row) \/ Sound(row)
  BY <1>1, <1>3, <1>4, MoveSound, OpenRow
<1>6. QED
  BY <1>2, <1>5 DEF AllSound

LEMMA InitBalanced == Init /\ "RENEWAL" \notin Inherited => AllBalanced
<1> SUFFICES ASSUME Init, "RENEWAL" \notin Inherited, NEW p \in Processes
             PROVE  Balanced(proc[p])
  BY DEF AllBalanced
<1>1. proc[p] = FreeRow \/ \E h : proc[p] \in LegacyRows(h)
  BY DEF Init
<1>2. ~proc[p].paid /\ ~proc[p].cleared
  BY <1>1, LegacyRow DEF FreeRow, NewRow
<1>3. proc[p].kind # "RENEWAL"
  BY DEF Init, FreeRow, NewRow, Null
<1>4. CASE proc[p] = FreeRow
  BY <1>4 DEF FreeRow, NewRow, Balanced, HouseholdKinds, Null
<1>5. ASSUME NEW h, proc[p] \in LegacyRows(h) PROVE Balanced(proc[p])
  BY <1>2, <1>3, <1>5, LegacyRow DEF Balanced, Place
<1>6. QED
  BY <1>1, <1>4, <1>5

LEMMA BalancedKept ==
  ASSUME IInv, Vouching, AllSound, AllBalanced, "RENEWAL" \notin Inherited,
         Moves \/ UNCHANGED proc
  PROVE  AllBalanced'
<1>1. CASE UNCHANGED proc
  BY <1>1 DEF AllBalanced
<1>2. CASE Moves
  <2>pick. PICK p \in Processes : \E row : Writes(p, row)
    BY <1>2 DEF Moves
  <2>1. PICK row :
          /\ Save(p, row)
          /\ \/ proc[p] = FreeRow /\ Open(row)
             \/ Move(proc[p], row)
             \/ Apart(row) /\ proc[p].kind \in {Null, row.kind}
    BY <2>pick DEF Writes
  <2>2. \A q \in Processes : proc'[q] = IF q = p THEN row ELSE proc[q]
    BY <2>1 DEF Save, IInv, RowsOK
  <2>3. RowOK(proc[p]) /\ (Apart(proc[p]) \/ Sound(proc[p])) /\ Balanced(proc[p])
    BY DEF IInv, RowsOK, AllSound, AllBalanced
  <2>4. Move(proc[p], row) => ~Apart(proc[p])
    BY DEF Move, Apart
  <2>5. proc[p].kind = "RENEWAL" /\ proc[p].status = "BLOCKED" => proc[p].consent
    <3>1. proc[p].kind = "RENEWAL" /\ proc[p].status = "BLOCKED" => ~proc[p].cleared
      BY <2>3 DEF Balanced, Place, HouseholdKinds
    <3>2. QED
      BY <3>1 DEF Vouching, Vouched, Gated, Counted, HouseholdKinds
  <2>6. Apart(row) => Balanced(row)
    BY DEF Apart, Balanced, HouseholdKinds
  <2>7. Move(proc[p], row) => Balanced(row)
    BY <2>3, <2>4, <2>5, MoveBalanced
  <2>8. Balanced(row)
    BY <2>1, <2>6, <2>7, OpenRow
  <2>9. QED
    BY <2>2, <2>8 DEF AllBalanced
<1>3. QED
  BY <1>1, <1>2

\* Every row is sound, while handlers take turns.
LEMMA SoundInductive == SerialSpec => [](IInv /\ TurnOK /\ AllSound)
<1>1. IInv /\ TurnOK /\ AllSound /\ [SerialNext]_vars => AllSound'
  BY TurnsMove, SoundKept
<1>2. QED
  BY <1>1, SerialInductive, InitSound, PTL DEF SerialSpec

\* And balanced, when none of them is a renewal an earlier release blocked.
LEMMA BalancedInductive ==
  ASSUME "RENEWAL" \notin Inherited
  PROVE  SerialSpec => [](IInv /\ TurnOK /\ AllSound /\ Vouching /\ AllBalanced)
<1>1. IInv /\ TurnOK /\ [SerialNext]_vars /\ Vouching => Vouching'
  BY SerialIsNext, NextVouching
<1>2. IInv /\ TurnOK /\ AllSound /\ Vouching /\ AllBalanced /\ [SerialNext]_vars => AllBalanced'
  BY TurnsMove, BalancedKept
<1>3. Init => AllBalanced
  BY InitBalanced
<1>4. QED
  BY <1>1, <1>2, <1>3, SoundInductive, InitVouching, PTL DEF SerialSpec

\* The status an archive collapsed is on the row exactly while it is archived,
\* so a restore always knows where to go.
THEOREM Captured == SerialSpec => []CapturedWhileArchived
<1>1. IInv /\ AllSound => CapturedWhileArchived
  BY DEF AllSound, Sound, Apart, CapturedWhileArchived
<1>2. QED
  BY <1>1, SoundInductive, PTL

\* A row that bears a rejection is not open to approvals.
THEOREM RejectionStands == SerialSpec => []RejectionBlocks
<1>1. IInv /\ AllSound => RejectionBlocks
  <2> SUFFICES ASSUME IInv, AllSound, NEW p \in Processes, NEW a \in proc[p].attests,
                      a.result = "REJECT", AwaitingBgReview(proc[p])
               PROVE  FALSE
    BY DEF RejectionBlocks
  <2>1. ~Apart(proc[p])
    BY RowThere DEF Apart
  <2>2. ~proc[p].cleared /\ proc[p].status \notin {"ARCHIVED", "BLOCKED"}
    BY DEF AwaitingBgReview
  <2>3. QED
    BY <2>1, <2>2 DEF AllSound, Sound, Place
<1>2. QED
  BY <1>1, SoundInductive, PTL

\* Every change of a status is an edge of the documented table.
THEOREM EveryMoveIsLegal == SerialSpec => LegalTransitions
<1> DEFINE Legal ==
      \A p \in Processes :
        /\ proc'[p].status # proc[p].status
        /\ proc'[p].kind # "PERSON_AGREEMENT"
        /\ "RENEWAL_PENDING_BG" \notin {proc[p].status, proc'[p].status}
        => LegalTransition(proc'[p].kind, proc[p].status, proc'[p].status)
<1>1. IInv /\ TurnOK /\ AllSound /\ [SerialNext]_vars => Legal
  <2> SUFFICES ASSUME IInv, TurnOK, AllSound, [SerialNext]_vars PROVE Legal
    OBVIOUS
  <2>1. CASE UNCHANGED proc
    BY <2>1
  <2>2. CASE Moves
    <3>pick. PICK q \in Processes : \E row : Writes(q, row)
      BY <2>2 DEF Moves
    <3>1. PICK row :
            /\ Save(q, row)
            /\ \/ proc[q] = FreeRow /\ Open(row)
               \/ Move(proc[q], row)
               \/ Apart(row) /\ proc[q].kind \in {Null, row.kind}
      BY <3>pick DEF Writes
    <3>2. \A p \in Processes : proc'[p] = IF p = q THEN row ELSE proc[p]
      BY <3>1 DEF Save, IInv, RowsOK
    <3>3. RowOK(proc[q]) /\ (Move(proc[q], row) => Sound(proc[q]))
      BY DEF IInv, RowsOK, AllSound, Move, Apart
    <3>4. ASSUME row.status # proc[q].status, row.kind # "PERSON_AGREEMENT",
                 "RENEWAL_PENDING_BG" \notin {proc[q].status, row.status}
          PROVE  LegalTransition(row.kind, proc[q].status, row.status)
      <4>1. CASE proc[q] = FreeRow /\ Open(row)
        BY <4>1, OpenRow DEF FreeRow, NewRow, LegalTransition
      <4>2. CASE Move(proc[q], row)
        BY <3>3, <3>4, <4>2, MoveLegal
      <4>3. QED
        BY <3>1, <3>4, <4>1, <4>2 DEF Apart
    <3>5. QED
      BY <3>2, <3>4
  <2>3. QED
    BY <2>1, <2>2, TurnsMove
<1>2. QED
  BY <1>1, SoundInductive, PTL DEF SerialSpec, LegalTransitions

-----------------------------------------------------------------------------
(* The handlers, as steps of the two-track gate.                           *)

Phase == [p \in Processes |-> PhaseOf(proc[p])]
Dues == [p \in Processes |-> IsHousehold(proc[p]) /\ proc[p].paid]
Check == [p \in Processes |-> IsHousehold(proc[p]) /\ proc[p].cleared]

LEMMA PhaseOfRow ==
  ASSUME NEW row
  PROVE  /\ row.kind \notin HouseholdKinds => PhaseOf(row) = "none"
         /\ row.kind \in HouseholdKinds =>
              /\ row.status = "PENDING_PAYMENT" => PhaseOf(row) = "payment"
              /\ row.status = "PENDING_BG_CLEARANCE" => PhaseOf(row) = "held"
              /\ row.status = "ACTIVE" => PhaseOf(row) = "member"
              /\ row.status = "BLOCKED" => PhaseOf(row) = "blocked"
              /\ row.status = "ARCHIVED" => PhaseOf(row) = "archived"
              /\ row.status \in { "INTAKE", "PENDING_EXTERNAL_ACTION", "PENDING_RENEWAL",
                                  "PENDING_BG_REVIEW", "RENEWAL_PENDING_BG" }
                   => PhaseOf(row) = "pending"
  BY DEF PhaseOf

\* A row outside the households' two kinds never shows in the gate.
LEMMA GateUnmoved ==
  ASSUME IInv, NEW p \in Processes, NEW row, Save(p, row),
         ~IsHousehold(proc[p]), ~IsHousehold(row)
  PROVE  UNCHANGED <<Phase, Dues, Check>>
<1>1. \A q \in Processes : proc'[q] = IF q = p THEN row ELSE proc[q]
  BY DEF Save, IInv, RowsOK
<1>2. \A q \in Processes : PhaseOf(proc'[q]) = PhaseOf(proc[q])
  BY <1>1, PhaseOfRow DEF IsHousehold
<1>3. \A q \in Processes : /\ IsHousehold(proc'[q]) = IsHousehold(proc[q])
                           /\ IsHousehold(proc[q]) => proc'[q] = proc[q]
  BY <1>1 DEF IsHousehold
<1>4. QED
  BY <1>2, <1>3 DEF Phase, Dues, Check

\* What the gate sees of a household row that is written.
LEMMA GateMoved ==
  ASSUME IInv, NEW p \in Processes, NEW row \in Rows, Save(p, row), IsHousehold(row),
         ~IsHousehold(proc[p]) => ~row.paid /\ ~row.cleared
  PROVE  /\ Phase[p] = PhaseOf(proc[p])
         /\ Dues[p] = (IsHousehold(proc[p]) /\ proc[p].paid)
         /\ Check[p] = (IsHousehold(proc[p]) /\ proc[p].cleared)
         /\ Phase' = [Phase EXCEPT ![p] = PhaseOf(row)]
         /\ PhaseOf(row) = PhaseOf(proc[p]) => UNCHANGED Phase
         /\ ~IsHousehold(proc[p]) \/ row.paid = proc[p].paid => UNCHANGED Dues
         /\ ~IsHousehold(proc[p]) \/ row.cleared = proc[p].cleared => UNCHANGED Check
         /\ row.paid => Dues' = [Dues EXCEPT ![p] = TRUE]
         /\ row.cleared => Check' = [Check EXCEPT ![p] = TRUE]
<1>1. \A q \in Processes : proc'[q] = IF q = p THEN row ELSE proc[q]
  BY DEF Save, IInv, RowsOK
<1>2. proc[p] \in Rows
  BY DEF IInv, RowsOK
<1>3. Phase' = [Phase EXCEPT ![p] = PhaseOf(row)]
  BY <1>1 DEF Phase
<1>4. PhaseOf(row) = PhaseOf(proc[p]) => UNCHANGED Phase
  BY <1>1 DEF Phase
<1>5. ~IsHousehold(proc[p]) \/ row.paid = proc[p].paid => UNCHANGED Dues
  <2>1. SUFFICES ASSUME ~IsHousehold(proc[p]) \/ row.paid = proc[p].paid, NEW q \in Processes
                 PROVE  (IsHousehold(proc'[q]) /\ proc'[q].paid)
                          <=> (IsHousehold(proc[q]) /\ proc[q].paid)
    BY DEF Dues
  <2>2. QED
    BY <1>1, <2>1 DEF IsHousehold
<1>6. ~IsHousehold(proc[p]) \/ row.cleared = proc[p].cleared => UNCHANGED Check
  <2>1. SUFFICES ASSUME ~IsHousehold(proc[p]) \/ row.cleared = proc[p].cleared,
                        NEW q \in Processes
                 PROVE  (IsHousehold(proc'[q]) /\ proc'[q].cleared)
                          <=> (IsHousehold(proc[q]) /\ proc[q].cleared)
    BY DEF Check
  <2>2. QED
    BY <1>1, <2>1 DEF IsHousehold
<1>7. row.paid => Dues' = [Dues EXCEPT ![p] = TRUE]
  BY <1>1 DEF Dues
<1>8. row.cleared => Check' = [Check EXCEPT ![p] = TRUE]
  BY <1>1 DEF Check
<1>9. QED
  BY <1>3, <1>4, <1>5, <1>6, <1>7, <1>8 DEF Phase, Dues, Check

LEMMA OpeningMaps ==
  ASSUME IInv, NEW p \in Processes, NEW row, Save(p, row), proc[p] = FreeRow, Open(row),
         row \in Rows
  PROVE  [Gate!GateNext]_(Gate!gateVars)
<1>1. ~IsHousehold(proc[p]) /\ ~row.paid /\ ~row.cleared
  <2>1. ~IsHousehold(proc[p])
    BY DEF IsHousehold, FreeRow, NewRow, HouseholdKinds, Null
  <2>2. QED
    BY <2>1, OpenRow
<1>2. CASE ~IsHousehold(row)
  BY <1>1, <1>2, GateUnmoved DEF Gate!gateVars, Phase, Dues, Check
<1>3. CASE IsHousehold(row)
  <2>1. PhaseOf(row) = "pending" /\ PhaseOf(proc[p]) = "none"
    BY <1>1, <1>3, OpenRow, PhaseOfRow DEF IsHousehold
  <2>2. /\ Phase[p] = "none" /\ Phase' = [Phase EXCEPT ![p] = "pending"]
        /\ UNCHANGED <<Dues, Check>>
    BY <1>1, <1>3, <2>1, GateMoved
  <2>3. Gate!Apply(p)
    BY <2>2 DEF Gate!Apply, Gate!Goto, Phase, Dues, Check
  <2>4. QED
    BY <2>3 DEF Gate!GateNext
<1>4. QED
  BY <1>2, <1>3

LEMMA MovingMaps ==
  ASSUME IInv, NEW p \in Processes, NEW row \in Rows, Save(p, row),
         NEW old, old = proc[p], IsHousehold(old), Sound(old), Balanced(old), Move(old, row),
         old.kind = "RENEWAL" /\ old.status = "BLOCKED" => old.consent
  PROVE  [Gate!GateNext]_(Gate!gateVars)
<1>1. RowOK(old) /\ old \in Rows
  BY DEF IInv, RowsOK, RowOK
<1>2. IsHousehold(row) /\ row.kind = old.kind
  BY <1>1, MoveKind DEF IsHousehold
<1>3. /\ Phase[p] = PhaseOf(old) /\ Dues[p] = old.paid /\ Check[p] = old.cleared
      /\ Phase' = [Phase EXCEPT ![p] = PhaseOf(row)]
      /\ PhaseOf(row) = PhaseOf(old) => UNCHANGED Phase
      /\ row.paid = old.paid => UNCHANGED Dues
      /\ row.cleared = old.cleared => UNCHANGED Check
      /\ row.paid => Dues' = [Dues EXCEPT ![p] = TRUE]
      /\ row.cleared => Check' = [Check EXCEPT ![p] = TRUE]
  <2>1. Dues[p] = old.paid /\ Check[p] = old.cleared
    BY <1>1 DEF Dues, Check, Rows
  <2>2. QED
    BY <1>2, <2>1, GateMoved
<1> DEFINE PhaseIs(r, s, ph) == r.status = s => PhaseOf(r) = ph
<1>4. /\ PhaseIs(old, "PENDING_PAYMENT", "payment") /\ PhaseIs(row, "PENDING_PAYMENT", "payment")
      /\ PhaseIs(old, "PENDING_BG_CLEARANCE", "held")
      /\ PhaseIs(row, "PENDING_BG_CLEARANCE", "held")
      /\ PhaseIs(old, "ACTIVE", "member") /\ PhaseIs(row, "ACTIVE", "member")
      /\ PhaseIs(old, "BLOCKED", "blocked") /\ PhaseIs(row, "BLOCKED", "blocked")
      /\ PhaseIs(old, "ARCHIVED", "archived") /\ PhaseIs(row, "ARCHIVED", "archived")
      /\ \A r \in {old, row}, s \in { "INTAKE", "PENDING_EXTERNAL_ACTION", "PENDING_RENEWAL",
                                       "PENDING_BG_REVIEW", "RENEWAL_PENDING_BG" } :
           PhaseIs(r, s, "pending")
  BY <1>2, PhaseOfRow DEF IsHousehold
<1>5. /\ old.status \in Statuses
      /\ row.status = old.status => PhaseOf(row) = PhaseOf(old)
      /\ old.paid \in BOOLEAN /\ old.cleared \in BOOLEAN
  <2>1. old.status \in Statuses
    BY <1>1 DEF RowOK, WellFormed, IsHousehold, HouseholdKinds, Rows, Null
  <2>2. row.status = old.status => PhaseOf(row) = PhaseOf(old)
    BY <1>4, <2>1 DEF Statuses
  <2>3. QED
    BY <1>1, <2>1, <2>2 DEF Rows
<1> DEFINE Maps == \/ UNCHANGED Gate!gateVars
                   \/ Gate!Proceed(p) \/ Gate!Pay(p) \/ Gate!Clear(p) \/ Gate!Block(p)
                   \/ Gate!Restart(p) \/ Gate!Shelve(p) \/ Gate!Restore(p)
<1>maps. SUFFICES Maps
  BY DEF Gate!GateNext
<1>stays. PhaseOf(row) = PhaseOf(old) /\ row.paid = old.paid /\ row.cleared = old.cleared
          => UNCHANGED Gate!gateVars
  <2>1. UNCHANGED Phase /\ UNCHANGED Dues /\ UNCHANGED Check => UNCHANGED Gate!gateVars
    BY DEF Gate!gateVars, Phase, Dues, Check
  <2>2. QED
    BY <1>3, <2>1
<1>proceeds. /\ Phase[p] = "pending" /\ Phase' = [Phase EXCEPT ![p] = "payment"]
             /\ UNCHANGED <<Dues, Check>>
             => Gate!Proceed(p)
  BY DEF Gate!Proceed, Gate!Goto, Phase, Dues, Check
<1>pays. /\ ~Dues[p] /\ Dues' = [Dues EXCEPT ![p] = TRUE] /\ UNCHANGED Check
         /\ \/ /\ Phase[p] = "payment"
               /\ Phase' = [Phase EXCEPT ![p] = IF Check[p] THEN "member" ELSE "held"]
            \/ Phase[p] = "blocked" /\ UNCHANGED Phase
         => Gate!Pay(p)
  BY DEF Gate!Pay, Gate!Goto, Phase, Dues, Check
<1>clears. /\ Check' = [Check EXCEPT ![p] = TRUE] /\ UNCHANGED Dues
           /\ \/ /\ Phase[p] = "pending"
                 /\ UNCHANGED Phase \/ Phase' = [Phase EXCEPT ![p] = "payment"]
              \/ /\ Phase[p] \in {"payment", "held", "blocked"}
                 /\ Phase' = [Phase EXCEPT ![p] = IF Dues[p] THEN "member" ELSE "payment"]
           => Gate!Clear(p)
  BY DEF Gate!Clear, Gate!Goto, Phase, Dues, Check
<1>blocks. /\ Phase[p] \in {"pending", "payment", "held"} /\ ~Check[p]
           /\ Phase' = [Phase EXCEPT ![p] = "blocked"] /\ UNCHANGED <<Dues, Check>>
           => Gate!Block(p)
  BY DEF Gate!Block, Gate!Goto, Phase, Dues, Check
<1>restarts. /\ Phase[p] = "blocked" /\ UNCHANGED <<Dues, Check>>
             /\ Phase' = [Phase EXCEPT ![p] = IF Dues[p] THEN "held" ELSE "payment"]
             => Gate!Restart(p)
  BY DEF Gate!Restart, Gate!Goto, Phase, Dues, Check
<1>shelves. /\ Phase[p] \in {"pending", "payment", "held", "blocked"}
            /\ Phase' = [Phase EXCEPT ![p] = "archived"] /\ UNCHANGED <<Dues, Check>>
            => Gate!Shelve(p)
  BY DEF Gate!Shelve, Gate!Goto, Phase, Dues, Check
<1>restores. ASSUME Phase[p] = "archived", UNCHANGED <<Dues, Check>>,
                    NEW ph \in {"pending", "payment", "held", "blocked"}, 
                    Phase' = [Phase EXCEPT ![p] = ph],
                    ph \in {"pending", "payment"} => ~Dues[p],
                    ph = "held" => Dues[p] /\ ~Check[p],
                    ph = "blocked" => ~Check[p]
             PROVE  Gate!Restore(p)
  BY <1>restores DEF Gate!Restore, Gate!Goto, Gate!Fits, Phase, Dues, Check
<1>6. CASE Note(old, row)
  <2>1. row.paid = old.paid /\ row.cleared = old.cleared /\ row.status = old.status
    BY <1>1, <1>6 DEF Note, Rows
  <2>2. QED
    BY <1>5, <2>1, <1>stays
<1>7. CASE Begin(old, row)
  <2>1. /\ PhaseOf(old) = "pending" /\ PhaseOf(row) = "pending" /\ row.paid = old.paid
        /\ row.cleared = old.cleared \/ row.cleared
    BY <1>1, <1>4, <1>7 DEF Begin, Rows
  <2>2. QED
    BY <1>3, <2>1, <1>stays, <1>clears
<1>8. CASE Carry(old, row)
  <2>1. /\ row.paid = old.paid
        /\ \/ /\ old.status = "PENDING_EXTERNAL_ACTION"
              /\ row.status \in {old.status, "PENDING_PAYMENT"}
              /\ \/ row.cleared
                 \/ row.cleared = old.cleared /\ row.status = "PENDING_PAYMENT"
           \/ /\ old.status = "PENDING_PAYMENT" /\ row.status = old.status
              /\ row.cleared /\ ~old.paid
    <3>1. old.status = "PENDING_PAYMENT" => ~old.paid
      BY <1>8 DEF Carry, Balanced, Place
    <3>2. CASE row = [old EXCEPT !.status = "PENDING_PAYMENT"]
      BY <1>1, <1>8, <3>1, <3>2 DEF Carry, Rows
    <3>3. CASE row = [old EXCEPT !.cleared = TRUE, !.basis = "merge",
                                 !.status = "PENDING_PAYMENT"]
      BY <1>1, <1>8, <3>1, <3>3 DEF Carry, Rows
    <3>4. CASE row = [old EXCEPT !.cleared = TRUE, !.basis = "merge"]
      BY <1>1, <1>8, <3>1, <3>4 DEF Carry, Rows
    <3>5. QED
      BY <1>8, <3>2, <3>3, <3>4 DEF Carry
  <2>2. QED
    BY <1>3, <1>4, <2>1, <1>proceeds, <1>clears
<1>9. CASE Collect(old, row)
  <2>1. /\ ~old.paid /\ row.paid /\ row.cleared = old.cleared
        /\ \/ /\ old.status = "PENDING_PAYMENT"
              /\ row.status = IF old.cleared THEN "ACTIVE" ELSE "PENDING_BG_CLEARANCE"
           \/ old.status = "BLOCKED" /\ row.status = old.status
    BY <1>1, <1>9 DEF Collect, SettledStatus, Rows
  <2>2. QED
    BY <1>3, <1>4, <2>1, <1>pays
<1>10. ASSUME row.status = ClearedStatus(old), row.cleared, row.paid = old.paid,
              old.status \in { "BLOCKED", "PENDING_BG_REVIEW", "PENDING_BG_CLEARANCE",
                               "RENEWAL_PENDING_BG", "PENDING_PAYMENT" }
       PROVE  Maps
  <2>1. row.status = IF old.paid THEN "ACTIVE" ELSE "PENDING_PAYMENT"
    BY <1>1, <1>10, ClearsTo DEF IsHousehold, RowOK, Rows, Kinds, HouseholdKinds
  <2>2. old.status \in {"PENDING_BG_REVIEW", "RENEWAL_PENDING_BG"} => ~old.paid
    BY DEF Balanced, Place, IsHousehold
  <2>3. QED
    BY <1>3, <1>4, <1>10, <2>1, <2>2, <1>clears
<1>11. CASE Judge(old, row)
  <2>1. AwaitingBgReview(old)
    BY <1>11 DEF Judge
  <2>2. /\ row.paid = old.paid
        /\ \/ row.status = old.status /\ row.cleared = old.cleared
           \/ row.status = ClearedStatus(old) /\ row.cleared
           \/ row.status = "BLOCKED" /\ row.cleared = old.cleared
    BY <1>1, <1>11, JudgedFields
  <2>3. CASE row.status = old.status /\ row.cleared = old.cleared
    BY <1>5, <2>2, <2>3, <1>stays
  <2>4. CASE row.status = ClearedStatus(old) /\ row.cleared
    BY <1>10, <2>1, <2>2, <2>4 DEF AwaitingBgReview
  <2>5. CASE row.status = "BLOCKED" /\ row.cleared = old.cleared
    <3>1. ~old.cleared /\ PhaseOf(old) \in {"pending", "payment", "held"}
      BY <1>4, <2>1 DEF AwaitingBgReview
    <3>2. QED
      BY <1>3, <1>4, <2>2, <2>5, <3>1, <1>blocks
  <2>6. QED
    BY <2>2, <2>3, <2>4, <2>5
<1>12. CASE Discharge(old, row)
  BY <1>1, <1>10, <1>12, DischargedRow DEF Discharge
<1>13. CASE Restart(old, row)
  <2>1. /\ row.paid = old.paid /\ row.cleared = FALSE
        /\ row.status = IF old.status = "BLOCKED" THEN BlockedResetStatus(old)
                        ELSE old.status
    <3>1. old \in Rows
      BY <1>1
    <3>2. QED
      BY <1>13, <3>1, RestartingRow
  <2>2. CASE old.status = "BLOCKED"
    <3>1. ~old.cleared
      BY <2>2 DEF Balanced, Place, IsHousehold
    <3>2. old.kind = "RENEWAL" => old.consent
      BY <2>2
    <3>3. row.status = IF old.paid THEN "PENDING_BG_CLEARANCE" ELSE "PENDING_PAYMENT"
      BY <1>2, <2>1, <2>2, <3>2 DEF BlockedResetStatus, IsHousehold, HouseholdKinds
    <3>4. QED
      BY <1>3, <1>4, <1>5, <2>1, <2>2, <3>1, <3>3, <1>restarts
  <2>3. CASE old.status # "BLOCKED"
    <3>1. ~old.cleared
      BY <1>13, <2>3 DEF Restart, AwaitingBgReview
    <3>2. QED
      BY <1>5, <2>1, <2>3, <3>1, <1>stays
  <2>4. QED
    BY <2>2, <2>3
<1>14. CASE Shelve(old, row) \/ Retrieve(old, row)
  <2>1. /\ row.paid = old.paid /\ row.cleared = old.cleared
        /\ \/ /\ old.status \notin {"ACTIVE", "ARCHIVED"}
              /\ row.status = "ARCHIVED"
           \/ /\ old.status = "ARCHIVED" /\ old.from \in Restorable
              /\ row.status = old.from /\ row.from = Null
    BY <1>1, <1>14, FiledRow DEF Sound
  <2>2. CASE old.status \notin {"ACTIVE", "ARCHIVED"} /\ row.status = "ARCHIVED"
    <3>1. PhaseOf(old) \in {"pending", "payment", "held", "blocked"}
      BY <1>4, <1>5, <2>2 DEF Statuses
    <3>2. QED
      BY <1>3, <1>4, <2>1, <2>2, <3>1, <1>shelves
  <2>3. CASE old.status = "ARCHIVED" /\ row.status = old.from /\ old.from \in Restorable
    <3>1. /\ row.paid => row.status \in {"PENDING_BG_CLEARANCE", "ACTIVE", "BLOCKED"}
          /\ row.cleared => row.status \notin {"PENDING_BG_CLEARANCE", "BLOCKED"}
      BY <2>1, <2>3 DEF Balanced, Place, IsHousehold
    <3>2. row.status = "PENDING_BG_CLEARANCE" => row.paid
      BY <1>2, <2>3, <2>1 DEF Sound, Place, IsHousehold
    <3>3. /\ PhaseOf(row) \in {"pending", "payment", "held", "blocked"}
          /\ PhaseOf(row) \in {"pending", "payment"} => ~row.paid
          /\ PhaseOf(row) = "held" => row.paid /\ ~row.cleared
          /\ PhaseOf(row) = "blocked" => ~row.cleared
      BY <1>4, <2>3, <3>1, <3>2 DEF Restorable, Statuses
    <3>4. QED
      BY <1>3, <1>4, <2>1, <2>3, <3>3, <1>restores
  <2>4. QED
    BY <2>1, <2>2, <2>3
<1>15. QED
  BY <1>6, <1>7, <1>8, <1>9, <1>11, <1>12, <1>13, <1>14 DEF Move

LEMMA TurnsMap ==
  ASSUME IInv, Vouching, AllSound, AllBalanced, IInv', Moves \/ UNCHANGED proc,
         "RENEWAL" \notin Inherited
  PROVE  [Gate!GateNext]_(Gate!gateVars)
<1>1. CASE UNCHANGED proc
  <2>1. UNCHANGED Phase /\ UNCHANGED Dues /\ UNCHANGED Check
    BY <1>1 DEF Phase, Dues, Check
  <2>2. QED
    BY <2>1 DEF Gate!gateVars, Phase, Dues, Check
<1>2. CASE Moves
  <2>pick. PICK p \in Processes : \E row : Writes(p, row)
    BY <1>2 DEF Moves
  <2>1. PICK row :
          /\ Save(p, row)
          /\ \/ proc[p] = FreeRow /\ Open(row)
             \/ Move(proc[p], row)
             \/ Apart(row) /\ proc[p].kind \in {Null, row.kind}
    BY <2>pick DEF Writes
  <2>2. proc[p] \in Rows /\ row \in Rows
    <3>1. proc'[p] = row
      BY <2>1 DEF Save, IInv, RowsOK
    <3>2. QED
      BY <3>1 DEF IInv, RowsOK
  <2>3. CASE proc[p] = FreeRow /\ Open(row)
    BY <2>1, <2>2, <2>3, OpeningMaps
  <2>4. CASE Move(proc[p], row) /\ IsHousehold(proc[p])
    <3>1. Sound(proc[p]) /\ Balanced(proc[p])
      BY <2>4 DEF AllSound, AllBalanced, Apart, IsHousehold, HouseholdKinds
    <3>2. proc[p].kind = "RENEWAL" /\ proc[p].status = "BLOCKED" => proc[p].consent
      <4>1. proc[p].kind = "RENEWAL" /\ proc[p].status = "BLOCKED" => ~proc[p].cleared
        BY <3>1 DEF Balanced, Place, HouseholdKinds
      <4>2. QED
        BY <4>1 DEF Vouching, Vouched, Gated, Counted, HouseholdKinds
    <3>3. QED
      BY <2>1, <2>2, <2>4, <3>1, <3>2, MovingMaps
  <2>5. CASE ~IsHousehold(proc[p]) /\ ~IsHousehold(row)
    <3>1. UNCHANGED Phase /\ UNCHANGED Dues /\ UNCHANGED Check
      BY <2>1, <2>5, GateUnmoved
    <3>2. QED
      BY <3>1 DEF Gate!gateVars, Phase, Dues, Check
  <2>6. Move(proc[p], row) /\ ~IsHousehold(proc[p]) => ~IsHousehold(row)
    BY <2>2, MoveKind DEF IsHousehold
  <2>7. Apart(row) /\ proc[p].kind \in {Null, row.kind}
          => ~IsHousehold(proc[p]) /\ ~IsHousehold(row)
    BY DEF Apart, IsHousehold, HouseholdKinds, Null
  <2>8. QED
    BY <2>1, <2>3, <2>4, <2>5, <2>6, <2>7
<1>3. QED
  BY <1>1, <1>2

LEMMA InitGate == Init /\ "RENEWAL" \notin Inherited => Gate!GateInit
<1> SUFFICES ASSUME Init, "RENEWAL" \notin Inherited PROVE Gate!GateInit
  OBVIOUS
<1>1. ASSUME NEW p \in Processes
      PROVE  /\ ~proc[p].paid /\ ~proc[p].cleared
             /\ PhaseOf(proc[p]) \in {"none", "pending"}
  <2>1. proc[p] = FreeRow \/ \E h : proc[p] \in LegacyRows(h)
    BY DEF Init
  <2>2. proc[p].kind # "RENEWAL"
    BY DEF Init, FreeRow, NewRow, Null
  <2>3. CASE proc[p] = FreeRow
    BY <2>3, PhaseOfRow DEF FreeRow, NewRow, HouseholdKinds, Null
  <2>4. ASSUME NEW h, proc[p] \in LegacyRows(h)
        PROVE  /\ ~proc[p].paid /\ ~proc[p].cleared
               /\ PhaseOf(proc[p]) \in {"none", "pending"}
    BY <2>2, <2>4, LegacyRow, PhaseOfRow DEF HouseholdKinds
  <2>5. QED
    BY <2>1, <2>3, <2>4
<1>2. QED
  BY <1>1 DEF Gate!GateInit

\* Handlers that take turns implement the two-track gate (TwoTrackGate), unless
\* the table holds a renewal that an earlier release blocked before it had
\* consented: dues that arrive for it while it is blocked are kept, and its reset
\* sends it back to the external actions, which the gate's restart does not.
THEOREM HandlersImplementGate ==
  ASSUME "RENEWAL" \notin Inherited
  PROVE  SerialSpec => ImplementsGate
<1>1. IInv /\ TurnOK /\ AllSound /\ Vouching /\ AllBalanced /\ IInv' /\ [SerialNext]_vars
        => [Gate!GateNext]_(Gate!gateVars)
  BY TurnsMove, TurnsMap
<1>2. Init => Gate!GateInit
  BY InitGate
<1>3. QED
  BY <1>1, <1>2, BalancedInductive, PTL DEF SerialSpec, ImplementsGate, Gate!GateSpec

=============================================================================
