--------------------------- MODULE EnrolmentProofs ---------------------------
(***************************************************************************)
(* For any number of people, handlers, enrolments and edits of the cap:    *)
(* the types, where a hold may stand, and that the places keep to the cap. *)
(***************************************************************************)
EXTENDS EnrolmentProperties, FiniteSetTheorems, TLAPS

-----------------------------------------------------------------------------
(* The types.                                                              *)

LEMMA NewRowTypes ==
  ASSUME row \in [People -> RowType], NEW p \in People, NEW st \in {"pending", "active"},
         NewRow(p, st)
  PROVE  row' \in [People -> RowType]
<1>1. row[p].stint + 1 \in Nat
  BY DEF RowType
<1>2. [Unenrolled(row[p].stint + 1) EXCEPT !.status = st] \in RowType
  BY <1>1 DEF Unenrolled, RowType
<1> QED BY <1>2 DEF NewRow

LEMMA DeleteTypes ==
  ASSUME row \in [People -> RowType], NEW p \in People, Delete(p)
  PROVE  row' \in [People -> RowType]
<1>1. Unenrolled(row[p].stint) \in RowType
  BY DEF Unenrolled, RowType
<1> QED BY <1>1 DEF Delete

LEMMA MoveTypes ==
  ASSUME TypeOK, NEW n \in Int, NEW m \in Int, NEW b, Move(n, m, b)
  PROVE  pool' \in Int /\ off' \in Int /\ lapsed' \in BOOLEAN
BY DEF Move, TypeOK

LEMMA LapseTypes ==
  ASSUME TypeOK, NEW b, LapseIf(b)
  PROVE  pool' \in Int /\ off' \in Int /\ lapsed' \in BOOLEAN
BY MoveTypes DEF LapseIf

LEMMA BeginTypes ==
  ASSUME TypeOK, NEW c \in CallType, Begin(c)
  PROVE  calls' \subseteq CallType
BY DEF Begin, TypeOK

LEMMA OverfullTypes ==
  ASSUME NEW b, OverfullIf(b)
  PROVE  overfull' \in BOOLEAN
BY DEF OverfullIf

LEMMA StoreTypes ==
  \A p \in People : Store(p, 1) \in CallType /\ Store(p, -1) \in CallType
BY DEF Store, CallType

LEMMA CallFields ==
  ASSUME NEW c \in CallType
  PROVE  /\ c.op \in {"enrol", "activate", "apply", "byhand"} => c.who \in People
         /\ c.op \in {"enrol", "edit"} => c.old \in Caps
         /\ c.op = "edit" => c.new \in Caps
         /\ c.op = "activate" => c.held \in BOOLEAN
         /\ c.op \in StoreOps \cup {"byhand"} => c.due \in Int
BY DEF CallType, StoreOps

LEMMA CapsAreNumbers == \A n \in Caps : n \in Int
BY EnrolmentAssumption

LEMMA EnrolTypes ==
  ASSUME TypeOK, NEW c \in calls, Enrol(c)
  PROVE  TypeOK'
<1>1. c \in CallType /\ c.who \in People
  BY CallFields DEF TypeOK, Enrol
<1>2. row' \in [People -> RowType]
  BY <1>1, NewRowTypes DEF TypeOK, Enrol
<1>3. overfull' \in BOOLEAN
  BY OverfullTypes DEF Enrol
<1> QED BY <1>2, <1>3 DEF TypeOK, Enrol, Finish, seats

LEMMA EditTypes ==
  ASSUME TypeOK, NEW c \in calls, Edit(c)
  PROVE  TypeOK'
<1>1. c \in CallType /\ c.old \in Caps /\ c.new \in Caps
  BY CallFields DEF TypeOK, Edit
<1>2. c.new - c.old \in Int
  BY <1>1, CapsAreNumbers
<1>3. [op |-> "store", due |-> c.new - c.old] \in CallType
  BY <1>2 DEF CallType
<1>4. calls' \subseteq CallType
  BY <1>3 DEF Edit, Continue, TypeOK
<1>5. pool' \in Int /\ off' \in Int /\ lapsed' \in BOOLEAN
  BY LapseTypes DEF Edit
<1>6. overfull' \in BOOLEAN
  BY OverfullTypes DEF Edit
<1> QED BY <1>1, <1>4, <1>5, <1>6 DEF TypeOK, Edit

LEMMA ActivateTypes ==
  ASSUME TypeOK, NEW c \in calls, Activate(c)
  PROVE  TypeOK'
<1>1. c \in CallType /\ c.who \in People /\ c.held \in BOOLEAN
  BY CallFields DEF TypeOK, Activate
<1>2. row' \in [People -> RowType]
  <2>1. row[c.who] \in RowType
    BY <1>1 DEF TypeOK
  <2>2. Activated(row[c.who]) \in RowType
    BY <2>1 DEF RowType, Activated
  <2> QED BY <1>1, <2>2 DEF Activate, TypeOK
<1>3. calls' \subseteq CallType
  BY <1>1, StoreTypes DEF Activate, Continue, Finish, TypeOK
<1>4. pool' \in Int /\ off' \in Int /\ lapsed' \in BOOLEAN
  <2>1. CASE Pending(c.who)
    <3>1. LapseIf(c.held # row[c.who].held)
      BY <2>1 DEF Activate
    <3> QED BY <3>1, LapseTypes
  <2>2. CASE ~Pending(c.who)
    BY <2>2 DEF Activate, TypeOK, seats
  <2> QED BY <2>1, <2>2
<1> QED BY <1>2, <1>3, <1>4 DEF TypeOK, Activate

LEMMA ApplyFailsTypes ==
  ASSUME TypeOK, NEW c \in calls, ApplyFails(c)
  PROVE  TypeOK'
<1>1. c \in CallType /\ c.who \in People
  BY CallFields DEF TypeOK, ApplyFails
<1>2. row' \in [People -> RowType]
  <2>1. row[c.who] \in RowType
    BY <1>1 DEF TypeOK
  <2>2. [row[c.who] EXCEPT !.held = FALSE] \in RowType
    BY <2>1 DEF RowType
  <2>3. row' = [row EXCEPT ![c.who] = [row[c.who] EXCEPT !.held = FALSE]]
    BY DEF ApplyFails, RollBack
  <2> QED BY <1>1, <2>2, <2>3 DEF TypeOK
<1>3. pool' \in Int /\ off' \in Int /\ lapsed' \in BOOLEAN
  <2> DEFINE b(timedOut) ==
        timedOut \/ ~row[c.who].held \/ row[c.who].stint # c.stint
        \/ \E d \in calls \ {c} : d.op = "apply" /\ d.who = c.who
  <2>1. PICK timedOut \in BOOLEAN : LapseIf(b(timedOut))
    BY DEF ApplyFails
  <2> HIDE DEF b
  <2> QED BY <2>1, LapseTypes
<1> QED BY <1>2, <1>3 DEF TypeOK, ApplyFails, Finish

LEMMA ManualHoldTypes ==
  ASSUME TypeOK, NEW c \in calls, ManualHold(c)
  PROVE  TypeOK'
<1>1. c \in CallType /\ c.who \in People
  BY CallFields DEF TypeOK, ManualHold
<1>2. row' \in [People -> RowType]
  <2>1. row[c.who] \in RowType
    BY <1>1 DEF TypeOK
  <2>2. [row[c.who] EXCEPT !.held = TRUE] \in RowType
    BY <2>1 DEF RowType
  <2> QED BY <1>1, <2>2 DEF ManualHold, TypeOK
<1>3. pool' \in Int /\ off' \in Int /\ lapsed' \in BOOLEAN
  <2>1. CASE UNCHANGED seats
    BY <2>1 DEF seats, TypeOK
  <2>2. CASE Move(1, 0, FALSE)
    BY <2>2 DEF Move, TypeOK
  <2>3. CASE LapseIf(TRUE)
    BY <2>3 DEF LapseIf, Move, TypeOK
  <2> QED BY <2>1, <2>2, <2>3 DEF ManualHold
<1> QED BY <1>2, <1>3 DEF TypeOK, ManualHold, Finish

LEMMA StoreCallTypes ==
  ASSUME TypeOK, NEW c \in calls, Adjust(c) \/ AdjustFails(c) \/ Die(c)
  PROVE  TypeOK'
<1>1. c \in CallType
  BY DEF TypeOK
<1>2. pool' \in Int /\ off' \in Int /\ lapsed' \in BOOLEAN
  <2>1. CASE Adjust(c)
    <3>1. c.due \in Int /\ Move(c.due, 0, FALSE)
      BY <1>1, <2>1, CallFields DEF Adjust
    <3> QED BY <3>1 DEF Move, TypeOK
  <2>2. CASE AdjustFails(c)
    <3>1. c.due \in Int /\ (Move(0, c.due, FALSE) \/ LapseIf(TRUE))
      BY <1>1, <2>2, CallFields DEF AdjustFails, StoreOps
    <3>2. CASE Move(0, c.due, FALSE)
      BY <3>1, <3>2 DEF Move, TypeOK
    <3> QED BY <3>1, <3>2, LapseTypes
  <2>3. CASE Die(c)
    <3>1. LapseIf(DueOf(c) # 0)
      BY <2>3 DEF Die
    <3> QED BY <3>1, LapseTypes
  <2> QED BY <2>1, <2>2, <2>3
<1>3. UNCHANGED <<row, cap, paid, listed, edits, overfull>> /\ Finish(c)
  BY DEF Adjust, AdjustFails, Die
<1> QED BY <1>2, <1>3 DEF TypeOK, Finish

LEMMA EndingTypes ==
  ASSUME TypeOK, NEW c \in calls, Ending(c)
  PROVE  TypeOK'
BY EnrolTypes, EditTypes, ActivateTypes, ApplyFailsTypes, ManualHoldTypes, StoreCallTypes DEF Ending

LEMMA EnrollingTypes ==
  ASSUME TypeOK, Enrolling
  PROVE  TypeOK'
<1>1. ASSUME NEW p \in People, EnrolRead(p)
      PROVE  TypeOK'
  <2>1. [op |-> "enrol", who |-> p, old |-> cap] \in CallType
    BY DEF TypeOK, CallType
  <2> QED BY <1>1, <2>1 DEF EnrolRead, Begin, TypeOK, seats
<1>2. ASSUME NEW p \in People, Comp(p)
      PROVE  TypeOK'
  <2>1. row' \in [People -> RowType]
    BY <1>2, NewRowTypes DEF Comp, TypeOK
  <2>2. calls' \subseteq CallType
    BY <1>2, StoreTypes DEF Comp, Begin, TypeOK
  <2>3. pool' \in Int /\ off' \in Int /\ lapsed' \in BOOLEAN
    BY <1>2 DEF Comp, Move, TypeOK
  <2>4. overfull' \in BOOLEAN
    BY <1>2, OverfullTypes DEF Comp
  <2> QED BY <1>2, <2>1, <2>2, <2>3, <2>4 DEF Comp, TypeOK
<1>3. ASSUME NEW n \in Caps, EditRead(n)
      PROVE  TypeOK'
  <2>1. [op |-> "edit", old |-> cap, new |-> n] \in CallType
    BY DEF TypeOK, CallType
  <2> QED BY <1>3, <2>1 DEF EditRead, Begin, TypeOK, seats
<1> QED BY <1>1, <1>2, <1>3 DEF Enrolling

LEMMA PayingTypes ==
  ASSUME TypeOK, Paying
  PROVE  TypeOK'
<1>1. ASSUME NEW p \in People, Sale(p)
      PROVE  TypeOK'
  <2>1. pool' \in Int /\ off' \in Int /\ lapsed' \in BOOLEAN
    BY <1>1 DEF Sale, Move, TypeOK
  <2> QED BY <1>1, <2>1 DEF Sale, TypeOK
<1>2. ASSUME NEW p \in People, ActivateRead(p)
      PROVE  TypeOK'
  <2>1. [op |-> "activate", who |-> p, held |-> row[p].held] \in CallType
    BY DEF TypeOK, CallType, RowType
  <2> QED BY <1>2, <2>1 DEF ActivateRead, Begin, TypeOK, seats
<1> QED BY <1>1, <1>2 DEF Paying

LEMMA RequestingTypes ==
  ASSUME TypeOK, Requesting
  PROVE  TypeOK'
<1>1. ASSUME NEW p \in People, Apply(p)
      PROVE  TypeOK'
  <2>1. row' \in [People -> RowType]
    BY <1>1 DEF Apply, TypeOK, RowType
  <2>2. [op |-> "apply", who |-> p, stint |-> row[p].stint, due |-> -1] \in CallType
    BY DEF TypeOK, CallType, RowType
  <2> QED BY <1>1, <2>1, <2>2 DEF Apply, Begin, TypeOK, seats
<1>2. ASSUME NEW p \in People, Reapply(p) \/ Deny(p)
      PROVE  TypeOK'
  <2>1. row' \in [People -> RowType]
    <3>1. row[p] \in RowType
      BY DEF TypeOK
    <3>2. /\ [row[p] EXCEPT !.req = TRUE, !.den = FALSE] \in RowType
          /\ [row[p] EXCEPT !.req = FALSE, !.den = TRUE] \in RowType
      BY <3>1 DEF RowType
    <3>3. CASE Reapply(p)
      BY <3>2, <3>3 DEF Reapply, TypeOK
    <3>4. CASE Deny(p)
      BY <3>2, <3>4 DEF Deny, TypeOK
    <3> QED BY <1>2, <3>3, <3>4
  <2> QED BY <1>2, <2>1 DEF Reapply, Deny, TypeOK, seats
<1>3. ASSUME NEW p \in People, Approve(p)
      PROVE  TypeOK'
  <2>1. Approved(row[p]) \in RowType
    BY DEF Approved, TypeOK, RowType
  <2>2. row' \in [People -> RowType]
    BY <1>3, <2>1 DEF Approve, TypeOK
  <2>3. pool' \in Int /\ off' \in Int /\ lapsed' \in BOOLEAN
    <3>1. CASE row[p].held
      BY <1>3, <3>1 DEF Approve, Move, TypeOK
    <3>2. CASE ~row[p].held
      BY <1>3, <3>2 DEF Approve, Move, TypeOK
    <3> QED BY <3>1, <3>2
  <2> QED BY <1>3, <2>2, <2>3 DEF Approve, TypeOK
<1>4. ASSUME NEW p \in People, ByHand(p)
      PROVE  TypeOK'
  <2>1. [op |-> "byhand", who |-> p, due |-> 1] \in CallType
    BY DEF CallType
  <2>2. pool' \in Int /\ off' \in Int /\ lapsed' \in BOOLEAN
    BY <1>4 DEF ByHand, Move, TypeOK
  <2> QED BY <1>4, <2>1, <2>2 DEF ByHand, Begin, TypeOK
<1> QED BY <1>1, <1>2, <1>3, <1>4 DEF Requesting

LEMMA LeavingTypes ==
  ASSUME TypeOK, Leaving
  PROVE  TypeOK'
<1>1. ASSUME GraceList
      PROVE  TypeOK'
  BY <1>1 DEF GraceList, TypeOK, seats
<1>2. ASSUME NEW p \in People, Withdraw(p) \/ GraceExpire(p)
      PROVE  TypeOK'
  <2>1. row' \in [People -> RowType]
    BY <1>2, DeleteTypes DEF Withdraw, GraceExpire, TypeOK
  <2>2. calls' \subseteq CallType
    <3>1. Release(p) /\ Store(p, 1) \in CallType
      BY <1>2, StoreTypes DEF Withdraw, GraceExpire
    <3>2. CASE row[p].held
      BY <3>1, <3>2, BeginTypes DEF Release
    <3>3. CASE ~row[p].held
      BY <3>1, <3>3 DEF Release, TypeOK
    <3> QED BY <3>2, <3>3
  <2>3. overfull' \in BOOLEAN
    BY <1>2, OverfullTypes DEF Withdraw, GraceExpire
  <2>4. listed' \subseteq People
    BY <1>2 DEF Withdraw, GraceExpire, TypeOK
  <2> QED BY <1>2, <2>1, <2>2, <2>3, <2>4 DEF Withdraw, GraceExpire, TypeOK, seats
<1> QED BY <1>1, <1>2 DEF Leaving

\* Every step keeps the types, so they hold at every moment of every behaviour of
\* the handlers.
THEOREM TypeCorrect == Spec => []TypeOK
<1>1. Init => TypeOK
  <2>1. Unenrolled(0) \in RowType
    BY DEF Unenrolled, RowType
  <2>2. FirstCap \in Int
    BY EnrolmentAssumption, CapsAreNumbers
  <2>3. Init => row \in [People -> RowType]
    BY <2>1 DEF Init
  <2>4. Init => pool \in Int /\ off \in Int /\ cap \in Caps
    BY <2>2, EnrolmentAssumption DEF Init
  <2>5. Init => lapsed \in BOOLEAN /\ overfull \in BOOLEAN
    BY DEF Init
  <2>6. Init => paid \subseteq People /\ listed \subseteq People /\ calls \subseteq CallType /\ edits \in Nat
    BY DEF Init
  <2> QED BY <2>3, <2>4, <2>5, <2>6 DEF TypeOK
<1>2. TypeOK /\ [Next]_vars => TypeOK'
  <2> SUFFICES ASSUME TypeOK, [Next]_vars
               PROVE  TypeOK'
    OBVIOUS
  <2>1. CASE UNCHANGED vars
    BY <2>1 DEF vars, seats, TypeOK
  <2>2. CASE Next
    BY <2>2, EnrollingTypes, PayingTypes, RequestingTypes, LeavingTypes, EndingTypes DEF Next
  <2> QED BY <2>1, <2>2
<1> QED BY <1>1, <1>2, PTL DEF Spec

-----------------------------------------------------------------------------
(* Where a hold may stand.                                                 *)

\* A held seat is a pending request's that is open or denied, and no pending
\* request is both: what a hold recorded by hand needs to find.
GoodRow(r) ==
  /\ r.held => r.status = "pending" /\ (r.req <=> ~r.den)
  /\ r.status = "pending" /\ r.req => ~r.den

OnDiagram == \A p \in People : GoodRow(row[p])

LEMMA OneRowChanges ==
  ASSUME TypeOK, OnDiagram, NEW p \in People, NEW r, GoodRow(r), row' = [row EXCEPT ![p] = r]
  PROVE  OnDiagram'
BY DEF OnDiagram, TypeOK

LEMMA UnenrolledIsGood == \A n : GoodRow(Unenrolled(n))
BY DEF GoodRow, Unenrolled

LEMMA NewRowIsGood ==
  ASSUME NEW n, NEW st
  PROVE  GoodRow([Unenrolled(n) EXCEPT !.status = st])
BY DEF GoodRow, Unenrolled

LEMMA EndedIsGood ==
  ASSUME NEW r \in RowType, GoodRow(r)
  PROVE  GoodRow(Activated(r)) /\ GoodRow(Approved(r))
BY DEF GoodRow, Activated, Approved, RowType

LEMMA RolledBackIsGood ==
  ASSUME NEW r \in RowType, GoodRow(r)
  PROVE  GoodRow([r EXCEPT !.held = FALSE])
BY DEF GoodRow, RowType

LEMMA HeldByHandIsGood ==
  ASSUME NEW r \in RowType, GoodRow(r), r.status = "pending", r.req
  PROVE  GoodRow([r EXCEPT !.held = TRUE])
BY DEF GoodRow, RowType

LEMMA AppliedIsGood ==
  ASSUME NEW r \in RowType, GoodRow(r), r.status = "pending"
  PROVE  /\ GoodRow([r EXCEPT !.req = TRUE, !.held = TRUE, !.den = FALSE])
         /\ GoodRow([r EXCEPT !.req = TRUE, !.den = FALSE])
BY DEF GoodRow, RowType

LEMMA DeniedIsGood ==
  ASSUME NEW r \in RowType, GoodRow(r), r.status = "pending"
  PROVE  GoodRow([r EXCEPT !.req = FALSE, !.den = TRUE])
BY DEF GoodRow, RowType

LEMMA EndingDiagram ==
  ASSUME TypeOK, OnDiagram, NEW c \in calls, Ending(c)
  PROVE  OnDiagram'
<1>1. c \in CallType
  BY DEF TypeOK
<1>2. CASE Enrol(c)
  <2>1. c.who \in People
    BY <1>1, <1>2, CallFields DEF Enrol
  <2> DEFINE r == [Unenrolled(row[c.who].stint + 1) EXCEPT !.status = "pending"]
  <2>2. GoodRow(r)
    BY NewRowIsGood
  <2>3. row' = row \/ row' = [row EXCEPT ![c.who] = r]
    BY <1>2 DEF Enrol, NewRow
  <2> HIDE DEF r
  <2> QED BY <2>1, <2>2, <2>3, OneRowChanges DEF OnDiagram
<1>3. CASE Activate(c)
  <2>1. c.who \in People
    BY <1>1, <1>3, CallFields DEF Activate
  <2>2. row[c.who] \in RowType /\ GoodRow(row[c.who])
    BY <2>1 DEF TypeOK, OnDiagram
  <2>3. row' = row \/ row' = [row EXCEPT ![c.who] = Activated(row[c.who])]
    BY <1>3 DEF Activate
  <2>4. GoodRow(Activated(row[c.who]))
    BY <2>2, EndedIsGood
  <2>5. CASE row' = row
    BY <2>5 DEF OnDiagram
  <2> QED BY <2>1, <2>3, <2>4, <2>5, OneRowChanges
<1>4. CASE ApplyFails(c)
  <2>1. c.who \in People
    BY <1>1, <1>4, CallFields DEF ApplyFails
  <2>2. row[c.who] \in RowType /\ GoodRow(row[c.who])
    BY <2>1 DEF TypeOK, OnDiagram
  <2>3. row' = [row EXCEPT ![c.who] = [row[c.who] EXCEPT !.held = FALSE]]
    BY <1>4 DEF ApplyFails, RollBack
  <2> QED BY <2>1, <2>2, <2>3, OneRowChanges, RolledBackIsGood
<1>5. CASE ManualHold(c)
  <2>1. c.who \in People
    BY <1>1, <1>5, CallFields DEF ManualHold
  <2>2. row[c.who] \in RowType /\ GoodRow(row[c.who])
    BY <2>1 DEF TypeOK, OnDiagram
  <2>3. \/ row' = row
        \/ /\ row[c.who].status = "pending" /\ row[c.who].req
           /\ row' = [row EXCEPT ![c.who] = [row[c.who] EXCEPT !.held = TRUE]]
    BY <1>5 DEF ManualHold, HoldFailed, Pending
  <2>4. CASE row' = row
    BY <2>4 DEF OnDiagram
  <2>5. CASE row' # row
    <3>1. GoodRow([row[c.who] EXCEPT !.held = TRUE])
      BY <2>2, <2>3, <2>5, HeldByHandIsGood
    <3> QED BY <2>1, <2>3, <2>5, <3>1, OneRowChanges
  <2> QED BY <2>4, <2>5
<1>6. CASE Edit(c) \/ Adjust(c) \/ AdjustFails(c) \/ Die(c)
  BY <1>6 DEF Edit, Adjust, AdjustFails, Die, OnDiagram
<1> QED BY <1>2, <1>3, <1>4, <1>5, <1>6 DEF Ending

LEMMA RequestingDiagram ==
  ASSUME TypeOK, OnDiagram, Requesting
  PROVE  OnDiagram'
<1>1. PICK p \in People : Apply(p) \/ Reapply(p) \/ Approve(p) \/ Deny(p) \/ ByHand(p)
  BY DEF Requesting
<1>2. row[p] \in RowType /\ GoodRow(row[p])
  BY DEF TypeOK, OnDiagram
<1>3. CASE ByHand(p)
  BY <1>3 DEF ByHand, OnDiagram
<1>4. CASE Apply(p)
  <2>1. /\ row[p].status = "pending"
        /\ row' = [row EXCEPT ![p] = [row[p] EXCEPT !.req = TRUE, !.held = TRUE, !.den = FALSE]]
    BY <1>4 DEF Apply, Pending, TypeOK
  <2> QED BY <1>2, <2>1, OneRowChanges, AppliedIsGood
<1>5. CASE Reapply(p)
  <2>1. /\ row[p].status = "pending"
        /\ row' = [row EXCEPT ![p] = [row[p] EXCEPT !.req = TRUE, !.den = FALSE]]
    BY <1>5 DEF Reapply, Pending, TypeOK
  <2> QED BY <1>2, <2>1, OneRowChanges, AppliedIsGood
<1>6. CASE Deny(p)
  <2>1. /\ row[p].status = "pending"
        /\ row' = [row EXCEPT ![p] = [row[p] EXCEPT !.req = FALSE, !.den = TRUE]]
    BY <1>6 DEF Deny, Pending, TypeOK
  <2> QED BY <1>2, <2>1, OneRowChanges, DeniedIsGood
<1>7. CASE Approve(p)
  <2>1. row' = [row EXCEPT ![p] = Approved(row[p])]
    BY <1>7 DEF Approve
  <2> QED BY <1>2, <2>1, OneRowChanges, EndedIsGood
<1> QED BY <1>1, <1>3, <1>4, <1>5, <1>6, <1>7

LEMMA NextDiagram ==
  ASSUME TypeOK, OnDiagram, [Next]_vars
  PROVE  OnDiagram'
<1>1. CASE UNCHANGED vars \/ Paying \/ GraceList
  BY <1>1 DEF vars, Paying, Sale, ActivateRead, GraceList, OnDiagram
<1>2. CASE Enrolling
  <2>1. ASSUME NEW p \in People, Comp(p)
        PROVE  OnDiagram'
    <3> DEFINE r == [Unenrolled(row[p].stint + 1) EXCEPT !.status = "active"]
    <3>1. GoodRow(r)
      BY NewRowIsGood
    <3>2. row' = [row EXCEPT ![p] = r]
      BY <2>1 DEF Comp, NewRow
    <3> HIDE DEF r
    <3> QED BY <3>1, <3>2, OneRowChanges
  <2>2. ASSUME row' = row
        PROVE  OnDiagram'
    BY <2>2 DEF OnDiagram
  <2> QED BY <1>2, <2>1, <2>2 DEF Enrolling, EnrolRead, EditRead
<1>3. CASE Leaving
  <2>1. ASSUME NEW p \in People, Withdraw(p) \/ GraceExpire(p)
        PROVE  OnDiagram'
    <3>1. row' = [row EXCEPT ![p] = Unenrolled(row[p].stint)]
      BY <2>1 DEF Withdraw, GraceExpire, Delete
    <3> QED BY <3>1, UnenrolledIsGood, OneRowChanges
  <2> QED BY <1>1, <1>3, <2>1 DEF Leaving
<1> QED BY <1>1, <1>2, <1>3, RequestingDiagram, EndingDiagram DEF Next

LEMMA DiagramStands == Spec => []OnDiagram
<1>1. Init => OnDiagram
  BY UnenrolledIsGood DEF Init, OnDiagram
<1>2. TypeOK /\ OnDiagram /\ [Next]_vars => OnDiagram'
  BY NextDiagram
<1> QED BY <1>1, <1>2, TypeCorrect, PTL DEF Spec

\* Invariants I1 to I3 of enrollmentState.ts: whatever the handlers do at once,
\* only a pending request holds a seat, and it is either open or denied.
THEOREM HoldsStand == Spec => []HoldOnDiagram
<1>1. OnDiagram => HoldOnDiagram
  BY DEF OnDiagram, GoodRow, HoldOnDiagram, Pending
<1> QED BY <1>1, DiagramStands, PTL

-----------------------------------------------------------------------------
(* The places keep to the cap.                                             *)

LEMMA EnrolledIsFinite ==
  ASSUME NEW S \in SUBSET People
  PROVE  IsFiniteSet(S) /\ Cardinality(S) \in Nat
BY EnrolmentAssumption, FS_Subset, FS_CardinalityType

LEMMA CapIsNumber == TypeOK => cap \in Nat
BY EnrolmentAssumption DEF TypeOK

\* A step that may take the places over the cap says so.
LEMMA Excused ==
  ASSUME OverfullIf(TRUE), cap' \in Nat
  PROVE  NotOverfull'
<1>1. Enrolled' \in SUBSET People
  BY DEF Enrolled
<1>2. Cardinality(Enrolled') \in Nat
  BY <1>1, EnrolledIsFinite
<1>3. overfull' \/ ~(Cardinality(Enrolled') > cap')
  BY DEF OverfullIf, Enrolled
<1> QED BY <1>2, <1>3 DEF NotOverfull

LEMMA SamePlaces ==
  ASSUME NotOverfull, UNCHANGED <<cap, overfull>>, Enrolled' = Enrolled
  PROVE  NotOverfull'
BY DEF NotOverfull

LEMMA FewerPlaces ==
  ASSUME TypeOK, NotOverfull, cap' = cap, OverfullIf(FALSE), Enrolled' \subseteq Enrolled
  PROVE  NotOverfull'
<1>1. Enrolled \in SUBSET People /\ Enrolled' \in SUBSET People
  BY DEF Enrolled
<1>2. Cardinality(Enrolled') <= Cardinality(Enrolled)
  BY <1>1, EnrolledIsFinite, FS_Subset
<1>3. Cardinality(Enrolled) \in Nat /\ Cardinality(Enrolled') \in Nat /\ cap \in Nat
  BY <1>1, EnrolledIsFinite, CapIsNumber
<1>4. ~overfull' => ~overfull \/ ~(Cardinality(Enrolled') > cap')
  BY DEF OverfullIf, Enrolled
<1>5. CASE ~overfull
  BY <1>2, <1>3, <1>5 DEF NotOverfull
<1>6. CASE overfull
  BY <1>3, <1>4, <1>6 DEF NotOverfull
<1> QED BY <1>5, <1>6

LEMMA OneMorePlace ==
  ASSUME TypeOK, NEW p \in People, NEW st \in {"pending", "active"}, NewRow(p, st)
  PROVE  Enrolled' = Enrolled \cup {p}
<1>1. row' = [row EXCEPT ![p] = [Unenrolled(row[p].stint + 1) EXCEPT !.status = st]]
  BY DEF NewRow
<1>2. [Unenrolled(row[p].stint + 1) EXCEPT !.status = st].status = st
  BY DEF Unenrolled
<1>3. row'[p].status = st /\ \A q \in People \ {p} : row'[q] = row[q]
  BY <1>1, <1>2 DEF TypeOK
<1> QED BY <1>3 DEF Enrolled

LEMMA EnrolKeepsToCap ==
  ASSUME TypeOK, NotOverfull, NEW c \in calls, Enrol(c)
  PROVE  NotOverfull'
<1>1. c.who \in People /\ c.old \in Caps
  BY CallFields DEF TypeOK, Enrol
<1>2. CASE c.old # cap
  <2>1. OverfullIf(TRUE) /\ cap' = cap
    BY <1>2 DEF Enrol, OverfullIf
  <2> QED BY <2>1, Excused, CapIsNumber
<1>3. CASE c.old = cap
  <2>1. OverfullIf(FALSE) /\ cap' = cap
    BY <1>3 DEF Enrol, OverfullIf
  <2>2. CASE row' = row
    BY <2>1, <2>2, FewerPlaces DEF Enrolled
  <2>3. CASE row' # row
    <3>1. Cardinality(Enrolled) < cap /\ row[c.who].status = "none" /\ NewRow(c.who, "pending")
      BY <1>3, <2>3 DEF Enrol
    <3>2. Enrolled \in SUBSET People /\ c.who \notin Enrolled
      BY <3>1 DEF Enrolled
    <3>3. Enrolled' = Enrolled \cup {c.who}
      BY <1>1, <3>1, OneMorePlace
    <3>4. Cardinality(Enrolled') = Cardinality(Enrolled) + 1
      BY <3>2, <3>3, EnrolledIsFinite, FS_AddElement
    <3>5. Cardinality(Enrolled) \in Nat /\ cap \in Nat
      BY <3>2, EnrolledIsFinite, CapIsNumber
    <3> QED BY <2>1, <3>1, <3>4, <3>5 DEF NotOverfull
  <2> QED BY <2>2, <2>3
<1> QED BY <1>2, <1>3

LEMMA StatusKept ==
  ASSUME TypeOK, NEW p \in People, NEW r, row' = [row EXCEPT ![p] = r],
         r.status # "none", row[p].status # "none"
  PROVE  Enrolled' = Enrolled
<1>1. row'[p].status # "none" /\ \A q \in People \ {p} : row'[q] = row[q]
  BY DEF TypeOK
<1> QED BY <1>1 DEF Enrolled

LEMMA RowChangesKeepStatus ==
  ASSUME NEW r \in RowType
  PROVE  /\ [r EXCEPT !.held = TRUE].status = r.status
         /\ [r EXCEPT !.held = FALSE].status = r.status
         /\ [r EXCEPT !.req = TRUE, !.held = TRUE, !.den = FALSE].status = r.status
         /\ [r EXCEPT !.req = TRUE, !.den = FALSE].status = r.status
         /\ [r EXCEPT !.req = FALSE, !.den = TRUE].status = r.status
         /\ Activated(r).status = "active" /\ Approved(r).status = "active"
BY DEF RowType, Activated, Approved

LEMMA EndingKeepsToCap ==
  ASSUME TypeOK, NotOverfull, NEW c \in calls, Ending(c)
  PROVE  NotOverfull'
<1>1. c \in CallType
  BY DEF TypeOK
<1>2. CASE Activate(c)
  <2>1. c.who \in People
    BY <1>1, <1>2, CallFields DEF Activate
  <2>2. row[c.who] \in RowType
    BY <2>1 DEF TypeOK
  <2>3. \/ row' = row
        \/ /\ row[c.who].status = "pending"
           /\ row' = [row EXCEPT ![c.who] = Activated(row[c.who])]
    BY <1>2 DEF Activate, Pending
  <2>4. Enrolled' = Enrolled
    <3>1. CASE row' = row
      BY <3>1 DEF Enrolled
    <3>2. CASE row' # row
      BY <2>1, <2>2, <2>3, <3>2, StatusKept, RowChangesKeepStatus
    <3> QED BY <3>1, <3>2
  <2> QED BY <1>2, <2>4, SamePlaces DEF Activate
<1>3. CASE ApplyFails(c)
  <2>1. c.who \in People
    BY <1>1, <1>3, CallFields DEF ApplyFails
  <2>2. row[c.who] \in RowType
    BY <2>1 DEF TypeOK
  <2>3. row' = [row EXCEPT ![c.who] = [row[c.who] EXCEPT !.held = FALSE]]
    BY <1>3 DEF ApplyFails, RollBack
  <2>4. row'[c.who].status = row[c.who].status /\ \A q \in People \ {c.who} : row'[q] = row[q]
    BY <2>1, <2>2, <2>3, RowChangesKeepStatus DEF TypeOK
  <2>5. Enrolled' = Enrolled
    BY <2>4 DEF Enrolled
  <2> QED BY <1>3, <2>5, SamePlaces DEF ApplyFails
<1>4. CASE ManualHold(c)
  <2>1. c.who \in People
    BY <1>1, <1>4, CallFields DEF ManualHold
  <2>2. row[c.who] \in RowType
    BY <2>1 DEF TypeOK
  <2>3. row' = row \/ row' = [row EXCEPT ![c.who] = [row[c.who] EXCEPT !.held = TRUE]]
    BY <1>4 DEF ManualHold
  <2>4. Enrolled' = Enrolled
    <3>1. CASE row' = row
      BY <3>1 DEF Enrolled
    <3>2. CASE row' # row
      <4>1. row'[c.who].status = row[c.who].status /\ \A q \in People \ {c.who} : row'[q] = row[q]
        BY <2>1, <2>2, <2>3, <3>2, RowChangesKeepStatus DEF TypeOK
      <4> QED BY <4>1 DEF Enrolled
    <3> QED BY <3>1, <3>2
  <2> QED BY <1>4, <2>4, SamePlaces DEF ManualHold
<1>5. CASE Edit(c)
  <2>1. c.new \in Caps
    BY <1>1, <1>5, CallFields DEF Edit
  <2>2. cap' \in Nat
    BY <1>5, <2>1, EnrolmentAssumption DEF Edit
  <2> QED BY <1>5, <2>2, Excused DEF Edit
<1>6. CASE Adjust(c) \/ AdjustFails(c) \/ Die(c)
  <2>1. UNCHANGED <<row, cap, overfull>>
    BY <1>6 DEF Adjust, AdjustFails, Die
  <2> QED BY <2>1, SamePlaces DEF Enrolled
<1> QED BY <1>2, <1>3, <1>4, <1>5, <1>6, EnrolKeepsToCap DEF Ending

LEMMA RequestingKeepsToCap ==
  ASSUME TypeOK, NotOverfull, Requesting
  PROVE  NotOverfull'
<1>1. PICK p \in People : Apply(p) \/ Reapply(p) \/ Approve(p) \/ Deny(p) \/ ByHand(p)
  BY DEF Requesting
<1>2. row[p] \in RowType
  BY DEF TypeOK
<1>3. UNCHANGED <<cap, overfull>>
  BY <1>1 DEF Apply, Reapply, Approve, Deny, ByHand
<1>4. CASE ByHand(p)
  BY <1>3, <1>4, SamePlaces DEF ByHand, Enrolled
<1>5. CASE ~ByHand(p)
  <2>1. row[p].status = "pending"
    BY <1>1, <1>5 DEF Apply, Reapply, Approve, Deny, Pending
  <2>2. ASSUME Apply(p)
       PROVE  Enrolled' = Enrolled
    <3>1. row' = [row EXCEPT ![p] = [row[p] EXCEPT !.req = TRUE, !.held = TRUE, !.den = FALSE]]
      BY <2>2 DEF Apply, TypeOK
    <3>2. ([row[p] EXCEPT !.req = TRUE, !.held = TRUE, !.den = FALSE]).status # "none"
      BY <1>2, <2>1, RowChangesKeepStatus
    <3> QED BY <2>1, <3>1, <3>2, StatusKept
  <2>3. ASSUME Reapply(p)
       PROVE  Enrolled' = Enrolled
    <3>1. row' = [row EXCEPT ![p] = [row[p] EXCEPT !.req = TRUE, !.den = FALSE]]
      BY <2>3 DEF Reapply, TypeOK
    <3>2. ([row[p] EXCEPT !.req = TRUE, !.den = FALSE]).status # "none"
      BY <1>2, <2>1, RowChangesKeepStatus
    <3> QED BY <2>1, <3>1, <3>2, StatusKept
  <2>4. ASSUME Deny(p)
       PROVE  Enrolled' = Enrolled
    <3>1. row' = [row EXCEPT ![p] = [row[p] EXCEPT !.req = FALSE, !.den = TRUE]]
      BY <2>4 DEF Deny, TypeOK
    <3>2. ([row[p] EXCEPT !.req = FALSE, !.den = TRUE]).status # "none"
      BY <1>2, <2>1, RowChangesKeepStatus
    <3> QED BY <2>1, <3>1, <3>2, StatusKept
  <2>5. ASSUME Approve(p)
       PROVE  Enrolled' = Enrolled
    <3>1. row' = [row EXCEPT ![p] = Approved(row[p])]
      BY <2>5 DEF Approve, TypeOK
    <3>2. (Approved(row[p])).status # "none"
      BY <1>2, <2>1, RowChangesKeepStatus
    <3> QED BY <2>1, <3>1, <3>2, StatusKept
  <2>6. Enrolled' = Enrolled
    BY <1>1, <1>5, <2>2, <2>3, <2>4, <2>5
  <2> QED BY <1>3, <2>6, SamePlaces
<1> QED BY <1>4, <1>5

LEMMA NextKeepsToCap ==
  ASSUME TypeOK, NotOverfull, [Next]_vars
  PROVE  NotOverfull'
<1>1. CASE UNCHANGED vars \/ Paying \/ GraceList
  <2>1. UNCHANGED <<row, cap, overfull>>
    BY <1>1 DEF vars, Paying, Sale, ActivateRead, GraceList
  <2> QED BY <2>1, SamePlaces DEF Enrolled
<1>2. CASE Enrolling
  <2>1. ASSUME NEW p \in People, Comp(p)
        PROVE  NotOverfull'
    BY <2>1, Excused, CapIsNumber DEF Comp
  <2>2. ASSUME UNCHANGED <<row, cap, overfull>>
        PROVE  NotOverfull'
    BY <2>2, SamePlaces DEF Enrolled
  <2> QED BY <1>2, <2>1, <2>2 DEF Enrolling, EnrolRead, EditRead
<1>3. CASE Leaving
  <2>1. ASSUME NEW p \in People, Withdraw(p) \/ GraceExpire(p)
        PROVE  NotOverfull'
    <3>1. row' = [row EXCEPT ![p] = Unenrolled(row[p].stint)] /\ cap' = cap /\ OverfullIf(FALSE)
      BY <2>1 DEF Withdraw, GraceExpire, Delete
    <3>2. row'[p].status = "none" /\ \A q \in People \ {p} : row'[q] = row[q]
      BY <3>1 DEF TypeOK, Unenrolled
    <3>3. Enrolled' \subseteq Enrolled
      BY <3>2 DEF Enrolled
    <3> QED BY <3>1, <3>3, FewerPlaces
  <2> QED BY <1>1, <1>3, <2>1 DEF Leaving
<1> QED BY <1>1, <1>2, <1>3, RequestingKeepsToCap, EndingKeepsToCap DEF Next

\* lockProgramAndCheckCapacity: however many people enrol at once, they do not
\* get more places than the cap allows, overrides and edits of the cap aside.
THEOREM PlacesKept == Spec => []NotOverfull
<1>1. Init => NotOverfull
  <2> SUFFICES ASSUME Init
               PROVE  NotOverfull
    OBVIOUS
  <2>1. Enrolled = {}
    BY DEF Init, Enrolled, Unenrolled
  <2>2. Cardinality(Enrolled) = 0 /\ cap \in Nat
    BY <2>1, FS_EmptySet, EnrolmentAssumption DEF Init
  <2> QED BY <2>2 DEF NotOverfull
<1>2. TypeOK /\ NotOverfull /\ [Next]_vars => NotOverfull'
  BY NextKeepsToCap
<1> QED BY <1>1, <1>2, TypeCorrect, PTL DEF Spec

-----------------------------------------------------------------------------
(* The seats add up.                                                       *)

\* The calls under way owe finitely many seats, so that they can be counted.
Countable(S) == \A sign \in {1, -1} : IsFiniteSet(Seats(S, sign))

LEMMA SeatsOfOneCall ==
  ASSUME NEW c, NEW n \in Int
  PROVE  /\ IsFiniteSet({c} \X (1 .. n))
         /\ Cardinality({c} \X (1 .. n)) = IF n > 0 THEN n ELSE 0
<1>1. IsFiniteSet({c}) /\ Cardinality({c}) = 1
  BY FS_Singleton
<1>2. IsFiniteSet(1 .. n) /\ Cardinality(1 .. n) = IF 1 > n THEN 0 ELSE n - 1 + 1
  BY FS_Interval
<1>3. /\ IsFiniteSet({c} \X (1 .. n))
      /\ Cardinality({c} \X (1 .. n)) = Cardinality({c}) * Cardinality(1 .. n)
  BY <1>1, <1>2, FS_Product
<1>4. Cardinality(1 .. n) = IF n > 0 THEN n ELSE 0
  BY <1>2
<1>5. Cardinality(1 .. n) \in Int
  BY <1>4
<1> QED BY <1>1, <1>3, <1>4, <1>5

LEMMA OneCallMore ==
  ASSUME NEW S, NEW c, c \notin S, Countable(S), DueOf(c) \in Int
  PROVE  /\ Countable(S \cup {c})
         /\ DueFrom(S) \in Int
         /\ DueFrom(S \cup {c}) = DueFrom(S) + DueOf(c)
<1>1. ASSUME NEW sign \in {1, -1}
      PROVE  /\ IsFiniteSet(Seats(S \cup {c}, sign))
             /\ Cardinality(Seats(S, sign)) \in Nat
             /\ Cardinality(Seats(S \cup {c}, sign)) =
                  Cardinality(Seats(S, sign)) + IF sign * DueOf(c) > 0 THEN sign * DueOf(c) ELSE 0
  <2> DEFINE new == {c} \X (1 .. sign * DueOf(c))
  <2>1. Seats(S \cup {c}, sign) = Seats(S, sign) \cup new
    BY DEF Seats
  <2>2. Seats(S, sign) \cap new = {}
    BY DEF Seats
  <2>3. sign * DueOf(c) \in Int
    OBVIOUS
  <2>4. IsFiniteSet(new) /\ Cardinality(new) = IF sign * DueOf(c) > 0 THEN sign * DueOf(c) ELSE 0
    BY <2>3, SeatsOfOneCall
  <2>5. IsFiniteSet(Seats(S, sign)) /\ Cardinality(Seats(S, sign)) \in Nat
    BY FS_CardinalityType DEF Countable
  <2> HIDE DEF new
  <2>6. /\ IsFiniteSet(Seats(S, sign) \cup new)
        /\ Cardinality(Seats(S, sign) \cup new) =
             Cardinality(Seats(S, sign)) + Cardinality(new) - Cardinality({})
    BY <2>2, <2>4, <2>5, FS_Union
  <2>7. Cardinality({}) = 0
    BY FS_EmptySet
  <2>8. Cardinality(new) \in Int
    BY <2>3, <2>4
  <2>9. Cardinality(Seats(S, sign) \cup new) = Cardinality(Seats(S, sign)) + Cardinality(new)
    BY <2>5, <2>6, <2>7, <2>8
  <2> QED BY <2>1, <2>4, <2>5, <2>6, <2>9
<1>2. Countable(S \cup {c})
  BY <1>1 DEF Countable
<1> QED BY <1>1, <1>2 DEF DueFrom

LEMMA OneCallLess ==
  ASSUME NEW S, NEW c \in S, Countable(S), DueOf(c) \in Int
  PROVE  /\ Countable(S \ {c})
         /\ DueFrom(S \ {c}) \in Int
         /\ DueFrom(S \ {c}) = DueFrom(S) - DueOf(c)
<1>1. Countable(S \ {c})
  <2> SUFFICES ASSUME NEW sign \in {1, -1}
               PROVE  IsFiniteSet(Seats(S \ {c}, sign))
    BY DEF Countable
  <2>1. Seats(S \ {c}, sign) \in SUBSET Seats(S, sign)
    BY DEF Seats
  <2> QED BY <2>1, FS_Subset DEF Countable
<1>2. (S \ {c}) \cup {c} = S /\ c \notin S \ {c}
  OBVIOUS
<1>3. DueFrom(S \ {c}) \in Int /\ DueFrom(S) = DueFrom(S \ {c}) + DueOf(c)
  BY <1>1, <1>2, OneCallMore
<1> QED BY <1>1, <1>3

LEMMA DueIsNumber ==
  ASSUME Countable(calls)
  PROVE  Due \in Int
<1>1. \A sign \in {1, -1} : Cardinality(Seats(calls, sign)) \in Nat
  BY FS_CardinalityType DEF Countable
<1> QED BY <1>1 DEF Due, DueFrom

\* What a call adds to the seats on the way when it begins, it takes when it ends.
Owes(d) == Countable(calls') /\ Due' = Due + d

LEMMA CallsKept ==
  ASSUME Countable(calls), UNCHANGED calls
  PROVE  Owes(0)
BY DueIsNumber DEF Owes, Due

LEMMA CallBegins ==
  ASSUME Countable(calls), NEW c, DueOf(c) \in Int, Begin(c)
  PROVE  Owes(DueOf(c))
BY OneCallMore DEF Begin, Owes, Due

LEMMA CallFinishes ==
  ASSUME Countable(calls), NEW c \in calls, DueOf(c) \in Int, Finish(c)
  PROVE  Owes(-DueOf(c))
<1>1. Countable(calls') /\ Due' \in Int /\ Due' = Due - DueOf(c)
  BY OneCallLess DEF Finish, Due
<1> QED BY <1>1, DueIsNumber DEF Owes

LEMMA CallContinues ==
  ASSUME Countable(calls), NEW c \in calls, NEW d, DueOf(c) = 0, DueOf(d) \in Int, Continue(c, d)
  PROVE  Owes(DueOf(d))
<1>1. DueOf(c) \in Int
  OBVIOUS
<1>2. Countable(calls \ {c}) /\ DueFrom(calls \ {c}) = Due
  BY <1>1, OneCallLess, DueIsNumber DEF Due
<1>3. d \notin calls \ {c} /\ calls' = (calls \ {c}) \cup {d}
  BY DEF Continue
<1> QED BY <1>2, <1>3, OneCallMore DEF Owes, Due

LEMMA DueOfCalls ==
  /\ \A c \in CallType : DueOf(c) \in Int /\ (c.op \notin StoreOps \cup {"byhand"} => DueOf(c) = 0)
  /\ \A p : DueOf(Store(p, 1)) = 1 /\ DueOf(Store(p, -1)) = -1
BY CallFields DEF DueOf, Store, StoreOps

LEMMA HeldIsFinite == IsFiniteSet(Held) /\ Cardinality(Held) \in Nat
<1>1. Held \in SUBSET People
  BY DEF Held
<1> QED BY <1>1, EnrolledIsFinite

LEMMA HeldKept ==
  ASSUME TypeOK, NEW p \in People, NEW r, row' = [row EXCEPT ![p] = r], r.held = row[p].held
  PROVE  Held' = Held
<1>1. row'[p].held = row[p].held /\ \A o \in People \ {p} : row'[o] = row[o]
  BY DEF TypeOK
<1> QED BY <1>1 DEF Held

LEMMA HeldGained ==
  ASSUME TypeOK, NEW p \in People, NEW r, row' = [row EXCEPT ![p] = r], r.held, ~row[p].held
  PROVE  Cardinality(Held') = Cardinality(Held) + 1
<1>1. row'[p].held /\ \A o \in People \ {p} : row'[o] = row[o]
  BY DEF TypeOK
<1>2. Held' = Held \cup {p} /\ p \notin Held
  BY <1>1 DEF Held
<1> QED BY <1>2, HeldIsFinite, FS_AddElement

LEMMA HeldLost ==
  ASSUME TypeOK, NEW p \in People, NEW r, row' = [row EXCEPT ![p] = r], ~r.held, row[p].held
  PROVE  Cardinality(Held') = Cardinality(Held) - 1
<1>1. ~row'[p].held /\ \A o \in People \ {p} : row'[o] = row[o]
  BY DEF TypeOK
<1>2. Held' = Held \ {p} /\ p \in Held
  BY <1>1 DEF Held
<1> QED BY <1>2, HeldIsFinite, FS_RemoveElement

Moved(n, m) == ~lapsed' => ~lapsed /\ pool' = pool + n /\ off' = off + m

LEMMA MoveMoves ==
  ASSUME TypeOK, NEW n, NEW m, NEW b, Move(n, m, b)
  PROVE  Moved(n, m) /\ (~lapsed' => ~b)
BY DEF Move, Moved, TypeOK

LEMMA LapseMoves ==
  ASSUME TypeOK, NEW b, LapseIf(b)
  PROVE  Moved(0, 0) /\ (~lapsed' => ~b)
BY MoveMoves DEF LapseIf

LEMMA SeatsStay ==
  ASSUME TypeOK, UNCHANGED seats
  PROVE  Moved(0, 0)
BY DEF seats, Moved, TypeOK

Balanced == Countable(calls) /\ SeatsAddUp

\* What goes in one place comes from another, or from the cap, or is recorded.
LEMMA StillBalanced ==
  ASSUME TypeOK, Balanced, NEW n \in Int, NEW m \in Int, NEW d \in Int, NEW h \in Int,
         Moved(n, m), Owes(d), Cardinality(Held') = Cardinality(Held) + h,
         ~lapsed' => cap' = cap + (n + d + h + m)
  PROVE  Balanced'
<1>1. pool \in Int /\ off \in Int /\ cap \in Int /\ Due \in Int /\ Cardinality(Held) \in Int
  BY DueIsNumber, CapIsNumber, HeldIsFinite DEF TypeOK, Balanced
<1>2. ASSUME ~lapsed'
      PROVE  pool' + Due' + Cardinality(Held') + off' = cap'
  BY <1>1, <1>2 DEF Moved, Owes, Balanced, SeatsAddUp
<1> QED BY <1>2 DEF Balanced, SeatsAddUp, Owes

LEMMA NothingMoves ==
  ASSUME TypeOK, Balanced, Moved(0, 0), Owes(0), Held' = Held, ~lapsed' => cap' = cap
  PROVE  Balanced'
<1>1. cap \in Int /\ Cardinality(Held) \in Int
  BY CapIsNumber, HeldIsFinite
<1> QED BY <1>1, StillBalanced

LEMMA NewRowHoldsNone ==
  ASSUME TypeOK, OnDiagram, NEW p \in People, NEW st, row[p].status = "none", NewRow(p, st)
  PROVE  Held' = Held
<1> DEFINE r == [Unenrolled(row[p].stint + 1) EXCEPT !.status = st]
<1>1. row[p].held = FALSE
  BY DEF OnDiagram, GoodRow, TypeOK, RowType
<1>2. r.held = FALSE
  BY DEF Unenrolled
<1>3. row' = [row EXCEPT ![p] = r]
  BY DEF NewRow
<1> HIDE DEF r
<1> QED BY <1>1, <1>2, <1>3, HeldKept

LEMMA EnrollingBalances ==
  ASSUME TypeOK, OnDiagram, Balanced, Enrolling
  PROVE  Balanced'
<1>1. ASSUME NEW p \in People, EnrolRead(p)
      PROVE  Balanced'
  <2> DEFINE c == [op |-> "enrol", who |-> p, old |-> cap]
  <2>1. Begin(c) /\ UNCHANGED seats /\ Held' = Held /\ cap' = cap
    BY <1>1 DEF EnrolRead, Held
  <2>2. DueOf(c) = 0
    BY DEF DueOf, StoreOps
  <2> HIDE DEF c
  <2> QED BY <2>1, <2>2, CallBegins, SeatsStay, NothingMoves DEF Balanced
<1>2. ASSUME NEW n \in Caps, EditRead(n)
      PROVE  Balanced'
  <2> DEFINE c == [op |-> "edit", old |-> cap, new |-> n]
  <2>1. Begin(c) /\ UNCHANGED seats /\ Held' = Held /\ cap' = cap
    BY <1>2 DEF EditRead, Held
  <2>2. DueOf(c) = 0
    BY DEF DueOf, StoreOps
  <2> HIDE DEF c
  <2> QED BY <2>1, <2>2, CallBegins, SeatsStay, NothingMoves DEF Balanced
<1>3. ASSUME NEW p \in People, Comp(p)
      PROVE  Balanced'
  <2>1. Held' = Held
    BY <1>3, NewRowHoldsNone DEF Comp
  <2>2. Owes(-1)
    BY <1>3, CallBegins, DueOfCalls DEF Comp, Balanced
  <2>3. Moved(0, 1) /\ cap' = cap
    BY <1>3, MoveMoves DEF Comp
  <2>4. Cardinality(Held') = Cardinality(Held) + 0 /\ cap' = cap + (0 + (-1) + 0 + 1)
    BY <2>1, <2>3, HeldIsFinite, CapIsNumber
  <2> QED BY <2>2, <2>3, <2>4, StillBalanced
<1> QED BY <1>1, <1>2, <1>3 DEF Enrolling

LEMMA PayingBalances ==
  ASSUME TypeOK, Balanced, Paying
  PROVE  Balanced'
<1>1. ASSUME NEW p \in People, Sale(p)
      PROVE  Balanced'
  <2>1. Moved(-1, 1) /\ Owes(0) /\ Held' = Held /\ cap' = cap
    BY <1>1, MoveMoves, CallsKept DEF Sale, Held, Balanced
  <2>2. Cardinality(Held') = Cardinality(Held) + 0 /\ cap' = cap + ((-1) + 0 + 0 + 1)
    BY <2>1, HeldIsFinite, CapIsNumber
  <2> QED BY <2>1, <2>2, StillBalanced
<1>2. ASSUME NEW p \in People, ActivateRead(p)
      PROVE  Balanced'
  <2> DEFINE c == [op |-> "activate", who |-> p, held |-> row[p].held]
  <2>1. Begin(c) /\ UNCHANGED seats /\ Held' = Held /\ cap' = cap
    BY <1>2 DEF ActivateRead, Held
  <2>2. DueOf(c) = 0
    BY DEF DueOf, StoreOps
  <2> HIDE DEF c
  <2> QED BY <2>1, <2>2, CallBegins, SeatsStay, NothingMoves DEF Balanced
<1> QED BY <1>1, <1>2 DEF Paying

LEMMA RequestingBalances ==
  ASSUME TypeOK, Balanced, Requesting
  PROVE  Balanced'
<1>1. ASSUME NEW p \in People, Apply(p)
      PROVE  Balanced'
  <2> DEFINE c == [op |-> "apply", who |-> p, stint |-> row[p].stint, due |-> -1]
             r == [row[p] EXCEPT !.req = TRUE, !.held = TRUE, !.den = FALSE]
  <2>1. Begin(c) /\ UNCHANGED seats /\ cap' = cap
    BY <1>1 DEF Apply
  <2>2. DueOf(c) = -1
    BY DEF DueOf, StoreOps
  <2>3. row' = [row EXCEPT ![p] = r] /\ ~row[p].held
    BY <1>1 DEF Apply, TypeOK
  <2>4. r.held
    BY DEF TypeOK, RowType
  <2> HIDE DEF c, r
  <2>5. Cardinality(Held') = Cardinality(Held) + 1
    BY <2>3, <2>4, HeldGained
  <2>6. Moved(0, 0) /\ Owes(-1)
    BY <2>1, <2>2, SeatsStay, CallBegins DEF Balanced
  <2>7. cap' = cap + (0 + (-1) + 1 + 0)
    BY <2>1, CapIsNumber
  <2> QED BY <2>5, <2>6, <2>7, StillBalanced
<1>2. ASSUME NEW p \in People, Reapply(p) \/ Deny(p)
      PROVE  Balanced'
  <2>1. PICK r : row' = [row EXCEPT ![p] = r] /\ r.held = row[p].held
    <3>1. /\ [row[p] EXCEPT !.req = TRUE, !.den = FALSE].held = row[p].held
          /\ [row[p] EXCEPT !.req = FALSE, !.den = TRUE].held = row[p].held
      BY DEF TypeOK, RowType
    <3> QED BY <1>2, <3>1 DEF Reapply, Deny, TypeOK
  <2>2. UNCHANGED seats /\ UNCHANGED calls /\ cap' = cap
    BY <1>2 DEF Reapply, Deny
  <2> QED BY <2>1, <2>2, HeldKept, SeatsStay, CallsKept, NothingMoves DEF Balanced
<1>3. ASSUME NEW p \in People, Approve(p)
      PROVE  Balanced'
  <2>1. row' = [row EXCEPT ![p] = Approved(row[p])] /\ UNCHANGED calls /\ cap' = cap
    BY <1>3 DEF Approve
  <2>2. ~Approved(row[p]).held
    BY DEF Approved, TypeOK, RowType
  <2>3. Owes(0)
    BY <2>1, CallsKept DEF Balanced
  <2>4. CASE row[p].held
    <3>1. Cardinality(Held') = Cardinality(Held) + (-1)
      BY <2>1, <2>2, <2>4, HeldLost, HeldIsFinite
    <3>2. Moved(0, 1)
      BY <1>3, <2>4, MoveMoves DEF Approve
    <3>3. cap' = cap + (0 + 0 + (-1) + 1)
      BY <2>1, CapIsNumber
    <3> QED BY <2>3, <3>1, <3>2, <3>3, StillBalanced
  <2>5. CASE ~row[p].held
    <3>1. Held' = Held
      BY <2>1, <2>2, <2>5, HeldKept DEF Approved, TypeOK, RowType
    <3>2. Moved(0, 0)
      BY <1>3, <2>5, MoveMoves DEF Approve
    <3> QED BY <2>1, <2>3, <3>1, <3>2, NothingMoves
  <2> QED BY <2>4, <2>5
<1>4. ASSUME NEW p \in People, ByHand(p)
      PROVE  Balanced'
  <2> DEFINE c == [op |-> "byhand", who |-> p, due |-> 1]
  <2>1. Begin(c) /\ Held' = Held /\ cap' = cap
    BY <1>4 DEF ByHand, Held
  <2>2. DueOf(c) = 1
    BY DEF DueOf, StoreOps
  <2> HIDE DEF c
  <2>3. Moved(-1, 0)
    BY <1>4, MoveMoves DEF ByHand
  <2>4. Owes(1)
    BY <2>1, <2>2, CallBegins DEF Balanced
  <2>5. Cardinality(Held') = Cardinality(Held) + 0 /\ cap' = cap + ((-1) + 1 + 0 + 0)
    BY <2>1, HeldIsFinite, CapIsNumber
  <2> QED BY <2>3, <2>4, <2>5, StillBalanced
<1> QED BY <1>1, <1>2, <1>3, <1>4 DEF Requesting

LEMMA LeavingBalances ==
  ASSUME TypeOK, Balanced, Leaving
  PROVE  Balanced'
<1>1. ASSUME GraceList
      PROVE  Balanced'
  <2>1. UNCHANGED seats /\ UNCHANGED calls /\ Held' = Held /\ cap' = cap
    BY <1>1 DEF GraceList, Held
  <2> QED BY <2>1, SeatsStay, CallsKept, NothingMoves DEF Balanced
<1>2. ASSUME NEW p \in People, Withdraw(p) \/ GraceExpire(p)
      PROVE  Balanced'
  <2>1. Release(p) /\ UNCHANGED seats /\ cap' = cap
    BY <1>2 DEF Withdraw, GraceExpire
  <2>2. row' = [row EXCEPT ![p] = Unenrolled(row[p].stint)]
    BY <1>2 DEF Withdraw, GraceExpire, Delete
  <2>3. Unenrolled(row[p].stint).held = FALSE
    BY DEF Unenrolled
  <2>4. Moved(0, 0)
    BY <2>1, SeatsStay
  <2>5. CASE row[p].held
    <3>1. Owes(1)
      BY <2>1, <2>5, CallBegins, DueOfCalls DEF Release, Balanced
    <3>2. Cardinality(Held') = Cardinality(Held) + (-1)
      BY <2>2, <2>3, <2>5, HeldLost, HeldIsFinite
    <3>3. cap' = cap + (0 + 1 + (-1) + 0)
      BY <2>1, CapIsNumber
    <3> QED BY <2>4, <3>1, <3>2, <3>3, StillBalanced
  <2>6. CASE ~row[p].held
    <3>1. Owes(0)
      BY <2>1, <2>6, CallsKept DEF Release, Balanced
    <3>2. row[p].held = FALSE
      BY <2>6 DEF TypeOK, RowType
    <3>3. Held' = Held
      BY <2>2, <2>3, <3>2, HeldKept
    <3> QED BY <2>1, <2>4, <3>1, <3>3, NothingMoves
  <2> QED BY <2>5, <2>6
<1> QED BY <1>1, <1>2 DEF Leaving

LEMMA EnrolBalances ==
  ASSUME TypeOK, OnDiagram, Balanced, NEW c \in calls, Enrol(c)
  PROVE  Balanced'
<1>1. c \in CallType /\ c.who \in People
  BY CallFields DEF TypeOK, Enrol
<1>2. DueOf(c) = 0
  BY DEF Enrol, DueOf, StoreOps
<1>3. Owes(0)
  BY <1>2, CallFinishes DEF Enrol, Balanced
<1>4. Held' = Held
  <2>1. CASE row' = row
    BY <2>1 DEF Held
  <2>2. CASE row' # row
    BY <1>1, <2>2, NewRowHoldsNone DEF Enrol
  <2> QED BY <2>1, <2>2
<1>5. Moved(0, 0) /\ cap' = cap
  BY SeatsStay DEF Enrol
<1> QED BY <1>3, <1>4, <1>5, NothingMoves

LEMMA EditBalances ==
  ASSUME TypeOK, Balanced, NEW c \in calls, Edit(c)
  PROVE  Balanced'
<1> DEFINE d == [op |-> "store", due |-> c.new - c.old]
<1>1. c \in CallType /\ c.old \in Caps /\ c.new \in Caps
  BY CallFields DEF TypeOK, Edit
<1>2. DueOf(c) = 0 /\ DueOf(d) = c.new - c.old
  BY DEF Edit, DueOf, StoreOps
<1>3. c.new \in Int /\ c.old \in Int /\ cap \in Int
  BY <1>1, CapsAreNumbers DEF TypeOK
<1>4. Continue(c, d)
  BY DEF Edit
<1>5. cap' = c.new /\ LapseIf(c.old # cap) /\ Held' = Held
  BY DEF Edit, Held
<1> HIDE DEF d
<1>6. DueOf(d) \in Int
  BY <1>2, <1>3
<1>7. Owes(DueOf(d))
  BY <1>2, <1>4, <1>6, CallContinues DEF Balanced
<1>8. Moved(0, 0) /\ (~lapsed' => c.old = cap)
  BY <1>5, LapseMoves
<1>9. ~lapsed' => cap' = cap + (0 + DueOf(d) + 0 + 0)
  BY <1>2, <1>3, <1>5, <1>8
<1>10. Cardinality(Held') = Cardinality(Held) + 0
  BY <1>5, HeldIsFinite
<1> QED BY <1>6, <1>7, <1>8, <1>9, <1>10, StillBalanced

LEMMA ActivateBalances ==
  ASSUME TypeOK, Balanced, NEW c \in calls, Activate(c)
  PROVE  Balanced'
<1>1. c \in CallType /\ c.who \in People /\ c.held \in BOOLEAN
  BY CallFields DEF TypeOK, Activate
<1>2. DueOf(c) = 0 /\ cap' = cap
  BY DEF Activate, DueOf, StoreOps
<1>3. CASE ~Pending(c.who)
  <2>1. Finish(c) /\ UNCHANGED seats /\ Held' = Held
    BY <1>3 DEF Activate, Held
  <2>2. Owes(0)
    BY <1>2, <2>1, CallFinishes DEF Balanced
  <2> QED BY <1>2, <2>1, <2>2, SeatsStay, NothingMoves
<1>4. CASE Pending(c.who)
  <2>1. /\ row' = [row EXCEPT ![c.who] = Activated(row[c.who])]
        /\ LapseIf(c.held # row[c.who].held)
    BY <1>4 DEF Activate
  <2>2. Moved(0, 0) /\ (~lapsed' => c.held = row[c.who].held)
    BY <2>1, LapseMoves
  <2>3. Activated(row[c.who]).held = FALSE /\ row[c.who].held \in BOOLEAN
    BY <1>1 DEF Activated, TypeOK, RowType
  <2>4. CASE c.held
    <3>1. Owes(1)
      BY <1>2, <1>4, <2>4, CallContinues, DueOfCalls DEF Activate, Balanced
    <3>2. CASE row[c.who].held
      <4>1. Cardinality(Held') = Cardinality(Held) + (-1)
        BY <1>1, <2>1, <2>3, <3>2, HeldLost, HeldIsFinite
      <4>2. cap' = cap + (0 + 1 + (-1) + 0)
        BY <1>2, CapIsNumber
      <4> QED BY <2>2, <3>1, <4>1, <4>2, StillBalanced
    <3>3. CASE ~row[c.who].held
      BY <2>2, <2>4, <3>1, <3>3 DEF Balanced, SeatsAddUp, Owes
    <3> QED BY <3>2, <3>3
  <2>5. CASE ~c.held
    <3>1. Owes(0)
      BY <1>2, <1>4, <2>5, CallFinishes DEF Activate, Balanced
    <3>2. CASE ~row[c.who].held
      <4>1. Held' = Held
        BY <1>1, <2>1, <2>3, <3>2, HeldKept
      <4> QED BY <1>2, <2>2, <3>1, <4>1, NothingMoves
    <3>3. CASE row[c.who].held
      BY <2>2, <2>5, <3>1, <3>3 DEF Balanced, SeatsAddUp, Owes
    <3> QED BY <3>2, <3>3
  <2> QED BY <1>1, <2>4, <2>5
<1> QED BY <1>3, <1>4

LEMMA ApplyFailsBalances ==
  ASSUME TypeOK, Balanced, NEW c \in calls, ApplyFails(c)
  PROVE  Balanced'
<1>1. c \in CallType /\ c.who \in People
  BY CallFields DEF TypeOK, ApplyFails
<1>2. DueOf(c) = -1
  BY <1>1 DEF ApplyFails, DueOf, StoreOps, CallType
<1>3. Owes(1)
  BY <1>2, CallFinishes DEF ApplyFails, Balanced
<1>4. cap' = cap /\ row' = [row EXCEPT ![c.who] = [row[c.who] EXCEPT !.held = FALSE]]
  BY DEF ApplyFails, RollBack
<1>5. Moved(0, 0) /\ (~lapsed' => row[c.who].held)
  <2> DEFINE b(timedOut) ==
        timedOut \/ ~row[c.who].held \/ row[c.who].stint # c.stint
        \/ \E d \in calls \ {c} : d.op = "apply" /\ d.who = c.who
  <2>1. PICK timedOut \in BOOLEAN : LapseIf(b(timedOut))
    BY DEF ApplyFails
  <2>2. ~b(timedOut) => row[c.who].held
    OBVIOUS
  <2> HIDE DEF b
  <2> QED BY <2>1, <2>2, LapseMoves
<1>6. CASE row[c.who].held
  <2> DEFINE r == [row[c.who] EXCEPT !.held = FALSE]
  <2>1. ~r.held
    BY <1>1 DEF TypeOK, RowType
  <2>2. row' = [row EXCEPT ![c.who] = r]
    BY <1>4
  <2> HIDE DEF r
  <2>3. Cardinality(Held') = Cardinality(Held) + (-1)
    BY <1>1, <1>6, <2>1, <2>2, HeldLost, HeldIsFinite
  <2>4. cap' = cap + (0 + 1 + (-1) + 0)
    BY <1>4, CapIsNumber
  <2> QED BY <1>3, <1>5, <2>3, <2>4, StillBalanced
<1>7. CASE ~row[c.who].held
  BY <1>3, <1>5, <1>7 DEF Balanced, SeatsAddUp, Owes
<1> QED BY <1>6, <1>7

LEMMA ManualHoldBalances ==
  ASSUME TypeOK, Balanced, NEW c \in calls, ManualHold(c)
  PROVE  Balanced'
<1>1. c \in CallType /\ c.who \in People
  BY CallFields DEF TypeOK, ManualHold
<1>2. DueOf(c) = 1
  BY <1>1 DEF ManualHold, DueOf, StoreOps, CallType
<1>3. Owes(-1) /\ cap' = cap
  BY <1>2, CallFinishes DEF ManualHold, Balanced
<1>4. CASE HoldFailed(c.who)
  <2> DEFINE r == [row[c.who] EXCEPT !.held = TRUE]
  <2>1. r.held
    BY <1>1 DEF TypeOK, RowType
  <2>2. row' = [row EXCEPT ![c.who] = r] /\ UNCHANGED seats /\ ~row[c.who].held
    BY <1>4 DEF ManualHold, HoldFailed
  <2> HIDE DEF r
  <2>3. Cardinality(Held') = Cardinality(Held) + 1
    BY <1>1, <2>1, <2>2, HeldGained
  <2>4. Moved(0, 0)
    BY <2>2, SeatsStay
  <2>5. cap' = cap + (0 + (-1) + 1 + 0)
    BY <1>3, CapIsNumber
  <2> QED BY <1>3, <2>3, <2>4, <2>5, StillBalanced
<1>5. CASE ~HoldFailed(c.who)
  <2>1. (Move(1, 0, FALSE) \/ LapseIf(TRUE)) /\ row' = row
    BY <1>5 DEF ManualHold
  <2>2. CASE LapseIf(TRUE)
    BY <1>3, <2>2, LapseMoves DEF Balanced, SeatsAddUp, Owes
  <2>3. CASE Move(1, 0, FALSE)
    <3>1. Moved(1, 0)
      BY <2>3, MoveMoves
    <3>2. Cardinality(Held') = Cardinality(Held) + 0 /\ cap' = cap + (1 + (-1) + 0 + 0)
      BY <1>3, <2>1, HeldIsFinite, CapIsNumber DEF Held
    <3> QED BY <1>3, <3>1, <3>2, StillBalanced
  <2> QED BY <2>1, <2>2, <2>3
<1> QED BY <1>4, <1>5

LEMMA StoreCallBalances ==
  ASSUME TypeOK, Balanced, NEW c \in calls, Adjust(c) \/ AdjustFails(c) \/ Die(c)
  PROVE  Balanced'
<1>1. DueOf(c) \in Int /\ -DueOf(c) \in Int
  <2>1. DueOf(c) \in Int
    BY DueOfCalls DEF TypeOK
  <2> QED BY <2>1
<1>2. Finish(c) /\ cap' = cap /\ Held' = Held
  BY DEF Adjust, AdjustFails, Die, Held
<1>3. Owes(-DueOf(c))
  BY <1>1, <1>2, CallFinishes DEF Balanced
<1>4. Cardinality(Held') = Cardinality(Held) + 0
  BY <1>2, HeldIsFinite
<1>5. /\ cap' = cap + (DueOf(c) + (-DueOf(c)) + 0 + 0)
      /\ cap' = cap + (0 + (-DueOf(c)) + 0 + DueOf(c))
  BY <1>1, <1>2, CapIsNumber
<1>6. ASSUME LapseIf(TRUE)
      PROVE  Balanced'
  BY <1>3, <1>6, LapseMoves DEF Balanced, SeatsAddUp, Owes
<1>7. CASE Adjust(c)
  <2>1. DueOf(c) = c.due /\ Move(c.due, 0, FALSE)
    BY <1>7 DEF Adjust, DueOf
  <2>2. Moved(DueOf(c), 0)
    BY <2>1, MoveMoves
  <2> QED BY <1>1, <1>3, <1>4, <1>5, <2>2, StillBalanced
<1>8. CASE AdjustFails(c)
  <2>1. DueOf(c) = c.due /\ (Move(0, c.due, FALSE) \/ LapseIf(TRUE))
    BY <1>8 DEF AdjustFails, DueOf, StoreOps
  <2>2. CASE Move(0, c.due, FALSE)
    <3>1. Moved(0, DueOf(c))
      BY <2>1, <2>2, MoveMoves
    <3> QED BY <1>1, <1>3, <1>4, <1>5, <3>1, StillBalanced
  <2> QED BY <1>6, <2>1, <2>2
<1>9. CASE Die(c)
  <2>1. LapseIf(DueOf(c) # 0)
    BY <1>9 DEF Die
  <2>2. CASE DueOf(c) = 0
    BY <1>2, <1>3, <2>1, <2>2, LapseMoves, NothingMoves
  <2>3. CASE DueOf(c) # 0
    BY <1>6, <2>1, <2>3
  <2> QED BY <2>2, <2>3
<1> QED BY <1>7, <1>8, <1>9

LEMMA NextBalances ==
  ASSUME TypeOK, OnDiagram, Balanced, [Next]_vars
  PROVE  Balanced'
<1>1. CASE UNCHANGED vars
  <2>1. UNCHANGED seats /\ UNCHANGED calls /\ Held' = Held /\ cap' = cap
    BY <1>1 DEF vars, Held
  <2> QED BY <2>1, SeatsStay, CallsKept, NothingMoves DEF Balanced
<1>2. ASSUME NEW c \in calls, Ending(c)
      PROVE  Balanced'
  BY <1>2, EnrolBalances, EditBalances, ActivateBalances, ApplyFailsBalances,
     ManualHoldBalances, StoreCallBalances DEF Ending
<1> QED BY <1>1, <1>2, EnrollingBalances, PayingBalances, RequestingBalances, LeavingBalances DEF Next

\* Capacity and scholarship holds (rules/programs.md): for any number of people,
\* caps and handlers at once, every seat is on sale, held, accounted for elsewhere
\* or on its way in a call to the store, until one of the recorded causes.
THEOREM SeatsAccountedFor == Spec => []SeatsAddUp
<1>1. Init => Balanced
  <2> SUFFICES ASSUME Init
               PROVE  Balanced
    OBVIOUS
  <2>1. \A sign \in {1, -1} : Seats(calls, sign) = {}
    BY DEF Init, Seats
  <2>2. Countable(calls) /\ Due = 0
    BY <2>1, FS_EmptySet DEF Countable, Due, DueFrom
  <2>3. Held = {}
    BY DEF Init, Held, Unenrolled
  <2>4. Cardinality(Held) = 0 /\ FirstCap \in Int
    BY <2>3, FS_EmptySet, EnrolmentAssumption, CapsAreNumbers
  <2> QED BY <2>2, <2>4 DEF Init, Balanced, SeatsAddUp
<1>2. TypeOK /\ OnDiagram /\ Balanced /\ [Next]_vars => Balanced'
  BY NextBalances
<1>3. Balanced => SeatsAddUp
  BY DEF Balanced
<1> QED BY <1>1, <1>2, <1>3, TypeCorrect, DiagramStands, PTL DEF Spec

=============================================================================
