------------------------ MODULE AttendanceProperties ------------------------
(***************************************************************************)
(* What must hold of the attendance system, and the abstract register it   *)
(* implements.                                                             *)
(***************************************************************************)
EXTENDS Attendance

VisitType == [no : Nat, open : BOOLEAN, token : BOOLEAN]

CallType ==
  [op : {"flush", "sweep"} \cup ScanOps \cup DepartOps, who : People,
   no : Nat, closes : BOOLEAN, confirmed : BOOLEAN, seen : [People -> Nat]]

\* A person's scans run one after another (scan/route.ts, the advisory lock).
OneScanAtATime ==
  \A c, d \in calls : {c.op, d.op} \subseteq ScanOps /\ c.who = d.who => c = d

\* Every variable has its type, and no two scans of one person overlap.
TypeOK ==
  /\ visit \in [People -> VisitType]
  /\ held \subseteq People
  /\ calls \subseteq CallType
  /\ night \in [People -> Nat]
  /\ lapsed \in BOOLEAN
  /\ OneScanAtATime

Closing == night # Nobody \/ \E c \in calls : c.op = "sweep"

\* Nobody is signed in without a keyholder unless the building is being closed
\* (the facility-open guard and the last-keyholder guard of scan-service.ts),
\* but for four causes: two keyholders leave at once, a write that asks no
\* guard, a close that fails, and an arrival during the nightly pass.
NeverUnattended ==
  ~lapsed /\ Inside # {} => Inside \cap Keyholders # {} \/ Closing

Register == INSTANCE FacilityRegister
              WITH inside <- Inside, closing <- Closing, excused <- lapsed

\* The handlers, step by step, keep the promise of the register: arrivals need
\* a keyholder, the last keyholder leaves an empty building or closes it, and a
\* close that ends has signed everyone out or a keyholder has come in.
ImplementsRegister == Register!Spec

\* The visits a step ends.
EndedNow == {p \in People : visit[p].open /\ ~visit'[p].open}

\* A close that nobody confirmed signs out no one who was signed in when it was
\* decided: they were there to be asked about (scan-service.ts, forceCloseToken).
\* Only who arrived after the decision can be.
UnconfirmedCloseSparesTheSeen ==
  [][\A c \in calls :
       Sweep(c) /\ ~c.confirmed => \A p \in EndedNow : c.seen[p] # visit[p].no]_vars

\* Every visit ends, whichever handlers die on the way: the nightly pass signs
\* out who is still in (cron/nightly).
EveryVisitEnds ==
  \A p \in People : \A n \in 1 .. MaxVisits[p] :
    (visit[p].open /\ visit[p].no = n) ~> ~(visit[p].open /\ visit[p].no = n)

=============================================================================
