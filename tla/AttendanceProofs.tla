-------------------------- MODULE AttendanceProofs --------------------------
(***************************************************************************)
(* Nobody is left without a keyholder, for any number of people, handlers  *)
(* and visits: the types, the inductive invariant, whom an unconfirmed     *)
(* close signs out, and the refinement of FacilityRegister.                *)
(***************************************************************************)
EXTENDS AttendanceProperties, TLAPS

-----------------------------------------------------------------------------
(* The inductive invariant.                                                *)

Standing(c) == visit[c.who].open /\ visit[c.who].no = c.no

\* A keyholder's departure that will not close the building.
StepsOut(c) == c.op \in DepartOps /\ ~c.closes /\ c.who \in Keyholders

\* An open visit has a number, and a departure is about the person's latest
\* visit or an earlier one.
Numbered ==
  /\ \A p \in People : visit[p].open => visit[p].no # 0
  /\ \A c \in calls : c.no <= visit[c.who].no

\* A keyholder who steps out leaves another behind.
LeavesAnother ==
  ~lapsed /\ ~Closing =>
    \A c \in calls : StepsOut(c) /\ Standing(c) => Others(c.who) \cap Keyholders # {}

\* One keyholder at a time steps out.
OneStepsOut ==
  ~lapsed => \A c, d \in calls : StepsOut(c) /\ StepsOut(d) => c.who = d.who

\* While the nightly pass runs, whoever is in is on its list.
NightKnows ==
  ~lapsed /\ night # Nobody => \A p \in Inside : night[p] = visit[p].no

Inv == TypeOK /\ Numbered /\ NeverUnattended /\ LeavesAnother /\ OneStepsOut /\ NightKnows

-----------------------------------------------------------------------------
(* Steps by their effect.                                                  *)

\* A step that lets the people of S in, and starts no departure.
Admit(S) ==
  /\ S \subseteq People \ Inside
  /\ visit' = [p \in People |-> IF p \in S THEN Opened(visit[p]) ELSE visit[p]]
  /\ S # {} => lapsed' \/ (night = Nobody /\ (Inside \cup S) \cap Keyholders # {})
  /\ lapsed => lapsed'
  /\ night' = night
  /\ \A c \in calls' : c \in calls \/ (c.op \in {"hold", "arrive", "flush"} /\ c.no = 0)
  /\ \A c \in calls : c.op = "sweep" => c \in calls'

LEMMA VisitFields ==
  ASSUME TypeOK
  PROVE  \A p \in People : visit[p].no \in Nat /\ visit[p].open \in BOOLEAN /\ visit[p].token \in BOOLEAN
BY DEF TypeOK, VisitType

LEMMA OpenedClosed ==
  \A v : /\ Opened(v).no = v.no + 1 /\ Opened(v).open = TRUE
         /\ Closed(v).no = v.no /\ Closed(v).open = FALSE
BY DEF Opened, Closed

LEMMA AdmitInside ==
  ASSUME TypeOK, NEW S, Admit(S)
  PROVE  Inside' = Inside \cup S
BY DEF Admit, TypeOK, VisitType, Inside, InsideOf, Opened

LEMMA AdmitKeeps ==
  ASSUME Inv, NEW S, Admit(S), calls' \subseteq CallType
  PROVE  Numbered' /\ NeverUnattended' /\ LeavesAnother' /\ OneStepsOut' /\ NightKnows'
<1>. TypeOK BY DEF Inv
<1>1. Inside' = Inside \cup S
  BY AdmitInside
<1>2. \A p \in People : visit'[p] = IF p \in S THEN Opened(visit[p]) ELSE visit[p]
  BY DEF Admit
<1>3. Closing => Closing'
  BY DEF Admit, Closing
<1>4. \A c \in calls' : c.op \in DepartOps => c \in calls
  BY DEF Admit, DepartOps
<1>5. \A c \in calls' : c \in calls => c \in CallType /\ c.who \in People /\ c.no \in Nat
  BY DEF CallType
<1>6. Numbered'
  <2>1. \A p \in People : visit[p].no \in Nat /\ visit'[p].no \in Nat
                           /\ visit[p].no <= visit'[p].no
                           /\ (visit'[p].open => visit'[p].no # 0)
    <3>. TAKE p \in People
    <3>1. visit[p].no \in Nat
      BY VisitFields
    <3>2. CASE p \in S
      BY <1>2, <3>1, <3>2, OpenedClosed
    <3>3. CASE p \notin S
      BY <1>2, <3>1, <3>3 DEF Inv, Numbered
    <3>4. QED BY <3>2, <3>3
  <2>2. \A c \in calls' : c.no <= visit'[c.who].no
    <3>. SUFFICES ASSUME NEW c \in calls' PROVE c.no <= visit'[c.who].no
      OBVIOUS
    <3>1. c.who \in People
      BY DEF CallType
    <3>2. CASE c \in calls
      BY <1>5, <2>1, <3>1, <3>2 DEF Inv, Numbered
    <3>3. CASE c.no = 0
      BY <2>1, <3>1, <3>3
    <3>4. QED BY <3>2, <3>3 DEF Admit
  <2>3. QED BY <2>1, <2>2 DEF Numbered
<1>7. NeverUnattended'
  <2>. SUFFICES ASSUME ~lapsed', Inside' # {}, ~Closing' PROVE Inside' \cap Keyholders # {}
    BY DEF NeverUnattended
  <2>1. ~lapsed
    BY DEF Admit
  <2>2. CASE S = {}
    BY <1>1, <1>3, <2>1, <2>2 DEF Inv, NeverUnattended
  <2>3. CASE S # {}
    BY <1>1, <2>3 DEF Admit
  <2>4. QED BY <2>2, <2>3
<1>8. LeavesAnother'
  <2>. SUFFICES ASSUME ~lapsed', ~Closing', NEW c \in calls', StepsOut(c), Standing(c)'
                PROVE  (Inside' \ {c.who}) \cap Keyholders # {}
    BY DEF LeavesAnother, Others, StepsOut
  <2>1. c \in calls /\ c.who \in People /\ c.no \in Nat
    BY <1>4, <1>5 DEF StepsOut
  <2>2. Standing(c)
    <3>1. visit[c.who].no \in Nat /\ c.no <= visit[c.who].no
      BY <2>1, VisitFields DEF Inv, Numbered
    <3>2. c.who \notin S
      <4>. SUFFICES ASSUME c.who \in S PROVE FALSE
        OBVIOUS
      <4>1. visit'[c.who].no = visit[c.who].no + 1
        BY <1>2, <2>1, OpenedClosed
      <4>2. visit'[c.who].no = c.no
        BY DEF Standing
      <4>3. QED BY <2>1, <3>1, <4>1, <4>2
    <3>3. QED BY <1>2, <2>1, <3>2 DEF Standing
  <2>3. ~lapsed /\ ~Closing
    BY <1>3 DEF Admit
  <2>4. QED BY <1>1, <2>1, <2>2, <2>3 DEF Inv, LeavesAnother, Others
<1>9. OneStepsOut'
  BY <1>4 DEF OneStepsOut, StepsOut, Inv, Admit
<1>10. NightKnows'
  <2>. SUFFICES ASSUME ~lapsed', night' # Nobody, NEW p \in Inside' PROVE night'[p] = visit'[p].no
    BY DEF NightKnows
  <2>1. S = {}
    BY DEF Admit
  <2>2. p \in Inside /\ p \in People /\ ~lapsed /\ night # Nobody
    BY <1>1, <2>1 DEF Admit, Inside, InsideOf
  <2>3. QED BY <1>2, <2>1, <2>2 DEF Inv, NightKnows, Admit
<1>11. QED BY <1>6, <1>7, <1>8, <1>9, <1>10

-----------------------------------------------------------------------------
(* Types.                                                                  *)

LEMMA CallTyped ==
  ASSUME NEW op \in ScanOps \cup {"flush"}, NEW p \in People
  PROVE  Call(op, p) \in CallType /\ Call(op, p).op = op /\ Call(op, p).who = p /\ Call(op, p).no = 0
BY DEF Call, CallType, Nobody

LEMMA BeginTyped ==
  ASSUME TypeOK, NEW c \in CallType, Begin(c), c.op \in ScanOps => LockFree(c.who)
  PROVE  calls' \subseteq CallType /\ OneScanAtATime'
BY DEF TypeOK, Begin, OneScanAtATime, LockFree

LEMMA FinishTyped ==
  ASSUME TypeOK, NEW c, Finish(c)
  PROVE  calls' \subseteq CallType /\ OneScanAtATime'
BY DEF TypeOK, Finish, OneScanAtATime

LEMMA VisitsTyped ==
  ASSUME TypeOK
  PROVE  /\ \A p \in People : Opened(visit[p]) \in VisitType /\ Closed(visit[p]) \in VisitType
         /\ \A S : CloseVisits(S) \in [People -> VisitType]
         /\ \A p \in People : OpenVisit(p) \in [People -> VisitType]
<1>1. \A p \in People : Opened(visit[p]) \in VisitType /\ Closed(visit[p]) \in VisitType
  BY VisitFields DEF Opened, Closed, VisitType
<1>2. QED
  BY <1>1 DEF TypeOK, CloseVisits, OpenVisit

LEMMA AdmitTyped ==
  ASSUME TypeOK, NEW S, Admit(S)
  PROVE  visit' \in [People -> VisitType]
BY VisitsTyped DEF Admit, TypeOK

LEMMA OpenVisitAdmits ==
  ASSUME TypeOK, NEW p \in People, ~visit[p].open, visit' = OpenVisit(p)
  PROVE  /\ {p} \subseteq People \ Inside
         /\ visit' = [q \in People |-> IF q \in {p} THEN Opened(visit[q]) ELSE visit[q]]
BY DEF TypeOK, OpenVisit, Inside, InsideOf

\* A flush on top of an arrival.
LEMMA FlushAdmits ==
  ASSUME TypeOK, NEW A \in SUBSET (People \ Inside), NEW v,
         v = [q \in People |-> IF q \in A THEN Opened(visit[q]) ELSE visit[q]],
         FlushInto(v)
  PROVE  /\ held' \subseteq People
         /\ \E S \in SUBSET (People \ Inside) :
              /\ visit' = [q \in People |-> IF q \in S THEN Opened(visit[q]) ELSE visit[q]]
              /\ A \subseteq S
              /\ S # A => (Inside \cup S) \cap Keyholders # {}
<1>1. \A q \in People : v[q].open <=> q \in Inside \cup A
  BY OpenedClosed DEF Inside, InsideOf
<1>2. PICK batch \in SUBSET held :
        LET projected == {p \in batch : ~v[p].open /\ InsideOf(v) \cap Keyholders # {}}
            conflicts == {p \in batch : v[p].open} IN
        /\ visit' = [p \in People |-> IF p \in projected THEN Opened(v[p]) ELSE v[p]]
        /\ held' = held \ (projected \cup conflicts)
  BY DEF FlushInto
<1>. DEFINE projected == {p \in batch : ~v[p].open /\ InsideOf(v) \cap Keyholders # {}}
<1>3. batch \subseteq People
  BY DEF TypeOK
<1>4. projected \subseteq People \ (Inside \cup A)
  BY <1>1, <1>3
<1>5. visit' = [q \in People |-> IF q \in A \cup projected THEN Opened(visit[q]) ELSE visit[q]]
  BY <1>2, <1>4
<1>6. projected # {} => (Inside \cup A) \cap Keyholders # {}
  BY <1>1 DEF InsideOf
<1>7. held' \subseteq People
  BY <1>2 DEF TypeOK
<1>. HIDE DEF projected
<1>8. A \cup projected \in SUBSET (People \ Inside)
  BY <1>4
<1>9. A \cup projected # A => (Inside \cup (A \cup projected)) \cap Keyholders # {}
  BY <1>6
<1>10. QED
  BY <1>5, <1>7, <1>8, <1>9

-----------------------------------------------------------------------------
(* Arrivals.                                                               *)

\* Nobody comes in: the step only moves scans.
LEMMA NobodyAdmitted ==
  ASSUME TypeOK, UNCHANGED <<visit, night>>, lapsed => lapsed',
         \A c \in calls' : c \in calls \/ (c.op \in {"hold", "arrive", "flush"} /\ c.no = 0),
         \A c \in calls : c.op = "sweep" => c \in calls'
  PROVE  Admit({})
BY DEF Admit, TypeOK

\* One person comes in under the facility-open guard, or excused.
LEMMA OneAdmitted ==
  ASSUME TypeOK, NEW p \in People, ~visit[p].open, visit' = OpenVisit(p), UNCHANGED night,
         lapsed' = TRUE \/ (MayEnter(p) /\ MissedByNight),
         \A c \in calls' : c \in calls \/ (c.op \in {"hold", "arrive", "flush"} /\ c.no = 0),
         \A c \in calls : c.op = "sweep" => c \in calls'
  PROVE  Admit({p})
<1>1. /\ {p} \subseteq People \ Inside
      /\ visit' = [q \in People |-> IF q \in {p} THEN Opened(visit[q]) ELSE visit[q]]
  BY OpenVisitAdmits
<1>2. lapsed' = TRUE \/ (night = Nobody /\ lapsed' = lapsed /\ MayEnter(p))
  BY DEF MissedByNight, Lapse
<1>3. MayEnter(p) => (Inside \cup {p}) \cap Keyholders # {}
  BY DEF MayEnter
<1>4. QED
  BY <1>1, <1>2, <1>3 DEF Admit

LEMMA CheckInAdmits ==
  ASSUME TypeOK, NEW c \in calls, CheckIn(c)
  PROVE  (\E S : Admit(S)) /\ held' \subseteq People
<1>1. c.who \in People /\ c \in CallType
  BY DEF TypeOK, CallType
<1>2. /\ \A d \in calls' : d \in calls
      /\ \A d \in calls : d.op = "sweep" => d \in calls'
      /\ night' = night
  BY DEF CheckIn, Finish
<1>3. CASE /\ MayEnter(c.who) /\ ~visit[c.who].open /\ c.who \in Keyholders
           /\ FlushInto(OpenVisit(c.who)) /\ MissedByNight
  <2>. DEFINE v == OpenVisit(c.who)
              A == {c.who}
  <2>1. A \in SUBSET (People \ Inside)
    BY <1>1, <1>3 DEF Inside, InsideOf
  <2>2. v = [q \in People |-> IF q \in A THEN Opened(visit[q]) ELSE visit[q]]
    BY <1>1 DEF OpenVisit, TypeOK
  <2>3. FlushInto(v)
    BY <1>3
  <2>. HIDE DEF v, A
  <2>4. /\ held' \subseteq People
        /\ \E S \in SUBSET (People \ Inside) :
             /\ visit' = [q \in People |-> IF q \in S THEN Opened(visit[q]) ELSE visit[q]]
             /\ A \subseteq S
             /\ S # A => (Inside \cup S) \cap Keyholders # {}
    BY <2>1, <2>2, <2>3, FlushAdmits
  <2>. USE DEF A
  <2>5. PICK S \in SUBSET (People \ Inside) :
          /\ visit' = [q \in People |-> IF q \in S THEN Opened(visit[q]) ELSE visit[q]]
          /\ {c.who} \subseteq S
    BY <2>4
  <2>6. lapsed' = TRUE \/ (night = Nobody /\ lapsed' = lapsed)
    BY <1>3 DEF MissedByNight, Lapse
  <2>7. Admit(S)
    BY <1>2, <1>3, <2>5, <2>6 DEF Admit
  <2>8. QED BY <2>4, <2>7
<1>4. CASE /\ MayEnter(c.who) /\ ~visit[c.who].open /\ c.who \notin Keyholders
           /\ visit' = OpenVisit(c.who) /\ UNCHANGED held /\ MissedByNight
  <2>1. Admit({c.who})
    BY <1>1, <1>2, <1>4, OneAdmitted
  <2>2. QED BY <1>4, <2>1 DEF TypeOK
<1>5. CASE UNCHANGED <<visit, lapsed>> /\ held' \in {held, held \cup {c.who}}
  <2>1. Admit({})
    BY <1>2, <1>5, NobodyAdmitted
  <2>2. QED BY <1>1, <1>5, <2>1 DEF TypeOK
<1>6. QED
  BY <1>3, <1>4, <1>5 DEF CheckIn

LEMMA FlushStepAdmits ==
  ASSUME TypeOK, NEW c \in calls, Flush(c)
  PROVE  (\E S : Admit(S)) /\ held' \subseteq People
<1>1. /\ \A d \in calls' : d \in calls
      /\ \A d \in calls : d.op = "sweep" => d \in calls'
      /\ night' = night
  BY DEF Flush, Finish
<1>2. visit = [q \in People |-> IF q \in {} THEN Opened(visit[q]) ELSE visit[q]]
  BY DEF TypeOK
<1>3. {} \in SUBSET (People \ Inside) /\ FlushInto(visit)
  BY DEF Flush
<1>4. held' \subseteq People
  BY <1>2, <1>3, FlushAdmits
<1>5. PICK S \in SUBSET (People \ Inside) :
        /\ visit' = [q \in People |-> IF q \in S THEN Opened(visit[q]) ELSE visit[q]]
        /\ S # {} => (Inside \cup S) \cap Keyholders # {}
  BY <1>2, <1>3, FlushAdmits
<1>6. lapsed => lapsed'
  BY DEF Flush, MissedByNight, Lapse
<1>7. S # {} => lapsed' \/ night = Nobody
  <2>. SUFFICES ASSUME S # {} PROVE lapsed' \/ night = Nobody
    OBVIOUS
  <2>1. PICK q \in S : TRUE
    OBVIOUS
  <2>2. visit'[q].open /\ ~visit[q].open
    BY <1>5, OpenedClosed DEF Inside, InsideOf
  <2>3. visit' # visit
    BY <2>2
  <2>4. QED BY <2>3 DEF Flush, MissedByNight, Lapse
<1>8. Admit(S)
  BY <1>1, <1>5, <1>6, <1>7 DEF Admit
<1>9. QED BY <1>4, <1>8

LEMMA ArrivalAdmits ==
  ASSUME TypeOK, Arrivals
  PROVE  (\E S : Admit(S)) /\ held' \subseteq People /\ calls' \subseteq CallType /\ OneScanAtATime'
<1>1. CASE \E c \in calls : CheckIn(c) \/ Hold(c) \/ Flush(c)
  <2>1. PICK c \in calls : CheckIn(c) \/ Hold(c) \/ Flush(c)
    BY <1>1
  <2>2. Finish(c)
    BY <2>1 DEF CheckIn, Hold, Flush
  <2>3. CASE CheckIn(c)
    BY <2>2, <2>3, CheckInAdmits, FinishTyped
  <2>4. CASE Flush(c)
    BY <2>2, <2>4, FlushStepAdmits, FinishTyped
  <2>5. CASE Hold(c)
    <3>1. Admit({})
      BY <2>5, NobodyAdmitted DEF Hold, Finish
    <3>2. held' \subseteq People
      BY <2>5 DEF Hold, TypeOK, CallType
    <3>3. QED BY <2>2, <3>1, <3>2, FinishTyped
  <2>6. QED BY <2>1, <2>3, <2>4, <2>5
<1>2. ASSUME NEW p \in People, ScanIn(p)
      PROVE  Admit({}) /\ held' \subseteq People /\ calls' \subseteq CallType /\ OneScanAtATime'
  <2>1. PICK op \in {"hold", "arrive"} : Begin(Call(op, p))
    BY <1>2 DEF ScanIn
  <2>2. Call(op, p) \in CallType /\ Call(op, p).op = op /\ Call(op, p).who = p /\ Call(op, p).no = 0
    BY CallTyped DEF ScanOps
  <2>3. calls' \subseteq CallType /\ OneScanAtATime'
    BY <1>2, <2>1, <2>2, BeginTyped DEF ScanIn
  <2>4. Admit({})
    BY <1>2, <2>1, <2>2, NobodyAdmitted DEF ScanIn, Begin
  <2>5. QED BY <1>2, <2>3, <2>4 DEF ScanIn, TypeOK
<1>3. ASSUME NEW p \in People, EnterOpen(p)
      PROVE  Admit({p}) /\ held' \subseteq People /\ calls' \subseteq CallType /\ OneScanAtATime'
  <2>1. Call("flush", p) \in CallType /\ Call("flush", p).op = "flush" /\ Call("flush", p).no = 0
    BY CallTyped
  <2>2. calls' \subseteq CallType /\ OneScanAtATime'
    BY <1>3, <2>1, BeginTyped DEF EnterOpen, TypeOK, ScanOps, OneScanAtATime
  <2>3. /\ \A c \in calls' : c \in calls \/ (c.op \in {"hold", "arrive", "flush"} /\ c.no = 0)
        /\ \A c \in calls : c.op = "sweep" => c \in calls'
    BY <1>3, <2>1 DEF EnterOpen, Begin
  <2>4. Admit({p})
    BY <1>3, <2>3, OneAdmitted DEF EnterOpen, CanOpen
  <2>5. QED BY <1>3, <2>2, <2>4 DEF EnterOpen, TypeOK
<1>4. ASSUME NEW p \in People, DashboardIn(p) \/ RosterIn(p)
      PROVE  Admit({p}) /\ held' \subseteq People /\ calls' \subseteq CallType /\ OneScanAtATime'
  <2>1. /\ ~visit[p].open /\ visit' = OpenVisit(p) /\ UNCHANGED <<held, calls, night>>
        /\ lapsed' = TRUE \/ (MayEnter(p) /\ MissedByNight)
    BY <1>4 DEF DashboardIn, RosterIn, CanOpen, Lapse
  <2>2. Admit({p})
    BY <2>1, OneAdmitted
  <2>3. QED BY <2>1, <2>2 DEF TypeOK, OneScanAtATime
<1>5. ASSUME NEW p \in held, RecordHeld(p)
      PROVE  (\E S : Admit(S)) /\ held' \subseteq People /\ calls' \subseteq CallType /\ OneScanAtATime'
  <2>1. p \in People /\ held' \subseteq People /\ calls' \subseteq CallType /\ OneScanAtATime'
    BY <1>5 DEF RecordHeld, TypeOK, OneScanAtATime
  <2>2. CASE UNCHANGED <<visit, lapsed>>
    BY <1>5, <2>1, <2>2, NobodyAdmitted DEF RecordHeld
  <2>3. CASE MayEnter(p) /\ visit' = OpenVisit(p) /\ MissedByNight
    BY <1>5, <2>1, <2>3, OneAdmitted DEF RecordHeld
  <2>4. QED BY <1>5, <2>1, <2>2, <2>3 DEF RecordHeld
<1>6. QED
  BY <1>1, <1>2, <1>3, <1>4, <1>5 DEF Arrivals

-----------------------------------------------------------------------------
(* Departures.                                                             *)

\* A step that opens no visit and numbers none.
Shrinks ==
  /\ \A p \in People : visit'[p].no = visit[p].no
  /\ Inside' \subseteq Inside
  /\ lapsed => lapsed'

LEMMA CloseShrinks ==
  ASSUME TypeOK, NEW S, visit' = CloseVisits(S), lapsed => lapsed'
  PROVE  Shrinks /\ Inside' = Inside \ S
<1>1. \A p \in People : visit'[p] = IF p \in S THEN Closed(visit[p]) ELSE visit[p]
  BY DEF CloseVisits
<1>2. QED
  BY <1>1, OpenedClosed, VisitFields DEF Shrinks, Inside, InsideOf

LEMMA SameShrinks ==
  ASSUME visit' = visit, lapsed => lapsed'
  PROVE  Shrinks /\ Inside' = Inside
BY DEF Shrinks, Inside, InsideOf

LEMMA ShrinkNumbers ==
  ASSUME Inv, Shrinks, \A c \in calls' : c.who \in People /\ c.no <= visit[c.who].no
  PROVE  Numbered'
<1>1. \A p \in People : visit'[p].open => visit[p].open
  BY DEF Shrinks, Inside, InsideOf
<1>2. QED
  BY <1>1 DEF Shrinks, Numbered, Inv

LEMMA ShrinkNight ==
  ASSUME Inv, Shrinks, night' = night
  PROVE  NightKnows'
<1>1. Inside \subseteq People
  BY DEF Inside, InsideOf
<1>2. QED
  BY <1>1 DEF Shrinks, NightKnows, Inv

\* Who still has a standing departure had one before.
LEMMA ShrinkStands ==
  ASSUME Shrinks, NEW c, c.who \in People, Standing(c)'
  PROVE  Standing(c) /\ c.who \in Inside'
BY DEF Shrinks, Standing, Inside, InsideOf

\* A close under way excuses the building being without a keyholder.
LEMMA ClosingKeeps ==
  ASSUME Closing'
  PROVE  NeverUnattended' /\ LeavesAnother'
BY DEF NeverUnattended, LeavesAnother

LEMMA LapseKeeps ==
  ASSUME lapsed'
  PROVE  NeverUnattended' /\ LeavesAnother' /\ OneStepsOut' /\ NightKnows'
BY DEF NeverUnattended, LeavesAnother, OneStepsOut, NightKnows

\* If as many keyholders stay in and no departure is added, all is kept.
LEMMA KeyholdersStay ==
  ASSUME Inv, Shrinks, Closing => Closing', Inside \cap Keyholders \subseteq Inside',
         \A c \in calls' : StepsOut(c) => c \in calls, calls' \subseteq CallType
  PROVE  NeverUnattended' /\ LeavesAnother' /\ OneStepsOut'
<1>1. NeverUnattended'
  BY DEF Shrinks, NeverUnattended, Inv
<1>2. LeavesAnother'
  <2>. SUFFICES ASSUME ~lapsed', ~Closing', NEW c \in calls', StepsOut(c), Standing(c)'
                PROVE  (Inside' \ {c.who}) \cap Keyholders # {}
    BY DEF LeavesAnother, Others, StepsOut
  <2>1. c \in calls /\ c.who \in People /\ ~lapsed /\ ~Closing
    BY DEF CallType, Shrinks
  <2>2. Standing(c)
    BY <2>1, ShrinkStands
  <2>3. (Inside \ {c.who}) \cap Keyholders # {}
    BY <2>1, <2>2 DEF Inv, LeavesAnother, Others
  <2>4. QED BY <2>3
<1>3. OneStepsOut'
  BY DEF OneStepsOut, StepsOut, Inv, Shrinks
<1>4. QED BY <1>1, <1>2, <1>3

LEMMA CallFields ==
  ASSUME Inv, NEW c \in calls
  PROVE  /\ c \in CallType /\ c.who \in People /\ c.no \in Nat /\ c.no <= visit[c.who].no
BY DEF Inv, TypeOK, CallType, Numbered

LEMMA ProceedKeeps ==
  ASSUME Inv, NEW op \in {"badge", "web"}, NEW p \in People, visit[p].open,
         NEW closes \in BOOLEAN, NEW confirmed \in BOOLEAN,
         Proceed(op, p, closes, confirmed), op = "badge" => LockFree(p),
         closes \/ ~LastKeyholder(p)
  PROVE  Inv'
<1>. DEFINE new == [op |-> op, who |-> p, no |-> visit[p].no, closes |-> closes,
                    confirmed |-> confirmed, seen |-> IF closes THEN Roster ELSE Nobody]
<1>0. TypeOK
  BY DEF Inv
<1>1. new \in CallType
  <2>1. visit[p].no \in Nat /\ Roster \in [People -> Nat] /\ Nobody \in [People -> Nat]
    BY <1>0, VisitFields DEF Roster, Nobody
  <2>2. QED BY <2>1 DEF CallType, ScanOps, DepartOps
<1>2. Begin(new) /\ UNCHANGED <<visit, held, night>>
  BY DEF Proceed
<1>3. new.op = op /\ new.who = p /\ new.no = visit[p].no /\ new.closes = closes
  OBVIOUS
<1>. HIDE DEF new
<1>4. calls' = calls \cup {new}
  BY <1>2 DEF Begin
<1>5. calls' \subseteq CallType /\ OneScanAtATime'
  BY <1>0, <1>1, <1>2, <1>3, BeginTyped DEF ScanOps
<1>6. TypeOK'
  BY <1>0, <1>2, <1>5 DEF Proceed, TypeOK, Lapse
<1>7. Shrinks /\ Inside' = Inside
  BY <1>2, SameShrinks DEF Proceed, Lapse
<1>8. Numbered' /\ NightKnows'
  <2>1. \A c \in calls' : c.who \in People /\ c.no <= visit[c.who].no
    BY <1>0, <1>3, <1>4, CallFields, VisitFields
  <2>2. QED BY <1>2, <1>7, <2>1, ShrinkNumbers, ShrinkNight
<1>9. Closing => Closing'
  BY <1>2, <1>4 DEF Closing
<1>10. CASE lapsed'
  BY <1>6, <1>8, <1>10, LapseKeeps DEF Inv
<1>11. CASE ~lapsed' /\ (closes \/ p \notin Keyholders)
  <2>1. \A c \in calls' : StepsOut(c) => c \in calls
    BY <1>3, <1>4, <1>11 DEF StepsOut
  <2>2. QED
    BY <1>5, <1>6, <1>7, <1>8, <1>9, <2>1, KeyholdersStay DEF Inv
<1>12. CASE ~lapsed' /\ ~closes /\ p \in Keyholders
  <2>1. ~lapsed /\ ~OtherLeaving(p)
    BY <1>12 DEF Proceed, Lapse
  <2>2. NeverUnattended'
    BY <1>7, <1>9, <2>1 DEF Inv, NeverUnattended
  <2>3. OneStepsOut'
    BY <1>3, <1>4, <2>1 DEF OneStepsOut, StepsOut, OtherLeaving
  <2>4. LeavesAnother'
    <3>. SUFFICES ASSUME ~Closing', NEW c \in calls', StepsOut(c), Standing(c)'
                  PROVE  (Inside' \ {c.who}) \cap Keyholders # {}
      BY DEF LeavesAnother, Others, StepsOut
    <3>1. CASE c = new
      BY <1>3, <1>7, <1>12, <3>1 DEF LastKeyholder, Others
    <3>2. CASE c \in calls
      <4>1. Standing(c)
        BY <1>2 DEF Standing
      <4>2. QED BY <1>7, <1>9, <2>1, <3>2, <4>1 DEF Inv, LeavesAnother, Others
    <3>3. QED BY <1>4, <3>1, <3>2
  <2>5. QED BY <1>6, <1>8, <2>2, <2>3, <2>4 DEF Inv
<1>13. QED BY <1>10, <1>11, <1>12

LEMMA MintKeeps ==
  ASSUME Inv, NEW p \in People, Mint(p)
  PROVE  Inv'
<1>0. TypeOK
  BY DEF Inv
<1>1. \A q \in People : visit'[q].no = visit[q].no /\ visit'[q].open = visit[q].open
  BY <1>0 DEF Mint, TypeOK, VisitType
<1>2. Shrinks /\ Inside' = Inside
  BY <1>1 DEF Shrinks, Inside, InsideOf, Mint
<1>3. TypeOK'
  BY <1>0 DEF Mint, TypeOK, VisitType, OneScanAtATime
<1>4. \A c \in calls' : c.who \in People /\ c.no <= visit[c.who].no
  BY CallFields DEF Mint
<1>5. Closing => Closing'
  BY DEF Mint, Closing
<1>6. NeverUnattended' /\ LeavesAnother' /\ OneStepsOut'
  BY <1>0, <1>2, <1>5, KeyholdersStay DEF Mint, TypeOK
<1>7. QED
  BY <1>2, <1>3, <1>4, <1>6, ShrinkNumbers, ShrinkNight DEF Inv, Mint

LEMMA DepartKeeps ==
  ASSUME Inv, NEW c \in calls, Depart(c)
  PROVE  Inv'
<1>0. TypeOK
  BY DEF Inv
<1>1. c \in CallType /\ c.who \in People /\ c.no \in Nat /\ c.no <= visit[c.who].no
  BY CallFields
<1>. DEFINE late == [c EXCEPT !.op = "sweep"]
<1>2. late \in CallType /\ late.op = "sweep" /\ late.who = c.who /\ late.no = c.no
  BY <1>1 DEF CallType
<1>. HIDE DEF late
<1>3. /\ c.op \in DepartOps
      /\ visit' = IF Standing(c) THEN CloseVisits({c.who}) ELSE visit
      /\ \/ c.closes /\ calls' = (calls \ {c}) \cup {late}
         \/ (c.closes => ~Standing(c)) /\ Finish(c)
      /\ UNCHANGED <<held, night, lapsed>>
  BY DEF Depart, Standing, late
<1>4. Shrinks /\ Inside' \subseteq Inside /\ Inside \ {c.who} \subseteq Inside'
  BY <1>0, <1>3, CloseShrinks, SameShrinks
<1>5. calls' \subseteq CallType /\ OneScanAtATime' /\ calls' \subseteq (calls \ {c}) \cup {late}
  <2>1. CASE calls' = (calls \ {c}) \cup {late}
    BY <1>0, <1>2, <2>1 DEF TypeOK, OneScanAtATime, ScanOps
  <2>2. CASE Finish(c)
    BY <1>0, <2>2, FinishTyped DEF Finish
  <2>3. QED BY <1>3, <2>1, <2>2
<1>6. TypeOK'
  BY <1>0, <1>3, <1>5, VisitsTyped DEF TypeOK
<1>7. Numbered' /\ NightKnows'
  <2>1. \A d \in calls' : d.who \in People /\ d.no <= visit[d.who].no
    BY <1>1, <1>2, <1>5, CallFields
  <2>2. QED BY <1>3, <1>4, <2>1, ShrinkNumbers, ShrinkNight
<1>8. \A d \in calls' : StepsOut(d) => d \in calls
  BY <1>2, <1>5 DEF StepsOut, DepartOps
<1>9. Closing => Closing'
  BY <1>3 DEF Closing, Finish, DepartOps
<1>10. CASE lapsed
  BY <1>3, <1>6, <1>7, <1>10, LapseKeeps DEF Inv
<1>11. CASE c.closes /\ calls' = (calls \ {c}) \cup {late}
  <2>1. Closing'
    BY <1>2, <1>11 DEF Closing
  <2>2. OneStepsOut'
    BY <1>3, <1>8 DEF OneStepsOut, Inv
  <2>3. QED BY <1>6, <1>7, <2>1, <2>2, ClosingKeeps DEF Inv
<1>12. CASE ~lapsed /\ (~Standing(c) \/ c.who \notin Keyholders)
  <2>1. Inside \cap Keyholders \subseteq Inside'
    BY <1>3, <1>4, <1>12, SameShrinks
  <2>2. QED BY <1>4, <1>5, <1>6, <1>7, <1>8, <1>9, <2>1, KeyholdersStay DEF Inv
<1>13. CASE ~lapsed /\ Standing(c) /\ c.who \in Keyholders /\ ~c.closes
  <2>1. StepsOut(c)
    BY <1>3, <1>13 DEF StepsOut
  <2>2. Closing \/ (Inside \ {c.who}) \cap Keyholders # {}
    BY <1>13, <2>1 DEF Inv, LeavesAnother, Others
  <2>3. Inside' \cap Keyholders # {} \/ Closing'
    BY <1>4, <1>9, <2>2
  <2>4. NeverUnattended'
    BY <2>3 DEF NeverUnattended
  <2>5. OneStepsOut'
    BY <1>3, <1>8 DEF OneStepsOut, Inv
  <2>6. LeavesAnother'
    <3>. SUFFICES ASSUME NEW d \in calls', StepsOut(d), Standing(d)' PROVE FALSE
      BY DEF LeavesAnother, StepsOut
    <3>1. d \in calls /\ d.who = c.who
      BY <1>8, <1>13, <2>1 DEF Inv, OneStepsOut
    <3>2. visit' = CloseVisits({c.who})
      BY <1>3, <1>13
    <3>3. ~visit'[d.who].open
      BY <1>1, <3>1, <3>2, OpenedClosed DEF CloseVisits
    <3>4. QED BY <3>3 DEF Standing
  <2>7. QED BY <1>6, <1>7, <2>4, <2>5, <2>6 DEF Inv
<1>14. QED BY <1>3, <1>10, <1>11, <1>12, <1>13

LEMMA SweepKeeps ==
  ASSUME Inv, NEW c \in calls, Sweep(c)
  PROVE  Inv'
<1>0. TypeOK
  BY DEF Inv
<1>1. visit' = CloseVisits(Inside) /\ Finish(c) /\ UNCHANGED <<held, night, lapsed>>
  BY DEF Sweep
<1>2. Shrinks /\ Inside' = {}
  BY <1>0, <1>1, CloseShrinks
<1>3. TypeOK'
  BY <1>0, <1>1, VisitsTyped, FinishTyped DEF TypeOK
<1>4. \A d \in calls' : d \in calls
  BY <1>1 DEF Finish
<1>5. Numbered' /\ NightKnows'
  BY <1>1, <1>2, <1>4, CallFields, ShrinkNumbers, ShrinkNight
<1>6. NeverUnattended' /\ OneStepsOut'
  BY <1>1, <1>2, <1>4 DEF NeverUnattended, OneStepsOut, Inv
<1>7. LeavesAnother'
  <2>. SUFFICES ASSUME NEW d \in calls', Standing(d)' PROVE FALSE
    BY DEF LeavesAnother
  <2>1. d.who \in Inside'
    BY <1>2, <1>4, CallFields, ShrinkStands
  <2>2. QED BY <1>2, <2>1
<1>8. QED BY <1>3, <1>5, <1>6, <1>7 DEF Inv

LEMMA StaffCloseKeeps ==
  ASSUME Inv, NEW p \in People, StaffClose(p)
  PROVE  Inv'
<1>0. TypeOK
  BY DEF Inv
<1>1. visit' = CloseVisits({p}) /\ UNCHANGED <<held, calls, night>>
  BY DEF StaffClose
<1>2. lapsed => lapsed'
  BY DEF StaffClose, Lapse
<1>3. Shrinks /\ Inside' = Inside \ {p}
  BY <1>0, <1>1, <1>2, CloseShrinks
<1>4. TypeOK'
  BY <1>0, <1>1, VisitsTyped DEF TypeOK, StaffClose, Lapse, OneScanAtATime
<1>5. Numbered' /\ NightKnows'
  BY <1>1, <1>3, CallFields, ShrinkNumbers, ShrinkNight
<1>6. CASE p \in Keyholders
  BY <1>4, <1>5, <1>6, LapseKeeps DEF Inv, StaffClose, Lapse
<1>7. CASE p \notin Keyholders
  <2>1. Inside \cap Keyholders \subseteq Inside' /\ (Closing => Closing')
    BY <1>1, <1>3, <1>7 DEF Closing
  <2>2. QED BY <1>0, <1>1, <1>3, <1>4, <1>5, <2>1, KeyholdersStay DEF Inv, TypeOK
<1>8. QED BY <1>6, <1>7

-----------------------------------------------------------------------------
(* The nightly close, and handlers that die.                               *)

LEMMA RosterTyped ==
  ASSUME TypeOK
  PROVE  Roster \in [People -> Nat] /\ \A p \in Inside : Roster[p] = visit[p].no
BY VisitFields DEF Roster, Inside, InsideOf

LEMMA NightlyListKeeps ==
  ASSUME Inv, NightlyList
  PROVE  Inv'
<1>0. TypeOK
  BY DEF Inv
<1>1. visit' = visit /\ lapsed' = lapsed /\ calls' = calls /\ night' = Roster /\ night = Nobody
  BY DEF NightlyList
<1>2. Shrinks /\ Inside' = Inside
  BY <1>1, SameShrinks
<1>3. TypeOK'
  BY <1>0, RosterTyped DEF NightlyList, TypeOK, OneScanAtATime
<1>4. Closing => Closing'
  BY <1>1 DEF Closing
<1>5. NeverUnattended' /\ LeavesAnother' /\ OneStepsOut'
  BY <1>0, <1>1, <1>2, <1>4, KeyholdersStay DEF TypeOK
<1>6. Numbered'
  BY <1>1, <1>2, CallFields, ShrinkNumbers
<1>7. NightKnows'
  BY <1>0, <1>1, <1>2, RosterTyped DEF NightKnows
<1>8. QED BY <1>3, <1>5, <1>6, <1>7 DEF Inv

LEMMA NightlyCloseKeeps ==
  ASSUME Inv, NEW p \in People, NightlyClose(p)
  PROVE  Inv'
<1>0. TypeOK
  BY DEF Inv
<1>1. UNCHANGED <<held, calls, lapsed>> /\ night[p] # 0 /\ night' = [night EXCEPT ![p] = 0]
  BY DEF NightlyClose
<1>2. visit' = CloseVisits({p}) \/ (visit' = visit /\ ~(visit[p].open /\ visit[p].no = night[p]))
  BY DEF NightlyClose
<1>3. Shrinks
  BY <1>0, <1>1, <1>2, CloseShrinks, SameShrinks
<1>4. TypeOK'
  BY <1>0, <1>1, <1>2, VisitsTyped DEF TypeOK, OneScanAtATime
<1>5. Numbered' /\ OneStepsOut'
  BY <1>1, <1>3, CallFields, ShrinkNumbers DEF Inv, OneStepsOut
<1>6. CASE lapsed
  BY <1>1, <1>4, <1>5, <1>6, LapseKeeps DEF Inv
<1>7. CASE ~lapsed
  <2>1. night # Nobody
    BY <1>0, <1>1 DEF Nobody, TypeOK
  <2>2. \A q \in Inside : night[q] = visit[q].no
    BY <1>7, <2>1 DEF Inv, NightKnows
  <2>3. p \notin Inside'
    <3>1. CASE visit' = CloseVisits({p})
      BY <1>0, <1>1, <3>1, CloseShrinks
    <3>2. CASE visit' = visit /\ ~(visit[p].open /\ visit[p].no = night[p])
      BY <2>2, <3>2 DEF Inside, InsideOf
    <3>3. QED BY <1>2, <3>1, <3>2
  <2>4. \A q \in Inside' : q \in Inside /\ q \in People /\ q # p /\ visit'[q].no = visit[q].no
    BY <1>3, <2>3 DEF Shrinks, Inside, InsideOf
  <2>5. \A q \in Inside' : night'[q] = visit'[q].no
    BY <1>0, <1>1, <2>2, <2>4 DEF TypeOK
  <2>6. NightKnows'
    BY <2>5 DEF NightKnows
  <2>7. \A q \in Inside' : visit'[q].no # 0
    BY <2>4 DEF Inv, Numbered, Inside, InsideOf
  <2>8. Closing' \/ Inside' = {}
    <3>. SUFFICES ASSUME Inside' # {} PROVE night' # Nobody
      BY DEF Closing
    <3>1. PICK q \in Inside' : TRUE
      OBVIOUS
    <3>2. night'[q] # 0 /\ q \in People
      BY <2>4, <2>5, <2>7, <3>1
    <3>3. QED BY <3>2 DEF Nobody
  <2>9. CASE Closing'
    BY <1>4, <1>5, <2>6, <2>9, ClosingKeeps DEF Inv
  <2>10. CASE Inside' = {}
    <3>1. NeverUnattended'
      BY <2>10 DEF NeverUnattended
    <3>2. LeavesAnother'
      BY <1>1, <1>3, <2>10, CallFields, ShrinkStands DEF LeavesAnother
    <3>3. QED BY <1>4, <1>5, <2>6, <3>1, <3>2 DEF Inv
  <2>11. QED BY <2>8, <2>9, <2>10
<1>8. QED BY <1>6, <1>7

\* A lapse: only the types and the numbers remain to be looked at.
LEMMA LapsedSame ==
  ASSUME Inv, TypeOK', visit' = visit, lapsed', calls' \subseteq calls
  PROVE  Inv'
<1>1. Shrinks
  BY SameShrinks
<1>2. Numbered'
  BY <1>1, CallFields, ShrinkNumbers
<1>3. QED BY <1>2, LapseKeeps DEF Inv

LEMMA NightlyFailsKeeps ==
  ASSUME Inv, NEW p \in People, NightlyFails(p)
  PROVE  Inv'
<1>1. TypeOK'
  BY DEF Inv, NightlyFails, TypeOK, OneScanAtATime, Lapse
<1>2. QED BY <1>1, LapsedSame DEF NightlyFails, Lapse

LEMMA DieKeeps ==
  ASSUME Inv, NEW c \in calls, Die(c)
  PROVE  Inv'
<1>0. TypeOK
  BY DEF Inv
<1>1. Finish(c) /\ UNCHANGED <<visit, held, night>> /\ calls' \subseteq calls
  BY DEF Die, Finish
<1>2. TypeOK'
  BY <1>0, <1>1, FinishTyped DEF Die, TypeOK, Lapse
<1>3. CASE c.op = "sweep"
  BY <1>1, <1>2, <1>3, LapsedSame DEF Die, Lapse
<1>4. CASE c.op # "sweep"
  <2>1. lapsed' = lapsed
    BY <1>4 DEF Die
  <2>2. Shrinks /\ Inside' = Inside
    BY <1>1, <2>1, SameShrinks
  <2>3. Closing => Closing'
    BY <1>1, <1>4 DEF Closing, Finish
  <2>4. NeverUnattended' /\ LeavesAnother' /\ OneStepsOut'
    BY <1>1, <1>2, <2>2, <2>3, KeyholdersStay DEF TypeOK
  <2>5. Numbered' /\ NightKnows'
    BY <1>1, <2>2, CallFields, ShrinkNumbers, ShrinkNight
  <2>6. QED BY <1>2, <2>4, <2>5 DEF Inv
<1>5. QED BY <1>3, <1>4

-----------------------------------------------------------------------------
(* The theorems.                                                           *)

LEMMA InitInv == Init => Inv
<1>. SUFFICES ASSUME Init PROVE Inv
  OBVIOUS
<1>1. visit = [p \in People |-> NoVisit] /\ held = {} /\ calls = {} /\ night = Nobody /\ lapsed = FALSE
  BY DEF Init
<1>2. TypeOK
  BY <1>1 DEF TypeOK, NoVisit, VisitType, Nobody, OneScanAtATime
<1>3. Inside = {}
  BY <1>1 DEF Inside, InsideOf, NoVisit
<1>4. Numbered
  BY <1>1 DEF Numbered, NoVisit
<1>5. QED
  BY <1>1, <1>2, <1>3, <1>4 DEF Inv, NeverUnattended, LeavesAnother, OneStepsOut, NightKnows

\* The decisions to let someone out.
LEMMA DecisionsKeep ==
  ASSUME Inv, NEW p \in People, NEW echo \in BOOLEAN,
         WebOut(p, echo) \/ \E replay \in BOOLEAN : ScanOut(p, replay, echo)
  PROVE  Inv'
<1>1. visit[p].open
  BY DEF WebOut, ScanOut
<1>2. \/ Mint(p)
      \/ \E op \in {"badge", "web"}, closes, confirmed \in BOOLEAN :
           /\ Proceed(op, p, closes, confirmed)
           /\ op = "badge" => LockFree(p)
           /\ closes \/ ~LastKeyholder(p)
  BY DEF WebOut, ScanOut
<1>3. QED
  BY <1>1, <1>2, MintKeeps, ProceedKeeps

LEMMA NextInv == ASSUME Inv, [Next]_vars PROVE Inv'
<1>1. CASE Arrivals
  <2>0. TypeOK
    BY DEF Inv
  <2>1. PICK S : Admit(S)
    BY <1>1, <2>0, ArrivalAdmits
  <2>2. held' \subseteq People /\ calls' \subseteq CallType /\ OneScanAtATime'
    BY <1>1, <2>0, ArrivalAdmits
  <2>3. night' = night /\ lapsed' \in BOOLEAN
    BY <1>1, <2>0, <2>1
    DEF Admit, TypeOK, Arrivals, CheckIn, Hold, Flush, ScanIn, EnterOpen, DashboardIn,
        RosterIn, RecordHeld, MissedByNight, Lapse
  <2>4. TypeOK'
    BY <2>0, <2>1, <2>2, <2>3, AdmitTyped DEF TypeOK
  <2>5. QED BY <2>1, <2>2, <2>4, AdmitKeeps DEF Inv
<1>2. CASE Departures
  BY <1>2, DepartKeeps, SweepKeeps, DecisionsKeep, StaffCloseKeeps DEF Departures
<1>3. CASE Nightly
  BY <1>3, NightlyListKeeps, NightlyCloseKeeps, NightlyFailsKeeps DEF Nightly
<1>4. CASE \E c \in calls : Die(c)
  BY <1>4, DieKeeps
<1>5. CASE UNCHANGED vars
  <2>1. visit' = visit /\ held' = held /\ calls' = calls /\ night' = night /\ lapsed' = lapsed
    BY <1>5 DEF vars
  <2>2. QED
    BY <2>1 DEF Inv, TypeOK, OneScanAtATime, Numbered, NeverUnattended, LeavesAnother, OneStepsOut,
                NightKnows, Closing, Inside, InsideOf, Others, Standing
<1>6. QED
  BY <1>1, <1>2, <1>3, <1>4, <1>5 DEF Next

LEMMA InvHolds == Spec => []Inv
BY InitInv, NextInv, PTL DEF Spec

\* The state keeps its types, and one person's scans never overlap
\* (scan/route.ts, the advisory lock).
THEOREM TypeCorrect == Spec => []TypeOK
<1>1. Inv => TypeOK
  BY DEF Inv
<1>2. QED BY <1>1, InvHolds, PTL

\* For any number of people and concurrent handlers: nobody is signed in
\* without a keyholder unless the building is being closed, but for the four
\* causes that lapsed records (scan-service.ts, project.ts).
THEOREM Attended == Spec => []NeverUnattended
<1>1. Inv => NeverUnattended
  BY DEF Inv
<1>2. QED BY <1>1, InvHolds, PTL

-----------------------------------------------------------------------------
(* A close that nobody confirmed.                                          *)

\* Nobody but the leaver was in when this was decided.
SawNobodyElse(c) == \A p \in People : c.seen[p] # 0 => p = c.who /\ c.seen[p] = c.no

\* Of an unconfirmed close, only the leaver was seen, and the visit that was
\* seen is over once the sweep is due.
SeenAreGone ==
  \A c \in calls :
    ~c.confirmed => SawNobodyElse(c) /\ (c.op = "sweep" => ~Standing(c))

\* A visit stays what it is, ends, or is followed by one with a new number.
VisitsGoOn ==
  \A p \in People :
    visit'[p].open =>
      (visit[p].open /\ visit'[p].no = visit[p].no) \/ visit'[p].no = visit[p].no + 1

\* Handlers end, begin having seen nobody else, or go on from a departure to
\* the sweep.
SeenGoOn ==
  \A c \in calls' :
    \/ c \in calls
    \/ c.op # "sweep" /\ (~c.confirmed => SawNobodyElse(c))
    \/ \E d \in calls : Depart(d) /\ d.closes /\ c = [d EXCEPT !.op = "sweep"]

LEMMA ShrinkGoesOn == ASSUME Shrinks PROVE VisitsGoOn
BY DEF Shrinks, VisitsGoOn, Inside, InsideOf

LEMMA CallSawNobody ==
  ASSUME NEW op, NEW p
  PROVE  SawNobodyElse(Call(op, p)) /\ Call(op, p).op = op
BY DEF SawNobodyElse, Call, Nobody

LEMMA ArrivingGoesOn == ASSUME Inv, Arrivals PROVE VisitsGoOn /\ SeenGoOn
<1>1. VisitsGoOn
  <2>1. PICK S : Admit(S)
    BY ArrivalAdmits DEF Inv
  <2>2. \A p \in People : visit'[p] = IF p \in S THEN Opened(visit[p]) ELSE visit[p]
    BY <2>1 DEF Admit
  <2>3. QED
    BY <2>2, OpenedClosed DEF VisitsGoOn
<1>2. SeenGoOn
  <2>1. ASSUME NEW op \in {"hold", "arrive", "flush"}, NEW p, Begin(Call(op, p)) PROVE SeenGoOn
    BY <2>1, CallSawNobody DEF Begin, SeenGoOn
  <2>2. ASSUME calls' \subseteq calls PROVE SeenGoOn
    BY <2>2 DEF SeenGoOn
  <2>3. QED
    BY <2>1, <2>2
       DEF Arrivals, CheckIn, Hold, Flush, ScanIn, EnterOpen, DashboardIn, RosterIn, RecordHeld,
           Finish
<1>3. QED
  BY <1>1, <1>2

\* An unconfirmed close is decided on an empty building.
LEMMA ProceedGoesOn ==
  ASSUME Inv, NEW op \in {"badge", "web"}, NEW p \in People, NEW closes \in BOOLEAN,
         NEW confirmed \in BOOLEAN, Proceed(op, p, closes, confirmed),
         closes => MayClose(p, confirmed)
  PROVE  VisitsGoOn /\ SeenGoOn
<1> DEFINE new == [op |-> op, who |-> p, no |-> visit[p].no, closes |-> closes,
                   confirmed |-> confirmed, seen |-> IF closes THEN Roster ELSE Nobody]
<1>1. calls' = calls \cup {new} /\ visit' = visit /\ (lapsed => lapsed')
  BY DEF Proceed, Begin, Lapse
<1>2. ~confirmed => SawNobodyElse(new)
  BY DEF SawNobodyElse, MayClose, Others, Inside, InsideOf, Roster, Nobody
<1>3. new.op # "sweep" /\ new.confirmed = confirmed
  OBVIOUS
<1> HIDE DEF new
<1>4. SeenGoOn
  BY <1>1, <1>2, <1>3 DEF SeenGoOn
<1>5. QED
  BY <1>1, <1>4, SameShrinks, ShrinkGoesOn

LEMMA DepartingGoesOn == ASSUME Inv, Departures PROVE VisitsGoOn /\ SeenGoOn
<1>0. TypeOK
  BY DEF Inv
<1>1. ASSUME calls' \subseteq calls PROVE SeenGoOn
  BY <1>1 DEF SeenGoOn
<1>2. ASSUME NEW c \in calls, Depart(c) PROVE VisitsGoOn /\ SeenGoOn
  <2>1. VisitsGoOn
    BY <1>0, <1>2, CloseShrinks, SameShrinks, ShrinkGoesOn DEF Depart
  <2>2. calls' \subseteq calls \/ (c.closes /\ calls' \subseteq calls \cup {[c EXCEPT !.op = "sweep"]})
    BY <1>2 DEF Depart, Finish
  <2>3. QED
    BY <1>2, <2>1, <2>2 DEF SeenGoOn
<1>3. ASSUME NEW c \in calls, Sweep(c) PROVE VisitsGoOn /\ SeenGoOn
  BY <1>0, <1>1, <1>3, CloseShrinks, ShrinkGoesOn DEF Sweep, Finish
<1>4. ASSUME NEW p \in People, StaffClose(p) PROVE VisitsGoOn /\ SeenGoOn
  BY <1>0, <1>1, <1>4, CloseShrinks, ShrinkGoesOn DEF StaffClose, Lapse
<1>5. ASSUME NEW p \in People, Mint(p) PROVE VisitsGoOn /\ SeenGoOn
  <2>1. \A q \in People : visit'[q].no = visit[q].no /\ visit'[q].open = visit[q].open
    BY <1>0, <1>5 DEF Mint, TypeOK, VisitType
  <2>2. QED
    BY <1>1, <1>5, <2>1 DEF Mint, VisitsGoOn
<1>6. ASSUME NEW p \in People, NEW echo \in BOOLEAN,
             WebOut(p, echo) \/ \E replay \in BOOLEAN : ScanOut(p, replay, echo)
      PROVE  VisitsGoOn /\ SeenGoOn
  <2>1. \/ Mint(p)
        \/ \E op \in {"badge", "web"}, closes, confirmed \in BOOLEAN :
             Proceed(op, p, closes, confirmed) /\ (closes => MayClose(p, confirmed))
    BY <1>6 DEF WebOut, ScanOut
  <2>2. QED
    BY <1>5, <2>1, ProceedGoesOn
<1>7. QED
  BY <1>2, <1>3, <1>4, <1>6 DEF Departures

LEMMA StepGoesOn == ASSUME Inv, [Next]_vars PROVE VisitsGoOn /\ SeenGoOn
<1>0. TypeOK
  BY DEF Inv
<1>1. ASSUME calls' \subseteq calls, visit' = visit PROVE VisitsGoOn /\ SeenGoOn
  BY <1>1 DEF SeenGoOn, VisitsGoOn
<1>2. ASSUME NEW p \in People, NightlyClose(p) PROVE VisitsGoOn /\ SeenGoOn
  <2>1. Shrinks
    BY <1>0, <1>2, CloseShrinks, SameShrinks DEF NightlyClose
  <2>2. QED
    BY <1>2, <2>1, ShrinkGoesOn DEF NightlyClose, SeenGoOn
<1>3. CASE Nightly
  BY <1>1, <1>2, <1>3 DEF Nightly, NightlyList, NightlyFails
<1>4. CASE (\E c \in calls : Die(c)) \/ UNCHANGED vars
  BY <1>1, <1>4 DEF Die, Finish, vars
<1>5. QED
  BY <1>3, <1>4, ArrivingGoesOn, DepartingGoesOn DEF Next

\* A visit that is over is not open again under its number.
LEMMA StaysOver ==
  ASSUME Inv, VisitsGoOn, NEW c \in calls, ~Standing(c)
  PROVE  ~Standing(c)'
<1>1. c.who \in People /\ c.no \in Nat /\ c.no <= visit[c.who].no /\ visit[c.who].no \in Nat
  BY CallFields, VisitFields DEF Inv
<1>2. QED
  BY <1>1 DEF VisitsGoOn, Standing

LEMMA SweepIsDue ==
  ASSUME Inv, NEW d \in calls, Depart(d)
  PROVE  ~Standing(d)'
<1>1. d.who \in People
  BY CallFields
<1>2. CASE Standing(d)
  <2>1. visit'[d.who] = Closed(visit[d.who])
    BY <1>1, <1>2 DEF Depart, Standing, CloseVisits
  <2>2. QED
    BY <2>1, OpenedClosed DEF Standing
<1>3. CASE ~Standing(d)
  BY <1>3 DEF Depart, Standing
<1>4. QED
  BY <1>2, <1>3

LEMMA NextSeenAreGone == Inv /\ SeenAreGone /\ [Next]_vars => SeenAreGone'
<1> SUFFICES ASSUME Inv, SeenAreGone, [Next]_vars, NEW c \in calls', ~c.confirmed
             PROVE  SawNobodyElse(c) /\ (c.op = "sweep" => ~Standing(c)')
  BY DEF SeenAreGone, SawNobodyElse
<1>1. VisitsGoOn /\ SeenGoOn
  BY StepGoesOn
<1>2. CASE c \in calls
  BY <1>1, <1>2, StaysOver DEF SeenAreGone
<1>3. CASE c.op # "sweep" /\ SawNobodyElse(c)
  BY <1>3
<1>4. ASSUME NEW d \in calls, Depart(d), c = [d EXCEPT !.op = "sweep"]
      PROVE  SawNobodyElse(c) /\ ~Standing(c)'
  <2>1. d \in CallType
    BY CallFields
  <2>2. c.who = d.who /\ c.no = d.no /\ c.seen = d.seen /\ c.confirmed = d.confirmed
    BY <1>4, <2>1 DEF CallType
  <2>3. SawNobodyElse(d) /\ ~Standing(d)'
    BY <1>4, <2>2, SweepIsDue DEF SeenAreGone
  <2>4. QED
    BY <2>2, <2>3 DEF SawNobodyElse, Standing
<1>5. QED
  BY <1>1, <1>2, <1>3, <1>4 DEF SeenGoOn

\* However many handlers and visits overlap: a close that nobody confirmed was
\* decided when only the leaver was in, and by the time it sweeps that visit is
\* over, so whoever it signs out came in afterwards (scan-service.ts).
THEOREM TheSeenAreSpared == Spec => UnconfirmedCloseSparesTheSeen
<1>1. Init => SeenAreGone
  BY DEF Init, SeenAreGone
<1>2. Spec => [](Inv /\ SeenAreGone)
  BY <1>1, NextSeenAreGone, InitInv, NextInv, PTL DEF Spec
<1>3. Inv /\ SeenAreGone => UnconfirmedCloseSparesTheSeen!1
  <2> SUFFICES ASSUME Inv, SeenAreGone, NEW c \in calls, Sweep(c), ~c.confirmed,
                      NEW p \in EndedNow
               PROVE  c.seen[p] # visit[p].no
    OBVIOUS
  <2>1. p \in People /\ visit[p].open /\ visit[p].no # 0
    BY DEF EndedNow, Inv, Numbered
  <2>2. c.op = "sweep"
    BY DEF Sweep
  <2>3. QED
    BY <2>1, <2>2 DEF SeenAreGone, SawNobodyElse, Standing
<1>4. QED
  BY <1>2, <1>3, PTL DEF UnconfirmedCloseSparesTheSeen

-----------------------------------------------------------------------------
(* The refinement.                                                         *)

LEMMA ClosingSame ==
  ASSUME night' = night, \A c \in calls' : c.op = "sweep" => c \in calls,
         \A c \in calls : c.op = "sweep" => c \in calls'
  PROVE  Closing' = Closing
BY DEF Closing

LEMMA AdmitMaps ==
  ASSUME TypeOK, TypeOK', NEW S, Admit(S), ~lapsed'
  PROVE  [Register!Next]_(Register!register)
<1>1. Inside' = Inside \cup S /\ S \subseteq People \ Inside /\ ~lapsed
  BY AdmitInside DEF Admit
<1>2. Closing' = Closing
  BY ClosingSame DEF Admit
<1>3. lapsed = FALSE /\ lapsed' = FALSE
  BY <1>1 DEF TypeOK
<1>4. CASE S = {}
  BY <1>1, <1>2, <1>3, <1>4 DEF Register!register
<1>5. CASE S # {}
  <2>1. (Inside \cup S) \cap Keyholders # {}
    BY <1>5 DEF Admit
  <2>2. Inside \subseteq People
    BY DEF Inside, InsideOf
  <2>3. Register!Enter
    BY <1>1, <1>2, <1>3, <1>5, <2>1, <2>2 DEF Register!Enter, Register!Attended
  <2>4. QED BY <2>3 DEF Register!Next
<1>6. QED BY <1>4, <1>5

\* One person signs out.
LEMMA LeaveMaps ==
  ASSUME Inv, Inv', ~lapsed', lapsed' = lapsed, NEW p \in Inside, Inside' = Inside \ {p}, Closing => Closing'
  PROVE  Register!Next
<1>1. Inside' = {} \/ Inside' \cap Keyholders # {} \/ Closing'
  BY DEF Inv, NeverUnattended
<1>2. Closing' \in {Closing, TRUE}
  BY DEF Closing
<1>3. Register!Leave
  BY <1>1, <1>2 DEF Register!Leave, Register!Attended
<1>4. QED BY <1>3 DEF Register!Next

\* Nobody moves; a close may start.
LEMMA StillMaps ==
  ASSUME lapsed' = lapsed, Inside' = Inside, Closing => Closing'
  PROVE  [Register!Next]_(Register!register)
<1>1. Closing' = Closing \/ Closing' = TRUE
  BY DEF Closing
<1>2. QED
  BY <1>1 DEF Register!register, Register!Next, Register!StartClosing

LEMMA FinishMaps ==
  ASSUME Inv, Inv', ~lapsed', lapsed' = lapsed, Closing, Inside' \subseteq Inside
  PROVE  Register!Next
<1>1. Inside' = {} \/ Inside' \cap Keyholders # {} \/ Closing'
  BY DEF Inv, NeverUnattended
<1>2. Closing' \in BOOLEAN
  BY DEF Closing
<1>3. Register!FinishClosing
  BY <1>1, <1>2 DEF Register!FinishClosing, Register!Attended
<1>4. QED BY <1>3 DEF Register!Next

LEMMA DepartureMaps ==
  ASSUME Inv, Inv', Departures, ~lapsed'
  PROVE  [Register!Next]_(Register!register)
<1>0. TypeOK
  BY DEF Inv
<1>1. ASSUME NEW c \in calls, Depart(c) PROVE [Register!Next]_(Register!register)
  <2>1. c.who \in People /\ lapsed' = lapsed /\ night' = night
    BY <1>1, CallFields DEF Depart
  <2>2. Closing => Closing'
    <3>1. \A d \in calls : d.op = "sweep" => d \in calls'
      BY <1>1 DEF Depart, Finish, DepartOps
    <3>2. QED BY <2>1, <3>1 DEF Closing
  <2>3. CASE Standing(c)
    <3>1. visit' = CloseVisits({c.who})
      BY <1>1, <2>3 DEF Depart, Standing
    <3>2. Inside' = Inside \ {c.who} /\ c.who \in Inside
      BY <1>0, <2>1, <2>3, <3>1, CloseShrinks DEF Standing, Inside, InsideOf
    <3>3. QED BY <2>1, <2>2, <3>2, LeaveMaps
  <2>4. CASE ~Standing(c)
    <3>1. visit' = visit
      BY <1>1, <2>4 DEF Depart, Standing
    <3>2. Inside' = Inside
      BY <3>1 DEF Inside, InsideOf
    <3>3. QED BY <2>1, <2>2, <3>2, StillMaps
  <2>5. QED BY <2>3, <2>4
<1>2. ASSUME NEW c \in calls, Sweep(c) PROVE [Register!Next]_(Register!register)
  <2>1. Closing /\ lapsed' = lapsed /\ visit' = CloseVisits(Inside)
    BY <1>2 DEF Sweep, Closing
  <2>2. Inside' \subseteq Inside
    BY <1>0, <2>1, CloseShrinks
  <2>3. QED BY <2>1, <2>2, FinishMaps
<1>3. ASSUME NEW p \in People, NEW op, NEW closes, NEW confirmed, Proceed(op, p, closes, confirmed)
      PROVE  [Register!Next]_(Register!register)
  <2>1. UNCHANGED <<visit, night>> /\ lapsed' = lapsed /\ calls \subseteq calls'
    BY <1>0, <1>3 DEF Proceed, Begin, Lapse
  <2>2. Inside' = Inside /\ (Closing => Closing')
    BY <2>1 DEF Closing, Inside, InsideOf
  <2>3. QED BY <2>1, <2>2, StillMaps
<1>4. ASSUME NEW p \in People, Mint(p) PROVE [Register!Next]_(Register!register)
  <2>1. \A q \in People : visit'[q].open = visit[q].open
    BY <1>0, <1>4 DEF Mint, TypeOK, VisitType
  <2>2. Inside' = Inside /\ Closing' = Closing /\ lapsed' = lapsed
    BY <1>4, <2>1 DEF Mint, Closing, Inside, InsideOf
  <2>3. QED BY <2>2, StillMaps
<1>5. ASSUME NEW p \in People, StaffClose(p) PROVE [Register!Next]_(Register!register)
  <2>1. visit' = CloseVisits({p}) /\ p \in Inside /\ lapsed' = lapsed
    BY <1>5 DEF StaffClose, Lapse, Inside, InsideOf
  <2>2. Inside' = Inside \ {p} /\ Closing' = Closing
    BY <1>0, <1>5, <2>1, CloseShrinks DEF StaffClose, Closing
  <2>3. QED BY <2>1, <2>2, LeaveMaps
<1>6. ASSUME NEW p \in People, NEW echo \in BOOLEAN,
             WebOut(p, echo) \/ \E replay \in BOOLEAN : ScanOut(p, replay, echo)
      PROVE  [Register!Next]_(Register!register)
  <2>1. Mint(p) \/ \E op \in {"badge", "web"}, closes, confirmed \in BOOLEAN : Proceed(op, p, closes, confirmed)
    BY <1>6 DEF WebOut, ScanOut
  <2>2. QED BY <1>3, <1>4, <2>1
<1>7. QED
  BY <1>1, <1>2, <1>5, <1>6 DEF Departures

LEMMA NightlyMaps ==
  ASSUME Inv, Inv', Nightly, ~lapsed'
  PROVE  [Register!Next]_(Register!register)
<1>0. TypeOK
  BY DEF Inv
<1>1. CASE NightlyList
  <2>1. Inside' = Inside /\ (Closing => Closing') /\ lapsed' = lapsed
    BY <1>1 DEF NightlyList, Inside, InsideOf, Closing
  <2>2. QED BY <2>1, StillMaps
<1>2. ASSUME NEW p \in People, NightlyClose(p) PROVE [Register!Next]_(Register!register)
  <2>1. Closing /\ lapsed' = lapsed
    BY <1>0, <1>2 DEF NightlyClose, Closing, Nobody, TypeOK
  <2>2. visit' = CloseVisits({p}) \/ visit' = visit
    BY <1>2 DEF NightlyClose
  <2>3. Inside' \subseteq Inside
    BY <1>0, <2>1, <2>2, CloseShrinks, SameShrinks
  <2>4. QED BY <2>1, <2>3, FinishMaps
<1>3. QED
  BY <1>1, <1>2 DEF Nightly, NightlyFails, Lapse

LEMMA StepMaps ==
  ASSUME Inv, Inv', [Next]_vars
  PROVE  [Register!Next]_(Register!register)
<1>0. TypeOK /\ TypeOK'
  BY DEF Inv
<1>1. CASE lapsed'
  <2>1. Inside' \subseteq People /\ Closing' \in BOOLEAN /\ lapsed' = TRUE
    BY <1>0, <1>1 DEF Inside, InsideOf, Closing, TypeOK
  <2>2. QED BY <2>1 DEF Register!Next, Register!Excuse
<1>2. CASE ~lapsed' /\ Arrivals
  BY <1>0, <1>2, ArrivalAdmits, AdmitMaps
<1>3. CASE ~lapsed' /\ Departures
  BY <1>3, DepartureMaps
<1>4. CASE ~lapsed' /\ Nightly
  BY <1>4, NightlyMaps
<1>5. ASSUME ~lapsed', NEW c \in calls, Die(c) PROVE [Register!Next]_(Register!register)
  <2>1. c.op # "sweep" /\ lapsed' = lapsed /\ UNCHANGED <<visit, night>> /\ calls' = calls \ {c}
    BY <1>5 DEF Die, Finish, Lapse
  <2>2. Inside' = Inside /\ (Closing => Closing')
    BY <2>1 DEF Inside, InsideOf, Closing
  <2>3. QED BY <2>1, <2>2, StillMaps
<1>6. CASE UNCHANGED vars
  <2>1. Inside' = Inside /\ Closing' = Closing /\ lapsed' = lapsed
    BY <1>6 DEF vars, Inside, InsideOf, Closing
  <2>2. QED BY <2>1, StillMaps
<1>7. QED
  BY <1>1, <1>2, <1>3, <1>4, <1>5, <1>6 DEF Next

LEMMA InitMaps == Init => Register!Init
BY DEF Init, Register!Init, Inside, InsideOf, NoVisit, Closing

\* Every behaviour of the handlers, whatever dies and overlaps, is one of the
\* register (FacilityRegister).
THEOREM HandlersImplementRegister == Spec => ImplementsRegister
<1>1. Inv /\ Inv' /\ [Next]_vars => [Register!Next]_(Register!register)
  BY StepMaps
<1>2. QED
  BY <1>1, InvHolds, InitMaps, PTL DEF Spec, ImplementsRegister, Register!Spec

=============================================================================
