-------------------------- MODULE MonitoringProofs --------------------------
(***************************************************************************)
(* For any number of services, invocations and faults, any batch and any   *)
(* number of attempts: the types, that SENT is never said of a message     *)
(* that did not reach SNS, that only a fault repeats a delivery, and that  *)
(* only a lost session lets two alerts into one window.                    *)
(***************************************************************************)
EXTENDS MonitoringProperties, SequenceTheorems, TLAPS

RowType == [service : Services, kind : Kinds, outage : Nat, recent : BOOLEAN,
            status : {"PENDING", "SENT", "DEAD"}, attempts : Nat, lapsed : BOOLEAN]

RelayType == [at : {"idle", "publish", "sent", "failed"}, batch : SUBSET Nat, on : Nat,
              seen : UNION {[B -> Nat] : B \in SUBSET Nat}, permanent : BOOLEAN]

VerdictType == [service : Services, kind : Kinds]

WatchdogType == [at : {"idle", "look", "record"}, found : SUBSET VerdictType,
                 on : VerdictType \cup {Nobody}]

\* The rows, and the history kept of them.
Rows ==
    /\ outbox \in Seq(RowType)
    /\ copies \in Seq(0 .. 2) /\ Len(copies) = Len(outbox)
    /\ excused \subseteq DOMAIN outbox

\* The runs.  A relay run holds rows exactly while it delivers them.
HoldsRows(r) ==
    /\ relay[r].batch \subseteq DOMAIN outbox
    /\ relay[r].batch \subseteq DOMAIN relay[r].seen
    /\ relay[r].at # "idle" <=> relay[r].batch # {}
    /\ relay[r].at # "idle" => relay[r].on \in relay[r].batch

RelayTypes == relay \in [Relays -> RelayType] /\ \A r \in Relays : HoldsRows(r)

WatchdogTypes ==
    /\ watchdog \in [Watchdogs -> WatchdogType]
    /\ \A w \in Watchdogs : watchdog[w].at = "record" => watchdog[w].on \in watchdog[w].found

Surroundings ==
    /\ heartbeat \in [Services -> [success : {"never", "recent", "old"}, failedSince : BOOLEAN]]
    /\ outage \in [Services -> Nat]
    /\ lapsed \subseteq Relays \cup Watchdogs
    /\ drainLock \in Relays \cup {Nobody} /\ watchLock \in Watchdogs \cup {Nobody}
    /\ troubles \in Nat /\ renotified \in Nat /\ requeues \in Nat /\ faults \in Nat

Types == Rows /\ RelayTypes /\ WatchdogTypes /\ Surroundings

LEMMA TypesSuffice == Types => TypeOK
<1> SUFFICES ASSUME Types
             PROVE  TypeOK
  OBVIOUS
<1>1. /\ heartbeat \in [Services -> [success : {"never", "recent", "old"}, failedSince : BOOLEAN]]
      /\ outage \in [Services -> Nat]
      /\ lapsed \subseteq Relays \cup Watchdogs
      /\ drainLock \in Relays \cup {Nobody} /\ watchLock \in Watchdogs \cup {Nobody}
      /\ {troubles, renotified, requeues, faults} \subseteq Nat
  BY DEF Types, Surroundings
<1>2. /\ outbox \in Seq([service : Services, kind : Kinds, outage : Nat, recent : BOOLEAN,
                       status : {"PENDING", "SENT", "DEAD"}, attempts : Nat,
                       lapsed : BOOLEAN])
      /\ copies \in Seq(0 .. 2) /\ Len(copies) = Len(outbox)
      /\ excused \subseteq DOMAIN outbox
  BY DEF Types, Rows, RowType
<1>3. DOMAIN relay = Relays /\ DOMAIN watchdog = Watchdogs
  BY DEF Types, RelayTypes, WatchdogTypes
<1>4. ASSUME NEW r \in Relays
      PROVE  /\ relay[r].at \in {"idle", "publish", "sent", "failed"}
             /\ relay[r].batch \subseteq DOMAIN outbox
             /\ relay[r].at # "idle" <=> relay[r].batch # {}
             /\ relay[r].at # "idle" => relay[r].on \in relay[r].batch
             /\ \A i \in relay[r].batch : relay[r].seen[i] \in Nat
             /\ relay[r].permanent \in BOOLEAN
  <2>1. relay[r] \in RelayType /\ HoldsRows(r)
    BY DEF Types, RelayTypes
  <2>2. PICK B \in SUBSET Nat : relay[r].seen \in [B -> Nat]
    BY <2>1 DEF RelayType
  <2>3. \A i \in relay[r].batch : relay[r].seen[i] \in Nat
    BY <2>1, <2>2 DEF HoldsRows
  <2> QED BY <2>1, <2>3 DEF RelayType, HoldsRows
<1>5. ASSUME NEW w \in Watchdogs
      PROVE  /\ watchdog[w].at \in {"idle", "look", "record"}
             /\ watchdog[w].found \subseteq [service : Services, kind : Kinds]
             /\ watchdog[w].at = "record" => watchdog[w].on \in watchdog[w].found
  BY DEF Types, WatchdogTypes, WatchdogType, VerdictType
<1> QED BY <1>1, <1>2, <1>3, <1>4, <1>5 DEF TypeOK

-----------------------------------------------------------------------------
(* What the steps do to a row, a run of the relay and a run of the         *)
(* watchdog.                                                               *)

LEMMA RowsAreNumbered ==
  ASSUME Rows
  PROVE  /\ DOMAIN outbox = 1 .. Len(outbox) /\ DOMAIN copies = DOMAIN outbox
         /\ Len(outbox) \in Nat /\ DOMAIN outbox \subseteq Nat
         /\ \A i \in DOMAIN outbox : outbox[i] \in RowType /\ copies[i] \in 0 .. 2
BY ElementOfSeq, LenProperties DEF Rows

LEMMA RowChanges ==
  ASSUME Rows, NEW i \in DOMAIN outbox, NEW e \in RowType, outbox' = [outbox EXCEPT ![i] = e]
  PROVE  /\ outbox' \in Seq(RowType) /\ Len(outbox') = Len(outbox)
         /\ DOMAIN outbox' = DOMAIN outbox
         /\ \A j \in DOMAIN outbox : outbox'[j] = IF j = i THEN e ELSE outbox[j]
BY RowsAreNumbered, ExceptSeq DEF Rows

LEMMA DeliveredOne ==
  ASSUME Rows, NEW i \in DOMAIN outbox, Delivered(i)
  PROVE  /\ copies' \in Seq(0 .. 2) /\ Len(copies') = Len(copies)
         /\ \A j \in DOMAIN outbox \ {i} : copies'[j] = copies[j]
         /\ copies'[i] > 0 /\ (copies[i] = 0 => copies'[i] = 1)
         /\ \A j \in DOMAIN outbox : copies[j] > 0 => copies'[j] > 0
<1>1. i \in 1 .. Len(copies) /\ copies[i] \in 0 .. 2 /\ copies \in Seq(0 .. 2)
  BY RowsAreNumbered DEF Rows
<1> DEFINE n == IF copies[i] = 0 THEN 1 ELSE 2
<1>2. n \in 0 .. 2 /\ copies' = [copies EXCEPT ![i] = n]
  BY <1>1 DEF Delivered
<1>3. /\ copies' \in Seq(0 .. 2) /\ Len(copies') = Len(copies)
      /\ \A j \in 1 .. Len(copies) : copies'[j] = IF j = i THEN n ELSE copies[j]
  <2> HIDE DEF n
  <2> QED BY <1>1, <1>2, ExceptSeq
<1> QED BY <1>1, <1>3, RowsAreNumbered DEF Rows

LEMMA IdleRunTypes == RelayIdle \in RelayType /\ WatchdogIdle \in WatchdogType
<1>1. <<>> \in UNION {[B -> Nat] : B \in SUBSET Nat}
  <2>1. <<>> \in [{} -> Nat]
    BY EmptySeq, LenProperties, ElementOfSeq
  <2> QED BY <2>1
<1>2. RelayIdle \in RelayType
  BY <1>1 DEF RelayIdle, RelayType
<1>3. WatchdogIdle \in WatchdogType
  BY DEF WatchdogIdle, WatchdogType
<1> QED BY <1>2, <1>3

\* A relay run takes another step of the same batch: the rows it held before
\* the step it still knows.
LEMMA RelayMoves ==
  ASSUME Rows, RelayTypes, NEW r \in Relays, relay[r].at # "idle",
         NEW at \in {"publish", "sent", "failed"}, NEW permanent \in BOOLEAN,
         relay' = [relay EXCEPT ![r].at = at, ![r].permanent = permanent]
         \/ relay' = [relay EXCEPT ![r].at = at]
  PROVE  /\ relay' \in [Relays -> RelayType] /\ HoldsRows(r) /\ relay'[r].at = at
         /\ relay'[r].batch = relay[r].batch /\ relay'[r].on = relay[r].on
         /\ relay'[r].seen = relay[r].seen
         /\ \A q \in Relays \ {r} : relay'[q] = relay[q]
BY DEF RelayTypes, RelayType

LEMMA DrainsOn ==
  ASSUME Rows, RelayTypes, NEW r \in Relays, relay[r].at # "idle",
         NEW left \in SUBSET relay[r].batch, DrainOn(r, left)
  PROVE  /\ relay' \in [Relays -> RelayType]
         /\ \A q \in Relays \ {r} : relay'[q] = relay[q]
         /\ relay'[r].batch = left /\ relay'[r].at \in {"idle", "publish"}
         /\ relay'[r].at = "publish" => left # {} /\ relay'[r].on \in left
                                         /\ relay'[r].seen = relay[r].seen
         /\ left = {} => relay'[r].at = "idle"
         /\ left # {} => relay'[r].at = "publish"
         /\ drainLock' = drainLock \/ (left = {} /\ drainLock = r /\ drainLock' = Nobody)
         /\ \A p \in Watchdogs : p \in lapsed <=> p \in lapsed'
         /\ lapsed' \subseteq lapsed
<1>1. relay[r] \in RelayType /\ HoldsRows(r) /\ relay \in [Relays -> RelayType]
  BY DEF RelayTypes
<1>2. \A p \in Watchdogs : p # r
  BY MonitoringAssumption
<1>3. CASE left = {}
  <2>1. /\ relay' = [relay EXCEPT ![r] = RelayIdle] /\ drainLock' = Unlock(drainLock, r)
        /\ lapsed' = lapsed \ {r}
    BY <1>3 DEF DrainOn
  <2>2. RelayIdle.at = "idle" /\ RelayIdle.batch = {}
    BY DEF RelayIdle
  <2> QED BY <1>1, <1>2, <1>3, <2>1, <2>2, IdleRunTypes DEF Unlock
<1>4. CASE left # {}
  <2>1. UNCHANGED <<drainLock, lapsed>>
    BY <1>4 DEF DrainOn
  <2>2. PICK i \in left :
            relay' = [relay EXCEPT ![r].at = "publish", ![r].batch = left, ![r].on = i]
    BY <1>4 DEF DrainOn
  <2>3. left \subseteq Nat /\ i \in Nat
    BY <1>1, <2>2 DEF RelayType
  <2>4. relay' = [relay EXCEPT ![r] = [relay[r] EXCEPT !.at = "publish", !.batch = left, !.on = i]]
    BY <2>2
  <2>5. [relay[r] EXCEPT !.at = "publish", !.batch = left, !.on = i] \in RelayType
    BY <1>1, <2>3 DEF RelayType
  <2> QED BY <1>1, <1>4, <2>1, <2>4, <2>5 DEF RelayType
<1> QED BY <1>3, <1>4

LEMMA WatchesOn ==
  ASSUME WatchdogTypes, NEW w \in Watchdogs, NEW left \in SUBSET watchdog[w].found, WatchOn(w, left)
  PROVE  /\ watchdog' \in [Watchdogs -> WatchdogType]
         /\ \A q \in Watchdogs \ {w} : watchdog'[q] = watchdog[q]
         /\ watchdog'[w].at \in {"idle", "look"}
         /\ watchLock' = watchLock \/ (watchdog'[w].at = "idle" /\ watchLock = w /\ watchLock' = Nobody)
         /\ lapsed' \subseteq lapsed /\ lapsed \ {w} \subseteq lapsed'
         /\ watchdog'[w].at = "look" => lapsed' = lapsed
<1>1. watchdog[w] \in WatchdogType /\ watchdog \in [Watchdogs -> WatchdogType]
  BY DEF WatchdogTypes
<1>2. CASE left = {}
  BY <1>1, <1>2, IdleRunTypes DEF WatchOn, Unlock, WatchdogIdle
<1>3. CASE left # {}
  <2>1. [at |-> "look", found |-> left, on |-> Nobody] \in WatchdogType
    BY <1>1 DEF WatchdogType
  <2> QED BY <1>1, <1>3, <2>1 DEF WatchOn
<1> QED BY <1>2, <1>3

-----------------------------------------------------------------------------
(* The types.                                                              *)

LEMMA RelayRunsKeepRows ==
  ASSUME RelayTypes, NEW r \in Relays, DOMAIN outbox' = DOMAIN outbox,
         \A q \in Relays \ {r} : relay'[q] = relay[q],
         relay' \in [Relays -> RelayType], HoldsRows(r)'
  PROVE  RelayTypes'
BY DEF RelayTypes, HoldsRows

LEMMA SurroundingTypes ==
  ASSUME Types,
         \/ \E s \in Services : GoStale(s) \/ \E completed \in BOOLEAN : Beat(s, completed)
         \/ SessionEnds
  PROVE  Types'
<1>1. UNCHANGED <<outbox, copies, excused, relay, watchdog>>
  BY DEF GoStale, Beat, SessionEnds
<1>2. Surroundings'
  <2> DEFINE H == [success : {"never", "recent", "old"}, failedSince : BOOLEAN]
  <2>1. ASSUME NEW s \in Services, GoStale(s)
        PROVE  Surroundings'
    <3>1. heartbeat' = [heartbeat EXCEPT ![s] = [heartbeat[s] EXCEPT !.success = "old"]]
      BY <2>1 DEF GoStale
    <3>2. heartbeat \in [Services -> H] /\ [heartbeat[s] EXCEPT !.success = "old"] \in H
      BY DEF Types, Surroundings
    <3>3. heartbeat' \in [Services -> H]
      BY <3>1, <3>2
    <3>4. outage' \in [Services -> Nat] /\ troubles' \in Nat
      BY <2>1 DEF GoStale, Trouble, Types, Surroundings
    <3>5. UNCHANGED <<lapsed, drainLock, watchLock, renotified, requeues, faults>>
      BY <2>1 DEF GoStale
    <3> QED BY <3>3, <3>4, <3>5 DEF Types, Surroundings
  <2>2. ASSUME NEW s \in Services, NEW completed \in BOOLEAN, Beat(s, completed)
        PROVE  Surroundings'
    <3>1. \/ heartbeat' = [heartbeat EXCEPT ![s] = [success |-> "recent", failedSince |-> FALSE]]
          \/ heartbeat' = [heartbeat EXCEPT ![s] = [heartbeat[s] EXCEPT !.failedSince = TRUE]]
      BY <2>2 DEF Beat
    <3>2. /\ heartbeat \in [Services -> H] /\ [heartbeat[s] EXCEPT !.failedSince = TRUE] \in H
          /\ [success |-> "recent", failedSince |-> FALSE] \in H
      BY DEF Types, Surroundings
    <3>3. heartbeat' \in [Services -> H]
      BY <3>1, <3>2
    <3>4. troubles' \in Nat
      BY <2>2 DEF Beat, Trouble, Types, Surroundings
    <3>5. UNCHANGED <<outage, lapsed, drainLock, watchLock, renotified, requeues, faults>>
      BY <2>2 DEF Beat
    <3> QED BY <3>3, <3>4, <3>5 DEF Types, Surroundings
  <2>3. CASE SessionEnds
    BY <2>3 DEF SessionEnds, Types, Surroundings
  <2> QED BY <2>1, <2>2, <2>3
<1> QED BY <1>1, <1>2 DEF Types, Rows, RelayTypes, HoldsRows, WatchdogTypes

LEMMA WindowTypes ==
  ASSUME Types, NEW i \in DOMAIN outbox, WindowPasses(i)
  PROVE  Types'
<1>1. outbox[i] \in RowType
  BY RowsAreNumbered DEF Types
<1>2. [outbox[i] EXCEPT !.recent = FALSE] \in RowType
  BY <1>1 DEF RowType
<1>3. outbox' = [outbox EXCEPT ![i] = [outbox[i] EXCEPT !.recent = FALSE]]
  BY DEF WindowPasses
<1>4. outbox' \in Seq(RowType) /\ Len(outbox') = Len(outbox) /\ DOMAIN outbox' = DOMAIN outbox
  BY <1>2, <1>3, RowChanges DEF Types
<1>5. renotified' \in Nat
  BY DEF Types, Surroundings, WindowPasses
<1> QED BY <1>4, <1>5 DEF Types, Rows, RelayTypes, HoldsRows, WatchdogTypes, Surroundings,
                          WindowPasses

LEMMA RequeueRows ==
  ASSUME Rows, NEW R \in SUBSET Dead, RequeueDead(R)
  PROVE  /\ outbox' \in Seq(RowType) /\ Len(outbox') = Len(outbox)
         /\ DOMAIN outbox' = DOMAIN outbox
         /\ \A i \in DOMAIN outbox :
               outbox'[i] = IF i \in R THEN [outbox[i] EXCEPT !.status = "PENDING", !.attempts = 0]
                            ELSE outbox[i]
<1> DEFINE row(i) == IF i \in R THEN [outbox[i] EXCEPT !.status = "PENDING", !.attempts = 0]
                     ELSE outbox[i]
<1>1. DOMAIN outbox = 1 .. Len(outbox) /\ Len(outbox) \in Nat
  BY RowsAreNumbered
<1>2. \A i \in 1 .. Len(outbox) : row(i) \in RowType
  <2> SUFFICES ASSUME NEW i \in 1 .. Len(outbox)
               PROVE  row(i) \in RowType
    OBVIOUS
  <2>1. outbox[i] \in RowType
    BY <1>1, RowsAreNumbered
  <2>2. [outbox[i] EXCEPT !.status = "PENDING", !.attempts = 0] \in RowType
    BY <2>1 DEF RowType
  <2> QED BY <2>1, <2>2
<1>3. outbox' = [i \in 1 .. Len(outbox) |-> row(i)]
  BY <1>1 DEF RequeueDead
<1> HIDE DEF row
<1>4. outbox' \in [1 .. Len(outbox) -> RowType]
  BY <1>2, <1>3
<1>5. outbox' \in Seq(RowType)
  BY <1>1, <1>4, SeqDef
<1>6. DOMAIN outbox' = 1 .. Len(outbox)
  BY <1>3
<1>7. Len(outbox') = Len(outbox)
  BY <1>1, <1>5, <1>6, LenProperties
<1>8. \A i \in DOMAIN outbox : outbox'[i] = row(i)
  BY <1>1, <1>3
<1> QED BY <1>1, <1>5, <1>6, <1>7, <1>8 DEF row

LEMMA RequeueTypes ==
  ASSUME Types, NEW R \in SUBSET Dead, RequeueDead(R)
  PROVE  Types'
<1>1. outbox' \in Seq(RowType) /\ Len(outbox') = Len(outbox) /\ DOMAIN outbox' = DOMAIN outbox
  BY RequeueRows DEF Types
<1>2. /\ requeues' = requeues + 1
      /\ UNCHANGED <<heartbeat, outage, copies, excused, lapsed, drainLock, watchLock,
                     relay, watchdog, troubles, renotified, faults>>
  BY DEF RequeueDead
<1> QED BY <1>1, <1>2 DEF Types, Rows, RelayTypes, HoldsRows, WatchdogTypes, Surroundings

LEMMA VerdictTypes ==
  ASSUME Types
  PROVE  Verdicts \subseteq VerdictType
BY DEF Verdicts, VerdictType, Kinds

LEMMA WatchdogRunTypes ==
  ASSUME Types, NEW w \in Watchdogs,
         \/ StartWatchdog(w) \/ LookForRecentAlert(w)
         \/ KillWatchdog(w) \/ LoseWatchdogSession(w)
  PROVE  Types'
<1>1. UNCHANGED <<heartbeat, outage, outbox, copies, excused, drainLock, relay, troubles,
                  renotified, requeues>>
  BY DEF StartWatchdog, LookForRecentAlert, KillWatchdog, LoseWatchdogSession
<1>2. watchdog \in [Watchdogs -> WatchdogType] /\ watchdog[w] \in WatchdogType
  BY DEF Types, WatchdogTypes
<1>3. CASE StartWatchdog(w)
  <2>1. [at |-> "look", found |-> Verdicts, on |-> Nobody] \in WatchdogType
    BY VerdictTypes DEF WatchdogType
  <2>2. WatchdogTypes'
    BY <1>2, <1>3, <2>1 DEF StartWatchdog, Types, WatchdogTypes
  <2> QED BY <1>1, <1>3, <2>2 DEF StartWatchdog, Types, Rows, RelayTypes, HoldsRows, Surroundings
<1>4. CASE LookForRecentAlert(w)
  <2>1. PICK v \in watchdog[w].found :
            IF \E i \in DOMAIN outbox : Suppresses(outbox[i], v)
            THEN WatchOn(w, watchdog[w].found \ {v})
            ELSE /\ watchdog' = [watchdog EXCEPT ![w].at = "record", ![w].on = v]
                 /\ UNCHANGED <<watchLock, lapsed>>
    BY <1>4 DEF LookForRecentAlert
  <2>2. CASE WatchOn(w, watchdog[w].found \ {v})
    <3>1. /\ watchdog' \in [Watchdogs -> WatchdogType]
          /\ \A q \in Watchdogs \ {w} : watchdog'[q] = watchdog[q]
          /\ watchdog'[w].at \in {"idle", "look"}
          /\ watchLock' = watchLock \/ watchLock' = Nobody
          /\ lapsed' \subseteq lapsed
      BY <2>2, WatchesOn DEF Types
    <3>2. WatchdogTypes'
      BY <3>1 DEF Types, WatchdogTypes
    <3> QED BY <1>1, <1>4, <3>1, <3>2 DEF LookForRecentAlert, Types, Rows, RelayTypes, HoldsRows,
                                          Surroundings
  <2>3. CASE ~WatchOn(w, watchdog[w].found \ {v})
    <3>1. /\ watchdog' = [watchdog EXCEPT ![w] = [watchdog[w] EXCEPT !.at = "record", !.on = v]]
          /\ UNCHANGED <<watchLock, lapsed>>
      BY <2>1, <2>3
    <3>2. v \in VerdictType
      BY <1>2 DEF WatchdogType
    <3>3. [watchdog[w] EXCEPT !.at = "record", !.on = v] \in WatchdogType
      BY <1>2, <3>2 DEF WatchdogType
    <3>4. watchdog' \in [Watchdogs -> WatchdogType]
      BY <1>2, <3>1, <3>3
    <3>5. watchdog'[w].on = v /\ watchdog'[w].found = watchdog[w].found
      BY <1>2, <3>1 DEF WatchdogType
    <3>6. \A q \in Watchdogs \ {w} : watchdog'[q] = watchdog[q]
      BY <1>2, <3>1
    <3>7. WatchdogTypes'
      BY <3>4, <3>5, <3>6 DEF Types, WatchdogTypes
    <3> QED BY <1>1, <1>4, <3>1, <3>7 DEF LookForRecentAlert, Types, Rows, RelayTypes, HoldsRows,
                                          Surroundings
  <2> QED BY <2>2, <2>3
<1>5. CASE KillWatchdog(w)
  <2>1. WatchdogTypes'
    BY <1>2, <1>5, IdleRunTypes DEF KillWatchdog, Types, WatchdogTypes, WatchdogIdle
  <2> QED BY <1>1, <1>5, <2>1 DEF KillWatchdog, Fault, Types, Rows, RelayTypes, HoldsRows,
                                  Surroundings
<1>6. CASE LoseWatchdogSession(w)
  BY <1>1, <1>6 DEF LoseWatchdogSession, Fault, Types, Rows, RelayTypes, HoldsRows,
                    WatchdogTypes, Surroundings
<1> QED BY <1>3, <1>4, <1>5, <1>6

\* The row an incident appends.
NewAlert(w) ==
    [service |-> watchdog[w].on.service, kind |-> watchdog[w].on.kind,
     outage |-> outage[watchdog[w].on.service], recent |-> TRUE,
     status |-> "PENDING", attempts |-> 0, lapsed |-> w \in lapsed]

LEMMA Records ==
  ASSUME Types, NEW w \in Watchdogs, RecordIncident(w)
  PROVE  /\ watchdog[w].on \in VerdictType /\ NewAlert(w) \in RowType
         /\ WatchOn(w, watchdog[w].found \ {watchdog[w].on})
         /\ UNCHANGED <<heartbeat, outage, excused, drainLock, relay, troubles, renotified, requeues>>
         /\ \/ /\ outbox' = Append(outbox, NewAlert(w)) /\ copies' = Append(copies, 0)
               /\ outbox' \in Seq(RowType) /\ copies' \in Seq(0 .. 2)
               /\ Len(outbox') = Len(outbox) + 1 /\ Len(copies') = Len(outbox')
               /\ DOMAIN outbox' = DOMAIN outbox \cup {Len(outbox) + 1}
               /\ \A i \in DOMAIN outbox : i < Len(outbox) + 1
               /\ \A i \in DOMAIN outbox : outbox'[i] = outbox[i] /\ copies'[i] = copies[i]
               /\ outbox'[Len(outbox) + 1] = NewAlert(w) /\ copies'[Len(outbox) + 1] = 0
               /\ UNCHANGED faults
            \/ Fault /\ UNCHANGED <<outbox, copies>>
<1>1. /\ watchdog[w].at = "record"
      /\ WatchOn(w, watchdog[w].found \ {watchdog[w].on})
      /\ UNCHANGED <<heartbeat, outage, excused, drainLock, relay, troubles, renotified, requeues>>
      /\ \/ outbox' = Append(outbox, NewAlert(w)) /\ copies' = Append(copies, 0) /\ UNCHANGED faults
         \/ Fault /\ UNCHANGED <<outbox, copies>>
  BY DEF RecordIncident, NewAlert
<1>2. watchdog[w].on \in VerdictType
  BY <1>1 DEF Types, WatchdogTypes, WatchdogType
<1>3. NewAlert(w) \in RowType
  BY <1>2 DEF NewAlert, RowType, VerdictType, Types, Surroundings
<1>4. ASSUME outbox' = Append(outbox, NewAlert(w)), copies' = Append(copies, 0)
      PROVE  /\ outbox' \in Seq(RowType) /\ copies' \in Seq(0 .. 2)
             /\ Len(outbox') = Len(outbox) + 1 /\ Len(copies') = Len(outbox')
             /\ DOMAIN outbox' = DOMAIN outbox \cup {Len(outbox) + 1}
             /\ \A i \in DOMAIN outbox : i < Len(outbox) + 1
             /\ \A i \in DOMAIN outbox : outbox'[i] = outbox[i] /\ copies'[i] = copies[i]
             /\ outbox'[Len(outbox) + 1] = NewAlert(w) /\ copies'[Len(outbox) + 1] = 0
  <2>1. outbox \in Seq(RowType) /\ copies \in Seq(0 .. 2) /\ Len(copies) = Len(outbox) /\ 0 \in 0 .. 2
    BY DEF Types, Rows
  <2>2. /\ outbox' \in Seq(RowType) /\ Len(outbox') = Len(outbox) + 1
        /\ \A i \in 1 .. Len(outbox) : outbox'[i] = outbox[i]
        /\ outbox'[Len(outbox) + 1] = NewAlert(w)
    BY <1>3, <1>4, <2>1, AppendProperties
  <2>3. /\ copies' \in Seq(0 .. 2) /\ Len(copies') = Len(copies) + 1
        /\ \A i \in 1 .. Len(copies) : copies'[i] = copies[i]
        /\ copies'[Len(copies) + 1] = 0
    BY <1>4, <2>1, AppendProperties
  <2>4. Len(outbox) \in Nat /\ DOMAIN outbox = 1 .. Len(outbox) /\ DOMAIN outbox' = 1 .. Len(outbox')
    BY <2>1, <2>2, LenProperties
  <2> QED BY <2>1, <2>2, <2>3, <2>4
<1> QED BY <1>1, <1>2, <1>3, <1>4

LEMMA RecordTypes ==
  ASSUME Types, NEW w \in Watchdogs, RecordIncident(w)
  PROVE  Types'
<1>1. /\ watchdog' \in [Watchdogs -> WatchdogType]
      /\ \A q \in Watchdogs \ {w} : watchdog'[q] = watchdog[q]
      /\ watchdog'[w].at \in {"idle", "look"}
      /\ watchLock' = watchLock \/ watchLock' = Nobody
      /\ lapsed' \subseteq lapsed
  BY Records, WatchesOn DEF Types
<1>2. WatchdogTypes'
  BY <1>1 DEF Types, WatchdogTypes
<1>3. UNCHANGED <<heartbeat, outage, excused, drainLock, relay, troubles, renotified, requeues>>
  BY Records
<1>4. faults' = faults \/ faults' = faults + 1
  BY Records DEF Fault
<1>5. /\ DOMAIN outbox \subseteq DOMAIN outbox'
      /\ outbox' \in Seq(RowType) /\ copies' \in Seq(0 .. 2) /\ Len(copies') = Len(outbox')
  BY Records DEF Types, Rows
<1> QED BY <1>1, <1>2, <1>3, <1>4, <1>5 DEF Types, Rows, RelayTypes, HoldsRows, Surroundings
LEMMA Starts ==
  ASSUME Types, NEW r \in Relays, StartRelay(r)
  PROVE  /\ drainLock = Nobody /\ drainLock' = r
         /\ relay' \in [Relays -> RelayType] /\ HoldsRows(r)' /\ relay'[r].at = "publish"
         /\ \A q \in Relays \ {r} : relay'[q] = relay[q]
         /\ relay'[r].batch \subseteq Pending
         /\ UNCHANGED <<heartbeat, outage, outbox, copies, excused, lapsed, watchLock,
                        watchdog, troubles, renotified, requeues, faults>>
<1>1. /\ drainLock = Nobody /\ drainLock' = r
      /\ UNCHANGED <<heartbeat, outage, outbox, copies, excused, lapsed, watchLock,
                     watchdog, troubles, renotified, requeues, faults>>
  BY DEF StartRelay, MayDrain
<1> DEFINE first(B, i) == [at |-> "publish", batch |-> B, on |-> i,
                           seen |-> [j \in B |-> outbox[j].attempts], permanent |-> FALSE]
<1>2. PICK B \in SUBSET Pending : \E i \in B : relay' = [relay EXCEPT ![r] = first(B, i)]
  BY DEF StartRelay
<1>3. PICK i \in B : relay' = [relay EXCEPT ![r] = first(B, i)]
  BY <1>2
<1>4. B \subseteq DOMAIN outbox /\ B \subseteq Nat /\ i \in Nat
  BY RowsAreNumbered DEF Pending, Types
<1>5. \A j \in B : outbox[j].attempts \in Nat
  BY <1>4, RowsAreNumbered DEF Types, RowType
<1>6. [j \in B |-> outbox[j].attempts] \in [B -> Nat]
  BY <1>5
<1>7. first(B, i) \in RelayType
  BY <1>4, <1>6 DEF RelayType
<1>8. relay \in [Relays -> RelayType]
  BY DEF Types, RelayTypes
<1>9. /\ relay' \in [Relays -> RelayType] /\ relay'[r] = first(B, i)
      /\ \A q \in Relays \ {r} : relay'[q] = relay[q]
  <2> HIDE DEF first
  <2> QED BY <1>3, <1>7, <1>8
<1>10. /\ relay'[r].at = "publish" /\ relay'[r].batch = B /\ relay'[r].on = i
       /\ DOMAIN relay'[r].seen = B
  BY <1>9
<1> QED BY <1>1, <1>4, <1>9, <1>10 DEF HoldsRows

LEMMA Publishes ==
  ASSUME Types, NEW r \in Relays, Publish(r)
  PROVE  /\ relay[r].at = "publish" /\ relay'[r].at \in {"sent", "failed"}
         /\ relay[r].on \in relay[r].batch /\ relay[r].on \in DOMAIN outbox
         /\ relay' \in [Relays -> RelayType] /\ HoldsRows(r)'
         /\ relay'[r].batch = relay[r].batch /\ relay'[r].on = relay[r].on
         /\ \A q \in Relays \ {r} : relay'[q] = relay[q]
         /\ \/ relay'[r].at = "sent" /\ Delivered(relay[r].on) /\ UNCHANGED excused
            \/ /\ relay'[r].at = "failed" /\ Delivered(relay[r].on)
               /\ excused' = excused \cup {relay[r].on}
            \/ relay'[r].at = "failed" /\ UNCHANGED <<copies, excused>>
         /\ faults' \in Nat
         /\ UNCHANGED <<heartbeat, outage, outbox, lapsed, drainLock, watchLock, watchdog,
                        troubles, renotified, requeues>>
<1>1. /\ relay[r].at = "publish" /\ HoldsRows(r) /\ relay \in [Relays -> RelayType]
      /\ relay[r].on \in relay[r].batch /\ relay[r].on \in DOMAIN outbox
  BY DEF Publish, Types, RelayTypes, HoldsRows
<1>2. UNCHANGED <<heartbeat, outage, outbox, lapsed, drainLock, watchLock, watchdog,
                  troubles, renotified, requeues>>
  BY DEF Publish
<1>3. faults' \in Nat
  BY DEF Publish, Fault, Types, Surroundings
<1>4. \/ /\ Delivered(relay[r].on) /\ relay' = [relay EXCEPT ![r].at = "sent"]
         /\ UNCHANGED excused
      \/ /\ Delivered(relay[r].on)
         /\ relay' = [relay EXCEPT ![r].at = "failed", ![r].permanent = FALSE]
         /\ excused' = excused \cup {relay[r].on}
      \/ /\ \E permanent \in BOOLEAN :
               relay' = [relay EXCEPT ![r].at = "failed", ![r].permanent = permanent]
         /\ UNCHANGED <<copies, excused>>
  BY DEF Publish, AfterRefusal
<1>5. ASSUME NEW at \in {"sent", "failed"}, NEW permanent \in BOOLEAN,
             relay' = [relay EXCEPT ![r].at = at, ![r].permanent = permanent]
             \/ relay' = [relay EXCEPT ![r].at = at]
      PROVE  /\ relay'[r].at = at
             /\ relay' \in [Relays -> RelayType] /\ HoldsRows(r)'
             /\ relay'[r].batch = relay[r].batch /\ relay'[r].on = relay[r].on
             /\ \A q \in Relays \ {r} : relay'[q] = relay[q]
  <2>1. /\ relay' \in [Relays -> RelayType] /\ relay'[r].at = at
        /\ relay'[r].batch = relay[r].batch /\ relay'[r].on = relay[r].on
        /\ relay'[r].seen = relay[r].seen
        /\ \A q \in Relays \ {r} : relay'[q] = relay[q]
    BY <1>1, <1>5, RelayMoves DEF Types
  <2> QED BY <1>1, <1>2, <2>1 DEF HoldsRows
<1> QED BY <1>1, <1>2, <1>3, <1>4, <1>5

\* The update of one row, and the run goes on.
LEMMA MarksOn ==
  ASSUME Types, NEW r \in Relays, relay[r].at # "idle",
         DrainOn(r, relay[r].batch \ {relay[r].on}), DOMAIN outbox' = DOMAIN outbox
  PROVE  /\ relay' \in [Relays -> RelayType] /\ HoldsRows(r)'
         /\ \A q \in Relays \ {r} : relay'[q] = relay[q]
         /\ relay'[r].batch = relay[r].batch \ {relay[r].on}
         /\ relay'[r].at \in {"idle", "publish"}
         /\ drainLock' = drainLock
            \/ (drainLock = r /\ drainLock' = Nobody /\ relay'[r].at = "idle")
         /\ \A p \in Watchdogs : p \in lapsed <=> p \in lapsed'
         /\ lapsed' \subseteq lapsed
<1> DEFINE left == relay[r].batch \ {relay[r].on}
<1>1. /\ relay' \in [Relays -> RelayType]
      /\ \A q \in Relays \ {r} : relay'[q] = relay[q]
      /\ relay'[r].batch = left /\ relay'[r].at \in {"idle", "publish"}
      /\ relay'[r].at = "publish" => left # {} /\ relay'[r].on \in left
                                         /\ relay'[r].seen = relay[r].seen
      /\ left = {} => relay'[r].at = "idle"
      /\ left # {} => relay'[r].at = "publish"
      /\ drainLock' = drainLock \/ (left = {} /\ drainLock = r /\ drainLock' = Nobody)
      /\ \A p \in Watchdogs : p \in lapsed <=> p \in lapsed'
      /\ lapsed' \subseteq lapsed
  BY DrainsOn DEF Types
<1>2. HoldsRows(r)
  BY DEF Types, RelayTypes
<1>3. HoldsRows(r)'
  BY <1>1, <1>2 DEF HoldsRows
<1> QED BY <1>1, <1>3

LEMMA StatusChanges ==
  ASSUME Types, NEW i \in DOMAIN outbox, NEW st \in {"PENDING", "SENT", "DEAD"},
         \/ outbox' = [outbox EXCEPT ![i].status = st]
         \/ outbox' = [outbox EXCEPT ![i].attempts = @ + 1, ![i].status = st]
  PROVE  /\ outbox' \in Seq(RowType) /\ Len(outbox') = Len(outbox)
         /\ DOMAIN outbox' = DOMAIN outbox
         /\ \A j \in DOMAIN outbox \ {i} : outbox'[j] = outbox[j]
         /\ outbox'[i].service = outbox[i].service /\ outbox'[i].kind = outbox[i].kind
         /\ outbox'[i].recent = outbox[i].recent /\ outbox'[i].lapsed = outbox[i].lapsed
         /\ outbox'[i].status = st
<1>1. outbox[i] \in RowType /\ outbox[i].attempts + 1 \in Nat
  BY RowsAreNumbered DEF Types, RowType
<1> DEFINE Same(e) == /\ e.service = outbox[i].service /\ e.kind = outbox[i].kind
                      /\ e.recent = outbox[i].recent /\ e.lapsed = outbox[i].lapsed
                      /\ e.status = st
<1>2. PICK e \in RowType : outbox' = [outbox EXCEPT ![i] = e] /\ Same(e)
  <2>1. CASE outbox' = [outbox EXCEPT ![i].status = st]
    <3> DEFINE e == [outbox[i] EXCEPT !.status = st]
    <3>1. e \in RowType /\ Same(e)
      BY <1>1 DEF RowType
    <3>2. outbox' = [outbox EXCEPT ![i] = e]
      BY <2>1
    <3> QED BY <3>1, <3>2
  <2>2. CASE outbox' = [outbox EXCEPT ![i].attempts = @ + 1, ![i].status = st]
    <3> DEFINE n == outbox[i].attempts + 1
               e == [outbox[i] EXCEPT !.attempts = n, !.status = st]
    <3>1. outbox' = [outbox EXCEPT ![i] = e]
      BY <2>2
    <3>2. n \in Nat
      BY <1>1
    <3> HIDE DEF n
    <3>3. e \in RowType /\ Same(e)
      BY <1>1, <3>2 DEF RowType
    <3> QED BY <3>1, <3>3
  <2> QED BY <2>1, <2>2
<1>3. /\ outbox' \in Seq(RowType) /\ Len(outbox') = Len(outbox)
      /\ DOMAIN outbox' = DOMAIN outbox
      /\ \A j \in DOMAIN outbox : outbox'[j] = IF j = i THEN e ELSE outbox[j]
  BY <1>2, RowChanges DEF Types
<1> QED BY <1>2, <1>3

\* What MarkSent and MarkFailed have in common.
LEMMA Marks ==
  ASSUME Types, NEW r \in Relays, MarkSent(r) \/ MarkFailed(r)
  PROVE  /\ relay[r].on \in relay[r].batch /\ relay[r].on \in DOMAIN outbox
         /\ outbox' \in Seq(RowType) /\ Len(outbox') = Len(outbox)
         /\ DOMAIN outbox' = DOMAIN outbox
         /\ \A j \in DOMAIN outbox \ {relay[r].on} : outbox'[j] = outbox[j]
         /\ \A j \in DOMAIN outbox :
               /\ outbox'[j].service = outbox[j].service /\ outbox'[j].kind = outbox[j].kind
               /\ outbox'[j].recent = outbox[j].recent /\ outbox'[j].lapsed = outbox[j].lapsed
         /\ UNCHANGED <<heartbeat, outage, copies, watchLock, watchdog, troubles, renotified,
                        requeues>>
         /\ faults' \in Nat
<1>1. relay[r].at # "idle" /\ relay[r].on \in relay[r].batch /\ relay[r].on \in DOMAIN outbox
  BY DEF MarkSent, MarkFailed, Types, RelayTypes, HoldsRows
<1>2. /\ UNCHANGED <<heartbeat, outage, copies, watchLock, watchdog, troubles, renotified,
                    requeues>>
      /\ faults' = faults \/ faults' = faults + 1
  BY DEF MarkSent, MarkFailed, Fault
<1>3. outbox[relay[r].on].status \in {"PENDING", "SENT", "DEAD"}
  BY <1>1, RowsAreNumbered DEF Types, RowType
<1>4. \/ outbox' = outbox
      \/ \E st \in {"PENDING", "SENT", "DEAD"} :
            \/ outbox' = [outbox EXCEPT ![relay[r].on].status = st]
            \/ outbox' = [outbox EXCEPT ![relay[r].on].attempts = @ + 1, ![relay[r].on].status = st]
  BY <1>3 DEF MarkSent, MarkFailed
<1>5. CASE outbox' = outbox
  BY <1>1, <1>2, <1>5 DEF Types, Rows, Surroundings
<1>6. CASE outbox' # outbox
  <2>1. PICK st \in {"PENDING", "SENT", "DEAD"} :
            \/ outbox' = [outbox EXCEPT ![relay[r].on].status = st]
            \/ outbox' = [outbox EXCEPT ![relay[r].on].attempts = @ + 1, ![relay[r].on].status = st]
    BY <1>4, <1>6
  <2>2. /\ outbox' \in Seq(RowType) /\ Len(outbox') = Len(outbox)
        /\ DOMAIN outbox' = DOMAIN outbox
        /\ \A j \in DOMAIN outbox \ {relay[r].on} : outbox'[j] = outbox[j]
        /\ outbox'[relay[r].on].service = outbox[relay[r].on].service
        /\ outbox'[relay[r].on].kind = outbox[relay[r].on].kind
        /\ outbox'[relay[r].on].recent = outbox[relay[r].on].recent
        /\ outbox'[relay[r].on].lapsed = outbox[relay[r].on].lapsed
    BY <1>1, <2>1, StatusChanges
  <2>3. ASSUME NEW j \in DOMAIN outbox
        PROVE  /\ outbox'[j].service = outbox[j].service /\ outbox'[j].kind = outbox[j].kind
               /\ outbox'[j].recent = outbox[j].recent /\ outbox'[j].lapsed = outbox[j].lapsed
    BY <2>2
  <2>4. faults' \in Nat
    BY <1>2 DEF Types, Surroundings
  <2> QED BY <1>1, <1>2, <2>2, <2>3, <2>4
<1> QED BY <1>5, <1>6

\* The row of MarkSent, and where the run goes.
LEMMA MarksSent ==
  ASSUME Types, NEW r \in Relays, MarkSent(r)
  PROVE  /\ relay[r].at = "sent"
         /\ relay' \in [Relays -> RelayType] /\ HoldsRows(r)'
         /\ \A q \in Relays \ {r} : relay'[q] = relay[q]
         /\ relay'[r].at # "sent" /\ relay'[r].batch \subseteq relay[r].batch
         /\ drainLock' = drainLock
            \/ (drainLock = r /\ drainLock' = Nobody /\ relay'[r].at = "idle")
         /\ lapsed' \subseteq lapsed /\ \A p \in Watchdogs : p \in lapsed <=> p \in lapsed'
         /\ outbox'[relay[r].on].status \in {outbox[relay[r].on].status, "SENT"}
         /\ \/ /\ outbox'[relay[r].on].status = "SENT" /\ UNCHANGED excused
               /\ relay'[r].batch = relay[r].batch \ {relay[r].on}
            \/ excused' = excused \cup {relay[r].on}
<1>1. relay[r].at = "sent" /\ relay[r].on \in DOMAIN outbox /\ DOMAIN outbox' = DOMAIN outbox
  BY Marks DEF MarkSent
<1>2. CASE /\ outbox' = [outbox EXCEPT ![relay[r].on].status = "SENT"]
           /\ DrainOn(r, relay[r].batch \ {relay[r].on}) /\ UNCHANGED excused
  <2>1. outbox'[relay[r].on].status = "SENT"
    BY <1>1, <1>2, StatusChanges
  <2> QED BY <1>1, <1>2, <2>1, MarksOn
<1>3. CASE /\ outbox' \in {outbox, [outbox EXCEPT ![relay[r].on].status = "SENT"]}
           /\ relay' = [relay EXCEPT ![r].at = "failed", ![r].permanent = FALSE]
           /\ excused' = excused \cup {relay[r].on}
           /\ UNCHANGED <<drainLock, lapsed>>
  <2>1. outbox'[relay[r].on].status \in {outbox[relay[r].on].status, "SENT"}
    BY <1>1, <1>3, StatusChanges
  <2>2. /\ relay' \in [Relays -> RelayType] /\ relay'[r].at = "failed"
        /\ relay'[r].batch = relay[r].batch /\ relay'[r].on = relay[r].on
        /\ relay'[r].seen = relay[r].seen
        /\ \A q \in Relays \ {r} : relay'[q] = relay[q]
    BY <1>1, <1>3, RelayMoves DEF Types
  <2>3. HoldsRows(r)'
    BY <1>1, <2>2 DEF HoldsRows, Types, RelayTypes
  <2> QED BY <1>1, <1>3, <2>1, <2>2, <2>3
<1> QED BY <1>2, <1>3 DEF MarkSent

LEMMA MarksFailed ==
  ASSUME Types, NEW r \in Relays, MarkFailed(r)
  PROVE  /\ relay[r].at = "failed"
         /\ relay' \in [Relays -> RelayType] /\ HoldsRows(r)'
         /\ \A q \in Relays \ {r} : relay'[q] = relay[q]
         /\ relay'[r].at # "sent"
         /\ relay'[r].batch = relay[r].batch \ {relay[r].on}
         /\ drainLock' = drainLock
            \/ (drainLock = r /\ drainLock' = Nobody /\ relay'[r].at = "idle")
         /\ lapsed' \subseteq lapsed /\ \A p \in Watchdogs : p \in lapsed <=> p \in lapsed'
         /\ outbox'[relay[r].on].status \in {outbox[relay[r].on].status, "DEAD"}
         /\ UNCHANGED excused
<1>1. /\ relay[r].at = "failed" /\ relay[r].on \in DOMAIN outbox /\ DOMAIN outbox' = DOMAIN outbox
      /\ DrainOn(r, relay[r].batch \ {relay[r].on}) /\ UNCHANGED excused
  BY Marks DEF MarkFailed
<1>2. outbox[relay[r].on].status \in {"PENDING", "SENT", "DEAD"}
  BY <1>1, RowsAreNumbered DEF Types, RowType
<1>3. \/ outbox' = outbox
      \/ \E st \in {outbox[relay[r].on].status, "DEAD"} :
            outbox' = [outbox EXCEPT ![relay[r].on].attempts = @ + 1, ![relay[r].on].status = st]
  BY DEF MarkFailed
<1>4. outbox'[relay[r].on].status \in {outbox[relay[r].on].status, "DEAD"}
  BY <1>1, <1>2, <1>3, StatusChanges
<1> QED BY <1>1, <1>4, MarksOn

LEMMA RelayRunTypes ==
  ASSUME Types, NEW r \in Relays,
         StartRelay(r) \/ Drain(r) \/ KillRelay(r) \/ LoseRelaySession(r)
  PROVE  Types'
<1>1. CASE StartRelay(r)
  <2>1. RelayTypes'
    BY <1>1, Starts, RelayRunsKeepRows DEF Types
  <2> QED BY <1>1, <2>1, Starts DEF Types, Rows, WatchdogTypes, Surroundings
<1>2. CASE Publish(r)
  <2>1. RelayTypes'
    BY <1>2, Publishes, RelayRunsKeepRows DEF Types
  <2>2. Rows'
    <3>1. /\ relay[r].on \in DOMAIN outbox /\ UNCHANGED outbox
          /\ Delivered(relay[r].on) \/ UNCHANGED copies
          /\ excused' = excused \/ excused' = excused \cup {relay[r].on}
      BY <1>2, Publishes
    <3>2. copies' \in Seq(0 .. 2) /\ Len(copies') = Len(copies)
      BY <3>1, DeliveredOne DEF Types, Rows
    <3> QED BY <3>1, <3>2 DEF Types, Rows
  <2> QED BY <1>2, <2>1, <2>2, Publishes DEF Types, WatchdogTypes, Surroundings
<1>3. CASE MarkSent(r) \/ MarkFailed(r)
  <2>1. RelayTypes'
    BY <1>3, Marks, MarksSent, MarksFailed, RelayRunsKeepRows DEF Types
  <2>2. Rows'
    <3>1. excused' \subseteq DOMAIN outbox
      BY <1>3, Marks, MarksSent, MarksFailed DEF Types, Rows
    <3> QED BY <1>3, <3>1, Marks DEF Types, Rows
  <2>3. lapsed' \subseteq lapsed /\ (drainLock' = drainLock \/ drainLock' = Nobody)
    BY <1>3, MarksSent, MarksFailed
  <2>4. Surroundings'
    BY <1>3, <2>3, Marks DEF Types, Surroundings
  <2> QED BY <1>3, <2>1, <2>2, <2>4, Marks DEF Types, WatchdogTypes
<1>4. CASE KillRelay(r)
  <2>1. UNCHANGED <<heartbeat, outage, outbox, drainLock, watchLock, watchdog, troubles,
                    renotified, requeues>>
    BY <1>4 DEF KillRelay
  <2>2. RelayTypes'
    <3>1. /\ relay' \in [Relays -> RelayType] /\ relay'[r] = RelayIdle
          /\ \A q \in Relays \ {r} : relay'[q] = relay[q]
      BY <1>4, IdleRunTypes DEF KillRelay, Types, RelayTypes
    <3>2. HoldsRows(r)'
      BY <3>1 DEF HoldsRows, RelayIdle
    <3> QED BY <2>1, <3>1, <3>2, RelayRunsKeepRows DEF Types
  <2>3. Rows'
    <3>1. relay[r].on \in DOMAIN outbox
      BY <1>4 DEF KillRelay, Types, RelayTypes, HoldsRows
    <3>2. /\ Delivered(relay[r].on) \/ UNCHANGED copies
          /\ excused' = excused \/ excused' = excused \cup {relay[r].on}
      BY <1>4 DEF KillRelay
    <3>3. copies' \in Seq(0 .. 2) /\ Len(copies') = Len(copies)
      BY <3>1, <3>2, DeliveredOne DEF Types, Rows
    <3> QED BY <2>1, <3>1, <3>2, <3>3 DEF Types, Rows
  <2>4. lapsed' = lapsed \ {r} /\ faults' \in Nat
    BY <1>4 DEF KillRelay, Fault, Types, Surroundings
  <2> QED BY <2>1, <2>2, <2>3, <2>4 DEF Types, WatchdogTypes, Surroundings
<1>5. CASE LoseRelaySession(r)
  <2>1. /\ UNCHANGED <<heartbeat, outage, outbox, copies, watchLock, relay, watchdog, troubles,
                       renotified, requeues>>
        /\ drainLock' = Nobody /\ lapsed' = lapsed \cup {r}
        /\ excused' = excused \cup relay[r].batch /\ faults' = faults + 1
    BY <1>5 DEF LoseRelaySession, Fault
  <2>2. relay[r].batch \subseteq DOMAIN outbox
    BY DEF Types, RelayTypes, HoldsRows
  <2> QED BY <2>1, <2>2 DEF Types, Rows, RelayTypes, HoldsRows, WatchdogTypes, Surroundings
<1> QED BY <1>1, <1>2, <1>3, <1>4, <1>5 DEF Drain

LEMMA InitTypes == Init => Types
<1> SUFFICES ASSUME Init
             PROVE  Types
  OBVIOUS
<1>1. /\ outbox \in Seq(RowType) /\ copies \in Seq(0 .. 2) /\ Len(copies) = Len(outbox)
      /\ excused = {}
  BY EmptySeq DEF Init
<1>2. relay \in [Relays -> RelayType] /\ watchdog \in [Watchdogs -> WatchdogType]
  BY IdleRunTypes DEF Init
<1>3. \A r \in Relays : HoldsRows(r)
  BY DEF Init, HoldsRows, RelayIdle
<1>4. \A w \in Watchdogs : watchdog[w].at = "idle"
  BY DEF Init, WatchdogIdle
<1>5. Surroundings
  BY DEF Init, Surroundings
<1> QED BY <1>1, <1>2, <1>3, <1>4, <1>5 DEF Types, Rows, RelayTypes, WatchdogTypes

LEMMA NextTypes == Types /\ [Next]_vars => Types'
<1> SUFFICES ASSUME Types, [Next]_vars
             PROVE  Types'
  OBVIOUS
<1>1. CASE UNCHANGED vars
  BY <1>1 DEF vars, Types, Rows, RelayTypes, HoldsRows, WatchdogTypes, Surroundings
<1>2. ASSUME NEW R \in {Dead} \cup {{i} : i \in Dead}, RequeueDead(R)
      PROVE  Types'
  BY <1>2, RequeueTypes
<1> QED BY <1>1, <1>2, SurroundingTypes, WindowTypes, WatchdogRunTypes, RecordTypes, RelayRunTypes
        DEF Next, Watch

\* Every step of the pipeline keeps the types, so they hold at every moment of
\* every behaviour of watchdog, relay and operator.
THEOREM TypeCorrect == Spec => []TypeOK
BY InitTypes, NextTypes, TypesSuffice, PTL DEF Spec

-----------------------------------------------------------------------------
(* Delivery.  A run that still has its session keeps every row it holds    *)
(* PENDING and undelivered, except the one it has just published.          *)

Published == \A r \in Relays : relay[r].at = "sent" => copies[relay[r].on] > 0

Exclusive ==
    \A r \in Relays : relay[r].at # "idle" => drainLock = r \/ relay[r].batch \subseteq excused

UnsentBy(r, i) ==
    /\ outbox[i].status = "PENDING"
    /\ copies[i] = 0 \/ (relay[r].at = "sent" /\ relay[r].on = i /\ copies[i] = 1)

Unsent == \A r \in Relays : \A i \in relay[r].batch \ excused : UnsentBy(r, i)

Delivery == Published /\ Exclusive /\ Unsent /\ SentWasPublished /\ DeliveredOnce

LEMMA DeliveryUntouched ==
  ASSUME Types, Delivery, DOMAIN outbox' = DOMAIN outbox,
         \A i \in DOMAIN outbox : outbox'[i].status = outbox[i].status,
         UNCHANGED <<copies, excused, relay>>, drainLock' = drainLock
  PROVE  Delivery'
<1>1. Published' /\ Exclusive'
  BY DEF Delivery, Published, Exclusive
<1>2. \A r \in Relays : relay[r].batch \subseteq DOMAIN outbox
  BY DEF Types, RelayTypes, HoldsRows
<1>3. Unsent'
  BY <1>2 DEF Delivery, Unsent, UnsentBy
<1>4. SentWasPublished' /\ DeliveredOnce'
  BY DEF Delivery, SentWasPublished, DeliveredOnce
<1> QED BY <1>1, <1>3, <1>4 DEF Delivery

LEMMA SessionEndDelivers ==
  ASSUME Types, Delivery, SessionEnds
  PROVE  Delivery'
<1>1. UNCHANGED <<outbox, copies, excused, relay>>
  BY DEF SessionEnds
<1>2. \A r \in Relays : relay[r].at # "idle" /\ drainLock = r => drainLock' = r
  BY DEF SessionEnds
<1>3. Exclusive'
  BY <1>1, <1>2 DEF Delivery, Exclusive
<1> QED BY <1>1, <1>3 DEF Delivery, Published, Unsent, UnsentBy, SentWasPublished, DeliveredOnce

LEMMA RequeueDelivers ==
  ASSUME Types, Delivery, NEW R \in SUBSET Dead, RequeueDead(R)
  PROVE  Delivery'
<1>1. UNCHANGED <<copies, excused, relay, drainLock>>
  BY DEF RequeueDead
<1>2. /\ DOMAIN outbox' = DOMAIN outbox
      /\ \A i \in DOMAIN outbox :
            outbox'[i].status = IF i \in R THEN "PENDING" ELSE outbox[i].status
  <2>1. \A i \in DOMAIN outbox : ([outbox[i] EXCEPT !.status = "PENDING", !.attempts = 0]).status = "PENDING"
    BY RowsAreNumbered DEF Types, RowType
  <2> QED BY <2>1, RequeueRows DEF Types
<1>3. \A i \in R : i \in DOMAIN outbox /\ outbox[i].status = "DEAD"
  BY DEF Dead
<1>4. \A r \in Relays : relay[r].batch \subseteq DOMAIN outbox
  BY DEF Types, RelayTypes, HoldsRows
<1>5. Published' /\ Exclusive'
  BY <1>1 DEF Delivery, Published, Exclusive
<1>6. Unsent'
  BY <1>1, <1>2, <1>4 DEF Delivery, Unsent, UnsentBy
<1>7. SentWasPublished'
  BY <1>1, <1>2 DEF Delivery, SentWasPublished
<1>8. DeliveredOnce'
  <2> SUFFICES ASSUME NEW i \in DOMAIN outbox \ excused, copies[i] > 0
               PROVE  /\ copies[i] = 1
                      /\ outbox'[i].status = "SENT"
                         \/ \E r \in Relays : relay[r].at = "sent" /\ relay[r].on = i
    BY <1>1, <1>2 DEF DeliveredOnce
  <2>1. /\ copies[i] = 1
        /\ outbox[i].status = "SENT" \/ \E r \in Relays : relay[r].at = "sent" /\ relay[r].on = i
    BY DEF Delivery, DeliveredOnce
  <2>2. CASE outbox[i].status = "SENT"
    BY <1>2, <1>3, <2>1, <2>2
  <2> QED BY <2>1, <2>2
<1> QED BY <1>5, <1>6, <1>7, <1>8 DEF Delivery

LEMMA RecordDelivers ==
  ASSUME Types, Delivery, NEW w \in Watchdogs, RecordIncident(w)
  PROVE  Delivery'
<1>1. UNCHANGED <<excused, relay, drainLock>>
  BY Records
<1>2. CASE UNCHANGED <<outbox, copies>>
  BY <1>1, <1>2, DeliveryUntouched
<1>3. CASE ~UNCHANGED <<outbox, copies>>
  <2> DEFINE n == Len(outbox) + 1
  <2>1. /\ DOMAIN outbox' = DOMAIN outbox \cup {n} /\ copies'[n] = 0 /\ outbox'[n] = NewAlert(w)
        /\ \A i \in DOMAIN outbox : outbox'[i] = outbox[i] /\ copies'[i] = copies[i]
    BY <1>3, Records
  <2> HIDE DEF n
  <2>2. \A r \in Relays : /\ relay[r].batch \subseteq DOMAIN outbox
                          /\ relay[r].at # "idle" => relay[r].on \in DOMAIN outbox
    BY DEF Types, RelayTypes, HoldsRows
  <2>3. outbox'[n].status = "PENDING"
    BY <2>1 DEF NewAlert
  <2>4. Published' /\ Exclusive' /\ Unsent'
    BY <1>1, <2>1, <2>2 DEF Delivery, Published, Exclusive, Unsent, UnsentBy
  <2>5. SentWasPublished'
    BY <2>1, <2>3 DEF Delivery, SentWasPublished
  <2>6. DeliveredOnce'
    BY <1>1, <2>1 DEF Delivery, DeliveredOnce
  <2> QED BY <2>4, <2>5, <2>6 DEF Delivery
<1> QED BY <1>2, <1>3

\* A row that is free to be claimed, and that no fault excuses, was never
\* delivered.
LEMMA FreeIsUndelivered ==
  ASSUME Types, Delivery, drainLock = Nobody, NEW i \in Pending \ excused
  PROVE  copies[i] = 0
<1>1. i \in DOMAIN outbox /\ outbox[i].status = "PENDING" /\ copies[i] \in 0 .. 2
  BY RowsAreNumbered DEF Pending, Types
<1>2. ASSUME NEW r \in Relays, relay[r].at = "sent"
      PROVE  relay[r].on # i
  <2>1. r # Nobody /\ relay[r].on \in relay[r].batch
    BY <1>2, MonitoringAssumption DEF Types, RelayTypes, HoldsRows
  <2> QED BY <1>2, <2>1 DEF Delivery, Exclusive
<1> QED BY <1>1, <1>2 DEF Delivery, DeliveredOnce

LEMMA StartDelivers ==
  ASSUME Types, Delivery, NEW r \in Relays, StartRelay(r)
  PROVE  Delivery'
<1>1. /\ drainLock = Nobody /\ drainLock' = r /\ relay'[r].at = "publish"
      /\ \A q \in Relays \ {r} : relay'[q] = relay[q]
      /\ relay'[r].batch \subseteq Pending
      /\ UNCHANGED <<outbox, copies, excused>>
  BY Starts
<1>2. relay[r].at = "idle" /\ \A q \in Relays : q # Nobody
  BY MonitoringAssumption DEF StartRelay, MayDrain
<1>3. Published' /\ Exclusive'
  BY <1>1, <1>2 DEF Delivery, Published, Exclusive
<1>4. Unsent'
  <2>1. \A i \in relay'[r].batch \ excused : outbox[i].status = "PENDING" /\ copies[i] = 0
    BY <1>1, FreeIsUndelivered DEF Pending
  <2> QED BY <1>1, <2>1 DEF Delivery, Unsent, UnsentBy
<1>5. SentWasPublished'
  BY <1>1 DEF Delivery, SentWasPublished
<1>6. DeliveredOnce'
  BY <1>1, <1>2 DEF Delivery, DeliveredOnce
<1> QED BY <1>3, <1>4, <1>5, <1>6 DEF Delivery

\* Two runs in flight: a row both hold is excused.
LEMMA SharedIsExcused ==
  ASSUME Types, Delivery, NEW r \in Relays, NEW q \in Relays \ {r},
         relay[r].at # "idle", relay[q].at # "idle",
         NEW i \in relay[r].batch \cap relay[q].batch
  PROVE  i \in excused
BY DEF Delivery, Exclusive

LEMMA PublishDelivers ==
  ASSUME Types, Delivery, NEW r \in Relays, Publish(r)
  PROVE  Delivery'
<1> DEFINE on == relay[r].on
<1>1. /\ relay[r].at = "publish" /\ relay'[r].at \in {"sent", "failed"}
      /\ on \in relay[r].batch /\ on \in DOMAIN outbox
      /\ relay'[r].batch = relay[r].batch /\ relay'[r].on = on
      /\ \A q \in Relays \ {r} : relay'[q] = relay[q]
      /\ \/ relay'[r].at = "sent" /\ Delivered(on) /\ UNCHANGED excused
         \/ relay'[r].at = "failed" /\ Delivered(on) /\ excused' = excused \cup {on}
         \/ relay'[r].at = "failed" /\ UNCHANGED <<copies, excused>>
      /\ UNCHANGED <<outbox, drainLock>>
  BY Publishes
<1> HIDE DEF on
<1>2. \/ UNCHANGED copies
      \/ /\ \A j \in DOMAIN outbox \ {on} : copies'[j] = copies[j]
         /\ copies'[on] > 0 /\ (copies[on] = 0 => copies'[on] = 1)
         /\ \A j \in DOMAIN outbox : copies[j] > 0 => copies'[j] > 0
  BY <1>1, DeliveredOne DEF Types
<1>3. \A q \in Relays : /\ relay[q].batch \subseteq DOMAIN outbox
                        /\ relay[q].at # "idle" <=> relay[q].batch # {}
                        /\ relay[q].at # "idle" => relay[q].on \in relay[q].batch
  BY DEF Types, RelayTypes, HoldsRows
<1>4. \A q \in Relays : \A j \in DOMAIN outbox : relay[q].at = "sent" /\ relay[q].on = j => copies'[j] > 0
  BY <1>2 DEF Delivery, Published
<1>5. Published'
  <2>1. relay'[r].at = "sent" => copies'[relay'[r].on] > 0
    BY <1>1, DeliveredOne DEF Types
  <2> QED BY <1>1, <1>3, <1>4, <2>1 DEF Published
<1>6. Exclusive'
  BY <1>1 DEF Delivery, Exclusive
<1>7. \A q \in Relays \ {r} : \A i \in relay[q].batch \ excused : i # on
  BY <1>1, <1>3, SharedIsExcused
<1>8. on \notin excused => outbox[on].status = "PENDING" /\ copies[on] = 0
  BY <1>1 DEF Delivery, Unsent, UnsentBy
<1>9. Unsent'
  <2>1. ASSUME NEW q \in Relays \ {r}, NEW i \in relay'[q].batch \ excused'
        PROVE  UnsentBy(q, i)'
    <3>1. i \in relay[q].batch \ excused /\ relay'[q] = relay[q]
      BY <1>1, <2>1
    <3>2. copies'[i] = copies[i]
      BY <1>2, <1>3, <1>7, <3>1
    <3> QED BY <1>1, <3>1, <3>2 DEF Delivery, Unsent, UnsentBy
  <2>2. ASSUME NEW i \in relay'[r].batch \ excused'
        PROVE  UnsentBy(r, i)'
    <3>1. i \in relay[r].batch \ excused /\ i \in DOMAIN outbox
      BY <1>1, <1>3, <2>2
    <3>2. outbox[i].status = "PENDING" /\ copies[i] = 0
      BY <1>1, <3>1 DEF Delivery, Unsent, UnsentBy
    <3>3. CASE i = on
      BY <1>1, <1>2, <1>8, <2>2, <3>1, <3>2, <3>3 DEF UnsentBy
    <3>4. CASE i # on
      BY <1>1, <1>2, <3>1, <3>2, <3>4 DEF UnsentBy
    <3> QED BY <3>3, <3>4
  <2> QED BY <2>1, <2>2 DEF Unsent
<1>10. SentWasPublished'
  BY <1>1, <1>2 DEF Delivery, SentWasPublished
<1>11. DeliveredOnce'
  <2> SUFFICES ASSUME NEW i \in DOMAIN outbox, i \notin excused', copies'[i] > 0
               PROVE  /\ copies'[i] = 1
                      /\ outbox[i].status = "SENT"
                         \/ \E q \in Relays : relay'[q].at = "sent" /\ relay'[q].on = i
    BY <1>1 DEF DeliveredOnce
  <2>1. i \notin excused
    BY <1>1
  <2>2. CASE i = on
    <3>1. copies[on] = 0 /\ relay'[r].at = "sent" /\ copies'[on] = 1
      BY <1>1, <1>2, <1>8, <2>1, <2>2
    <3> QED BY <1>1, <2>2, <3>1
  <2>3. CASE i # on
    <3>1. copies'[i] = copies[i]
      BY <1>2, <2>3
    <3>2. /\ copies[i] = 1
          /\ outbox[i].status = "SENT"
             \/ \E q \in Relays : relay[q].at = "sent" /\ relay[q].on = i
      BY <2>1, <3>1 DEF Delivery, DeliveredOnce
    <3> QED BY <1>1, <3>1, <3>2
  <2> QED BY <2>2, <2>3
<1> QED BY <1>5, <1>6, <1>9, <1>10, <1>11 DEF Delivery

LEMMA MarkSentDelivers ==
  ASSUME Types, Delivery, NEW r \in Relays, MarkSent(r)
  PROVE  Delivery'
<1> DEFINE on == relay[r].on
<1>1. /\ relay[r].at = "sent" /\ on \in relay[r].batch /\ on \in DOMAIN outbox
      /\ relay'[r].at # "sent" /\ relay'[r].batch \subseteq relay[r].batch
      /\ \A q \in Relays \ {r} : relay'[q] = relay[q]
      /\ drainLock' = drainLock \/ (drainLock = r /\ drainLock' = Nobody /\ relay'[r].at = "idle")
      /\ outbox'[on].status \in {outbox[on].status, "SENT"}
      /\ \/ /\ outbox'[on].status = "SENT" /\ UNCHANGED excused
            /\ relay'[r].batch = relay[r].batch \ {on}
         \/ excused' = excused \cup {on}
      /\ DOMAIN outbox' = DOMAIN outbox /\ copies' = copies
      /\ \A j \in DOMAIN outbox \ {on} : outbox'[j] = outbox[j]
  BY Marks, MarksSent
<1> HIDE DEF on
<1>2. \A q \in Relays : /\ relay[q].batch \subseteq DOMAIN outbox
                        /\ relay[q].at # "idle" <=> relay[q].batch # {}
                        /\ relay[q].at # "idle" => relay[q].on \in relay[q].batch
  BY DEF Types, RelayTypes, HoldsRows
<1>3. \A q \in Relays \ {r} : \A i \in relay[q].batch \ excused : i # on
  BY <1>1, <1>2, SharedIsExcused
<1>4. Published'
  BY <1>1 DEF Delivery, Published
<1>5. Exclusive'
  BY <1>1 DEF Delivery, Exclusive
<1>6. Unsent'
  <2>1. ASSUME NEW q \in Relays \ {r}, NEW i \in relay'[q].batch \ excused'
        PROVE  UnsentBy(q, i)'
    BY <1>1, <1>2, <1>3, <2>1 DEF Delivery, Unsent, UnsentBy
  <2>2. ASSUME NEW i \in relay'[r].batch \ excused'
        PROVE  UnsentBy(r, i)'
    <3>1. i \in relay[r].batch \ excused /\ i \in DOMAIN outbox /\ i # on
      BY <1>1, <1>2, <2>2
    <3>2. outbox[i].status = "PENDING" /\ copies[i] = 0
      BY <3>1 DEF Delivery, Unsent, UnsentBy, on
    <3> QED BY <1>1, <3>1, <3>2 DEF UnsentBy
  <2> QED BY <2>1, <2>2 DEF Unsent
<1>7. SentWasPublished'
  <2>1. copies[on] > 0
    BY <1>1 DEF Delivery, Published, on
  <2> QED BY <1>1, <2>1 DEF Delivery, SentWasPublished
<1>8. DeliveredOnce'
  <2> SUFFICES ASSUME NEW i \in DOMAIN outbox, i \notin excused', copies[i] > 0
               PROVE  /\ copies[i] = 1
                      /\ outbox'[i].status = "SENT"
                         \/ \E q \in Relays : relay'[q].at = "sent" /\ relay'[q].on = i
    BY <1>1 DEF DeliveredOnce
  <2>1. i \notin excused
    BY <1>1
  <2>2. /\ copies[i] = 1
        /\ outbox[i].status = "SENT"
           \/ \E q \in Relays : relay[q].at = "sent" /\ relay[q].on = i
    BY <2>1 DEF Delivery, DeliveredOnce
  <2>3. CASE i = on
    BY <1>1, <2>2, <2>3
  <2>4. CASE i # on
    BY <1>1, <2>2, <2>4 DEF on
  <2> QED BY <2>3, <2>4
<1> QED BY <1>4, <1>5, <1>6, <1>7, <1>8 DEF Delivery

LEMMA MarkFailedDelivers ==
  ASSUME Types, Delivery, NEW r \in Relays, MarkFailed(r)
  PROVE  Delivery'
<1> DEFINE on == relay[r].on
<1>1. /\ relay[r].at = "failed" /\ on \in relay[r].batch /\ on \in DOMAIN outbox
      /\ relay'[r].at # "sent" /\ relay'[r].batch = relay[r].batch \ {on}
      /\ \A q \in Relays \ {r} : relay'[q] = relay[q]
      /\ drainLock' = drainLock \/ (drainLock = r /\ drainLock' = Nobody /\ relay'[r].at = "idle")
      /\ outbox'[on].status \in {outbox[on].status, "DEAD"}
      /\ UNCHANGED <<excused, copies>>
      /\ DOMAIN outbox' = DOMAIN outbox
      /\ \A j \in DOMAIN outbox \ {on} : outbox'[j] = outbox[j]
  BY Marks, MarksFailed
<1>2. \A q \in Relays : /\ relay[q].batch \subseteq DOMAIN outbox
                        /\ relay[q].at # "idle" <=> relay[q].batch # {}
                        /\ relay[q].at # "idle" => relay[q].on \in relay[q].batch
  BY DEF Types, RelayTypes, HoldsRows
<1>3. on \notin excused => outbox[on].status = "PENDING" /\ copies[on] = 0
  BY <1>1 DEF Delivery, Unsent, UnsentBy
<1> HIDE DEF on
<1>4. \A q \in Relays \ {r} : \A i \in relay[q].batch \ excused : i # on
  BY <1>1, <1>2, SharedIsExcused
<1>5. Published' /\ Exclusive'
  BY <1>1 DEF Delivery, Published, Exclusive
<1>6. Unsent'
  <2>1. ASSUME NEW q \in Relays \ {r}, NEW i \in relay'[q].batch \ excused'
        PROVE  UnsentBy(q, i)'
    BY <1>1, <1>2, <1>4, <2>1 DEF Delivery, Unsent, UnsentBy
  <2>2. ASSUME NEW i \in relay'[r].batch \ excused'
        PROVE  UnsentBy(r, i)'
    BY <1>1, <1>2, <2>2 DEF Delivery, Unsent, UnsentBy
  <2> QED BY <2>1, <2>2 DEF Unsent
<1>7. SentWasPublished'
  BY <1>1 DEF Delivery, SentWasPublished
<1>8. DeliveredOnce'
  <2> SUFFICES ASSUME NEW i \in DOMAIN outbox \ excused, copies[i] > 0
               PROVE  /\ copies[i] = 1
                      /\ outbox'[i].status = "SENT"
                         \/ \E q \in Relays : relay'[q].at = "sent" /\ relay'[q].on = i
    BY <1>1 DEF DeliveredOnce
  <2>1. /\ copies[i] = 1
        /\ outbox[i].status = "SENT"
           \/ \E q \in Relays : relay[q].at = "sent" /\ relay[q].on = i
    BY DEF Delivery, DeliveredOnce
  <2>2. i # on
    BY <1>3
  <2> QED BY <1>1, <2>1, <2>2
<1> QED BY <1>5, <1>6, <1>7, <1>8 DEF Delivery

LEMMA KillDelivers ==
  ASSUME Types, Delivery, NEW r \in Relays, KillRelay(r)
  PROVE  Delivery'
<1> DEFINE on == relay[r].on
<1>1. /\ relay[r].at # "idle" /\ relay' = [relay EXCEPT ![r] = RelayIdle]
      /\ (relay[r].at = "publish" /\ Delivered(on)) \/ UNCHANGED copies
      /\ excused' = IF relay[r].at \in {"publish", "sent"} THEN excused \cup {on} ELSE excused
      /\ UNCHANGED <<outbox, drainLock>>
  BY DEF KillRelay
<1>2. relay'[r].at = "idle" /\ relay'[r].batch = {} /\ \A q \in Relays \ {r} : relay'[q] = relay[q]
  BY <1>1 DEF Types, RelayTypes, RelayIdle
<1>3. \A q \in Relays : /\ relay[q].batch \subseteq DOMAIN outbox
                        /\ relay[q].at # "idle" => relay[q].on \in relay[q].batch
  BY DEF Types, RelayTypes, HoldsRows
<1>4. on \in DOMAIN outbox
  BY <1>1, <1>3
<1>5. /\ \A j \in DOMAIN outbox : copies[j] > 0 => copies'[j] > 0
      /\ \A j \in DOMAIN outbox : j \notin excused' => copies'[j] = copies[j]
      /\ excused \subseteq excused'
  BY <1>1, <1>4, DeliveredOne DEF Types
<1>6. Published'
  BY <1>2, <1>3, <1>5 DEF Delivery, Published
<1>7. Exclusive'
  BY <1>1, <1>2, <1>5 DEF Delivery, Exclusive
<1>8. Unsent'
  BY <1>1, <1>2, <1>3, <1>5 DEF Delivery, Unsent, UnsentBy
<1>9. SentWasPublished'
  BY <1>1, <1>5 DEF Delivery, SentWasPublished
<1>10. DeliveredOnce'
  <2> SUFFICES ASSUME NEW i \in DOMAIN outbox, i \notin excused', copies'[i] > 0
               PROVE  /\ copies'[i] = 1
                      /\ outbox[i].status = "SENT"
                         \/ \E q \in Relays : relay'[q].at = "sent" /\ relay'[q].on = i
    BY <1>1 DEF DeliveredOnce
  <2>1. i \notin excused /\ copies'[i] = copies[i]
    BY <1>5
  <2>2. /\ copies[i] = 1
        /\ outbox[i].status = "SENT"
           \/ \E q \in Relays : relay[q].at = "sent" /\ relay[q].on = i
    BY <2>1 DEF Delivery, DeliveredOnce
  <2>3. relay[r].at = "sent" => on # i
    BY <1>1
  <2> QED BY <1>2, <2>1, <2>2, <2>3
<1> QED BY <1>6, <1>7, <1>8, <1>9, <1>10 DEF Delivery

LEMMA LostSessionDelivers ==
  ASSUME Types, Delivery, NEW r \in Relays, LoseRelaySession(r)
  PROVE  Delivery'
<1>1. /\ drainLock = r /\ excused' = excused \cup relay[r].batch
      /\ UNCHANGED <<outbox, copies, relay>>
  BY DEF LoseRelaySession
<1>2. Published' /\ Exclusive' /\ Unsent'
  BY <1>1 DEF Delivery, Published, Exclusive, Unsent, UnsentBy
<1>3. SentWasPublished' /\ DeliveredOnce'
  BY <1>1 DEF Delivery, SentWasPublished, DeliveredOnce
<1> QED BY <1>2, <1>3 DEF Delivery

LEMMA InitDelivers == Init => Delivery
<1> SUFFICES ASSUME Init
             PROVE  Delivery
  OBVIOUS
<1>1. DOMAIN outbox = {} /\ \A r \in Relays : relay[r].at = "idle" /\ relay[r].batch = {}
  BY EmptySeq, LenProperties DEF Init, RelayIdle
<1> QED BY <1>1 DEF Delivery, Published, Exclusive, Unsent, SentWasPublished, DeliveredOnce

LEMMA NextDelivers ==
  ASSUME Types, Delivery, [Next]_vars
  PROVE  Delivery'
<1>1. CASE UNCHANGED vars
  BY <1>1, DeliveryUntouched DEF vars
<1>2. ASSUME \/ \E s \in Services : GoStale(s) \/ \E completed \in BOOLEAN : Beat(s, completed)
             \/ \E w \in Watchdogs : \/ StartWatchdog(w) \/ LookForRecentAlert(w)
                                     \/ KillWatchdog(w) \/ LoseWatchdogSession(w)
      PROVE  Delivery'
  <2>1. UNCHANGED <<outbox, copies, excused, relay, drainLock>>
    BY <1>2 DEF GoStale, Beat, StartWatchdog, LookForRecentAlert, KillWatchdog, LoseWatchdogSession
  <2> QED BY <2>1, DeliveryUntouched
<1>3. ASSUME NEW i \in DOMAIN outbox, WindowPasses(i)
      PROVE  Delivery'
  <2>1. outbox[i] \in RowType /\ outbox' = [outbox EXCEPT ![i] = [outbox[i] EXCEPT !.recent = FALSE]]
    BY <1>3, RowsAreNumbered DEF WindowPasses, Types
  <2>2. /\ [outbox[i] EXCEPT !.recent = FALSE] \in RowType
        /\ ([outbox[i] EXCEPT !.recent = FALSE]).status = outbox[i].status
    BY <2>1 DEF RowType
  <2>3. DOMAIN outbox' = DOMAIN outbox /\ \A j \in DOMAIN outbox : outbox'[j].status = outbox[j].status
    BY <2>1, <2>2, RowChanges DEF Types
  <2> QED BY <1>3, <2>3, DeliveryUntouched DEF WindowPasses
<1>4. ASSUME NEW R \in {Dead} \cup {{i} : i \in Dead}, RequeueDead(R)
      PROVE  Delivery'
  BY <1>4, RequeueDelivers
<1> QED BY <1>1, <1>2, <1>3, <1>4, SessionEndDelivers, RecordDelivers, StartDelivers,
           PublishDelivers, MarkSentDelivers, MarkFailedDelivers, KillDelivers, LostSessionDelivers
        DEF Next, Watch, Drain

\* relay.ts: whatever fails, restarts, overlaps or is requeued, a row is marked
\* SENT only after its message reached SNS.
THEOREM SentIsPublished == Spec => []SentWasPublished
<1>1. Types /\ Delivery /\ [Next]_vars => Types' /\ Delivery'
  BY NextTypes, NextDelivers
<1>2. Delivery => SentWasPublished
  BY DEF Delivery
<1> QED BY <1>1, <1>2, InitTypes, InitDelivers, PTL DEF Spec

\* relay.ts: only a kill, a lost answer, a failed mark or a lost lock repeats a
\* delivery; without one an alert is delivered once and marked, never parked.
THEOREM OnlyFaultsRepeat == Spec => []DeliveredOnce
<1>1. Types /\ Delivery /\ [Next]_vars => Types' /\ Delivery'
  BY NextTypes, NextDelivers
<1>2. Delivery => DeliveredOnce
  BY DEF Delivery
<1> QED BY <1>1, <1>2, InitTypes, InitDelivers, PTL DEF Spec

-----------------------------------------------------------------------------
(* Alerts.  A run about to record holds the lock or has lost its session,  *)
(* and if it holds the lock what it looked for is still not there.         *)

Guarded == \A w \in Watchdogs : watchdog[w].at # "idle" => watchLock = w \/ w \in lapsed

Unrivalled ==
    \A w \in Watchdogs :
        watchdog[w].at = "record" /\ w \notin lapsed =>
            \A i \in DOMAIN outbox : Suppresses(outbox[i], watchdog[w].on) => outbox[i].lapsed

Alerts == Guarded /\ Unrivalled /\ OneAlertPerWindow

LEMMA AlertsUntouched ==
  ASSUME Types, Alerts, DOMAIN outbox' = DOMAIN outbox,
         \A i \in DOMAIN outbox :
             /\ outbox'[i].service = outbox[i].service /\ outbox'[i].kind = outbox[i].kind
             /\ outbox'[i].recent => outbox[i].recent
             /\ outbox'[i].lapsed = outbox[i].lapsed,
         UNCHANGED <<watchdog, watchLock>>, \A w \in Watchdogs : w \in lapsed <=> w \in lapsed'
  PROVE  Alerts'
<1>1. Guarded'
  BY DEF Alerts, Guarded
<1>2. Unrivalled'
  BY DEF Alerts, Unrivalled, Suppresses
<1>3. OneAlertPerWindow'
  BY DEF Alerts, OneAlertPerWindow
<1> QED BY <1>1, <1>2, <1>3 DEF Alerts

LEMMA WatchdogAlerts ==
  ASSUME Types, Alerts, NEW w \in Watchdogs,
         \/ StartWatchdog(w) \/ LookForRecentAlert(w)
         \/ KillWatchdog(w) \/ LoseWatchdogSession(w)
  PROVE  Alerts'
<1>1. outbox' = outbox /\ watchdog \in [Watchdogs -> WatchdogType] /\ watchdog[w] \in WatchdogType
  BY DEF StartWatchdog, LookForRecentAlert, KillWatchdog, LoseWatchdogSession, Types, WatchdogTypes
<1>2. OneAlertPerWindow'
  BY <1>1 DEF Alerts, OneAlertPerWindow
<1>3. \A q \in Watchdogs : q # Nobody
  BY MonitoringAssumption
<1>4. CASE StartWatchdog(w)
  <2>1. /\ watchLock = Nobody /\ watchLock' = w /\ lapsed' = lapsed /\ watchdog'[w].at = "look"
        /\ \A q \in Watchdogs \ {w} : watchdog'[q] = watchdog[q]
    BY <1>1, <1>4 DEF StartWatchdog
  <2> QED BY <1>1, <1>2, <1>3, <2>1 DEF Alerts, Guarded, Unrivalled
<1>5. CASE LookForRecentAlert(w)
  <2>1. watchdog[w].at = "look"
    BY <1>5 DEF LookForRecentAlert
  <2>2. PICK v \in watchdog[w].found :
            IF \E i \in DOMAIN outbox : Suppresses(outbox[i], v)
            THEN WatchOn(w, watchdog[w].found \ {v})
            ELSE /\ watchdog' = [watchdog EXCEPT ![w].at = "record", ![w].on = v]
                 /\ UNCHANGED <<watchLock, lapsed>>
    BY <1>5 DEF LookForRecentAlert
  <2>3. CASE WatchOn(w, watchdog[w].found \ {v})
    <3>1. /\ \A q \in Watchdogs \ {w} : watchdog'[q] = watchdog[q]
          /\ watchdog'[w].at \in {"idle", "look"}
          /\ watchLock' = watchLock \/ (watchdog'[w].at = "idle" /\ watchLock = w /\ watchLock' = Nobody)
          /\ lapsed' \subseteq lapsed /\ lapsed \ {w} \subseteq lapsed'
          /\ watchdog'[w].at = "look" => lapsed' = lapsed
      BY <2>3, WatchesOn DEF Types
    <3>2. Guarded'
      BY <2>1, <3>1 DEF Alerts, Guarded
    <3>3. Unrivalled'
      BY <1>1, <3>1 DEF Alerts, Unrivalled
    <3> QED BY <1>2, <3>2, <3>3 DEF Alerts
  <2>4. CASE ~ \E i \in DOMAIN outbox : Suppresses(outbox[i], v)
    <3>1. /\ UNCHANGED <<watchLock, lapsed>> /\ watchdog'[w].on = v
          /\ \A q \in Watchdogs \ {w} : watchdog'[q] = watchdog[q]
      BY <1>1, <2>2, <2>4 DEF WatchdogType
    <3>2. Guarded'
      BY <2>1, <3>1 DEF Alerts, Guarded
    <3>3. Unrivalled'
      BY <1>1, <2>4, <3>1 DEF Alerts, Unrivalled
    <3> QED BY <1>2, <3>2, <3>3 DEF Alerts
  <2> QED BY <2>2, <2>3, <2>4
<1>6. CASE KillWatchdog(w)
  <2>1. /\ watchdog'[w].at = "idle" /\ watchLock' = watchLock /\ lapsed' = lapsed \ {w}
        /\ \A q \in Watchdogs \ {w} : watchdog'[q] = watchdog[q]
    BY <1>1, <1>6 DEF KillWatchdog, WatchdogIdle
  <2> QED BY <1>1, <1>2, <2>1 DEF Alerts, Guarded, Unrivalled
<1>7. CASE LoseWatchdogSession(w)
  <2>1. watchLock = w /\ watchdog' = watchdog /\ lapsed' = lapsed \cup {w}
    BY <1>7 DEF LoseWatchdogSession
  <2> QED BY <1>1, <1>2, <2>1 DEF Alerts, Guarded, Unrivalled
<1> QED BY <1>4, <1>5, <1>6, <1>7

LEMMA RecordAlerts ==
  ASSUME Types, Alerts, NEW w \in Watchdogs, RecordIncident(w)
  PROVE  Alerts'
<1>1. watchdog[w].at = "record"
  BY DEF RecordIncident
<1>2. /\ \A q \in Watchdogs \ {w} : watchdog'[q] = watchdog[q]
      /\ watchdog'[w].at \in {"idle", "look"}
      /\ watchLock' = watchLock \/ (watchdog'[w].at = "idle" /\ watchLock = w /\ watchLock' = Nobody)
      /\ lapsed' \subseteq lapsed /\ lapsed \ {w} \subseteq lapsed'
      /\ watchdog'[w].at = "look" => lapsed' = lapsed
  BY Records, WatchesOn DEF Types
<1>3. Guarded'
  BY <1>1, <1>2 DEF Alerts, Guarded
<1>4. CASE outbox' = outbox
  BY <1>2, <1>3, <1>4 DEF Alerts, Unrivalled, OneAlertPerWindow
<1>5. CASE outbox' # outbox
  <2> DEFINE n == Len(outbox) + 1
  <2>1. /\ DOMAIN outbox' = DOMAIN outbox \cup {n} /\ outbox'[n] = NewAlert(w)
        /\ \A i \in DOMAIN outbox : outbox'[i] = outbox[i] /\ i < n
    BY <1>5, Records
  <2>2. n \in Nat /\ DOMAIN outbox \subseteq Nat
    BY RowsAreNumbered DEF Types
  <2> HIDE DEF n
  <2>3. /\ outbox'[n].service = watchdog[w].on.service /\ outbox'[n].kind = watchdog[w].on.kind
        /\ outbox'[n].lapsed = (w \in lapsed)
    BY <2>1 DEF NewAlert
  <2>4. ASSUME NEW i \in DOMAIN outbox, outbox[i].recent,
               outbox[i].service = watchdog[w].on.service, outbox[i].kind = watchdog[w].on.kind
        PROVE  outbox[i].lapsed \/ outbox'[n].lapsed
    BY <1>1, <2>3, <2>4 DEF Alerts, Unrivalled, Suppresses
  <2>5. OneAlertPerWindow'
    <3> SUFFICES ASSUME NEW i \in DOMAIN outbox', NEW j \in DOMAIN outbox',
                        i < j, outbox'[i].recent, outbox'[j].recent,
                        outbox'[i].service = outbox'[j].service, outbox'[i].kind = outbox'[j].kind
                 PROVE  outbox'[i].lapsed \/ outbox'[j].lapsed
      BY DEF OneAlertPerWindow
    <3>1. i \in DOMAIN outbox
      BY <2>1, <2>2
    <3>2. CASE j \in DOMAIN outbox
      BY <2>1, <3>1, <3>2 DEF Alerts, OneAlertPerWindow
    <3>3. CASE j = n
      <4>1. /\ outbox[i].recent /\ outbox[i].service = watchdog[w].on.service
            /\ outbox[i].kind = watchdog[w].on.kind /\ outbox'[i] = outbox[i]
        BY <2>1, <2>3, <3>1, <3>3
      <4> QED BY <2>4, <3>1, <3>3, <4>1
    <3> QED BY <2>1, <3>2, <3>3
  <2>6. Unrivalled'
    <3> SUFFICES ASSUME NEW q \in Watchdogs, watchdog'[q].at = "record", q \notin lapsed',
                        NEW i \in DOMAIN outbox', Suppresses(outbox'[i], watchdog'[q].on)
                 PROVE  outbox'[i].lapsed
      BY DEF Unrivalled
    <3>1. q # w /\ watchdog'[q] = watchdog[q] /\ q \notin lapsed
      BY <1>2
    <3>2. CASE i \in DOMAIN outbox
      BY <2>1, <3>1, <3>2 DEF Alerts, Unrivalled
    <3>3. CASE i = n
      <4>1. watchLock = q
        BY <3>1 DEF Alerts, Guarded
      <4>2. w \in lapsed
        BY <1>1, <3>1, <4>1 DEF Alerts, Guarded
      <4> QED BY <2>3, <3>3, <4>2
    <3> QED BY <2>1, <3>2, <3>3
  <2> QED BY <1>3, <2>5, <2>6 DEF Alerts
<1> QED BY <1>4, <1>5

LEMMA InitAlerts == Init => Alerts
<1> SUFFICES ASSUME Init
             PROVE  Alerts
  OBVIOUS
<1>1. DOMAIN outbox = {} /\ \A w \in Watchdogs : watchdog[w].at = "idle"
  BY EmptySeq, LenProperties DEF Init, WatchdogIdle
<1> QED BY <1>1 DEF Alerts, Guarded, Unrivalled, OneAlertPerWindow

LEMMA NextAlerts ==
  ASSUME Types, Alerts, [Next]_vars
  PROVE  Alerts'
<1>0. \A w \in Watchdogs : w \notin Relays
  BY MonitoringAssumption
<1>1. ASSUME \/ UNCHANGED vars
             \/ \E s \in Services : GoStale(s) \/ \E completed \in BOOLEAN : Beat(s, completed)
             \/ \E r \in Relays : StartRelay(r) \/ Publish(r) \/ KillRelay(r) \/ LoseRelaySession(r)
      PROVE  Alerts'
  <2>1. UNCHANGED <<outbox, watchdog, watchLock>>
    BY <1>1 DEF vars, GoStale, Beat, StartRelay, Publish, KillRelay, LoseRelaySession
  <2>2. lapsed' = lapsed \/ \E r \in Relays : lapsed' = lapsed \ {r} \/ lapsed' = lapsed \cup {r}
    BY <1>1 DEF vars, GoStale, Beat, StartRelay, Publish, KillRelay, LoseRelaySession
  <2>3. \A w \in Watchdogs : w \in lapsed <=> w \in lapsed'
    BY <1>0, <2>2
  <2> QED BY <2>1, <2>3, AlertsUntouched
<1>2. ASSUME NEW r \in Relays, MarkSent(r) \/ MarkFailed(r)
      PROVE  Alerts'
  BY <1>2, Marks, MarksSent, MarksFailed, AlertsUntouched
<1>3. ASSUME NEW i \in DOMAIN outbox, WindowPasses(i)
      PROVE  Alerts'
  <2>1. outbox[i] \in RowType /\ outbox' = [outbox EXCEPT ![i] = [outbox[i] EXCEPT !.recent = FALSE]]
    BY <1>3, RowsAreNumbered DEF WindowPasses, Types
  <2> DEFINE e == [outbox[i] EXCEPT !.recent = FALSE]
  <2>2. /\ e \in RowType /\ e.service = outbox[i].service /\ e.kind = outbox[i].kind
        /\ ~e.recent /\ e.lapsed = outbox[i].lapsed
    BY <2>1 DEF RowType
  <2>3. /\ DOMAIN outbox' = DOMAIN outbox
        /\ \A j \in DOMAIN outbox : outbox'[j] = IF j = i THEN e ELSE outbox[j]
    BY <2>1, <2>2, RowChanges DEF Types
  <2> HIDE DEF e
  <2>4. \A j \in DOMAIN outbox :
             /\ outbox'[j].service = outbox[j].service /\ outbox'[j].kind = outbox[j].kind
             /\ outbox'[j].recent => outbox[j].recent
             /\ outbox'[j].lapsed = outbox[j].lapsed
    BY <2>2, <2>3
  <2> QED BY <1>3, <2>3, <2>4, AlertsUntouched DEF WindowPasses
<1>4. ASSUME NEW R \in {Dead} \cup {{i} : i \in Dead}, RequeueDead(R)
      PROVE  Alerts'
  <2>1. R \in SUBSET Dead /\ UNCHANGED <<watchdog, watchLock, lapsed>>
    BY <1>4 DEF RequeueDead
  <2>2. /\ DOMAIN outbox' = DOMAIN outbox
        /\ \A i \in DOMAIN outbox :
              outbox'[i] = IF i \in R THEN [outbox[i] EXCEPT !.status = "PENDING", !.attempts = 0]
                           ELSE outbox[i]
    BY <1>4, <2>1, RequeueRows DEF Types
  <2>3. ASSUME NEW i \in DOMAIN outbox
        PROVE  /\ outbox'[i].service = outbox[i].service /\ outbox'[i].kind = outbox[i].kind
               /\ outbox'[i].recent = outbox[i].recent /\ outbox'[i].lapsed = outbox[i].lapsed
    <3>1. outbox[i] \in RowType
      BY RowsAreNumbered DEF Types
    <3> QED BY <2>2, <3>1 DEF RowType
  <2> QED BY <2>1, <2>2, <2>3, AlertsUntouched
<1>5. ASSUME SessionEnds
      PROVE  Alerts'
  <2>1. /\ UNCHANGED <<outbox, watchdog, lapsed>>
        /\ \A w \in Watchdogs : watchdog[w].at # "idle" /\ watchLock = w => watchLock' = w
    BY <1>5 DEF SessionEnds
  <2> QED BY <2>1 DEF Alerts, Guarded, Unrivalled, OneAlertPerWindow
<1> QED BY <1>1, <1>2, <1>3, <1>4, <1>5, WatchdogAlerts, RecordAlerts DEF Next, Watch, Drain

\* recordIncident under the watchdog's lock: only a run that lost its session
\* lets a second alert of the same kind into one window.
THEOREM LockKeepsWindows == Spec => []OneAlertPerWindow
<1>1. Types /\ Alerts /\ [Next]_vars => Types' /\ Alerts'
  BY NextTypes, NextAlerts
<1>2. Alerts => OneAlertPerWindow
  BY DEF Alerts
<1> QED BY <1>1, <1>2, InitTypes, InitAlerts, PTL DEF Spec

=============================================================================
