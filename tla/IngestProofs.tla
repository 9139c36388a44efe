---------------------------- MODULE IngestProofs ----------------------------
(***************************************************************************)
(* For any store, page, number of changes, backfills, commands and faults: *)
(* the types, that no change slips behind the watermark, that the live     *)
(* rows it has passed agree with the store, and that a replay ends on the  *)
(* newest events.                                                          *)
(***************************************************************************)
EXTENDS IngestProperties, SequenceTheorems, TLAPS

EventType == [order : Orders, version : Versions]

NodeType == [place : Nat, order : Orders, version : Versions]

States == {"idle", "fetch", "append", "project", "replay", "advance", "track", "untrack"}

RunKinds == {"none", "incremental", "backfill", "replay", "reingest"}

RunType == [at : States, kind : RunKinds, todo : SUBSET NodeType, on : NodeType \cup {Nobody},
            cursor : Versions, max : Versions, op : Nat, full : BOOLEAN]

StoreTypes ==
    /\ clock \in Versions /\ store \in [Orders -> Versions]
    /\ refused \subseteq Versions \X {"append", "project"}
    /\ bulk \in [id : Nat, status : {"NONE", "RUNNING", "COMPLETED", "FAILED"},
                 nodes : SUBSET NodeType]

TableTypes ==
    /\ log \in Seq(EventType) /\ live \in [Orders -> Versions]
    /\ watermark \in Versions /\ tracked \in Nat /\ exports \in Seq(SUBSET NodeType)
    /\ writer \in [Orders -> RunKinds \cup {"overlap"}]

\* A run has nodes exactly while it ingests.
HasNodes(r) ==
    /\ run[r].at \in {"append", "project", "replay"} <=> run[r].todo # {}
    /\ run[r].at = "project" => run[r].on \in run[r].todo
    /\ run[r].at = "idle" => run[r].kind = "none"

RunTypes ==
    /\ run \in [Runs -> RunType] /\ \A r \in Runs : HasNodes(r)
    /\ lock \in Runs \cup {Nobody} /\ overlap \subseteq Busy

Types == StoreTypes /\ TableTypes /\ RunTypes

OnLogged(r) == Logged(run[r].on.order, run[r].on.version)

\* Every live row and every node about to be projected is in the raw log.
LoggedFirst ==
    /\ \A o \in Orders : live[o] # 0 => Logged(o, live[o])
    /\ \A r \in Runs :
          /\ run[r].at = "project" => OnLogged(r)
          /\ run[r].at = "replay" => \A n \in run[r].todo : Logged(n.order, n.version)

LEMMA TypesSuffice == Types /\ LoggedFirst => TypeOK
BY DEF Types, StoreTypes, TableTypes, RunTypes, HasNodes, LoggedFirst, TypeOK, RunType, EventType,
       States, RunKinds

-----------------------------------------------------------------------------
(* What the building blocks of the actions do.                             *)

LEMMA VersionNumbers ==
  /\ Versions \subseteq Nat /\ 0 \in Versions
  /\ \A v \in Versions : v < MaxChanges => v + 1 \in Versions
BY IngestAssumption DEF Versions

LEMMA IdleType == Idle \in RunType /\ Idle.at = "idle" /\ Idle.kind = "none" /\ Idle.todo = {}
BY VersionNumbers DEF Idle, RunType, States, RunKinds

LEMMA Takes ==
  ASSUME RunTypes, NEW r \in Runs, Begin(r), NEW as \in RunType, Take(r, as), as.at # "idle",
         as.at \in {"append", "project", "replay"} <=> as.todo # {}, as.at # "project"
  PROVE  /\ RunTypes' /\ run'[r] = as /\ \A q \in Runs \ {r} : run'[q] = run[q]
         /\ run[r].at = "idle" /\ lock = Nobody /\ lock' = r
         /\ overlap' = IF Busy = {} THEN overlap ELSE overlap \cup {r}
         /\ Busy' = Busy \cup {r}
<1>1. /\ run' \in [Runs -> RunType] /\ run'[r] = as /\ \A q \in Runs \ {r} : run'[q] = run[q]
  BY DEF RunTypes, Take
<1>2. Busy' = Busy \cup {r}
  BY <1>1 DEF Busy
<1>3. overlap' = IF Busy = {} THEN overlap ELSE overlap \cup {r}
  BY DEF Take
<1>4. \A q \in Runs : HasNodes(q)'
  BY <1>1 DEF HasNodes, RunTypes
<1>5. overlap' \subseteq Busy'
  BY <1>2, <1>3 DEF RunTypes
<1> QED BY <1>1, <1>2, <1>3, <1>4, <1>5 DEF RunTypes, Begin, Take

LEMMA Ends ==
  ASSUME RunTypes, NEW r \in Runs, End(r)
  PROVE  /\ RunTypes' /\ run'[r] = Idle /\ \A q \in Runs \ {r} : run'[q] = run[q]
         /\ lock' = IF lock = r THEN Nobody ELSE lock
         /\ overlap' = overlap \ {r} /\ Busy' = Busy \ {r}
<1>1. /\ run' \in [Runs -> RunType] /\ run'[r] = Idle /\ \A q \in Runs \ {r} : run'[q] = run[q]
  BY IdleType DEF RunTypes, End
<1>2. Busy' = Busy \ {r}
  BY <1>1, IdleType DEF Busy
<1>3. \A q \in Runs : HasNodes(q)'
  BY <1>1, IdleType DEF HasNodes, RunTypes
<1> QED BY <1>1, <1>2, <1>3 DEF RunTypes, End

\* The run stays busy, with another record.
LEMMA Continues ==
  ASSUME RunTypes, NEW r \in Runs, run[r].at # "idle", NEW as \in RunType,
         run' = [run EXCEPT ![r] = as], UNCHANGED <<lock, overlap>>, as.at # "idle",
         as.at \in {"append", "project", "replay"} <=> as.todo # {},
         as.at = "project" => as.on \in as.todo
  PROVE  /\ RunTypes' /\ run'[r] = as /\ \A q \in Runs \ {r} : run'[q] = run[q]
         /\ Busy' = Busy
<1>1. /\ run' \in [Runs -> RunType] /\ run'[r] = as /\ \A q \in Runs \ {r} : run'[q] = run[q]
  BY DEF RunTypes
<1>2. Busy' = Busy
  BY <1>1 DEF Busy
<1>3. \A q \in Runs : HasNodes(q)'
  BY <1>1 DEF HasNodes, RunTypes
<1> QED BY <1>1, <1>2, <1>3 DEF RunTypes

LEMMA GoesOn ==
  ASSUME RunTypes, NEW r \in Runs, run[r].at # "idle", run[r].todo = {},
         NEW at \in {"fetch", "advance", "track", "untrack"}, GoOn(r, at)
  PROVE  /\ RunTypes' /\ run'[r] = [run[r] EXCEPT !.at = at]
         /\ \A q \in Runs \ {r} : run'[q] = run[q]
         /\ Busy' = Busy /\ UNCHANGED <<lock, overlap>>
<1> DEFINE as == [run[r] EXCEPT !.at = at]
<1>1. run[r] \in RunType
  BY DEF RunTypes
<1>2. as \in RunType /\ as.at = at /\ as.todo = {}
  BY <1>1 DEF RunType, States
<1>3. run' = [run EXCEPT ![r] = as] /\ UNCHANGED <<lock, overlap>>
  BY DEF GoOn
<1> HIDE DEF as
<1>4. RunTypes' /\ run'[r] = as /\ Busy' = Busy /\ \A q \in Runs \ {r} : run'[q] = run[q]
  BY <1>2, <1>3, Continues
<1> QED BY <1>3, <1>4 DEF as

\* A node is done: the run ends, or goes on without it.
LEMMA Dones ==
  ASSUME RunTypes, NEW r \in Runs, NEW n \in run[r].todo,
         NEW at \in {"idle", "append", "replay", "fetch", "advance"}, Done(r, n, at),
         at \in {"fetch", "advance"} => run[r].todo = {n},
         at \in {"append", "replay"} => run[r].todo # {n}
  PROVE  /\ RunTypes' /\ \A q \in Runs \ {r} : run'[q] = run[q]
         /\ \/ /\ at = "idle" /\ run'[r] = Idle /\ overlap' = overlap \ {r} /\ Busy' = Busy \ {r}
               /\ lock' = IF lock = r THEN Nobody ELSE lock
            \/ /\ at # "idle" /\ UNCHANGED <<lock, overlap>> /\ Busy' = Busy
               /\ run'[r].at = at /\ run'[r].todo = run[r].todo \ {n}
               /\ run'[r].kind = run[r].kind /\ run'[r].cursor = run[r].cursor
               /\ run'[r].full = run[r].full
               /\ run'[r].max = IF n.version > run[r].max THEN n.version ELSE run[r].max
<1>1. run[r] \in RunType /\ n \in NodeType /\ run[r].at # "idle"
  BY DEF RunTypes, RunType, HasNodes
<1>2. CASE at = "idle"
  BY <1>2, Ends DEF Done
<1>3. CASE at # "idle"
  <2> DEFINE m == IF n.version > run[r].max THEN n.version ELSE run[r].max
             rest == run[r].todo \ {n}
             as == [run[r] EXCEPT !.at = at, !.todo = rest, !.on = Nobody, !.max = m]
  <2>1. m \in Versions /\ rest \in SUBSET NodeType
    BY <1>1 DEF RunType, NodeType
  <2>2. run' = [run EXCEPT ![r] = as] /\ UNCHANGED <<lock, overlap>>
    BY <1>3 DEF Done
  <2>3. at \in {"append", "replay"} <=> rest # {}
    BY <1>3
  <2> HIDE DEF m, rest
  <2>4. /\ as \in RunType /\ as.at = at /\ as.todo = rest /\ as.max = m
        /\ as.kind = run[r].kind /\ as.cursor = run[r].cursor /\ as.full = run[r].full
    BY <1>1, <2>1 DEF RunType, States
  <2> HIDE DEF as
  <2>5. RunTypes' /\ run'[r] = as /\ Busy' = Busy /\ \A q \in Runs \ {r} : run'[q] = run[q]
    BY <1>1, <1>3, <2>2, <2>3, <2>4, Continues
  <2> QED BY <1>3, <2>2, <2>4, <2>5 DEF m, rest
<1> QED BY <1>2, <1>3

LEMMA NodeTypes ==
  ASSUME StoreTypes, NEW o \in Orders
  PROVE  Node(store[o], o) \in NodeType /\ Node(store[o], o).order = o /\ Node(store[o], o).version = store[o]
BY VersionNumbers DEF StoreTypes, Node, NodeType

\* The append: the run turns to the projection of its node, and the raw log
\* holds the node afterwards.
LEMMA Appends ==
  ASSUME Types, NEW r \in Runs, AppendEvent(r)
  PROVE  /\ run[r].at = "append" /\ RunTypes' /\ Busy' = Busy
         /\ UNCHANGED <<clock, store, refused, bulk, live, watermark, tracked, exports, writer, dropped,
                        bounds, lock, overlap>>
         /\ log' \in Seq(EventType) /\ \A o, v : Logged(o, v) => Logged(o, v)'
         /\ \A q \in Runs \ {r} : run'[q] = run[q]
         /\ run'[r].at = "project" /\ run'[r].todo = run[r].todo /\ run'[r].kind = run[r].kind
         /\ run'[r].cursor = run[r].cursor /\ run'[r].max = run[r].max
         /\ run'[r].on \in run[r].todo /\ OnLogged(r)'
<1>1. /\ run[r].at = "append"
      /\ UNCHANGED <<clock, store, refused, bulk, live, watermark, tracked, exports, writer, dropped, bounds>>
  BY DEF AppendEvent
<1>2. PICK n \in run[r].todo :
          /\ log' = IF Inserts(n) THEN Append(log, [order |-> n.order, version |-> n.version])
                    ELSE log
          /\ run' = [run EXCEPT ![r].at = "project", ![r].on = n]
          /\ UNCHANGED <<lock, overlap>>
  BY DEF AppendEvent, ProjectEvent
<1>3. run[r] \in RunType /\ n \in NodeType /\ run[r].todo # {}
  BY DEF Types, RunTypes, RunType
<1> DEFINE as == [run[r] EXCEPT !.at = "project", !.on = n]
           e == [order |-> n.order, version |-> n.version]
<1>4. /\ as \in RunType /\ as.at = "project" /\ as.todo = run[r].todo /\ as.on = n
      /\ as.kind = run[r].kind /\ as.cursor = run[r].cursor /\ as.max = run[r].max
  BY <1>3 DEF RunType, States
<1>5. run' = [run EXCEPT ![r] = as]
  BY <1>2
<1> HIDE DEF as
<1>6. RunTypes' /\ run'[r] = as /\ Busy' = Busy /\ \A q \in Runs \ {r} : run'[q] = run[q]
  BY <1>1, <1>2, <1>3, <1>4, <1>5, Continues DEF Types
<1>7. e \in EventType /\ log \in Seq(EventType)
  BY <1>3 DEF EventType, NodeType, Types, TableTypes
<1>8. /\ log' \in Seq(EventType) /\ \A o, v : Logged(o, v) => Logged(o, v)'
      /\ Logged(n.order, n.version)'
  <2>1. CASE Inserts(n)
    <3>1. log' = Append(log, e)
      BY <1>2, <2>1
    <3> HIDE DEF e
    <3>2. /\ log' \in Seq(EventType) /\ Len(log') = Len(log) + 1 /\ Len(log) \in Nat
          /\ \A i \in 1 .. Len(log) : log'[i] = log[i]
          /\ log'[Len(log) + 1] = e
          /\ DOMAIN log = 1 .. Len(log) /\ DOMAIN log' = 1 .. Len(log')
      BY <1>7, <3>1, AppendProperties, LenProperties
    <3>3. \A i \in DOMAIN log : i \in DOMAIN log' /\ log'[i] = log[i]
      BY <3>2
    <3>4. Len(log) + 1 \in DOMAIN log'
      BY <3>2
    <3> QED BY <3>2, <3>3, <3>4 DEF Logged, e
  <2>2. CASE ~Inserts(n)
    <3>1. log' = log
      BY <1>2, <2>2
    <3>2. PICK k \in DOMAIN log : Latest(n.order, k) /\ log[k].version = n.version
      BY <2>2 DEF Inserts
    <3>3. log[k] \in EventType /\ log[k].order = n.order
      BY <1>7, <3>2, ElementOfSeq, LenProperties DEF Latest
    <3>4. log[k] = e
      BY <3>2, <3>3 DEF EventType
    <3>5. Logged(n.order, n.version)
      BY <3>4 DEF Logged
    <3> QED BY <1>7, <3>1, <3>5 DEF Logged
  <2> QED BY <2>1, <2>2
<1>9. OnLogged(r)'
  BY <1>4, <1>6, <1>8 DEF OnLogged
<1> QED BY <1>1, <1>2, <1>4, <1>6, <1>8, <1>9

\* A projection, of the incremental runs, the exports or a replay.
LEMMA Projects ==
  ASSUME Types, NEW r \in Runs, Project(r) \/ ReplayEvent(r)
  PROVE  \E n \in run[r].todo :
         /\ RunTypes' /\ \A q \in Runs \ {r} : run'[q] = run[q]
         /\ run[r].at = "project" => n = run[r].on
         /\ run[r].at \in {"project", "replay"}
         /\ live' = [live EXCEPT ![n.order] = n.version]
         /\ writer' = [writer EXCEPT ![n.order] = IF r \in overlap THEN "overlap" ELSE run[r].kind]
         /\ live' \in [Orders -> Versions] /\ writer' \in [Orders -> RunKinds \cup {"overlap"}]
         /\ UNCHANGED <<clock, store, refused, bulk, log, watermark, tracked, exports, dropped, bounds>>
         /\ \/ /\ run'[r] = Idle /\ overlap' = overlap \ {r} /\ Busy' = Busy \ {r}
               /\ lock' = IF lock = r THEN Nobody ELSE lock
            \/ /\ UNCHANGED <<lock, overlap>> /\ Busy' = Busy
               /\ run'[r].at \in {"append", "replay", "fetch", "advance"}
               /\ run'[r].at = "fetch" => run[r].kind = "incremental"
               /\ run'[r].at = "advance" => run[r].kind = "backfill"
               /\ run'[r].at = "replay" => run[r].at = "replay"
               /\ run'[r].todo = run[r].todo \ {n}
               /\ run'[r].kind = run[r].kind /\ run'[r].cursor = run[r].cursor
               /\ run'[r].max = IF n.version > run[r].max THEN n.version ELSE run[r].max
<1>1. run[r].at \in {"project", "replay"} /\ run[r].todo # {} /\ run[r] \in RunType
  BY DEF Project, ReplayEvent, Types, RunTypes, HasNodes
<1>2. \E n \in run[r].todo : \E at \in {"idle", "append", "replay", "fetch", "advance"} :
          /\ run[r].at = "project" => n = run[r].on
          /\ ProjectNode(r, n) /\ Done(r, n, at)
          /\ at \in {"fetch", "advance"} => run[r].todo = {n}
          /\ at \in {"append", "replay"} => run[r].todo # {n}
          /\ at = "fetch" => run[r].kind = "incremental"
          /\ at = "advance" => run[r].kind = "backfill"
          /\ at = "replay" => run[r].at = "replay"
  <2>1. CASE Project(r)
    <3>1. run[r].on \in run[r].todo
      BY <2>1 DEF Project, Types, RunTypes, HasNodes
    <3> DEFINE at == IF run[r].todo = {run[r].on} THEN After(run[r].kind) ELSE "append"
    <3>2. /\ After(run[r].kind) \in {"idle", "fetch", "advance"}
          /\ After(run[r].kind) = "fetch" => run[r].kind = "incremental"
          /\ After(run[r].kind) = "advance" => run[r].kind = "backfill"
      BY DEF After
    <3>3. ProjectNode(r, run[r].on) /\ Done(r, run[r].on, at)
      BY <2>1 DEF Project
    <3>4. /\ at \in {"idle", "append", "fetch", "advance"}
          /\ at \in {"fetch", "advance"} => run[r].todo = {run[r].on}
          /\ at = "append" => run[r].todo # {run[r].on}
          /\ at = "fetch" => run[r].kind = "incremental"
          /\ at = "advance" => run[r].kind = "backfill"
      BY <3>2
    <3> HIDE DEF at
    <3> QED BY <3>1, <3>3, <3>4
  <2>2. CASE ReplayEvent(r)
    <3>1. PICK n \in run[r].todo :
              ProjectNode(r, n) /\ Done(r, n, IF run[r].todo = {n} THEN "idle" ELSE "replay")
      BY <2>2 DEF ReplayEvent
    <3>2. run[r].at = "replay"
      BY <2>2 DEF ReplayEvent
    <3> QED BY <3>1, <3>2
  <2> QED BY <2>1, <2>2
<1>3. PICK n \in run[r].todo : \E at \in {"idle", "append", "replay", "fetch", "advance"} :
          /\ run[r].at = "project" => n = run[r].on
          /\ ProjectNode(r, n) /\ Done(r, n, at)
          /\ at \in {"fetch", "advance"} => run[r].todo = {n}
          /\ at \in {"append", "replay"} => run[r].todo # {n}
          /\ at = "fetch" => run[r].kind = "incremental"
          /\ at = "advance" => run[r].kind = "backfill"
          /\ at = "replay" => run[r].at = "replay"
  BY <1>2
<1>4. PICK at \in {"idle", "append", "replay", "fetch", "advance"} :
          /\ Done(r, n, at)
          /\ at \in {"fetch", "advance"} => run[r].todo = {n}
          /\ at \in {"append", "replay"} => run[r].todo # {n}
          /\ at = "fetch" => run[r].kind = "incremental"
          /\ at = "advance" => run[r].kind = "backfill"
          /\ at = "replay" => run[r].at = "replay"
  BY <1>3
<1>5. /\ live' = [live EXCEPT ![n.order] = n.version]
      /\ writer' = [writer EXCEPT ![n.order] = IF r \in overlap THEN "overlap" ELSE run[r].kind]
      /\ UNCHANGED <<clock, store, refused, bulk, log, watermark, tracked, exports, dropped, bounds>>
  BY <1>3 DEF ProjectNode
<1>6. n \in NodeType
  BY <1>1 DEF RunType
<1>7. live' \in [Orders -> Versions] /\ writer' \in [Orders -> RunKinds \cup {"overlap"}]
  BY <1>1, <1>5, <1>6 DEF Types, TableTypes, NodeType, RunType
<1>8. /\ RunTypes' /\ \A q \in Runs \ {r} : run'[q] = run[q]
      /\ \/ /\ at = "idle" /\ run'[r] = Idle /\ overlap' = overlap \ {r} /\ Busy' = Busy \ {r}
            /\ lock' = IF lock = r THEN Nobody ELSE lock
         \/ /\ at # "idle" /\ UNCHANGED <<lock, overlap>> /\ Busy' = Busy
            /\ run'[r].at = at /\ run'[r].todo = run[r].todo \ {n}
            /\ run'[r].kind = run[r].kind /\ run'[r].cursor = run[r].cursor
            /\ run'[r].max = IF n.version > run[r].max THEN n.version ELSE run[r].max
  BY <1>4, Dones DEF Types
<1> QED BY <1>1, <1>3, <1>4, <1>5, <1>7, <1>8

\* A run that begins: its record, and what the others see of it.
Began(r, as) ==
    /\ RunTypes' /\ run'[r] = as /\ \A q \in Runs \ {r} : run'[q] = run[q]
    /\ run[r].at = "idle" /\ lock = Nobody /\ lock' = r
    /\ overlap' = IF Busy = {} THEN overlap ELSE overlap \cup {r}
    /\ Busy' = Busy \cup {r}

WalkFrom(v) == [Idle EXCEPT !.at = "fetch", !.kind = "incremental", !.cursor = v]

LEMMA StartsWalk ==
  ASSUME Types, NEW r \in Runs, StartIncremental(r)
  PROVE  /\ Began(r, WalkFrom(watermark))
         /\ WalkFrom(watermark).at = "fetch" /\ WalkFrom(watermark).kind = "incremental"
         /\ WalkFrom(watermark).todo = {} /\ WalkFrom(watermark).cursor = watermark
         /\ WalkFrom(watermark).max = 0
         /\ UNCHANGED <<clock, store, refused, bulk, db, dropped, bounds>>
<1> DEFINE as == WalkFrom(watermark)
<1>1. Begin(r) /\ Take(r, as) /\ UNCHANGED <<clock, store, refused, bulk, db, dropped, bounds>>
  BY DEF StartIncremental, WalkFrom
<1>2. /\ as \in RunType /\ as.at = "fetch" /\ as.kind = "incremental" /\ as.todo = {}
      /\ as.cursor = watermark /\ as.max = 0
  BY VersionNumbers DEF WalkFrom, Idle, RunType, States, RunKinds, Types, TableTypes
<1> HIDE DEF as
<1>3. Began(r, as)
  BY <1>1, <1>2, Takes DEF Types, Began
<1> QED BY <1>1, <1>2, <1>3 DEF as

Operation(op) == [Idle EXCEPT !.at = "track", !.kind = "backfill", !.op = op]

LEMMA StartsBulk ==
  ASSUME Types, NEW r \in Runs, StartBulk(r)
  PROVE  /\ UNCHANGED <<clock, store, refused, db, dropped>>
         /\ \/ UNCHANGED <<bulk, lock, run, overlap>>
            \/ /\ bulk' = [id |-> bulk.id + 1, status |-> "RUNNING", nodes |-> {}]
               /\ Began(r, Operation(bulk.id + 1))
               /\ Operation(bulk.id + 1).at = "track" /\ Operation(bulk.id + 1).kind = "backfill"
               /\ Operation(bulk.id + 1).todo = {} /\ Operation(bulk.id + 1).max = 0
               /\ Operation(bulk.id + 1).cursor = 0
<1> DEFINE op == bulk.id + 1
           as == Operation(op)
<1>1. UNCHANGED <<clock, store, refused, db, dropped>> /\ Begin(r)
  BY DEF StartBulk, Backfilling
<1>2. CASE bulk.status = "RUNNING"
  BY <1>1, <1>2 DEF StartBulk
<1>3. CASE bulk.status # "RUNNING"
  <2>1. bulk' = [id |-> op, status |-> "RUNNING", nodes |-> {}] /\ Take(r, as)
    BY <1>3 DEF StartBulk, Operation
  <2>2. op \in Nat
    BY DEF Types, StoreTypes
  <2> HIDE DEF op
  <2>3. /\ as \in RunType /\ as.at = "track" /\ as.kind = "backfill" /\ as.todo = {} /\ as.max = 0
        /\ as.cursor = 0
    BY <2>2, VersionNumbers DEF Operation, Idle, RunType, States, RunKinds
  <2> HIDE DEF as
  <2>4. Began(r, as)
    BY <1>1, <2>1, <2>3, Takes DEF Types, Began
  <2> QED BY <1>1, <2>1, <2>3, <2>4 DEF as, op
<1> QED BY <1>2, <1>3

Import(nodes) == [Idle EXCEPT !.at = IF nodes = {} THEN "advance" ELSE "append",
                              !.kind = "backfill", !.todo = nodes]

LEMMA Imports ==
  ASSUME Types, NEW r \in Runs, IngestExport(r)
  PROVE  /\ UNCHANGED <<clock, store, refused, bulk, log, live, watermark, tracked, writer>>
         /\ exports' \in Seq(SUBSET NodeType)
         /\ \/ \E bad \in SUBSET bulk.nodes :
                  /\ dropped' = dropped \cup bad /\ Began(r, Import(bulk.nodes \ bad))
                  /\ Import(bulk.nodes \ bad).at \in {"advance", "append"}
                  /\ Import(bulk.nodes \ bad).kind = "backfill"
                  /\ Import(bulk.nodes \ bad).todo = bulk.nodes \ bad
                  /\ Import(bulk.nodes \ bad).max = 0 /\ Import(bulk.nodes \ bad).cursor = 0
            \/ UNCHANGED <<dropped, lock, run, overlap>>
<1>1. /\ UNCHANGED <<clock, store, refused, bulk, log, live, watermark, tracked, writer>> /\ Begin(r)
      /\ exports' = Append(exports, bulk.nodes)
  BY DEF IngestExport, Backfilling
<1>2. bulk.nodes \in SUBSET NodeType
  BY DEF Types, StoreTypes
<1>3. exports' \in Seq(SUBSET NodeType)
  BY <1>1, <1>2, AppendProperties DEF Types, TableTypes
<1>4. CASE UNCHANGED <<dropped, lock, run, overlap>>
  BY <1>1, <1>3, <1>4
<1>5. CASE \E bad \in SUBSET bulk.nodes :
              /\ Cardinality(bad) <= 1 /\ dropped' = dropped \cup bad
              /\ Take(r, [Idle EXCEPT !.at = IF bulk.nodes = bad THEN "advance" ELSE "append",
                             !.kind = "backfill", !.todo = bulk.nodes \ bad])
  <2>1. PICK bad \in SUBSET bulk.nodes :
              /\ dropped' = dropped \cup bad
              /\ Take(r, [Idle EXCEPT !.at = IF bulk.nodes = bad THEN "advance" ELSE "append",
                             !.kind = "backfill", !.todo = bulk.nodes \ bad])
    BY <1>5
  <2> DEFINE as == Import(bulk.nodes \ bad)
  <2>2. Take(r, as)
    <3>1. bulk.nodes = bad <=> bulk.nodes \ bad = {}
      BY <2>1
    <3> QED BY <2>1, <3>1 DEF Import
  <2>3. /\ as \in RunType /\ as.at \in {"advance", "append"} /\ as.kind = "backfill"
        /\ as.todo = bulk.nodes \ bad /\ as.max = 0 /\ as.cursor = 0
        /\ as.at = "append" <=> as.todo # {}
    BY <1>2, VersionNumbers DEF Import, Idle, RunType, States, RunKinds
  <2> HIDE DEF as
  <2>4. Began(r, as)
    BY <1>1, <2>2, <2>3, Takes DEF Types, Began
  <2> QED BY <1>1, <1>3, <2>1, <2>3, <2>4 DEF as
<1> QED BY <1>4, <1>5 DEF IngestExport

\* Event k of the log, as a replay works on it.
Event(k) == [place |-> k, order |-> log[k].order, version |-> log[k].version]

\* A replay holds events of the log, and advances nothing.
LEMMA Replays ==
  ASSUME Types, NEW r \in Runs, NEW picked \in SUBSET DOMAIN log, Replay(r, picked)
  PROVE  /\ UNCHANGED <<clock, store, refused, bulk, db, dropped>>
         /\ \E as \in RunType :
               /\ Began(r, as) /\ as.at = "replay" /\ as.kind = "replay"
               /\ \A n \in as.todo : Logged(n.order, n.version)
               /\ as.full = (picked = DOMAIN log) /\ as.todo = {Event(k) : k \in picked}
<1> DEFINE event(k) == [place |-> Place(k), order |-> log[k].order, version |-> log[k].version]
           events == {event(k) : k \in picked}
           whole == picked = DOMAIN log
           as == [Idle EXCEPT !.at = "replay", !.kind = "replay", !.full = whole, !.todo = events]
<1>1. /\ UNCHANGED <<clock, store, refused, bulk, db, dropped>> /\ Begin(r) /\ picked # {}
      /\ Take(r, as)
  BY DEF Replay, Command
<1>2. \A k \in picked : log[k] \in EventType /\ k \in Nat
  BY ElementOfSeq, LenProperties DEF Types, TableTypes
<1>3. \A k \in picked : event(k) \in NodeType /\ Logged(event(k).order, event(k).version)
  BY <1>2 DEF EventType, NodeType, Place, Logged
<1>4. events \in SUBSET NodeType /\ events # {} /\ \A n \in events : Logged(n.order, n.version)
  BY <1>1, <1>3
<1>5. whole \in BOOLEAN /\ events = {Event(k) : k \in picked}
  BY DEF Place, Event
<1> HIDE DEF events, whole
<1>6. /\ as \in RunType /\ as.at = "replay" /\ as.kind = "replay" /\ as.todo = events
      /\ as.full = whole
  BY <1>4, <1>5, VersionNumbers DEF Idle, RunType, States, RunKinds
<1> HIDE DEF as
<1>7. Began(r, as)
  BY <1>1, <1>4, <1>6, Takes DEF Types, Began
<1> QED BY <1>1, <1>4, <1>5, <1>6, <1>7 DEF whole

LEMMA Reingests ==
  ASSUME Types, NEW r \in Runs, NEW from \in DOMAIN exports, Reingest(r, from)
  PROVE  /\ UNCHANGED <<clock, store, refused, bulk, db, dropped>>
         /\ \E as \in RunType : Began(r, as) /\ as.at = "append" /\ as.kind = "reingest"
<1> DEFINE at(k, n) == [n EXCEPT !.place = k * (MaxChanges + 1) + @]
           nodes == UNION {{at(k, n) : n \in exports[k]} : k \in from .. Len(exports)}
           as == [Idle EXCEPT !.at = "append", !.kind = "reingest", !.todo = nodes]
<1>1. /\ UNCHANGED <<clock, store, refused, bulk, db, dropped>> /\ Begin(r) /\ nodes # {} /\ Take(r, as)
  BY DEF Reingest, Command
<1>2. nodes \in SUBSET NodeType
  <2> SUFFICES ASSUME NEW k \in from .. Len(exports), NEW n \in exports[k]
               PROVE  at(k, n) \in NodeType
    OBVIOUS
  <2>1. k \in Nat /\ n \in NodeType
    <3>1. from \in 1 .. Len(exports) /\ Len(exports) \in Nat
      BY LenProperties DEF Types, TableTypes
    <3>2. k \in 1 .. Len(exports)
      BY <3>1
    <3> QED BY <3>2, ElementOfSeq DEF Types, TableTypes
  <2> DEFINE c == k * (MaxChanges + 1)
             p == c + n.place
  <2>2. c \in Nat
    BY <2>1, IngestAssumption
  <2>3. p \in Nat
    <3> HIDE DEF c
    <3> QED BY <2>1, <2>2 DEF NodeType
  <2>4. at(k, n) = [n EXCEPT !.place = p]
    OBVIOUS
  <2> HIDE DEF p, at
  <2> QED BY <2>1, <2>3, <2>4 DEF NodeType
<1> HIDE DEF nodes
<1>3. as \in RunType /\ as.at = "append" /\ as.kind = "reingest" /\ as.todo = nodes
  BY <1>2, VersionNumbers DEF Idle, RunType, States, RunKinds
<1> HIDE DEF as
<1>4. Began(r, as)
  BY <1>1, <1>3, Takes DEF Types, Began
<1> QED BY <1>1, <1>3, <1>4

\* The next page of a walk, or none.
LEMMA Pages ==
  ASSUME Types, NEW r \in Runs, FetchPage(r)
  PROVE  /\ run[r].at = "fetch" /\ RunTypes' /\ Busy' = Busy
         /\ UNCHANGED <<clock, store, refused, bulk, db, dropped, bounds, lock, overlap>>
         /\ \A q \in Runs \ {r} : run'[q] = run[q]
         /\ run'[r].kind = run[r].kind /\ run'[r].max = run[r].max
         /\ \/ run'[r].at = "advance" /\ run'[r].todo = run[r].todo /\ run'[r].cursor = run[r].cursor
            \/ /\ run'[r].at = "append"
               /\ run'[r].cursor \in Versions /\ run'[r].cursor >= run[r].cursor
               /\ \E last \in Orders : run'[r].cursor = store[last]
               /\ \A n \in run'[r].todo : /\ n.order \in Orders /\ n.version = store[n.order]
                                          /\ n.version <= run'[r].cursor
               /\ \A o \in Exist : store[o] > run[r].cursor /\ store[o] <= run'[r].cursor =>
                     \E n \in run'[r].todo : n.order = o /\ n.version = store[o]
<1>1. run[r].at = "fetch" /\ UNCHANGED <<clock, store, refused, bulk, db, dropped, bounds>>
  BY DEF FetchPage
<1>2. run[r] \in RunType /\ run[r].todo = {} /\ run[r].cursor \in Versions
  BY <1>1 DEF Types, RunTypes, HasNodes, RunType
<1>3. CASE Ahead(r) = {}
  <2>1. GoOn(r, "advance")
    BY <1>3 DEF FetchPage
  <2>2. /\ RunTypes' /\ run'[r] = [run[r] EXCEPT !.at = "advance"]
        /\ \A q \in Runs \ {r} : run'[q] = run[q]
        /\ Busy' = Busy /\ UNCHANGED <<lock, overlap>>
    BY <1>1, <1>2, <2>1, GoesOn DEF Types
  <2>3. /\ run'[r].at = "advance" /\ run'[r].todo = run[r].todo /\ run'[r].cursor = run[r].cursor
        /\ run'[r].kind = run[r].kind /\ run'[r].max = run[r].max
    BY <1>2, <2>2 DEF RunType
  <2> QED BY <1>1, <2>2, <2>3
<1>4. CASE Ahead(r) # {}
  <2>1. PICK P \in SUBSET Ahead(r) : \E last \in P :
            /\ \A o \in P : store[o] <= store[last]
            /\ \A o \in Ahead(r) \ P : store[o] > store[last]
            /\ run' = [run EXCEPT ![r].at = "append", ![r].cursor = store[last],
                          ![r].todo = {Node(store[o], o) : o \in P}]
            /\ UNCHANGED <<lock, overlap>>
    BY <1>4 DEF FetchPage
  <2>2. PICK last \in P :
            /\ \A o \in P : store[o] <= store[last]
            /\ \A o \in Ahead(r) \ P : store[o] > store[last]
            /\ run' = [run EXCEPT ![r].at = "append", ![r].cursor = store[last],
                          ![r].todo = {Node(store[o], o) : o \in P}]
            /\ UNCHANGED <<lock, overlap>>
    BY <2>1
  <2> DEFINE nodes == {Node(store[o], o) : o \in P}
             as == [run[r] EXCEPT !.at = "append", !.cursor = store[last], !.todo = nodes]
  <2>3. P \subseteq Orders /\ last \in Orders /\ P \subseteq Ahead(r) /\ P # {}
    BY <2>1, <2>2 DEF Ahead, Exist
  <2>4. /\ nodes \in SUBSET NodeType /\ nodes # {}
        /\ \A n \in nodes : n.order \in P /\ n.version = store[n.order]
        /\ \A o \in P : \E n \in nodes : n.order = o /\ n.version = store[o]
    BY <2>3, NodeTypes DEF Types
  <2>5. store[last] \in Versions /\ \A o \in Orders : store[o] \in Nat
    BY <2>3, VersionNumbers DEF Types, StoreTypes
  <2>6. store[last] >= run[r].cursor
    <3>1. store[last] > run[r].cursor \/ store[last] = run[r].cursor
      BY <2>2, <2>3 DEF Ahead
    <3>2. store[last] \in Nat /\ run[r].cursor \in Nat
      BY <1>2, <2>5, VersionNumbers
    <3> QED BY <3>1, <3>2
  <2>7. run' = [run EXCEPT ![r] = as]
    BY <2>2
  <2> HIDE DEF nodes
  <2>8. /\ as \in RunType /\ as.at = "append" /\ as.cursor = store[last] /\ as.todo = nodes
        /\ as.kind = run[r].kind /\ as.max = run[r].max
    BY <1>2, <2>4, <2>5 DEF RunType, States
  <2> HIDE DEF as
  <2>9. RunTypes' /\ run'[r] = as /\ Busy' = Busy /\ \A q \in Runs \ {r} : run'[q] = run[q]
    <3>1. UNCHANGED <<lock, overlap>> /\ run[r].at # "idle" /\ RunTypes
      BY <1>1, <2>2 DEF Types
    <3>2. /\ as.at # "idle" /\ as.at \in {"append", "project", "replay"} <=> as.todo # {}
          /\ as.at = "project" => as.on \in as.todo
      BY <2>4, <2>8
    <3> QED BY <2>7, <2>8, <3>1, <3>2, Continues
  <2>10. ASSUME NEW o \in Exist, store[o] > run[r].cursor, store[o] <= store[last]
         PROVE  \E n \in nodes : n.order = o /\ n.version = store[o]
    <3>1. o \in Ahead(r) /\ o \in Orders
      BY <2>10 DEF Ahead, Exist
    <3>2. store[o] \in Nat /\ store[last] \in Nat
      BY <2>3, <2>5, <3>1
    <3>3. ~(store[o] > store[last])
      BY <2>10, <3>2
    <3>4. o \in P
      BY <2>2, <3>1, <3>3
    <3> QED BY <2>4, <3>4
  <2>11. \A n \in nodes : n.order \in Orders /\ n.version <= store[last]
    BY <2>2, <2>3, <2>4
  <2>12. /\ run'[r].at = "append" /\ run'[r].cursor = store[last] /\ run'[r].todo = nodes
         /\ run'[r].kind = run[r].kind /\ run'[r].max = run[r].max
    BY <2>8, <2>9
  <2>13. /\ \A n \in run'[r].todo : n.order \in Orders /\ n.version = store[n.order]
         /\ \A n \in run'[r].todo : n.version <= run'[r].cursor
    BY <2>3, <2>4, <2>11, <2>12
  <2>14. \A o \in Exist : store[o] > run[r].cursor /\ store[o] <= run'[r].cursor =>
            \E n \in run'[r].todo : n.order = o /\ n.version = store[o]
    BY <2>10, <2>12
  <2>15. \E x \in Orders : run'[r].cursor = store[x]
    BY <2>3, <2>12
  <2>16. run'[r].cursor \in Versions /\ run'[r].cursor >= run[r].cursor
    BY <2>5, <2>6, <2>12
  <2>17. /\ RunTypes' /\ Busy' = Busy /\ UNCHANGED <<lock, overlap>>
         /\ \A q \in Runs \ {r} : run'[q] = run[q]
    BY <2>2, <2>9
  <2> HIDE DEF nodes
  <2> QED BY <1>1, <2>12, <2>13, <2>14, <2>15, <2>16, <2>17
<1> QED BY <1>3, <1>4

LEMMA Advances ==
  ASSUME Types, NEW r \in Runs, Advance(r)
  PROVE  /\ run[r].at = "advance" /\ run[r].todo = {} /\ RunTypes'
         /\ UNCHANGED <<clock, store, refused, bulk, log, live, tracked, exports, writer, dropped, bounds>>
         /\ watermark' = IF run[r].max > watermark THEN run[r].max ELSE watermark
         /\ watermark' \in Versions
         /\ \A q \in Runs \ {r} : run'[q] = run[q]
         /\ \/ /\ run'[r] = Idle /\ overlap' = overlap \ {r} /\ Busy' = Busy \ {r}
               /\ lock' = IF lock = r THEN Nobody ELSE lock
            \/ /\ run'[r] = [run[r] EXCEPT !.at = "untrack"] /\ run[r].kind = "backfill"
               /\ UNCHANGED <<lock, overlap>> /\ Busy' = Busy
<1>1. /\ run[r].at = "advance"
      /\ UNCHANGED <<clock, store, refused, bulk, log, live, tracked, exports, writer, dropped, bounds>>
      /\ watermark' = IF run[r].max > watermark THEN run[r].max ELSE watermark
  BY DEF Advance, Candidate
<1>2. run[r].todo = {} /\ run[r] \in RunType
  BY <1>1 DEF Types, RunTypes, HasNodes
<1>3. watermark' \in Versions
  BY <1>1, <1>2 DEF Types, TableTypes, RunType
<1>4. CASE run[r].kind = "backfill"
  <2>1. GoOn(r, "untrack")
    BY <1>4 DEF Advance
  <2> QED BY <1>1, <1>2, <1>3, <1>4, <2>1, GoesOn DEF Types
<1>5. CASE run[r].kind # "backfill"
  BY <1>1, <1>2, <1>3, <1>5, Ends DEF Advance, Types
<1> QED BY <1>4, <1>5

LEMMA Untracks ==
  ASSUME Types, NEW r \in Runs, TrackBulk(r) \/ UntrackBulk(r)
  PROVE  /\ RunTypes' /\ run'[r] = Idle /\ \A q \in Runs \ {r} : run'[q] = run[q]
         /\ lock' = IF lock = r THEN Nobody ELSE lock
         /\ overlap' = overlap \ {r} /\ Busy' = Busy \ {r} /\ tracked' \in Nat
         /\ UNCHANGED <<clock, store, refused, bulk, log, live, watermark, exports, writer, dropped, bounds>>
<1>1. run[r] \in RunType
  BY DEF Types, RunTypes
<1> QED BY <1>1, Ends DEF TrackBulk, UntrackBulk, Types, RunType

LEMMA Failed ==
  ASSUME Types, NEW r \in Runs, Reject(r) \/ Fail(r)
  PROVE  /\ RunTypes' /\ run'[r] = Idle /\ \A q \in Runs \ {r} : run'[q] = run[q]
         /\ lock' = IF lock = r THEN Nobody ELSE lock
         /\ overlap' = overlap \ {r} /\ Busy' = Busy \ {r}
         /\ UNCHANGED <<clock, store, refused, bulk, db, dropped>>
BY Ends DEF Reject, Fail, Types

LEMMA Killed ==
  ASSUME Types, NEW r \in Runs, Kill(r)
  PROVE  /\ RunTypes' /\ run'[r] = Idle /\ \A q \in Runs \ {r} : run'[q] = run[q]
         /\ UNCHANGED <<clock, store, refused, bulk, db, lock, dropped>>
         /\ overlap' = overlap \ {r} /\ Busy' = Busy \ {r}
<1>1. run' = [run EXCEPT ![r] = Idle] /\ UNCHANGED <<clock, store, refused, bulk, db, lock, dropped>>
      /\ overlap' = overlap \ {r}
  BY DEF Kill
<1>2. run' \in [Runs -> RunType] /\ run'[r] = Idle /\ \A q \in Runs \ {r} : run'[q] = run[q]
  BY <1>1, IdleType DEF Types, RunTypes
<1>3. Busy' = Busy \ {r}
  BY <1>2, IdleType DEF Busy
<1>4. \A q \in Runs : HasNodes(q)'
  BY <1>2, IdleType DEF HasNodes, Types, RunTypes
<1> QED BY <1>1, <1>2, <1>3, <1>4 DEF Types, RunTypes

LEMMA LostSession ==
  ASSUME Types, NEW r \in Runs, LoseSession(r)
  PROVE  /\ RunTypes' /\ Busy' = Busy /\ UNCHANGED <<clock, store, refused, bulk, db, run, dropped>>
         /\ lock' = Nobody /\ overlap' = overlap \cup {r}
<1>1. /\ UNCHANGED <<clock, store, refused, bulk, db, run, dropped>> /\ run[r].at # "idle"
      /\ lock' = Nobody /\ overlap' = overlap \cup {r}
  BY DEF LoseSession
<1> QED BY <1>1 DEF Types, RunTypes, HasNodes, Busy

LEMMA Exports ==
  ASSUME Types, BulkEnds
  PROVE  /\ UNCHANGED <<clock, store, refused, db, lock, run, overlap, dropped, bounds>>
         /\ bulk' \in [id : Nat, status : {"NONE", "RUNNING", "COMPLETED", "FAILED"},
                       nodes : SUBSET NodeType]
         /\ \/ bulk'.nodes = bulk.nodes
            \/ /\ \A n \in bulk'.nodes : n.order \in Orders /\ n.version = store[n.order]
               /\ \A o \in Exist : \E n \in bulk'.nodes : n.order = o /\ n.version = store[o]
<1>1. UNCHANGED <<clock, store, refused, db, lock, run, overlap, dropped, bounds>>
  BY DEF BulkEnds
<1> DEFINE nodes == {Node(store[o], o) : o \in Exist}
<1>2. Exist \subseteq Orders
  BY DEF Exist
<1>3. /\ nodes \in SUBSET NodeType
      /\ \A n \in nodes : n.order \in Orders /\ n.version = store[n.order]
      /\ \A o \in Exist : \E n \in nodes : n.order = o /\ n.version = store[o]
  BY <1>2, NodeTypes DEF Types
<1>4. \/ bulk' = [bulk EXCEPT !.status = "COMPLETED", !.nodes = nodes]
      \/ bulk' = [bulk EXCEPT !.status = "FAILED"]
  BY DEF BulkEnds
<1> HIDE DEF nodes
<1> QED BY <1>1, <1>3, <1>4 DEF Types, StoreTypes

LEMMA StepTypes ==
  ASSUME Types, NEW r \in Runs, Step(r)
  PROVE  Types'
<1>1. CASE FetchPage(r)
  BY <1>1, Pages DEF Types, StoreTypes, TableTypes, db
<1>2. CASE AppendEvent(r)
  BY <1>2, Appends DEF Types, StoreTypes, TableTypes
<1>3. CASE Project(r) \/ ReplayEvent(r)
  BY <1>3, Projects DEF Types, StoreTypes, TableTypes
<1>4. CASE Advance(r)
  BY <1>4, Advances DEF Types, StoreTypes, TableTypes
<1>5. CASE TrackBulk(r) \/ UntrackBulk(r)
  BY <1>5, Untracks DEF Types, StoreTypes, TableTypes
<1>6. CASE Reject(r)
  BY <1>6, Failed DEF Types, StoreTypes, TableTypes, db
<1> QED BY <1>1, <1>2, <1>3, <1>4, <1>5, <1>6 DEF Step

LEMMA BackfillTypes ==
  ASSUME Types, NEW r \in Runs, Backfill(r)
  PROVE  Types'
<1>1. CASE StartBulk(r)
  <2>1. RunTypes' /\ UNCHANGED <<clock, store, refused, db>>
    BY <1>1, StartsBulk DEF Began, Types, RunTypes, HasNodes, Busy
  <2>2. StoreTypes'
    <3>1. bulk' = bulk \/ bulk' = [id |-> bulk.id + 1, status |-> "RUNNING", nodes |-> {}]
      BY <1>1, StartsBulk
    <3>2. bulk.id + 1 \in Nat
      BY DEF Types, StoreTypes
    <3> QED BY <2>1, <3>1, <3>2 DEF Types, StoreTypes
  <2> QED BY <2>1, <2>2 DEF Types, TableTypes, db
<1>2. CASE PollBulk(r)
  <2>1. /\ UNCHANGED <<clock, store, refused, bulk, log, live, watermark, exports, writer, lock, run, overlap>>
        /\ tracked' = tracked \/ tracked' = 0
    BY <1>2 DEF PollBulk
  <2> QED BY <2>1 DEF Types, StoreTypes, TableTypes, RunTypes, HasNodes, Busy
<1>3. CASE IngestExport(r)
  <2>1. RunTypes'
    BY <1>3, Imports DEF Began, Types, RunTypes, HasNodes, Busy
  <2> QED BY <1>3, <2>1, Imports DEF Types, StoreTypes, TableTypes
<1> QED BY <1>1, <1>2, <1>3 DEF Backfill

LEMMA AdminTypes ==
  ASSUME Types, NEW r \in Runs, Admin(r)
  PROVE  Types'
<1>1. ASSUME NEW picked \in SUBSET DOMAIN log, Replay(r, picked)
      PROVE  Types'
  BY <1>1, Replays DEF Began, Types, StoreTypes, TableTypes, db
<1>2. ASSUME NEW from \in DOMAIN exports, Reingest(r, from)
      PROVE  Types'
  BY <1>2, Reingests DEF Began, Types, StoreTypes, TableTypes, db
<1>3. ASSUME NEW to \in 0 .. clock, ResetWatermark(r, to)
      PROVE  Types'
  <2>1. to \in Versions
    BY IngestAssumption DEF Types, StoreTypes, Versions
  <2>2. /\ watermark' = to
        /\ UNCHANGED <<clock, store, refused, bulk, log, live, tracked, exports, writer, lock, run, overlap>>
    BY <1>3 DEF ResetWatermark
  <2> QED BY <2>1, <2>2 DEF Types, StoreTypes, TableTypes, RunTypes, HasNodes, Busy
<1> QED BY <1>1, <1>2, <1>3 DEF Admin

LEMMA NextTypes ==
  ASSUME Types, [Next]_vars
  PROVE  Types'
<1>1. CASE UNCHANGED vars
  BY <1>1 DEF vars, db, bounds, Types, StoreTypes, TableTypes, RunTypes, HasNodes, Busy
<1>2. ASSUME NEW o \in Orders, Change(o)
      PROVE  Types'
  <2>1. /\ clock + 1 \in Versions /\ clock' = clock + 1
        /\ store' = [store EXCEPT ![o] = clock + 1]
        /\ UNCHANGED <<bulk, db, lock, run, overlap>>
    BY <1>2, VersionNumbers DEF Change, Types, StoreTypes
  <2>2. refused' \subseteq Versions \X {"append", "project"}
    BY <1>2, <2>1 DEF Change, Types, StoreTypes
  <2> QED BY <2>1, <2>2 DEF db, Types, StoreTypes, TableTypes, RunTypes, HasNodes, Busy
<1>3. CASE BulkEnds
  BY <1>3, Exports DEF db, Types, StoreTypes, TableTypes, RunTypes, HasNodes, Busy
<1>4. CASE SessionEnds
  BY <1>4 DEF SessionEnds, db, Types, StoreTypes, TableTypes, RunTypes, HasNodes, Busy
<1>5. ASSUME NEW r \in Runs, StartIncremental(r)
      PROVE  Types'
  BY <1>5, StartsWalk DEF Began, db, Types, StoreTypes, TableTypes
<1>6. ASSUME NEW r \in Runs, Kill(r)
      PROVE  Types'
  BY <1>6, Killed DEF db, Types, StoreTypes, TableTypes
<1>7. ASSUME NEW r \in Runs, LoseSession(r)
      PROVE  Types'
  BY <1>7, LostSession DEF db, Types, StoreTypes, TableTypes
<1>8. ASSUME NEW r \in Runs, Fail(r)
      PROVE  Types'
  BY <1>8, Failed DEF db, Types, StoreTypes, TableTypes
<1>9. CASE Repair
  BY <1>9 DEF Repair, db, Types, StoreTypes, TableTypes, RunTypes, HasNodes, Busy
<1> QED BY <1>1, <1>2, <1>3, <1>4, <1>5, <1>6, <1>7, <1>8, <1>9, StepTypes, BackfillTypes,
           AdminTypes DEF Next

LEMMA InitTypes == Init => Types
<1> SUFFICES ASSUME Init
             PROVE  Types
  OBVIOUS
<1>1. StoreTypes
  BY VersionNumbers DEF Init, StoreTypes
<1>2. TableTypes
  BY VersionNumbers, EmptySeq DEF Init, TableTypes, RunKinds
<1>3. RunTypes
  BY IdleType DEF Init, RunTypes, HasNodes
<1> QED BY <1>1, <1>2, <1>3 DEF Types

-----------------------------------------------------------------------------
(* The raw log comes first.                                                *)

LEMMA LoggedFirstKept ==
  ASSUME Types, LoggedFirst, \A o, v : Logged(o, v) => Logged(o, v)',
         \A o \in Orders : live'[o] # 0 => live'[o] = live[o] \/ Logged(o, live'[o]),
         \A r \in Runs :
             \/ run'[r] = run[r]
             \/ /\ run'[r].at = "project" => OnLogged(r)'
                /\ run'[r].at = "replay" => \A n \in run'[r].todo : Logged(n.order, n.version)
  PROVE  LoggedFirst'
<1>1. \A r \in Runs : run'[r] = run[r] /\ run[r].at = "project" => OnLogged(r)'
  BY DEF LoggedFirst, OnLogged
<1>2. ASSUME NEW o \in Orders, live'[o] # 0
      PROVE  Logged(o, live'[o])
  BY <1>2 DEF LoggedFirst
<1> QED BY <1>1, <1>2 DEF LoggedFirst

LEMMA SameLog ==
  ASSUME log' = log
  PROVE  \A o, v : Logged(o, v) => Logged(o, v)'
BY DEF Logged

LEMMA BeganLogged ==
  ASSUME Types, LoggedFirst, log' = log, live' = live, NEW r \in Runs,
         NEW as, Began(r, as), as.at # "project",
         as.at = "replay" => \A n \in as.todo : Logged(n.order, n.version)
  PROVE  LoggedFirst'
BY SameLog, LoggedFirstKept DEF Began

LEMMA NextLogged ==
  ASSUME Types, LoggedFirst, [Next]_vars
  PROVE  LoggedFirst'
<1>1. ASSUME log' = log, live' = live,
             \/ run' = run
             \/ \E r \in Runs : run'[r] = Idle /\ \A q \in Runs \ {r} : run'[q] = run[q]
      PROVE  LoggedFirst'
  BY <1>1, IdleType, SameLog, LoggedFirstKept
<1>2. CASE UNCHANGED vars \/ BulkEnds \/ SessionEnds \/ Repair \/ \E o \in Orders : Change(o)
  BY <1>1, <1>2 DEF vars, db, BulkEnds, SessionEnds, Repair, Change
<1>3. ASSUME NEW r \in Runs, StartIncremental(r)
      PROVE  LoggedFirst'
  BY <1>3, StartsWalk, BeganLogged DEF db
<1>4. ASSUME NEW r \in Runs, Backfill(r)
      PROVE  LoggedFirst'
  <2>1. CASE StartBulk(r)
    <3>1. log' = log /\ live' = live
      BY <2>1, StartsBulk DEF db
    <3>2. run' = run \/ (Began(r, Operation(bulk.id + 1)) /\ Operation(bulk.id + 1).at = "track")
      BY <2>1, StartsBulk
    <3> QED BY <1>1, <3>1, <3>2, BeganLogged
  <2>2. CASE PollBulk(r)
    BY <1>1, <2>2 DEF PollBulk
  <2>3. CASE IngestExport(r)
    <3>1. log' = log /\ live' = live
      BY <2>3, Imports
    <3>2. run' = run \/ \E as : Began(r, as) /\ as.at \in {"advance", "append"}
      BY <2>3, Imports
    <3> QED BY <1>1, <3>1, <3>2, BeganLogged
  <2> QED BY <1>4, <2>1, <2>2, <2>3 DEF Backfill
<1>5. ASSUME NEW r \in Runs, Admin(r)
      PROVE  LoggedFirst'
  <2>1. ASSUME NEW picked \in SUBSET DOMAIN log, Replay(r, picked)
        PROVE  LoggedFirst'
    BY <2>1, Replays, BeganLogged DEF db
  <2>2. ASSUME NEW from \in DOMAIN exports, Reingest(r, from)
        PROVE  LoggedFirst'
    BY <2>2, Reingests, BeganLogged DEF db
  <2>3. ASSUME NEW to, ResetWatermark(r, to)
        PROVE  LoggedFirst'
    BY <1>1, <2>3 DEF ResetWatermark
  <2> QED BY <1>5, <2>1, <2>2, <2>3 DEF Admin
<1>6. ASSUME NEW r \in Runs, FetchPage(r)
      PROVE  LoggedFirst'
  <2>1. log' = log /\ live' = live /\ run'[r].at \in {"advance", "append"}
        /\ \A q \in Runs \ {r} : run'[q] = run[q]
    BY <1>6, Pages DEF db
  <2> QED BY <2>1, SameLog, LoggedFirstKept
<1>7. ASSUME NEW r \in Runs, AppendEvent(r)
      PROVE  LoggedFirst'
  BY <1>7, Appends, LoggedFirstKept
<1>8. ASSUME NEW r \in Runs, Project(r) \/ ReplayEvent(r)
      PROVE  LoggedFirst'
  <2>1. PICK n \in run[r].todo :
         /\ \A q \in Runs \ {r} : run'[q] = run[q]
         /\ run[r].at = "project" => n = run[r].on
         /\ run[r].at \in {"project", "replay"}
         /\ live' = [live EXCEPT ![n.order] = n.version]
         /\ log' = log
         /\ \/ run'[r] = Idle
            \/ /\ run'[r].at \in {"append", "replay", "fetch", "advance"}
               /\ run'[r].at = "replay" => run[r].at = "replay"
               /\ run'[r].todo = run[r].todo \ {n}
    BY <1>8, Projects
  <2>2. Logged(n.order, n.version)
    BY <2>1 DEF LoggedFirst, OnLogged
  <2>3. \A o \in Orders : live'[o] = live[o] \/ (o = n.order /\ live'[o] = n.version)
    BY <2>1 DEF Types, TableTypes
  <2>4. \A o \in Orders : live'[o] # 0 => live'[o] = live[o] \/ Logged(o, live'[o])
    BY <2>2, <2>3
  <2>5. run'[r].at = "replay" => \A m \in run'[r].todo : Logged(m.order, m.version)
    BY <2>1, IdleType DEF LoggedFirst
  <2>6. run'[r].at # "project"
    BY <2>1, IdleType
  <2> QED BY <2>1, <2>4, <2>5, <2>6, SameLog, LoggedFirstKept
<1>9. ASSUME NEW r \in Runs, Advance(r)
      PROVE  LoggedFirst'
  <2>1. log' = log /\ live' = live /\ \A q \in Runs \ {r} : run'[q] = run[q]
    BY <1>9, Advances
  <2>2. run'[r] = Idle \/ run'[r] = [run[r] EXCEPT !.at = "untrack"]
    BY <1>9, Advances
  <2>3. run'[r].at \in {"idle", "untrack"}
    BY <2>2, IdleType DEF Types, RunTypes, RunType
  <2> QED BY <2>1, <2>3, SameLog, LoggedFirstKept
<1>10. ASSUME NEW r \in Runs, TrackBulk(r) \/ UntrackBulk(r)
       PROVE  LoggedFirst'
  BY <1>1, <1>10, Untracks
<1>11. ASSUME NEW r \in Runs, Kill(r)
       PROVE  LoggedFirst'
  BY <1>1, <1>11, Killed DEF db
<1>12. ASSUME NEW r \in Runs, LoseSession(r)
       PROVE  LoggedFirst'
  BY <1>1, <1>12, LostSession DEF db
<1>13. ASSUME NEW r \in Runs, Reject(r) \/ Fail(r)
       PROVE  LoggedFirst'
  BY <1>1, <1>13, Failed DEF db
<1> QED BY <1>2, <1>3, <1>4, <1>5, <1>6, <1>7, <1>8, <1>9, <1>10, <1>11, <1>12, <1>13
        DEF Next, Step

LEMMA InitLogged == Init => LoggedFirst
BY IdleType DEF Init, LoggedFirst

\* Every step keeps the types, and no live row holds a version the raw log
\* lacks: what was projected can always be replayed (ingestNode, replay).
THEOREM TypeCorrect == Spec => []TypeOK
<1>1. Types /\ LoggedFirst /\ [Next]_vars => Types' /\ LoggedFirst'
  BY NextTypes, NextLogged
<1> QED BY <1>1, InitTypes, InitLogged, TypesSuffice, PTL DEF Spec

-----------------------------------------------------------------------------
(* What a run has still to do.  A walk answers for every order up to its   *)
(* cursor, an import for every order not newer than a node it has or had:  *)
(* each is good, or still in hand.                                         *)

Settled(o) == writer[o] = "incremental" => live[o] = store[o] \/ Dropped(o, store[o])

Good(o) == (Logged(o, store[o]) \/ Dropped(o, store[o])) /\ Settled(o)

InHand(r, o) == \E m \in run[r].todo : m.order = o /\ m.version = store[o]

Reaches(r, o) ==
    \/ run[r].kind = "incremental" /\ store[o] <= run[r].cursor
    \/ run[r].kind = "backfill" /\ store[o] <= run[r].max
    \/ run[r].kind = "backfill" /\ \E n \in run[r].todo : store[o] <= n.version

Past(r) ==
    run[r].kind \in {"incremental", "backfill"} =>
        run[r].max <= clock /\ run[r].cursor <= clock /\ \A n \in run[r].todo : n.version <= clock

Walk(r) ==
    run[r].kind = "incremental" =>
        /\ run[r].max <= run[r].cursor
        /\ \A n \in run[r].todo : /\ n.version <= run[r].cursor
                                  /\ n.version = store[n.order] \/ store[n.order] > run[r].cursor
        /\ r \notin overlap => watermark <= run[r].cursor

Answers(r) == \A o \in Exist : Reaches(r, o) => Good(o) \/ InHand(r, o)

Kinds(r) ==
    /\ run[r].at = "fetch" => run[r].kind = "incremental"
    /\ run[r].at = "advance" => run[r].kind \in {"incremental", "backfill"}

Pull(r) == Past(r) /\ Walk(r) /\ Answers(r) /\ Kinds(r)

Snapshot ==
    \A n \in bulk.nodes :
        /\ n.version <= clock
        /\ \A o \in Exist : store[o] <= n.version =>
               \E m \in bulk.nodes : m.order = o /\ m.version = store[o]

Bounded == watermark <= clock /\ \A o \in Orders : store[o] <= clock

\* A run that shares the store with another is known to.
Alone == \A r \in Busy : r \in overlap \/ (lock = r /\ Busy = {r})

Covered == \A o \in Exist : store[o] <= watermark => Good(o)

Ingest == Bounded /\ Snapshot /\ Alone /\ Covered /\ \A r \in Runs : Pull(r)

LEMMA IdlePulls ==
  ASSUME NEW r \in Runs, run[r] = Idle
  PROVE  Pull(r)
BY DEF Idle, Pull, Past, Walk, Answers, Kinds, Reaches

LEMMA IdleNextPulls ==
  ASSUME NEW r \in Runs, run'[r] = Idle
  PROVE  Pull(r)'
BY DEF Idle, Pull, Past, Walk, Answers, Kinds, Reaches

LEMMA PullKept ==
  ASSUME NEW r \in Runs, Pull(r), run'[r] = run[r], store' = store, clock' = clock,
         \A o \in Exist : Good(o) => Good(o)',
         r \notin overlap' => r \notin overlap /\ watermark' <= watermark,
         Types, Types'
  PROVE  Pull(r)'
<1>1. Exist' = Exist
  BY DEF Exist
<1>2. watermark \in Nat /\ watermark' \in Nat /\ run[r].cursor \in Nat
  BY VersionNumbers DEF Types, TableTypes, RunTypes, RunType
<1>3. Past(r)' /\ Kinds(r)'
  BY DEF Pull, Past, Kinds
<1>4. Walk(r)'
  <2>1. r \notin overlap' /\ run[r].kind = "incremental" => watermark' <= run[r].cursor
    BY <1>2 DEF Pull, Walk
  <2> QED BY <2>1 DEF Pull, Walk
<1>5. Answers(r)'
  BY <1>1 DEF Pull, Answers, Reaches, InHand
<1> QED BY <1>3, <1>4, <1>5 DEF Pull

\* Good orders stay good while the log and the dropped lines only grow and the
\* live rows stay.
LEMMA GoodKept ==
  ASSUME NEW o \in Exist, Good(o), store' = store, live' = live, writer' = writer,
         \A p, v : Logged(p, v) => Logged(p, v)', dropped \subseteq dropped'
  PROVE  Good(o)'
<1>1. \A v : Dropped(o, v) => Dropped(o, v)'
  BY DEF Dropped
<1>2. Logged(o, store[o]) => Logged(o, store[o])'
  <2>1. \A v : v = store[o] /\ Logged(o, v) => Logged(o, v)'
    OBVIOUS
  <2> QED BY <2>1 DEF Logged
<1> QED BY <1>1, <1>2 DEF Good, Settled, Dropped

\* A step that leaves the store, the rows and the log's past alone keeps
\* everything but what it says of its own run.
LEMMA IngestKept ==
  ASSUME Types, Types', Ingest, NEW r \in Runs, Pull(r)',
         \A q \in Runs \ {r} : run'[q] = run[q],
         store' = store, clock' = clock, live' = live, writer' = writer,
         \A p, v : Logged(p, v) => Logged(p, v)', dropped \subseteq dropped',
         watermark' <= watermark, overlap \ {r} \subseteq overlap',
         Snapshot', Alone'
  PROVE  Ingest'
<1>1. \A o \in Exist : Good(o) => Good(o)'
  BY GoodKept
<1>2. watermark \in Nat /\ watermark' \in Nat /\ clock \in Nat /\ \A o \in Orders : store[o] \in Nat
  BY VersionNumbers DEF Types, StoreTypes, TableTypes
<1>3. Bounded'
  BY <1>2 DEF Ingest, Bounded
<1>4. Covered'
  <2>1. Exist' = Exist /\ Exist \subseteq Orders
    BY DEF Exist
  <2> QED BY <1>1, <1>2, <2>1 DEF Ingest, Covered
<1>5. ASSUME NEW q \in Runs \ {r}
      PROVE  Pull(q)'
  BY <1>1, <1>5, PullKept DEF Ingest
<1> QED BY <1>3, <1>4, <1>5 DEF Ingest

LEMMA SnapshotKept ==
  ASSUME Snapshot, bulk'.nodes = bulk.nodes, store' = store, clock' = clock
  PROVE  Snapshot'
BY DEF Snapshot, Exist

LEMMA AloneWhenBegun ==
  ASSUME Types, Alone, NEW r \in Runs, NEW as, Began(r, as)
  PROVE  Alone'
<1>1. r \notin Busy /\ \A q \in Busy : q # Nobody
  BY IngestAssumption DEF Began, Busy
<1>2. \A q \in Busy : q \in overlap
  BY <1>1 DEF Alone, Began
<1> QED BY <1>1, <1>2 DEF Alone, Began

LEMMA AloneWhenEnded ==
  ASSUME Alone, NEW r \in Runs, overlap' = overlap \ {r}, Busy' = Busy \ {r},
         \A q \in Runs \ {r} : lock = q => lock' = q
  PROVE  Alone'
BY DEF Alone, Busy

LEMMA AloneKept ==
  ASSUME Alone, overlap' = overlap, Busy' = Busy, lock' = lock
  PROVE  Alone'
BY DEF Alone

\* A changed order is ahead of everything that looks back.
LEMMA ChangeIngests ==
  ASSUME Types, Types', Ingest, NEW c \in Orders, Change(c)
  PROVE  Ingest'
<1>1. /\ clock' = clock + 1 /\ store' = [store EXCEPT ![c] = clock + 1]
      /\ UNCHANGED <<bulk, log, live, watermark, writer, lock, run, overlap, dropped>>
  BY DEF Change, db
<1>2. clock \in Nat /\ watermark \in Nat /\ \A o \in Orders : store[o] \in Nat
  BY VersionNumbers DEF Types, StoreTypes, TableTypes
<1>3. store'[c] = clock + 1 /\ \A o \in Orders \ {c} : store'[o] = store[o]
  BY <1>1 DEF Types, StoreTypes
<1>4. \A o \in Exist' \ {c} : o \in Exist /\ o \in Orders
  BY <1>3 DEF Exist
<1>5. \A o \in Orders \ {c} : Good(o) => Good(o)'
  BY <1>1, <1>3 DEF Good, Settled, Logged, Dropped
<1>6. Bounded'
  BY <1>1, <1>2, <1>3 DEF Ingest, Bounded
<1>7. Snapshot'
  <2> SUFFICES ASSUME NEW n \in bulk.nodes
               PROVE  /\ n.version <= clock'
                      /\ \A o \in Exist' : store'[o] <= n.version =>
                             \E m \in bulk.nodes : m.order = o /\ m.version = store'[o]
    BY <1>1 DEF Snapshot
  <2>1. n.version <= clock /\ n.version \in Nat
    BY VersionNumbers DEF Ingest, Snapshot, Types, StoreTypes, NodeType
  <2>2. n.version <= clock' /\ ~(store'[c] <= n.version)
    BY <1>1, <1>2, <1>3, <2>1
  <2>3. \A o \in Exist' \ {c} : store'[o] <= n.version =>
             \E m \in bulk.nodes : m.order = o /\ m.version = store'[o]
    BY <1>3, <1>4 DEF Ingest, Snapshot
  <2> QED BY <2>2, <2>3
<1>8. Alone'
  BY <1>1, AloneKept DEF Ingest, Busy
<1>9. Covered'
  BY <1>1, <1>2, <1>3, <1>4, <1>5 DEF Ingest, Covered, Bounded
<1>10. ASSUME NEW r \in Runs
       PROVE  Pull(r)'
  <2>1. /\ run[r].max \in Nat /\ run[r].cursor \in Nat
        /\ \A n \in run[r].todo : n.version \in Nat /\ n.order \in Orders
    <3>1. run[r] \in RunType
      BY DEF Types, RunTypes
    <3>2. run[r].max \in Versions /\ run[r].cursor \in Versions /\ run[r].todo \subseteq NodeType
      BY <3>1 DEF RunType
    <3> QED BY <3>2, VersionNumbers DEF NodeType
  <2>2. Pull(r) /\ run'[r] = run[r]
    BY <1>1 DEF Ingest
  <2>3. Past(r)' /\ Kinds(r)'
    BY <1>1, <1>2, <2>1, <2>2 DEF Pull, Past, Kinds
  <2>4. run[r].kind \in {"incremental", "backfill"} =>
            /\ ~(store'[c] <= run[r].max) /\ ~(store'[c] <= run[r].cursor)
            /\ store'[c] > run[r].cursor
            /\ \A n \in run[r].todo : ~(store'[c] <= n.version)
    BY <1>2, <1>3, <2>1, <2>2 DEF Pull, Past
  <2>5. Walk(r)'
    BY <1>1, <1>3, <2>1, <2>2, <2>4 DEF Pull, Walk
  <2>6. Answers(r)'
    <3> SUFFICES ASSUME NEW o \in Exist', Reaches(r, o)'
                 PROVE  Good(o)' \/ InHand(r, o)'
      BY DEF Answers
    <3>1. o # c
      BY <2>2, <2>4 DEF Reaches
    <3>2. o \in Exist /\ o \in Orders /\ store'[o] = store[o] /\ Reaches(r, o)
      BY <1>3, <1>4, <2>2, <3>1 DEF Reaches
    <3> QED BY <1>5, <2>2, <3>1, <3>2 DEF Pull, Answers, InHand
  <2> QED BY <2>3, <2>5, <2>6 DEF Pull
<1> QED BY <1>6, <1>7, <1>8, <1>9, <1>10 DEF Ingest

LEMMA WalkIngests ==
  ASSUME Types, Types', Ingest, NEW r \in Runs, StartIncremental(r)
  PROVE  Ingest'
<1>1. /\ Began(r, WalkFrom(watermark)) /\ run'[r] = WalkFrom(watermark)
      /\ run'[r].at = "fetch" /\ run'[r].kind = "incremental" /\ run'[r].todo = {}
      /\ run'[r].cursor = watermark /\ run'[r].max = 0
      /\ UNCHANGED <<clock, store, bulk, log, live, watermark, writer, dropped>>
  BY StartsWalk DEF Began, db
<1>2. clock \in Nat /\ watermark \in Nat
  BY VersionNumbers DEF Types, StoreTypes, TableTypes
<1>3. Past(r)' /\ Walk(r)' /\ Kinds(r)'
  BY <1>1, <1>2 DEF Past, Walk, Kinds, Ingest, Bounded
<1>4. \A o \in Exist : Good(o) => Good(o)'
  BY <1>1, SameLog, GoodKept
<1>5. Answers(r)'
  BY <1>1, <1>4 DEF Answers, Reaches, Ingest, Covered, Exist
<1>6. Snapshot' /\ Alone'
  BY <1>1, SnapshotKept, AloneWhenBegun DEF Ingest
<1>7. overlap \ {r} \subseteq overlap' /\ \A q \in Runs \ {r} : run'[q] = run[q]
  BY <1>1 DEF Began
<1> QED BY <1>1, <1>2, <1>3, <1>5, <1>6, <1>7, SameLog, IngestKept DEF Pull

LEMMA BackfillIngests ==
  ASSUME Types, Types', Ingest, NEW r \in Runs, Backfill(r)
  PROVE  Ingest'
<1>0. clock \in Nat /\ watermark \in Nat /\ \A o \in Orders : store[o] \in Nat
  BY VersionNumbers DEF Types, StoreTypes, TableTypes
<1>1. ASSUME UNCHANGED <<clock, store, log, live, watermark, writer, run, overlap, lock>>,
             dropped' = dropped, bulk'.nodes = bulk.nodes
      PROVE  Ingest'
  <2>1. Snapshot' /\ Alone'
    BY <1>1, SnapshotKept, AloneKept DEF Ingest, Busy
  <2>2. \A o \in Exist : Good(o) => Good(o)'
    BY <1>1, SameLog, GoodKept
  <2>3. \A q \in Runs : Pull(q)'
    BY <1>0, <1>1, <2>2, PullKept DEF Ingest
  <2> QED BY <1>0, <1>1, <2>1, <2>2, <2>3 DEF Ingest, Bounded, Covered, Exist
<1>2. CASE StartBulk(r)
  <2>1. CASE UNCHANGED <<bulk, lock, run, overlap>>
    BY <1>1, <1>2, <2>1, StartsBulk DEF db
  <2>2. CASE Began(r, Operation(bulk.id + 1)) /\ bulk'.nodes = {}
    <3>1. /\ UNCHANGED <<clock, store, log, live, watermark, writer, dropped>>
          /\ run'[r] = Operation(bulk.id + 1)
      BY <1>2, <2>2, StartsBulk DEF db, Began
    <3>2. /\ run'[r].at = "track" /\ run'[r].kind = "backfill" /\ run'[r].todo = {}
          /\ run'[r].max = 0 /\ run'[r].cursor = 0
      BY <3>1 DEF Operation, Idle
    <3>3. Past(r)' /\ Walk(r)' /\ Kinds(r)'
      BY <1>0, <3>1, <3>2 DEF Past, Walk, Kinds
    <3>4. \A o \in Exist' : o \in Orders /\ store'[o] > 0
      BY DEF Exist
    <3>5. Answers(r)'
      BY <1>0, <3>1, <3>2, <3>4 DEF Answers, Reaches
    <3>6. Snapshot' /\ Alone'
      BY <2>2, AloneWhenBegun DEF Snapshot, Ingest
    <3>7. overlap \ {r} \subseteq overlap' /\ \A q \in Runs \ {r} : run'[q] = run[q]
      BY <2>2 DEF Began
    <3> QED BY <1>0, <3>1, <3>3, <3>5, <3>6, <3>7, SameLog, IngestKept DEF Pull
  <2> QED BY <1>2, <2>1, <2>2, StartsBulk
<1>3. CASE PollBulk(r)
  BY <1>1, <1>3 DEF PollBulk
<1>4. CASE IngestExport(r)
  <2>1. CASE UNCHANGED <<dropped, lock, run, overlap>>
    BY <1>1, <1>4, <2>1, Imports
  <2>2. CASE ~UNCHANGED <<dropped, lock, run, overlap>>
    <3>1. UNCHANGED <<clock, store, bulk, log, live, watermark, writer>>
      BY <1>4, Imports
    <3>a. \E bad \in SUBSET bulk.nodes :
             /\ dropped' = dropped \cup bad /\ Began(r, Import(bulk.nodes \ bad))
             /\ Import(bulk.nodes \ bad).at \in {"advance", "append"}
             /\ Import(bulk.nodes \ bad).kind = "backfill"
             /\ Import(bulk.nodes \ bad).todo = bulk.nodes \ bad
             /\ Import(bulk.nodes \ bad).max = 0 /\ Import(bulk.nodes \ bad).cursor = 0
      BY <1>4, <2>2, Imports
    <3>b. PICK bad \in SUBSET bulk.nodes :
             /\ dropped' = dropped \cup bad /\ Began(r, Import(bulk.nodes \ bad))
             /\ Import(bulk.nodes \ bad).at \in {"advance", "append"}
             /\ Import(bulk.nodes \ bad).kind = "backfill"
             /\ Import(bulk.nodes \ bad).todo = bulk.nodes \ bad
             /\ Import(bulk.nodes \ bad).max = 0 /\ Import(bulk.nodes \ bad).cursor = 0
      BY <3>a
    <3>c. run'[r] = Import(bulk.nodes \ bad)
      BY <3>b DEF Began
    <3>2. /\ dropped' = dropped \cup bad /\ Began(r, Import(bulk.nodes \ bad))
          /\ run'[r].at \in {"advance", "append"} /\ run'[r].kind = "backfill"
          /\ run'[r].todo = bulk.nodes \ bad /\ run'[r].max = 0 /\ run'[r].cursor = 0
      BY <3>b, <3>c
    <3>3. Past(r)' /\ Walk(r)' /\ Kinds(r)'
      BY <1>0, <3>1, <3>2 DEF Past, Walk, Kinds, Ingest, Snapshot
    <3>4. Answers(r)'
      <4> SUFFICES ASSUME NEW o \in Exist', Reaches(r, o)'
                   PROVE  Good(o)' \/ InHand(r, o)'
        BY DEF Answers
      <4>1. o \in Exist /\ o \in Orders /\ store[o] > 0
        BY <3>1 DEF Exist
      <4>2. PICK n \in bulk.nodes : store[o] <= n.version
        BY <1>0, <3>1, <3>2, <4>1 DEF Reaches
      <4>3. PICK m \in bulk.nodes : m.order = o /\ m.version = store[o]
        BY <4>1, <4>2 DEF Ingest, Snapshot
      <4>4. CASE m \in bad
        BY <3>1, <3>2, <4>3, <4>4 DEF Good, Settled, Dropped
      <4>5. CASE m \notin bad
        BY <3>1, <3>2, <4>3, <4>5 DEF InHand
      <4> QED BY <4>4, <4>5
    <3>5. Snapshot' /\ Alone'
      BY <3>1, <3>2, SnapshotKept, AloneWhenBegun DEF Ingest
    <3>6. overlap \ {r} \subseteq overlap' /\ \A q \in Runs \ {r} : run'[q] = run[q]
      BY <3>2 DEF Began
    <3> QED BY <1>0, <3>1, <3>2, <3>3, <3>4, <3>5, <3>6, SameLog, IngestKept DEF Pull
  <2> QED BY <2>1, <2>2
<1> QED BY <1>2, <1>3, <1>4 DEF Backfill

LEMMA AdminIngests ==
  ASSUME Types, Types', Ingest, NEW r \in Runs, Admin(r)
  PROVE  Ingest'
<1>0. clock \in Nat /\ watermark \in Nat /\ \A o \in Orders : store[o] \in Nat
  BY VersionNumbers DEF Types, StoreTypes, TableTypes
<1>1. ASSUME NEW as, Began(r, as), UNCHANGED <<clock, store, bulk, db, dropped>>,
             as.at \in {"append", "replay"}, as.kind \in {"replay", "reingest"}
      PROVE  Ingest'
  <2>1. run'[r] = as /\ UNCHANGED <<log, live, watermark, writer>>
    BY <1>1 DEF Began, db
  <2>2. Pull(r)'
    BY <1>1, <2>1 DEF Pull, Past, Walk, Answers, Reaches, Kinds
  <2>3. Snapshot' /\ Alone'
    BY <1>1, SnapshotKept, AloneWhenBegun DEF Ingest
  <2>4. overlap \ {r} \subseteq overlap' /\ \A q \in Runs \ {r} : run'[q] = run[q]
    BY <1>1 DEF Began
  <2> QED BY <1>0, <1>1, <2>1, <2>2, <2>3, <2>4, SameLog, IngestKept
<1>2. ASSUME NEW picked \in SUBSET DOMAIN log, Replay(r, picked)
      PROVE  Ingest'
  BY <1>1, <1>2, Replays
<1>3. ASSUME NEW from \in DOMAIN exports, Reingest(r, from)
      PROVE  Ingest'
  BY <1>1, <1>3, Reingests
<1>4. ASSUME NEW to \in 0 .. clock, ResetWatermark(r, to)
      PROVE  Ingest'
  <2>1. /\ watermark' = to /\ to < watermark
        /\ UNCHANGED <<clock, store, bulk, log, live, writer, lock, run, overlap, dropped>>
    BY <1>4 DEF ResetWatermark
  <2>2. Snapshot' /\ Alone'
    BY <2>1, SnapshotKept, AloneKept DEF Ingest, Busy
  <2>3. \A o \in Exist : Good(o) => Good(o)'
    BY <2>1, SameLog, GoodKept
  <2>4. watermark' <= watermark
    BY <1>0, <2>1
  <2>5. Pull(r)'
    BY <2>1, <2>3, <2>4, PullKept DEF Ingest
  <2> QED BY <2>1, <2>2, <2>4, <2>5, SameLog, IngestKept
<1> QED BY <1>2, <1>3, <1>4 DEF Admin

\* No run but the one that steps is alone.
LEMMA NobodyElse ==
  ASSUME Types, Alone, NEW r \in Runs, r \in Busy, r \notin overlap, NEW q \in Runs \ {r}
  PROVE  run[q].kind = "none"
<1>1. q \notin Busy
  BY DEF Alone
<1> QED BY <1>1 DEF Busy, Types, RunTypes, HasNodes

LEMMA PageIngests ==
  ASSUME Types, Types', Ingest, NEW r \in Runs, FetchPage(r)
  PROVE  Ingest'
<1>1. /\ UNCHANGED <<clock, store, bulk, log, live, watermark, writer, dropped, lock, overlap>>
      /\ Busy' = Busy /\ \A q \in Runs \ {r} : run'[q] = run[q]
      /\ run'[r].kind = "incremental" /\ run'[r].max = run[r].max
      /\ run[r].kind = "incremental"
  BY Pages DEF db, Ingest, Pull, Kinds
<1>2. run[r] \in RunType /\ run[r].todo = {}
  BY Pages DEF Types, RunTypes, HasNodes
<1>3. /\ run[r].max \in Nat /\ run[r].cursor \in Nat /\ clock \in Nat /\ watermark \in Nat
      /\ \A o \in Orders : store[o] \in Nat
  BY <1>2, VersionNumbers DEF Types, StoreTypes, TableTypes, RunType
<1>4. Pull(r)
  BY DEF Ingest
<1>5. \A o \in Exist : Good(o) => Good(o)'
  BY <1>1, SameLog, GoodKept
<1>6. Exist' = Exist /\ Exist \subseteq Orders
  BY <1>1 DEF Exist
<1>7. \A o \in Exist : store[o] <= run[r].cursor => Good(o)
  BY <1>1, <1>2, <1>4 DEF Pull, Answers, Reaches, InHand
<1>8. Pull(r)'
  <2>1. CASE run'[r].at = "advance" /\ run'[r].todo = {} /\ run'[r].cursor = run[r].cursor
    BY <1>1, <1>2, <1>3, <1>4, <1>5, <1>6, <1>7, <2>1 DEF Pull, Past, Walk, Kinds, Answers, Reaches
  <2>2. CASE /\ run'[r].at = "append"
             /\ run'[r].cursor \in Versions /\ run'[r].cursor >= run[r].cursor
             /\ \E last \in Orders : run'[r].cursor = store[last]
             /\ \A n \in run'[r].todo : /\ n.order \in Orders /\ n.version = store[n.order]
                                        /\ n.version <= run'[r].cursor
             /\ \A o \in Exist : store[o] > run[r].cursor /\ store[o] <= run'[r].cursor =>
                   \E n \in run'[r].todo : n.order = o /\ n.version = store[o]
    <3>1. run'[r].cursor \in Nat /\ run'[r].cursor <= clock
      BY <2>2, VersionNumbers DEF Ingest, Bounded
    <3>2. Past(r)'
      BY <1>1, <1>3, <1>4, <2>2, <3>1 DEF Ingest, Bounded, Pull, Past
    <3>3. Walk(r)'
      BY <1>1, <1>3, <1>4, <2>2, <3>1 DEF Pull, Walk
    <3>4. Answers(r)'
      <4> SUFFICES ASSUME NEW o \in Exist', Reaches(r, o)'
                   PROVE  Good(o)' \/ InHand(r, o)'
        BY DEF Answers
      <4>1. o \in Exist /\ store[o] \in Nat /\ store[o] <= run'[r].cursor
        BY <1>1, <1>3, <1>6 DEF Reaches
      <4>2. CASE store[o] <= run[r].cursor
        BY <1>5, <1>7, <4>1, <4>2
      <4>3. CASE store[o] > run[r].cursor
        BY <1>1, <2>2, <4>1, <4>3 DEF InHand
      <4> QED BY <1>3, <4>1, <4>2, <4>3
    <3>5. Kinds(r)'
      BY <2>2 DEF Kinds
    <3> QED BY <3>2, <3>3, <3>4, <3>5 DEF Pull
  <2> QED BY <1>2, <2>1, <2>2, Pages
<1>9. Snapshot' /\ Alone'
  BY <1>1, SnapshotKept, AloneKept DEF Ingest
<1> QED BY <1>1, <1>3, <1>8, <1>9, SameLog, IngestKept

LEMMA AppendIngests ==
  ASSUME Types, Types', Ingest, NEW r \in Runs, AppendEvent(r)
  PROVE  Ingest'
<1>1. /\ UNCHANGED <<clock, store, bulk, live, watermark, writer, dropped, lock, overlap>>
      /\ Busy' = Busy /\ \A q \in Runs \ {r} : run'[q] = run[q]
      /\ \A o, v : Logged(o, v) => Logged(o, v)'
      /\ run'[r].at = "project" /\ run'[r].todo = run[r].todo /\ run'[r].kind = run[r].kind
      /\ run'[r].cursor = run[r].cursor /\ run'[r].max = run[r].max
  BY Appends
<1>2. \A o \in Exist : Good(o) => Good(o)'
  BY <1>1, GoodKept
<1>3. Pull(r) /\ Exist' = Exist
  BY <1>1 DEF Ingest, Exist
<1>4. Past(r)' /\ Walk(r)' /\ Kinds(r)'
  BY <1>1, <1>3 DEF Pull, Past, Walk, Kinds
<1>5. Answers(r)'
  BY <1>1, <1>2, <1>3 DEF Pull, Answers, Reaches, InHand
<1>6. Snapshot' /\ Alone'
  BY <1>1, SnapshotKept, AloneKept DEF Ingest
<1>7. watermark' <= watermark
  BY <1>1, VersionNumbers DEF Types, TableTypes
<1> QED BY <1>1, <1>4, <1>5, <1>6, <1>7, IngestKept DEF Pull

\* A walk that shares its store with nobody projects what the store holds, or
\* an order that nobody has reached; whatever else projects is no walk alone.
LEMMA ProjectIngests ==
  ASSUME Types, Types', LoggedFirst, Ingest, NEW r \in Runs, Project(r) \/ ReplayEvent(r)
  PROVE  Ingest'
<1>1. PICK n \in run[r].todo :
         /\ \A q \in Runs \ {r} : run'[q] = run[q]
         /\ run[r].at = "project" => n = run[r].on
         /\ run[r].at \in {"project", "replay"}
         /\ live' = [live EXCEPT ![n.order] = n.version]
         /\ writer' = [writer EXCEPT ![n.order] = IF r \in overlap THEN "overlap" ELSE run[r].kind]
         /\ UNCHANGED <<clock, store, bulk, log, watermark, dropped>>
         /\ \/ /\ run'[r] = Idle /\ overlap' = overlap \ {r} /\ Busy' = Busy \ {r}
               /\ lock' = IF lock = r THEN Nobody ELSE lock
            \/ /\ UNCHANGED <<lock, overlap>> /\ Busy' = Busy
               /\ run'[r].at \in {"append", "replay", "fetch", "advance"}
               /\ run'[r].at = "fetch" => run[r].kind = "incremental"
               /\ run'[r].at = "advance" => run[r].kind = "backfill"
               /\ run'[r].todo = run[r].todo \ {n}
               /\ run'[r].kind = run[r].kind /\ run'[r].cursor = run[r].cursor
               /\ run'[r].max = IF n.version > run[r].max THEN n.version ELSE run[r].max
  BY Projects
<1> DEFINE o == n.order
<1>2. run[r] \in RunType /\ r \in Busy /\ n \in NodeType
  BY <1>1 DEF Types, RunTypes, RunType, Busy
<1>3. /\ run[r].max \in Nat /\ run[r].cursor \in Nat /\ clock \in Nat /\ watermark \in Nat
      /\ \A p \in Orders : store[p] \in Nat
      /\ n.version \in Nat /\ o \in Orders
  BY <1>2, VersionNumbers DEF Types, StoreTypes, TableTypes, RunType, NodeType
<1>4. Logged(o, n.version)
  BY <1>1 DEF LoggedFirst, OnLogged
<1>5. Pull(r) /\ Exist' = Exist /\ Exist \subseteq Orders
  BY <1>1 DEF Ingest, Exist
<1>6. \A p \in Exist \ {o} : Good(p) => Good(p)'
  BY <1>1, <1>5 DEF Types, TableTypes, Good, Settled, Logged, Dropped
<1>7. /\ live'[o] = n.version
      /\ writer'[o] = IF r \in overlap THEN "overlap" ELSE run[r].kind
  BY <1>1, <1>3 DEF Types, TableTypes
<1>8. n.version = store[o] => Good(o)'
  BY <1>1, <1>4, <1>7 DEF Good, Settled, Logged
<1>9. CASE r \in overlap \/ run[r].kind # "incremental" \/ n.version = store[o]
  <2>1. writer'[o] # "incremental" \/ live'[o] = store'[o]
    BY <1>1, <1>7, <1>9
  <2>2. o \in Exist /\ Good(o) => Good(o)'
    BY <1>1, <2>1 DEF Good, Settled, Logged, Dropped
  <2> QED
    <3>1. \A p \in Exist : Good(p) => Good(p)'
      BY <1>6, <2>2
    <3>2. Pull(r)'
      <4>1. CASE run'[r] = Idle
        BY <4>1, IdleNextPulls
      <4>2. CASE /\ UNCHANGED <<lock, overlap>> /\ Busy' = Busy
                 /\ run'[r].at \in {"append", "replay", "fetch", "advance"}
                 /\ run'[r].at = "fetch" => run[r].kind = "incremental"
                 /\ run'[r].at = "advance" => run[r].kind = "backfill"
                 /\ run'[r].todo = run[r].todo \ {n}
                 /\ run'[r].kind = run[r].kind /\ run'[r].cursor = run[r].cursor
                 /\ run'[r].max = IF n.version > run[r].max THEN n.version ELSE run[r].max
        <5>1. Past(r)' /\ Walk(r)' /\ Kinds(r)'
          BY <1>1, <1>3, <1>5, <4>2 DEF Pull, Past, Walk, Kinds
        <5>2. Answers(r)'
          <6> SUFFICES ASSUME NEW p \in Exist', Reaches(r, p)'
                       PROVE  Good(p)' \/ InHand(r, p)'
            BY DEF Answers
          <6>1. p \in Exist /\ store'[p] = store[p]
            BY <1>1, <1>5
          <6>2. Reaches(r, p)
            BY <1>1, <1>3, <4>2, <6>1 DEF Reaches
          <6>3. CASE Good(p)
            BY <3>1, <6>1, <6>3
          <6>4. CASE InHand(r, p)
            <7>1. PICK m \in run[r].todo : m.order = p /\ m.version = store[p]
              BY <6>4 DEF InHand
            <7>2. CASE m = n
              BY <1>8, <7>1, <7>2
            <7>3. CASE m # n
              BY <1>1, <4>2, <7>1, <7>3 DEF InHand
            <7> QED BY <7>2, <7>3
          <6> QED BY <1>5, <6>1, <6>2, <6>3, <6>4 DEF Pull, Answers
        <5> QED BY <5>1, <5>2 DEF Pull
      <4> QED BY <1>1, <4>1, <4>2
    <3>3. \A q \in Runs \ {r} : Pull(q)'
      <4> TAKE q \in Runs \ {r}
      <4>1. q \notin overlap' => q \notin overlap
        BY <1>1
      <4>2. watermark' <= watermark
        BY <1>1, <1>3
      <4> QED BY <1>1, <3>1, <4>1, <4>2, PullKept DEF Ingest
    <3>4. Snapshot' /\ Alone'
      BY <1>1, SnapshotKept, AloneKept, AloneWhenEnded DEF Ingest
    <3>5. Bounded' /\ Covered'
      BY <1>1, <1>5, <3>1 DEF Ingest, Bounded, Covered
    <3> QED BY <3>2, <3>3, <3>4, <3>5 DEF Ingest
<1>10. CASE r \notin overlap /\ run[r].kind = "incremental" /\ n.version # store[o]
  <2>1. store[o] > run[r].cursor /\ run[r].cursor >= watermark
    BY <1>3, <1>5, <1>10 DEF Pull, Walk
  <2>2. ~(store[o] <= watermark) /\ ~(store[o] <= run[r].cursor)
    BY <1>3, <2>1
  <2>3. \A q \in Runs \ {r} : run[q].kind = "none"
    BY <1>2, <1>10, NobodyElse DEF Ingest
  <2>4. Pull(r)'
    <3>1. CASE run'[r] = Idle
      BY <3>1, IdleNextPulls
    <3>2. CASE /\ UNCHANGED <<lock, overlap>> /\ Busy' = Busy
               /\ run'[r].at \in {"append", "replay", "fetch", "advance"}
               /\ run'[r].at = "fetch" => run[r].kind = "incremental"
               /\ run'[r].at = "advance" => run[r].kind = "backfill"
               /\ run'[r].todo = run[r].todo \ {n}
               /\ run'[r].kind = run[r].kind /\ run'[r].cursor = run[r].cursor
               /\ run'[r].max = IF n.version > run[r].max THEN n.version ELSE run[r].max
      <4>1. Past(r)' /\ Walk(r)' /\ Kinds(r)'
        BY <1>1, <1>3, <1>5, <3>2 DEF Pull, Past, Walk, Kinds
      <4>2. Answers(r)'
        <5> SUFFICES ASSUME NEW p \in Exist', Reaches(r, p)'
                     PROVE  Good(p)' \/ InHand(r, p)'
          BY DEF Answers
        <5>1. p \in Exist /\ store[p] <= run[r].cursor /\ Reaches(r, p)
          BY <1>1, <1>5, <1>10, <3>2 DEF Reaches
        <5>2. p # o
          BY <2>2, <5>1
        <5>3. CASE Good(p)
          BY <1>6, <5>1, <5>2, <5>3
        <5>4. CASE InHand(r, p)
          BY <1>1, <3>2, <5>2, <5>4 DEF InHand
        <5> QED BY <1>5, <5>1, <5>3, <5>4 DEF Pull, Answers
      <4> QED BY <4>1, <4>2 DEF Pull
    <3> QED BY <1>1, <3>1, <3>2
  <2>5. \A q \in Runs \ {r} : Pull(q)'
    BY <1>1, <2>3 DEF Ingest, Pull, Past, Walk, Answers, Reaches, Kinds
  <2>6. Covered'
    BY <1>1, <1>5, <1>6, <2>2 DEF Ingest, Covered
  <2>7. Snapshot' /\ Alone' /\ Bounded'
    BY <1>1, SnapshotKept, AloneKept, AloneWhenEnded DEF Ingest, Bounded
  <2> QED BY <2>4, <2>5, <2>6, <2>7 DEF Ingest
<1> QED BY <1>9, <1>10

LEMMA AdvanceIngests ==
  ASSUME Types, Types', Ingest, NEW r \in Runs, Advance(r)
  PROVE  Ingest'
<1>1. /\ run[r].at = "advance" /\ run[r].todo = {}
      /\ UNCHANGED <<clock, store, bulk, log, live, writer, dropped>>
      /\ watermark' = IF run[r].max > watermark THEN run[r].max ELSE watermark
      /\ \A q \in Runs \ {r} : run'[q] = run[q]
      /\ \/ /\ run'[r] = Idle /\ overlap' = overlap \ {r} /\ Busy' = Busy \ {r}
            /\ lock' = IF lock = r THEN Nobody ELSE lock
         \/ /\ run'[r] = [run[r] EXCEPT !.at = "untrack"] /\ run[r].kind = "backfill"
            /\ UNCHANGED <<lock, overlap>> /\ Busy' = Busy
  BY Advances
<1>2. run[r] \in RunType /\ r \in Busy
  BY <1>1 DEF Types, RunTypes, Busy
<1>3. /\ run[r].max \in Nat /\ run[r].cursor \in Nat /\ clock \in Nat /\ watermark \in Nat
      /\ watermark' \in Nat /\ \A o \in Orders : store[o] \in Nat
  BY <1>2, VersionNumbers DEF Types, StoreTypes, TableTypes, RunType
<1>4. Pull(r) /\ Exist' = Exist /\ Exist \subseteq Orders
  BY <1>1 DEF Ingest, Exist
<1>5. \A o \in Exist : Good(o) => Good(o)'
  BY <1>1, SameLog, GoodKept
<1>6. \A o \in Exist : store[o] <= run[r].max => Good(o)
  <2> SUFFICES ASSUME NEW o \in Exist, store[o] <= run[r].max
               PROVE  Good(o)
    OBVIOUS
  <2>1. store[o] \in Nat
    BY <1>3, <1>4
  <2>2. Reaches(r, o)
    BY <1>1, <1>3, <1>4, <2>1 DEF Pull, Kinds, Walk, Reaches
  <2> QED BY <1>1, <1>4, <2>2 DEF Pull, Answers, InHand
<1>7. Covered'
  BY <1>1, <1>3, <1>4, <1>5, <1>6 DEF Ingest, Covered
<1>8. Bounded'
  BY <1>1, <1>3, <1>4 DEF Ingest, Bounded, Pull, Past, Kinds
<1>9. Snapshot' /\ Alone'
  BY <1>1, SnapshotKept, AloneKept, AloneWhenEnded DEF Ingest
<1>10. Pull(r)'
  <2>1. CASE run'[r] = Idle
    BY <2>1, IdleNextPulls
  <2>2. CASE run'[r] = [run[r] EXCEPT !.at = "untrack"] /\ run[r].kind = "backfill"
    <3>1. /\ run'[r].at = "untrack" /\ run'[r].kind = "backfill" /\ run'[r].todo = {}
          /\ run'[r].max = run[r].max /\ run'[r].cursor = run[r].cursor
      BY <1>1, <1>2, <2>2 DEF RunType
    <3>2. Past(r)' /\ Walk(r)' /\ Kinds(r)'
      BY <1>1, <1>4, <2>2, <3>1 DEF Pull, Past, Walk, Kinds
    <3>3. Answers(r)'
      BY <1>1, <1>4, <1>5, <1>6, <3>1 DEF Answers, Reaches
    <3> QED BY <3>2, <3>3 DEF Pull
  <2> QED BY <1>1, <2>1, <2>2
<1>11. ASSUME NEW q \in Runs \ {r}
       PROVE  Pull(q)'
  <2>1. Pull(q) /\ run'[q] = run[q] /\ (q \in overlap => q \in overlap')
    BY <1>1 DEF Ingest
  <2>2. run[q].kind = "incremental" => q \in overlap
    BY <1>2 DEF Ingest, Alone, Busy, Types, RunTypes, HasNodes
  <2>3. Past(q)' /\ Walk(q)' /\ Kinds(q)'
    BY <1>1, <2>1, <2>2 DEF Pull, Past, Walk, Kinds
  <2>4. Answers(q)'
    BY <1>1, <1>4, <1>5, <2>1 DEF Pull, Answers, Reaches, InHand
  <2> QED BY <2>3, <2>4 DEF Pull
<1> QED BY <1>7, <1>8, <1>9, <1>10, <1>11 DEF Ingest

\* A run is gone, or the lock is: nothing else of it is seen.
LEMMA RunGone ==
  ASSUME Types, Types', Ingest, NEW r \in Runs, run'[r] = Idle,
         \A q \in Runs \ {r} : run'[q] = run[q],
         UNCHANGED <<clock, store, log, live, watermark, writer, dropped>>,
         bulk'.nodes = bulk.nodes, overlap' = overlap \ {r}, Busy' = Busy \ {r},
         \A q \in Runs \ {r} : lock = q => lock' = q
  PROVE  Ingest'
<1>1. Pull(r)' /\ Snapshot' /\ Alone'
  BY IdleNextPulls, SnapshotKept, AloneWhenEnded DEF Ingest
<1>2. watermark' <= watermark
  BY VersionNumbers DEF Types, TableTypes
<1> QED BY <1>1, <1>2, SameLog, IngestKept

LEMMA FailureIngests ==
  ASSUME Types, Types', Ingest, NEW r \in Runs, Reject(r) \/ Fail(r)
  PROVE  Ingest'
<1>1. /\ run'[r] = Idle /\ \A q \in Runs \ {r} : run'[q] = run[q]
      /\ lock' = IF lock = r THEN Nobody ELSE lock
      /\ overlap' = overlap \ {r} /\ Busy' = Busy \ {r}
      /\ UNCHANGED <<clock, store, bulk, log, live, watermark, writer, dropped>>
  BY Failed DEF db
<1> QED BY <1>1, RunGone

LEMMA StepIngests ==
  ASSUME Types, Types', LoggedFirst, Ingest, NEW r \in Runs, Step(r)
  PROVE  Ingest'
<1>1. CASE TrackBulk(r) \/ UntrackBulk(r)
  <2>1. /\ run'[r] = Idle /\ \A q \in Runs \ {r} : run'[q] = run[q]
        /\ lock' = IF lock = r THEN Nobody ELSE lock
        /\ overlap' = overlap \ {r} /\ Busy' = Busy \ {r}
        /\ UNCHANGED <<clock, store, bulk, log, live, watermark, writer, dropped>>
    BY <1>1, Untracks
  <2> QED BY <2>1, RunGone
<1> QED BY <1>1, PageIngests, AppendIngests, ProjectIngests, AdvanceIngests, FailureIngests
        DEF Step

LEMMA NextIngests ==
  ASSUME Types, Types', LoggedFirst, Ingest, [Next]_vars
  PROVE  Ingest'
<1>0. watermark \in Nat
  BY VersionNumbers DEF Types, TableTypes
<1>1. ASSUME UNCHANGED <<clock, store, log, live, watermark, writer, run, dropped>>,
             overlap \subseteq overlap', Snapshot', Alone'
      PROVE  Ingest'
  <2>1. \A o \in Exist : Good(o) => Good(o)'
    BY <1>1, SameLog, GoodKept
  <2>2. watermark' <= watermark
    BY <1>0, <1>1
  <2>3. \A q \in Runs : Pull(q)'
    BY <1>1, <2>1, <2>2, PullKept DEF Ingest
  <2> QED BY <1>1, <2>1, <2>3 DEF Ingest, Bounded, Covered, Exist
<1>2. CASE UNCHANGED vars \/ Repair
  <2>1. UNCHANGED <<clock, store, bulk, log, live, watermark, writer, run, dropped, lock, overlap>>
    BY <1>2 DEF vars, Repair, db
  <2>2. Snapshot' /\ Alone'
    BY <2>1, SnapshotKept, AloneKept DEF Ingest, Busy
  <2> QED BY <1>1, <2>1, <2>2
<1>3. CASE BulkEnds
  <2>1. UNCHANGED <<clock, store, log, live, watermark, writer, run, dropped, lock, overlap>>
    BY <1>3, Exports DEF db
  <2>2. Alone'
    BY <2>1, AloneKept DEF Ingest, Busy
  <2>3. Snapshot'
    <3>1. CASE bulk'.nodes = bulk.nodes
      BY <2>1, <3>1, SnapshotKept DEF Ingest
    <3>2. CASE /\ \A n \in bulk'.nodes : n.order \in Orders /\ n.version = store[n.order]
               /\ \A o \in Exist : \E n \in bulk'.nodes : n.order = o /\ n.version = store[o]
      BY <2>1, <3>2 DEF Ingest, Bounded, Snapshot, Exist
    <3> QED BY <1>3, <3>1, <3>2, Exports
  <2> QED BY <1>1, <2>1, <2>2, <2>3
<1>4. CASE SessionEnds
  <2>1. /\ UNCHANGED <<clock, store, bulk, log, live, watermark, writer, run, dropped, overlap>>
        /\ \E r \in Runs : lock = r /\ run[r].at = "idle"
    BY <1>4 DEF SessionEnds, db
  <2>2. Busy' = Busy /\ \A r \in Busy : lock # r
    BY <2>1 DEF Busy
  <2>3. Alone'
    BY <2>1, <2>2 DEF Ingest, Alone
  <2>4. Snapshot'
    BY <2>1, SnapshotKept DEF Ingest
  <2> QED BY <1>1, <2>1, <2>3, <2>4
<1>5. ASSUME NEW r \in Runs, LoseSession(r)
      PROVE  Ingest'
  <2>1. /\ UNCHANGED <<clock, store, bulk, log, live, watermark, writer, run, dropped>>
        /\ Busy' = Busy /\ overlap' = overlap \cup {r} /\ lock = r
    BY <1>5, LostSession DEF db, LoseSession
  <2>2. Alone'
    BY <2>1 DEF Ingest, Alone
  <2>3. Snapshot'
    BY <2>1, SnapshotKept DEF Ingest
  <2> QED BY <1>1, <2>1, <2>2, <2>3
<1>6. ASSUME NEW r \in Runs, Kill(r)
      PROVE  Ingest'
  <2>1. /\ run'[r] = Idle /\ \A q \in Runs \ {r} : run'[q] = run[q]
        /\ UNCHANGED <<clock, store, bulk, log, live, watermark, writer, lock, dropped>>
        /\ overlap' = overlap \ {r} /\ Busy' = Busy \ {r}
    BY <1>6, Killed DEF db
  <2> QED BY <2>1, RunGone
<1> QED BY <1>2, <1>3, <1>4, <1>5, <1>6, ChangeIngests, WalkIngests, BackfillIngests,
           AdminIngests, StepIngests, FailureIngests DEF Next

LEMMA InitIngests == Init => Ingest
<1> SUFFICES ASSUME Init
             PROVE  Ingest
  OBVIOUS
<1>1. Bounded /\ Snapshot /\ Covered
  BY DEF Init, Bounded, Snapshot, Covered, Exist
<1>2. Alone
  BY IdleType DEF Init, Alone, Busy
<1>3. \A r \in Runs : Pull(r)
  BY IdlePulls DEF Init
<1> QED BY <1>1, <1>2, <1>3 DEF Ingest

LEMMA IngestAlways == Spec => [](Types /\ LoggedFirst /\ Ingest)
<1>1. Types /\ LoggedFirst /\ Ingest /\ [Next]_vars => Types' /\ LoggedFirst' /\ Ingest'
  BY NextTypes, NextLogged, NextIngests
<1> QED BY <1>1, InitTypes, InitLogged, InitIngests, PTL DEF Spec

\* Whatever runs, dies, overlaps or is moved back, an order the watermark has
\* passed is in the raw log as the store has it (syncOrders, stepOrdersBulk).
THEOREM NothingSlips == Spec => []NothingMissed
<1>1. Ingest => NothingMissed
  BY DEF Ingest, Covered, Good, NothingMissed
<1> QED BY <1>1, IngestAlways, PTL

\* And its live row is the order as the store has it, where a walk wrote the
\* row alone: the projection that a dead run owed has been made (ingestNode).
THEOREM RowsCatchUp == Spec => []CaughtUp
<1>1. Ingest => CaughtUp
  BY DEF Ingest, Covered, Good, Settled, CaughtUp
<1> QED BY <1>1, IngestAlways, PTL
-----------------------------------------------------------------------------
(* A full replay ends where the log ends.  While it is alone nobody appends *)
(* and nobody else projects; what it has still to project is the end of    *)
(* the log, so that what it has projected is not projected over by         *)
(* anything older.                                                         *)

\* Event k is still to come.
Owed(r, k) == Event(k) \in run[r].todo

Replaying(r) ==
    /\ \A n \in run[r].todo : n.place \in DOMAIN log /\ n = Event(n.place)
    /\ \A n \in run[r].todo : \A k \in DOMAIN log : n.place <= k => Owed(r, k)
    /\ \A o \in Orders : \A k \in DOMAIN log :
          Latest(o, k) => Owed(r, k) \/ live[o] = log[k].version

Replayed(r) ==
    run[r].kind = "replay" =>
        run[r].at = "replay" /\ (run[r].full /\ r \notin overlap => Replaying(r))

\* faults is counted, so that a kill is told from the end of a run.
Restores == faults \in Nat /\ \A r \in Runs : Replayed(r)

LEMMA ReplayingKept ==
  ASSUME NEW r \in Runs, Replaying(r), run'[r] = run[r], UNCHANGED <<log, live>>
  PROVE  Replaying(r)'
<1>1. \A k \in DOMAIN log : Event(k)' = Event(k)
  BY DEF Event
<1>2. \A k \in DOMAIN log : Owed(r, k) <=> Owed(r, k)'
  BY <1>1 DEF Owed
<1>3. \A o : \A k \in DOMAIN log : Latest(o, k)' <=> Latest(o, k)
  BY DEF Latest
<1> QED BY <1>1, <1>2, <1>3 DEF Replaying

\* A run that steps is not alone with a replay of another.
LEMMA OthersReplayed ==
  ASSUME Types, Alone, NEW r \in Runs, NEW q \in Runs \ {r}, Replayed(q), run'[q] = run[q],
         run[r].at # "idle" \/ lock = Nobody, q \in overlap => q \in overlap'
  PROVE  Replayed(q)'
<1>1. CASE run[q].kind = "replay" /\ q \notin overlap
  <2>1. q \in Busy
    BY <1>1 DEF Replayed, Busy
  <2>2. lock = q /\ Busy = {q}
    BY <1>1, <2>1 DEF Alone
  <2> QED BY <2>2, IngestAssumption DEF Busy
<1> QED BY <1>1 DEF Replayed

\* Nothing that runs moves.
LEMMA ReplayedStays ==
  ASSUME NEW r \in Runs, Replayed(r), UNCHANGED <<log, live>>, run'[r] = run[r],
         r \in overlap => r \in overlap'
  PROVE  Replayed(r)'
BY ReplayingKept DEF Replayed

LEMMA OthersRun ==
  ASSUME Types, NEW r \in Runs,
         \/ StartIncremental(r) \/ Backfill(r) \/ Admin(r) \/ Step(r)
         \/ Fail(r) \/ Kill(r) \/ LoseSession(r)
  PROVE  /\ \A q \in Runs \ {r} : run'[q] = run[q]
         /\ \A q \in Runs \ {r} : q \in overlap => q \in overlap'
<1>1. ASSUME NEW as, Began(r, as)
      PROVE  /\ \A q \in Runs \ {r} : run'[q] = run[q]
             /\ \A q \in Runs \ {r} : q \in overlap => q \in overlap'
  BY <1>1 DEF Began
<1>2. CASE StartIncremental(r)
  BY <1>1, <1>2, StartsWalk
<1>3. CASE Backfill(r)
  <2>1. CASE StartBulk(r)
    BY <1>1, <2>1, StartsBulk
  <2>2. CASE PollBulk(r)
    BY <2>2 DEF PollBulk
  <2>3. CASE IngestExport(r)
    BY <1>1, <2>3, Imports
  <2> QED BY <1>3, <2>1, <2>2, <2>3 DEF Backfill
<1>4. CASE Admin(r)
  <2>1. ASSUME NEW picked \in SUBSET DOMAIN log, Replay(r, picked)
        PROVE  \E as : Began(r, as)
    BY <2>1, Replays
  <2>2. ASSUME NEW from \in DOMAIN exports, Reingest(r, from)
        PROVE  \E as : Began(r, as)
    BY <2>2, Reingests
  <2>3. ASSUME NEW to \in 0 .. clock, ResetWatermark(r, to)
        PROVE  UNCHANGED <<run, overlap>>
    BY <2>3 DEF ResetWatermark
  <2> QED BY <1>1, <1>4, <2>1, <2>2, <2>3 DEF Admin
<1>5. CASE Step(r)
  <2>1. CASE FetchPage(r)
    BY <2>1, Pages
  <2>2. CASE AppendEvent(r)
    BY <2>2, Appends
  <2>3. CASE Project(r) \/ ReplayEvent(r)
    BY <2>3, Projects
  <2>4. CASE Advance(r)
    BY <2>4, Advances
  <2>5. CASE TrackBulk(r) \/ UntrackBulk(r)
    BY <2>5, Untracks
  <2>6. CASE Reject(r)
    BY <2>6, Failed
  <2> QED BY <1>5, <2>1, <2>2, <2>3, <2>4, <2>5, <2>6 DEF Step
<1>6. CASE Kill(r)
  BY <1>6, Killed
<1>7. CASE LoseSession(r)
  BY <1>7, LostSession
<1>8. CASE Fail(r)
  BY <1>8, Failed
<1> QED BY <1>2, <1>3, <1>4, <1>5, <1>6, <1>7, <1>8

\* The oldest event owed is projected: what is newest of its order is it, or is
\* owed still.
LEMMA ReplaysOne ==
  ASSUME Types, NEW r \in Runs, ReplayEvent(r), Replaying(r)
  PROVE  /\ run'[r].at # "idle" => Replaying(r)'
         /\ run'[r].at = "idle" =>
               \A o \in Orders : \A k \in DOMAIN log : Latest(o, k) => live'[o] = log[k].version
<1>1. PICK n \in run[r].todo :
          /\ Current(r, n) /\ ProjectNode(r, n)
          /\ Done(r, n, IF run[r].todo = {n} THEN "idle" ELSE "replay")
  BY DEF ReplayEvent
<1>2. /\ live' = [live EXCEPT ![n.order] = n.version] /\ log' = log
      /\ live \in [Orders -> Versions] /\ DOMAIN log = 1 .. Len(log) /\ Len(log) \in Nat
      /\ \A k \in DOMAIN log : log[k] \in EventType
  BY <1>1, ElementOfSeq, LenProperties DEF ProjectNode, Types, TableTypes
<1>3. n.place \in DOMAIN log /\ n = Event(n.place)
  BY <1>1 DEF Replaying
<1>4. /\ n.order = log[n.place].order /\ n.version = log[n.place].version
      /\ n.place \in Nat /\ n.order \in Orders
  BY <1>2, <1>3 DEF Event, EventType
<1>5. \A k \in DOMAIN log : k \in Nat /\ Event(k).place = k
  BY <1>2 DEF Event
<1>6. \A k \in DOMAIN log : Owed(r, k) <=> n.place <= k
  <2> TAKE k \in DOMAIN log
  <2>1. Owed(r, k) => n.place <= k
    BY <1>1, <1>5 DEF Owed, Current
  <2>2. n.place <= k => Owed(r, k)
    BY <1>1 DEF Replaying
  <2> QED BY <2>1, <2>2
<1>7. ASSUME NEW o \in Orders, NEW k \in DOMAIN log, Latest(o, k)
      PROVE  live'[o] = log[k].version \/ Event(k) \in run[r].todo \ {n}
  <2>1. CASE k = n.place
    BY <1>2, <1>4, <1>7, <2>1 DEF Latest
  <2>2. CASE k # n.place /\ Owed(r, k)
    BY <1>3, <1>5, <2>2 DEF Owed
  <2>3. CASE ~Owed(r, k)
    <3>1. live[o] = log[k].version
      BY <1>7, <2>3 DEF Replaying
    <3>2. o # n.order
      <4> SUFFICES ASSUME o = n.order
                   PROVE  FALSE
        OBVIOUS
      <4>1. n.place <= k
        BY <1>3, <1>4, <1>7 DEF Latest
      <4> QED BY <1>6, <2>3, <4>1
    <3> QED BY <1>2, <3>1, <3>2
  <2> QED BY <2>1, <2>2, <2>3
<1>8. CASE run[r].todo = {n}
  <2>1. End(r)
    BY <1>1, <1>8 DEF Done
  <2>2. run'[r] = Idle
    BY <2>1, Ends DEF Types
  <2> QED BY <1>7, <1>8, <2>2, IdleType
<1>9. CASE run[r].todo # {n}
  <2>1. Done(r, n, "replay")
    BY <1>1, <1>9
  <2>2. run'[r].at = "replay" /\ run'[r].todo = run[r].todo \ {n}
    BY <1>1, <1>9, <2>1, Dones DEF Types
  <2>3. \A k \in DOMAIN log : Owed(r, k)' <=> Event(k) \in run[r].todo \ {n}
    BY <1>2, <2>2 DEF Owed, Event
  <2>4. ASSUME NEW m \in run[r].todo \ {n}
        PROVE  /\ m.place \in DOMAIN log /\ m = Event(m.place)
               /\ \A k \in DOMAIN log : m.place <= k => Owed(r, k)'
    <3>1. m.place \in DOMAIN log /\ m = Event(m.place)
      BY <2>4 DEF Replaying
    <3>2. m.place # n.place /\ n.place <= m.place
      BY <1>1, <1>3, <2>4, <3>1 DEF Current
    <3>3. ASSUME NEW k \in DOMAIN log, m.place <= k
          PROVE  Owed(r, k)'
      <4>1. k # n.place /\ n.place <= k
        BY <1>4, <1>5, <3>1, <3>2, <3>3
      <4>2. Event(k) # n
        BY <1>5, <4>1
      <4> QED BY <1>6, <2>3, <4>1, <4>2 DEF Owed
    <3> QED BY <3>1, <3>3
  <2>5. \A o \in Orders : \A k \in DOMAIN log : Latest(o, k)' <=> Latest(o, k)
    BY <1>2 DEF Latest
  <2>6. \A k \in DOMAIN log : Event(k)' = Event(k)
    BY <1>2 DEF Event
  <2>7. Replaying(r)'
    BY <1>2, <1>7, <2>2, <2>3, <2>4, <2>5, <2>6 DEF Replaying
  <2> QED BY <2>2, <2>7
<1> QED BY <1>8, <1>9

\* A replay that begins owes the whole log.
LEMMA ReplayBegins ==
  ASSUME Types, NEW r \in Runs, NEW picked \in SUBSET DOMAIN log, Replay(r, picked)
  PROVE  Replayed(r)'
<1>1. PICK as \in RunType :
         /\ Began(r, as) /\ as.at = "replay" /\ as.kind = "replay"
         /\ as.full = (picked = DOMAIN log) /\ as.todo = {Event(k) : k \in picked}
  BY Replays
<1>2. run'[r] = as /\ log' = log
  BY <1>1, Replays DEF Began, db
<1>3. CASE picked = DOMAIN log
  <2>1. \A k \in DOMAIN log : Event(k)' = Event(k) /\ Event(k).place = k
    BY <1>2 DEF Event
  <2>2. \A k \in DOMAIN log : Owed(r, k)'
    <3> TAKE k \in DOMAIN log
    <3>1. Event(k) \in run'[r].todo
      BY <1>1, <1>2, <1>3
    <3> QED BY <2>1, <3>1 DEF Owed
  <2>3. \A n \in run'[r].todo : n.place \in DOMAIN log /\ n = Event(n.place)'
    <3> TAKE n \in run'[r].todo
    <3>1. PICK k \in DOMAIN log : n = Event(k)
      <4>1. n \in {Event(k) : k \in DOMAIN log}
        BY <1>1, <1>2, <1>3
      <4> QED BY <4>1
    <3>2. n.place = k
      BY <2>1, <3>1
    <3> QED BY <2>1, <3>1, <3>2
  <2>4. Replaying(r)'
    BY <1>2, <2>2, <2>3 DEF Replaying
  <2> QED BY <1>1, <1>2, <2>4 DEF Replayed
<1>4. CASE picked # DOMAIN log
  BY <1>1, <1>2, <1>4 DEF Replayed
<1> QED BY <1>3, <1>4

\* Of itself, whatever else runs is no replay.
LEMMA OwnReplayed ==
  ASSUME Types, Alone, NEW r \in Runs, Replayed(r),
         \/ StartIncremental(r) \/ Backfill(r) \/ Admin(r) \/ Step(r)
         \/ Fail(r) \/ Kill(r) \/ LoseSession(r)
  PROVE  Replayed(r)'
<1>1. ASSUME run'[r].kind # "replay"
      PROVE  Replayed(r)'
  BY <1>1 DEF Replayed
<1>2. ASSUME UNCHANGED <<log, live, run>>, overlap \subseteq overlap'
      PROVE  Replayed(r)'
  BY <1>2, ReplayedStays
<1>3. CASE StartIncremental(r)
  <2>1. run'[r].kind = "incremental"
    BY <1>3, StartsWalk DEF Began
  <2> QED BY <1>1, <2>1
<1>4. CASE Backfill(r)
  <2>1. \/ run'[r].kind = "backfill"
        \/ UNCHANGED <<log, live, run, overlap>>
    <3>1. CASE StartBulk(r)
      BY <3>1, StartsBulk DEF Began, db
    <3>2. CASE PollBulk(r)
      BY <3>2 DEF PollBulk
    <3>3. CASE IngestExport(r)
      BY <3>3, Imports DEF Began
    <3> QED BY <1>4, <3>1, <3>2, <3>3 DEF Backfill
  <2> QED BY <1>1, <1>2, <2>1
<1>5. CASE Admin(r)
  <2>1. ASSUME NEW picked \in SUBSET DOMAIN log, Replay(r, picked)
        PROVE  Replayed(r)'
    BY <2>1, ReplayBegins
  <2>2. ASSUME NEW from \in DOMAIN exports, Reingest(r, from)
        PROVE  Replayed(r)'
    <3>1. run'[r].kind = "reingest"
      BY <2>2, Reingests DEF Began
    <3> QED BY <1>1, <3>1
  <2>3. ASSUME NEW to \in 0 .. clock, ResetWatermark(r, to)
        PROVE  Replayed(r)'
    BY <1>2, <2>3 DEF ResetWatermark
  <2> QED BY <1>5, <2>1, <2>2, <2>3 DEF Admin
<1>6. CASE Kill(r)
  BY <1>1, <1>6, Killed, IdleType
<1>7. CASE LoseSession(r)
  BY <1>2, <1>7, LostSession DEF db
<1>8. CASE Step(r) /\ run[r].kind # "replay"
  <2>1. run'[r].kind \in {run[r].kind, "none"}
    <3>1. CASE FetchPage(r)
      BY <3>1, Pages
    <3>2. CASE AppendEvent(r)
      BY <3>2, Appends
    <3>3. CASE Project(r) \/ ReplayEvent(r)
      BY <3>3, Projects, IdleType
    <3>4. CASE Advance(r)
      <4>1. run'[r] = Idle \/ run'[r] = [run[r] EXCEPT !.at = "untrack"]
        BY <3>4, Advances
      <4>2. run[r] \in RunType
        BY DEF Types, RunTypes
      <4>3. CASE run'[r] = [run[r] EXCEPT !.at = "untrack"]
        BY <4>2, <4>3 DEF RunType
      <4> QED BY <4>1, <4>3, IdleType
    <3>5. CASE TrackBulk(r) \/ UntrackBulk(r)
      BY <3>5, Untracks, IdleType
    <3>6. CASE Reject(r)
      BY <3>6, Failed, IdleType
    <3> QED BY <1>8, <3>1, <3>2, <3>3, <3>4, <3>5, <3>6 DEF Step
  <2> QED BY <1>1, <1>8, <2>1
<1>9. CASE Step(r) /\ run[r].kind = "replay" /\ ~Reject(r)
  <2>1. ReplayEvent(r)
    BY <1>9 DEF Replayed, Step, FetchPage, AppendEvent, Project, Advance, TrackBulk, UntrackBulk
  <2>2. PICK n \in run[r].todo : Done(r, n, IF run[r].todo = {n} THEN "idle" ELSE "replay")
    BY <2>1 DEF ReplayEvent
  <2>3. CASE run[r].todo = {n}
    <3>1. run'[r] = Idle
      BY <2>2, <2>3, Ends DEF Types, Done
    <3> QED BY <1>1, <3>1, IdleType
  <2>4. CASE run[r].todo # {n}
    <3>1. /\ run'[r].at = "replay" /\ run'[r].full = run[r].full /\ overlap' = overlap
      BY <2>2, <2>4, Dones DEF Types
    <3>2. CASE run[r].full /\ r \notin overlap
      <4>1. Replaying(r)
        BY <1>9, <3>2 DEF Replayed
      <4>2. Replaying(r)'
        BY <2>1, <3>1, <4>1, ReplaysOne
      <4> QED BY <3>1, <4>2 DEF Replayed
    <3> QED BY <3>1, <3>2 DEF Replayed
  <2> QED BY <2>3, <2>4
<1>10. CASE Reject(r) \/ Fail(r)
  BY <1>1, <1>10, Failed, IdleType
<1> QED BY <1>3, <1>4, <1>5, <1>6, <1>7, <1>8, <1>9, <1>10

LEMMA Beginnings ==
  ASSUME NEW r \in Runs, StartIncremental(r) \/ Backfill(r) \/ Admin(r)
  PROVE  run[r].at = "idle" /\ lock = Nobody
<1>1. Begin(r)
  <2>1. CASE StartIncremental(r)
    BY <2>1, Zenon DEF StartIncremental
  <2>2. CASE Backfill(r)
    BY <2>2, Zenon DEF Backfill, StartBulk, PollBulk, IngestExport, Backfilling
  <2>3. CASE Admin(r)
    BY <2>3, Zenon DEF Admin, Replay, Reingest, ResetWatermark, Command
  <2> QED BY <2>1, <2>2, <2>3
<1> QED BY <1>1 DEF Begin

\* Whoever steps is at work, or the lock was free.
LEMMA StepsFreely ==
  ASSUME Types, NEW r \in Runs,
         \/ StartIncremental(r) \/ Backfill(r) \/ Admin(r) \/ Step(r)
         \/ Fail(r) \/ Kill(r) \/ LoseSession(r)
  PROVE  run[r].at # "idle" \/ lock = Nobody
<1>1. CASE Step(r)
  BY <1>1 DEF Step, FetchPage, AppendEvent, Project, ReplayEvent, Advance, TrackBulk, UntrackBulk,
              Reject, Types, RunTypes, HasNodes
<1>2. CASE Fail(r) \/ Kill(r) \/ LoseSession(r)
  BY <1>2 DEF Fail, Kill, LoseSession
<1> QED BY <1>1, <1>2, Beginnings

LEMMA FaultsCounted ==
  ASSUME Types, faults \in Nat, [Next]_vars
  PROVE  faults' \in Nat
<1>1. ASSUME NEW r \in Runs,
             \/ StartIncremental(r) \/ Backfill(r) \/ Admin(r) \/ Step(r)
             \/ Fail(r) \/ Kill(r) \/ LoseSession(r)
      PROVE  faults' \in Nat
  <2>1. CASE StartIncremental(r)
    BY <2>1, StartsWalk DEF bounds
  <2>2. CASE Backfill(r)
    BY <2>2 DEF Backfill, StartBulk, PollBulk, IngestExport
  <2>3. CASE Admin(r)
    <3>1. ASSUME NEW picked, Replay(r, picked)
          PROVE  faults' = faults
      BY <3>1, Zenon DEF Replay
    <3>2. ASSUME NEW from, Reingest(r, from)
          PROVE  faults' = faults
      BY <3>2, Zenon DEF Reingest
    <3>3. ASSUME NEW to, ResetWatermark(r, to)
          PROVE  faults' = faults
      BY <3>3 DEF ResetWatermark
    <3> QED BY <2>3, <3>1, <3>2, <3>3 DEF Admin
  <2>4. CASE Step(r)
    <3>1. CASE FetchPage(r)
      BY <3>1, Pages DEF bounds
    <3>2. CASE AppendEvent(r)
      BY <3>2, Appends DEF bounds
    <3>3. CASE Project(r) \/ ReplayEvent(r)
      BY <3>3, Projects DEF bounds
    <3>4. CASE Advance(r)
      BY <3>4, Advances DEF bounds
    <3>5. CASE TrackBulk(r) \/ UntrackBulk(r)
      BY <3>5, Untracks DEF bounds
    <3>6. CASE Reject(r)
      BY <3>6 DEF Reject, bounds
    <3> QED BY <2>4, <3>1, <3>2, <3>3, <3>4, <3>5, <3>6 DEF Step
  <2>5. CASE Fail(r) \/ Kill(r) \/ LoseSession(r)
    BY <2>5 DEF Fail, Kill, LoseSession, Fault
  <2> QED BY <1>1, <2>1, <2>2, <2>3, <2>4, <2>5
<1>2. CASE UNCHANGED vars
  BY <1>2 DEF vars, bounds
<1>3. ASSUME NEW o \in Orders, Change(o)
      PROVE  faults' \in Nat
  BY <1>3 DEF Change, Fault
<1>4. CASE BulkEnds
  <2>1. UNCHANGED bounds
    BY <1>4, Exports
  <2> QED BY <2>1 DEF bounds
<1>5. CASE SessionEnds \/ Repair
  BY <1>5 DEF SessionEnds, Repair, bounds
<1> QED BY <1>1, <1>2, <1>3, <1>4, <1>5 DEF Next

LEMMA NextRestores ==
  ASSUME Types, Alone, Restores, [Next]_vars
  PROVE  Restores'
<1>1. \A q \in Runs : Replayed(q)'
  <2>1. ASSUME NEW r \in Runs,
               \/ StartIncremental(r) \/ Backfill(r) \/ Admin(r) \/ Step(r)
             \/ Fail(r) \/ Kill(r) \/ LoseSession(r)
        PROVE  \A q \in Runs : Replayed(q)'
    <3>1. Replayed(r)'
      BY <2>1, OwnReplayed DEF Restores
    <3>2. ASSUME NEW q \in Runs \ {r}
          PROVE  Replayed(q)'
      <4>1. run'[q] = run[q] /\ (q \in overlap => q \in overlap')
        BY <2>1, OthersRun
      <4>2. run[r].at # "idle" \/ lock = Nobody
        BY <2>1, StepsFreely
      <4> QED BY <4>1, <4>2, OthersReplayed DEF Restores
    <3> QED BY <3>1, <3>2
  <2>2. ASSUME UNCHANGED <<log, live, run, overlap>>
        PROVE  \A q \in Runs : Replayed(q)'
    BY <2>2, ReplayedStays DEF Restores
  <2>3. CASE UNCHANGED vars
    BY <2>2, <2>3 DEF vars, db
  <2>4. CASE BulkEnds \/ SessionEnds \/ Repair \/ \E o \in Orders : Change(o)
    BY <2>2, <2>4 DEF BulkEnds, SessionEnds, Repair, Change, db
  <2> QED BY <2>1, <2>3, <2>4 DEF Next
<1>2. faults' \in Nat
  BY FaultsCounted DEF Restores
<1> QED BY <1>1, <1>2 DEF Restores

LEMMA InitRestores == Init => Restores
BY IdleType DEF Init, Restores, Replayed

\* No step but its last event, a refusal, a failure and a kill ends a replay.
LEMMA ReplayEnds ==
  ASSUME Types, Restores, [Next]_vars, NEW r \in Runs, run[r].at = "replay",
         run'[r].at = "idle", faults' = faults, ~ \E n \in run[r].todo : Refuses(r, n)
  PROVE  ReplayEvent(r)
<1>1. run'[r] # run[r]
  OBVIOUS
<1>2. PICK q \in Runs :
         \/ StartIncremental(q) \/ Backfill(q) \/ Admin(q) \/ Step(q)
         \/ Fail(q) \/ Kill(q) \/ LoseSession(q)
  BY <1>1 DEF Next, vars, Change, BulkEnds, SessionEnds, Repair
<1>3. q = r
  BY <1>1, <1>2, OthersRun
<1>4. ~Fail(r) /\ ~Kill(r) /\ ~LoseSession(r) /\ ~Reject(r)
  BY DEF Fail, Kill, LoseSession, Reject, Fault, Restores
<1>5. ~StartIncremental(r) /\ ~Backfill(r) /\ ~Admin(r)
  BY Beginnings
<1> QED BY <1>2, <1>3, <1>4, <1>5 DEF Step, FetchPage, AppendEvent, Project, Advance, TrackBulk,
           UntrackBulk

\* A full replay that ran alone to its end, refused nothing, leaves every live row on the newest
\* event of the log, whatever the log was fed by (replay.ts).
THEOREM EndsOnNewest == Spec => ReplayEndsOnNewest
<1> DEFINE Newest == \A r \in Runs :
          /\ run[r].kind = "replay" /\ run[r].full /\ r \notin overlap
          /\ run'[r].at = "idle" /\ faults' = faults
          /\ ~ \E n \in run[r].todo : Refuses(r, n)
          => \A o \in Orders : \A k \in DOMAIN log :
                 Latest(o, k) => live'[o] = log[k].version
<1>1. Types /\ Restores /\ [Next]_vars => Newest
  <2> SUFFICES ASSUME Types, Restores, [Next]_vars, NEW r \in Runs,
                      run[r].kind = "replay", run[r].full, r \notin overlap,
                      run'[r].at = "idle", faults' = faults,
                      ~ \E n \in run[r].todo : Refuses(r, n)
               PROVE  \A o \in Orders : \A k \in DOMAIN log :
                          Latest(o, k) => live'[o] = log[k].version
    OBVIOUS
  <2>1. run[r].at = "replay" /\ Replaying(r)
    BY DEF Restores, Replayed
  <2>2. ReplayEvent(r)
    BY <2>1, ReplayEnds
  <2> QED BY <2>1, <2>2, ReplaysOne
<1>2. Alone /\ Types /\ Restores /\ [Next]_vars => Restores'
  BY NextRestores
<1>3. Ingest => Alone
  BY DEF Ingest
<1> QED BY <1>1, <1>2, <1>3, InitRestores, IngestAlways, PTL DEF Spec, ReplayEndsOnNewest
=============================================================================
