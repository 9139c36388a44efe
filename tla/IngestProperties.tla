-------------------------- MODULE IngestProperties --------------------------
(***************************************************************************)
(* What the ingest promises: no change of the store slips behind the       *)
(* watermark, the live rows agree with the store once it has passed them,  *)
(* and a replay ends where the log ends.                                   *)
(***************************************************************************)
EXTENDS ShopifyIngest

Logged(o, v) == \E k \in DOMAIN log : log[k] = [order |-> o, version |-> v]

Dropped(o, v) == \E n \in dropped : n.order = o /\ n.version = v

Versions == 0 .. MaxChanges

\* Every variable has its type; a run has nodes exactly while it ingests, and
\* the live rows hold versions that the raw log holds (ingestNode appends
\* before it projects, so a projection can always be replayed).
TypeOK ==
    /\ clock \in Versions /\ store \in [Orders -> Versions]
    /\ refused \subseteq Versions \X {"append", "project"}
    /\ bulk.status \in {"NONE", "RUNNING", "COMPLETED", "FAILED"}
    /\ log \in Seq([order : Orders, version : Versions])
    /\ live \in [Orders -> Versions]
    /\ watermark \in Versions /\ {tracked, bulk.id} \subseteq Nat
    /\ lock \in Runs \cup {Nobody} /\ overlap \subseteq Busy
    /\ \A r \in Runs :
          /\ run[r].at \in {"idle", "fetch", "append", "project", "replay",
                           "advance", "track", "untrack"}
          /\ run[r].kind \in {"none", "incremental", "backfill", "replay", "reingest"}
          /\ run[r].at \in {"append", "project", "replay"} <=> run[r].todo # {}
          /\ run[r].at = "project" => run[r].on \in run[r].todo
    /\ \A o \in Orders : live[o] # 0 => Logged(o, live[o])

\* The watermark never passes a change that was not ingested, so the next walk
\* still finds it: not when orders change between two pages, when a run dies
\* half way, when an export is older than the last walk, when the operator
\* moves the watermark back or when two runs overlap (syncOrders and
\* stepOrdersBulk, advanceWatermark).  Unparseable lines are the exception.
NothingMissed ==
    \A o \in Exist :
        store[o] <= watermark => Logged(o, store[o]) \/ Dropped(o, store[o])

\* Once the watermark has passed an order, its live row is the order as the
\* store has it, unless its line was dropped, or an export, a replay or an
\* overlapping run wrote the row last: in particular, an event that was logged
\* by a run that died before projecting it is projected by the next one, which
\* finds it logged already (ingestNode projects whether or not it inserted).
CaughtUp ==
    \A o \in Exist :
        store[o] <= watermark /\ writer[o] = "incremental"
        => live[o] = store[o] \/ Dropped(o, store[o])

\* A full replay that ran alone to its end, refused nothing, leaves every live row on the newest
\* event of the log (replay.ts, "the final live-table state matches the most
\* recent event"), whatever the log was fed by.
ReplayEndsOnNewest ==
    [][\A r \in Runs :
          /\ run[r].kind = "replay" /\ run[r].full /\ r \notin overlap
          /\ run'[r].at = "idle" /\ faults' = faults
          /\ ~ \E n \in run[r].todo : Refuses(r, n)
          => \A o \in Orders : \A k \in DOMAIN log :
                 Latest(o, k) => live'[o] = log[k].version]_vars

\* What keeps a walk from version v: the raw log cannot take v itself, or an
\* order that comes before it in the walk is refused.
HeldUp(v) ==
    \/ <<v, "append">> \in refused
    \/ \E o \in Exist : store[o] < v /\ <<store[o], "project">> \in refused

\* Every change reaches the raw log, unless the order changes again first, its
\* line of an export was dropped, or it is held up for ever: no crash, failure,
\* lost session, failed bulk operation or refused start keeps the scheduled walks
\* from it.  A version that the ingest refuses ends every run that meets it
\* (ingestNode, withSyncRun), until it is repaired or its order changes; what
\* changed before it still arrives.
ChangesArrive ==
    \A o \in Orders : \A v \in 1 .. MaxChanges :
        <>[]~HeldUp(v) =>
            (store[o] = v ~>
                store[o] # v \/ Logged(o, v) \/ Dropped(o, v))
=============================================================================
