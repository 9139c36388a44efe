---------------------------- MODULE TwoTrackGate ----------------------------
(***************************************************************************)
(* What the household membership lifecycle promises, without saying how:   *)
(* payment and the background check run side by side, and a row becomes a  *)
(* membership exactly when it has both.  One row per id; a step touches    *)
(* one row.  MembershipProperties shows that the handlers of               *)
(* MembershipProcess, run one after another, implement this.               *)
(***************************************************************************)
CONSTANT Ids

VARIABLES
  phase,    \* where the row stands
  paid,     \* the dues are in
  cleared   \* the check is in

gateVars == <<phase, paid, cleared>>

Phases == {"none", "pending", "payment", "held", "member", "blocked", "archived"}

\* The phases a row may stand in, given what it has.
Fits(p, ph) ==
  CASE ph \in {"none", "pending", "payment"} -> ~paid[p]
    [] ph = "held" -> paid[p] /\ ~cleared[p]
    [] ph = "member" -> paid[p] /\ cleared[p]
    [] ph = "blocked" -> ~cleared[p]
    [] ph = "archived" -> ~(paid[p] /\ cleared[p])

Goto(p, ph) == phase' = [phase EXCEPT ![p] = ph]

GateInit ==
  /\ phase \in [Ids -> {"none", "pending"}]
  /\ paid = [p \in Ids |-> FALSE]
  /\ cleared = [p \in Ids |-> FALSE]

Apply(p) == phase[p] = "none" /\ Goto(p, "pending") /\ UNCHANGED <<paid, cleared>>

\* The external actions are done.
Proceed(p) ==
  phase[p] = "pending" /\ Goto(p, "payment") /\ UNCHANGED <<paid, cleared>>

\* Dues arrive: on a row awaiting them they count, on a blocked one they are kept.
Pay(p) ==
  /\ ~paid[p]
  /\ \/ phase[p] = "payment" /\ Goto(p, IF cleared[p] THEN "member" ELSE "held")
     \/ phase[p] = "blocked" /\ UNCHANGED phase
  /\ paid' = [paid EXCEPT ![p] = TRUE]
  /\ UNCHANGED cleared

\* The check comes in, from reviewers, the board, an earlier check or a merge.
Clear(p) ==
  /\ \/ phase[p] = "pending" /\ (UNCHANGED phase \/ Goto(p, "payment"))
     \/ phase[p] \in {"payment", "held", "blocked"}
          /\ Goto(p, IF paid[p] THEN "member" ELSE "payment")
  /\ cleared' = [cleared EXCEPT ![p] = TRUE]
  /\ UNCHANGED paid

Block(p) ==
  /\ phase[p] \in {"pending", "payment", "held"} /\ ~cleared[p]
  /\ Goto(p, "blocked")
  /\ UNCHANGED <<paid, cleared>>

\* The board restarts a blocked review where the dues left the row.
Restart(p) ==
  /\ phase[p] = "blocked"
  /\ Goto(p, IF paid[p] THEN "held" ELSE "payment")
  /\ UNCHANGED <<paid, cleared>>

Shelve(p) ==
  /\ phase[p] \in {"pending", "payment", "held", "blocked"}
  /\ Goto(p, "archived")
  /\ UNCHANGED <<paid, cleared>>

Restore(p) ==
  /\ phase[p] = "archived"
  /\ \E ph \in {"pending", "payment", "held", "blocked"} : Fits(p, ph) /\ Goto(p, ph)
  /\ UNCHANGED <<paid, cleared>>

GateNext ==
  \E p \in Ids : \/ Apply(p) \/ Proceed(p) \/ Pay(p) \/ Clear(p) \/ Block(p)
                 \/ Restart(p) \/ Shelve(p) \/ Restore(p)

GateSpec == GateInit /\ [][GateNext]_gateVars

=============================================================================
