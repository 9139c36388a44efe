------------------------- MODULE TwoTrackGateProofs -------------------------
(***************************************************************************)
(* What the abstract two-track gate guarantees of any number of rows.      *)
(***************************************************************************)
EXTENDS TwoTrackGate, TLAPS

GateTyped ==
  /\ phase \in [Ids -> Phases]
  /\ paid \in [Ids -> BOOLEAN]
  /\ cleared \in [Ids -> BOOLEAN]

\* Every row stands where its two tracks allow: a member is paid and cleared, a
\* held row paid only, and nobody before or at payment has paid.
GateHolds == \A p \in Ids : Fits(p, phase[p])

\* A membership is never taken back by the lifecycle.
MembersStay == [][\A p \in Ids : phase[p] = "member" => phase'[p] = "member"]_gateVars

LEMMA GateInitially == GateInit => GateTyped /\ GateHolds
  BY DEF GateInit, GateTyped, GateHolds, Fits, Phases

LEMMA GateStep ==
  ASSUME GateTyped, GateHolds, [GateNext]_gateVars
  PROVE  GateTyped' /\ GateHolds' /\ \A p \in Ids : phase[p] = "member" => phase'[p] = "member"
<1>1. ASSUME NEW p \in Ids,
             \/ Apply(p) \/ Proceed(p) \/ Pay(p) \/ Clear(p)
             \/ Block(p) \/ Restart(p) \/ Shelve(p) \/ Restore(p)
      PROVE  /\ GateTyped' /\ GateHolds'
             /\ \A q \in Ids : phase[q] = "member" => phase'[q] = "member"
  <2>1. GateTyped'
    BY <1>1 DEF GateTyped, Phases, Goto, Apply, Proceed, Pay, Clear, Block, Restart, Shelve,
       Restore
  <2>2. ASSUME NEW q \in Ids, q # p
        PROVE  phase'[q] = phase[q] /\ paid'[q] = paid[q] /\ cleared'[q] = cleared[q]
    BY <1>1, <2>2 DEF GateTyped, Goto, Apply, Proceed, Pay, Clear, Block, Restart, Shelve,
       Restore
  <2>3. Fits(p, phase[p])
    BY DEF GateHolds
  <2>4. Fits(p, phase[p])' /\ (phase[p] = "member" => phase'[p] = "member")
    BY <1>1, <2>3 DEF GateTyped, Phases, Fits, Goto, Apply, Proceed, Pay, Clear, Block,
       Restart, Shelve, Restore
  <2>5. QED
    BY <2>1, <2>2, <2>4 DEF GateHolds, Fits
<1>2. CASE UNCHANGED gateVars
  BY <1>2 DEF gateVars, GateTyped, GateHolds, Fits
<1>3. QED
  BY <1>1, <1>2 DEF GateNext

LEMMA GateInductive == GateSpec => [](GateTyped /\ GateHolds)
<1>1. (GateTyped /\ GateHolds) /\ [GateNext]_gateVars => (GateTyped /\ GateHolds)'
  BY GateStep
<1>2. QED
  BY <1>1, GateInitially, PTL DEF GateSpec

\* In the abstract gate a row is a member only when it is paid and cleared, and
\* is held, blocked, archived or before payment only when it lacks one of them.
THEOREM GateIsSafe == GateSpec => []GateHolds
  BY GateInductive, PTL

\* In the abstract gate a member stays a member.
THEOREM MembersStayMembers == GateSpec => MembersStay
<1>1. (GateTyped /\ GateHolds) /\ [GateNext]_gateVars =>
        [\A p \in Ids : phase[p] = "member" => phase'[p] = "member"]_gateVars
  BY GateStep
<1>2. QED
  BY <1>1, GateInductive, PTL DEF GateSpec, MembersStay

=============================================================================
