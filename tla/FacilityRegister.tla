-------------------------- MODULE FacilityRegister --------------------------
(***************************************************************************)
(* What the attendance system promises of one building: who is signed in,  *)
(* and that nobody stays signed in without a keyholder unless the building *)
(* is being closed (docs/rules/attendance-checkin.md, "Keyholders").       *)
(*                                                                         *)
(* excused becomes TRUE when something outside the promise has happened,   *)
(* and from then on nothing is promised.                                   *)
(***************************************************************************)
CONSTANTS People, Keyholders

VARIABLES inside, closing, excused

register == <<inside, closing, excused>>

Attended(S) == S \cap Keyholders # {}

Init == inside = {} /\ closing = FALSE /\ excused = FALSE

\* Some people sign in, a keyholder among them or inside already.
Enter ==
  /\ inside \subseteq inside' /\ inside # inside'
  /\ inside' \subseteq People
  /\ Attended(inside')
  /\ UNCHANGED <<closing, excused>>

\* Someone signs out.  The last keyholder either leaves an empty building or
\* starts to close it.
Leave ==
  /\ \E p \in inside : inside' = inside \ {p}
  /\ inside' = {} \/ Attended(inside') \/ closing'
  /\ closing' \in {closing, TRUE}
  /\ UNCHANGED excused

StartClosing == closing' = TRUE /\ UNCHANGED <<inside, excused>>

\* A closing signs everyone out who is still in, or ends with a keyholder in.
\* Another closing may still be under way.
FinishClosing ==
  /\ closing
  /\ inside' \subseteq inside
  /\ inside' = {} \/ Attended(inside') \/ closing'
  /\ closing' \in BOOLEAN
  /\ UNCHANGED excused

Excuse ==
  /\ excused' = TRUE
  /\ inside' \subseteq People
  /\ closing' \in BOOLEAN

Next == Enter \/ Leave \/ StartClosing \/ FinishClosing \/ Excuse

Spec == Init /\ [][Next]_register

=============================================================================
