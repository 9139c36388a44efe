---------------------------- MODULE MCAttendance ----------------------------
(***************************************************************************)
(* Two keyholders and a member.  One keyholder may come twice.             *)
(***************************************************************************)
EXTENDS AttendanceProperties

CONSTANTS k1, k2, y

MCPeople == {k1, k2, y}
MCKeyholders == {k1, k2}
MCMaxVisits == [p \in MCPeople |-> IF p = k1 THEN 2 ELSE 1]
=============================================================================
