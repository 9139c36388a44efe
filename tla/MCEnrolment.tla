---------------------------- MODULE MCEnrolment ----------------------------
(***************************************************************************)
(* Two people and a program of one or two places.                          *)
(***************************************************************************)
EXTENDS EnrolmentProperties

CONSTANTS p, q

MCPeople == {p, q}
MCStints == [x \in MCPeople |-> 1]
MCCaps == {1, 2}
=============================================================================
