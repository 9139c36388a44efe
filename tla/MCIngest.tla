------------------------------ MODULE MCIngest ------------------------------
(***************************************************************************)
(* Two orders that change twice between them, one bulk operation, one      *)
(* command of the operator, one fault or version refused, and two          *)
(* invocations, so that a run which has lost its session overlaps with the *)
(* next.                                                                   *)
(***************************************************************************)
EXTENDS IngestProperties, TLC

CONSTANTS r1, r2

MCOrders == {1, 2}
MCRuns == {r1, r2}
=============================================================================
