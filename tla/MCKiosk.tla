------------------------------ MODULE MCKiosk ------------------------------
(***************************************************************************)
(* One member badges at two kiosks, the clock of one of which is ahead,    *)
(* and is not on file at first.  The badge of the other never will be.     *)
(* Requests of the first scan may be about when the second is handled.     *)
(***************************************************************************)
EXTENDS KioskProperties

CONSTANTS p, q, j, k

Both == {p, q}
MCKiosks == {j, k}
Never == {q}
MCFast == {k}
MCBadges == {<<p, j, "IN">>, <<p, k, "OUT">>, <<q, j, "OUT">>}
MCStraying == {1}
=============================================================================
