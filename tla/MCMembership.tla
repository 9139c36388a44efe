---------------------------- MODULE MCMembership ----------------------------
(***************************************************************************)
(* Small instances of MembershipProperties for TLC.                        *)
(*                                                                         *)
(* hA applies: its leads are l1 and l2, and c is its adult child.  The     *)
(* reviewers v1 and w1 share household hV; v2 lives in hW and u in hU.     *)
(***************************************************************************)
EXTENDS MembershipProperties, TLC

CONSTANTS hA, hV, hW, hU, l1, l2, c, v1, w1, v2, u, p1, p2, r1, r2

Everyone == {l1, l2, c, v1, w1, v2, u}
Homes == {hA, hV, hW, hU}
HomeOf ==
  [x \in Everyone |-> CASE x \in {l1, l2, c} -> hA
                         [] x \in {v1, w1} -> hV
                         [] x = v2 -> hW
                         [] x = u -> hU]

\* One mark is enough where dues are not the question.
Unmarked == {FALSE}

\* The standing of the applicants is set by hand: not at all, or to these.
HandsOff == {}
RevokedByHand == {<<hA, "REVOKED">>}
AnyByHand == {hA} \X Standings

\* l1 and l2 are interchangeable, and so are v1 and w1, rows and requests.  An
\* instance takes the symmetry of those it has two of.
SymmetryOfRows == Permutations({p1, p2})
SymmetryOfRequests ==
  Permutations({l1, l2}) \cup Permutations({v1, w1}) \cup Permutations({r1, r2})

=============================================================================
