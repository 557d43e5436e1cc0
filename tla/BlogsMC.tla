------------------------------- MODULE BlogsMC -------------------------------
(* The instance of Blogs that TLC checks.                                    *)
EXTENDS Blogs, TLC

CONSTANTS r1, r2, r3, p1, p2

\* No request is told apart from another.
Alike == Permutations({r1, r2, r3})
=============================================================================
