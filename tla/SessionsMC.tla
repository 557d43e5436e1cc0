---------------------------- MODULE SessionsMC ----------------------------
(* A small pod for TLC.                                                    *)
EXTENDS Sessions, TLC

CONSTANTS u1, s1, s2, r1, r2

(* Sessions, and requests, differ in their name only; safety is checked.   *)
Alike == Permutations(Sid) \cup Permutations(Request)
=============================================================================
