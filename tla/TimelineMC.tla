----------------------------- MODULE TimelineMC -----------------------------
(* The instance of Timeline that TLC checks.                                 *)
EXTENDS Timeline, TLC

CONSTANTS a, b, a1, a2, b1, x1, x2, m1, m2, n1, n2

FeedOfTwt == a1 :> a @@ a2 :> a @@ b1 :> b
DateOfTwt == a1 :> 0 @@ a2 :> 1 @@ b1 :> 1

CastOf == [v \in {"timeline", "twt"} |-> IF v = "twt" THEN {a1, a2} ELSE {a1, a2, b1}]

\* No fetcher, no muting request and no nick is told apart from another.
Alike == Permutations({x1, x2}) \cup Permutations({m1, m2}) \cup Permutations({n1, n2})
=============================================================================
