--------------------------- MODULE FeedCacheMC ---------------------------
(* Small instances of the feed cache for TLC.                              *)
EXTENDS FeedCache, TLC

CONSTANTS a, b, x, xNew, a1, a2, b1, x1

(* a and b belong to users of the pod, x is elsewhere and may move.        *)
TwoTwtsOf == b1 :> b @@ x1 :> x

OwnTwtsOf == a1 :> a @@ a2 :> a

(* Everyone posts to a feed of their own.                                  *)
OwnFeeds == [f \in Local |-> f]

Moves == x :> xNew

NoMoves == << >>
=============================================================================
