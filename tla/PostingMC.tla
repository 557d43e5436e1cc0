------------------------------ MODULE PostingMC ------------------------------
(* Instances of Posting for TLC.                                             *)
EXTENDS Posting

CONSTANTS old1, old2, new1, new2

MCOldTwts == <<old1, old2>>
MCMentions == [t \in Twt |-> IF t = new1 THEN 3 ELSE 0]
=============================================================================
