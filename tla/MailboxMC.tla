---------------------------- MODULE MailboxMC ----------------------------
(* A small mailbox for TLC.                                                *)
EXTENDS Mailbox, TLC

CONSTANTS r1, r2, m1, m2, x1

AnyRequest == Permutations({r1, r2})
=============================================================================
