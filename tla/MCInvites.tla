------------------------------- MODULE MCInvites -------------------------------
(***************************************************************************)
(* Small instances of Invites: two or three accounts, two or three codes,  *)
(* one or two addresses, and the operator switching between a few settings.*)
(***************************************************************************)
EXTENDS Invites, TLC

CONSTANTS m1, m2, m3, c1, c2, c3

Opt(required, strict, revoke, refund, cap) ==
    [required |-> required, strict |-> strict, revoke |-> revoke, refund |-> refund, cap |-> cap]

\* Refunds switched on and off, with and without a cap on pending invites.
RefundOptions == {Opt(TRUE, TRUE, TRUE, TRUE, 1), Opt(FALSE, TRUE, TRUE, FALSE, 0)}
\* Addresses optional, the lock strict throughout.
StrictOptions == {Opt(FALSE, TRUE, TRUE, TRUE, 0)}
\* The defaults of loadInviteSettings, the cap apart.
DefaultOptions == {Opt(TRUE, TRUE, TRUE, TRUE, 0)}

MemberSymmetry == Permutations({m1, m2}) \cup Permutations({c1, c2, c3})
NewcomerSymmetry == Permutations({m2, m3})
=============================================================================
