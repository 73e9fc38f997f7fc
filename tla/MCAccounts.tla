------------------------------ MODULE MCAccounts -------------------------------
(***************************************************************************)
(* What stands between a visitor and an account: the second factor         *)
(* (TwoFactor), the address links are mailed to (EmailChange) and the      *)
(* limiter in front of both (Throttle); and what other members decide      *)
(* about its picture (CommunityMod).  They share no state, so that one of  *)
(* them moves in each behaviour.                                           *)
(***************************************************************************)
EXTENDS MCTwoFactor, EmailChange, Throttle, CommunityMod

CONSTANTS a1, a2, k1, k2

VARIABLE part

AccountsInit ==
    part \in {"factor", "email", "throttle", "votes"} /\ Init /\ EmailInit /\ ThrottleInit /\ ModInit

AccountsNext ==
    /\ UNCHANGED part
    /\ \/ part = "factor" /\ Next /\ UNCHANGED <<emailVars, throttleVars, modVars>>
       \/ part = "email" /\ EmailNext /\ UNCHANGED <<vars, throttleVars, modVars>>
       \/ part = "throttle" /\ ThrottleNext /\ UNCHANGED <<vars, emailVars, modVars>>
       \/ part = "votes" /\ ModNext /\ UNCHANGED <<vars, emailVars, throttleVars>>

AccountsSpec == AccountsInit /\ [][AccountsNext]_<<part, vars, emailVars, throttleVars, modVars>>

AccountsTypeOK == TypeOK /\ EmailTypeOK /\ ModTypeOK
AccountsSymmetry == SignInSymmetry \cup Permutations({k1, k2})
===============================================================================
