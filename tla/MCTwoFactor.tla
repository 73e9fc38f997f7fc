------------------------------ MODULE MCTwoFactor ------------------------------
(***************************************************************************)
(* Small instances of TwoFactor: two or three secrets, two browsers.       *)
(***************************************************************************)
EXTENDS TwoFactor, TLC

CONSTANTS s1, s2, s3, b1, b2

SignInSymmetry == Permutations({s1, s2, s3} \cap Secrets) \cup Permutations(Browsers)
===============================================================================
