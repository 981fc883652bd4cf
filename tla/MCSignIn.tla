------------------------------- MODULE MCSignIn -------------------------------
(* An instance of sign-in for TLC.                                            *)
EXTENDS SignIn
CONSTANTS e1, p1, recovery, a1, a2, a3, ip1, st1, c1, c2
=============================================================================
