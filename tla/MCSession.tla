------------------------------ MODULE MCSession ------------------------------
(* Instances of Session.  Scale is 1000 in the program, and in the run about it; *)
(* where whole lives must pass, 2 is enough to tell the units apart.            *)
EXTENDS Session, TLC

LoginSymmetry == Permutations(Logins)
=============================================================================
