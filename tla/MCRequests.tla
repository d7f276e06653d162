------------------------------ MODULE MCRequests ------------------------------
(* Requests for TLC: users and links that are alike are interchangeable.   *)
EXTENDS Requests, TLC

Alike == Permutations(FbUsers) \union Permutations(Links)
=============================================================================
