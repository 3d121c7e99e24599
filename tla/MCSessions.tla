----------------------------- MODULE MCSessions -----------------------------
(***************************************************************************)
(* Instances of Sessions for TLC.                                          *)
(***************************************************************************)
EXTENDS Sessions, TLC

\* Tokens, requests and users are told apart by nothing but their rows.
Symmetric == Permutations(Ids) \cup Permutations(Requests) \cup Permutations(Users)
=============================================================================
