----------------------------- MODULE MCMembers -----------------------------
(***************************************************************************)
(* Instances of Members for TLC.                                           *)
(***************************************************************************)
EXTENDS Members, TLC

\* Nothing tells users, organizations, invitations or requests apart.
Symmetric == Permutations(Users) \cup Permutations(Orgs)
             \cup Permutations(Invitations) \cup Permutations(Requests)
=============================================================================
