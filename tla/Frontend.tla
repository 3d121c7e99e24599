------------------------------ MODULE Frontend ------------------------------
(***************************************************************************)
(* What the models of the browser application share: the value that stands *)
(* for null and undefined, and the people who use it.                      *)
(***************************************************************************)
CONSTANTS
    None,   \* nobody, nothing: no row, no dialog, no answer
    Users

ASSUME FrontendAssumption == None \notin Users
=============================================================================
