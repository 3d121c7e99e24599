----------------------------- MODULE MCScreens -----------------------------
(***************************************************************************)
(* An instance of the machines of the browser application, side by side.   *)
(* They share no state, so a behaviour is one machine's, the others resting*)
(* in a state they may begin in: what is reached is the sum of what each   *)
(* reaches alone, and the interleavings that would only multiply it are    *)
(* left out.                                                               *)
(***************************************************************************)
EXTENDS TransactionForm, CatalogPages, FilteredLists, StatementImport, Navigation, ClientData

MCKind == [c \in Categories |-> IF c = "pay" THEN "income" ELSE "expense"]
MCRowForm == [r \in Editable |->
    [type |-> "income", text |-> "t1", category |-> "pay", touched |-> FALSE]]

MCGroup == [r \in ListRows |-> ListRows]

\* Two lines of one id, and a line without an id.
MCContent == [f \in Files |-> IF f = "ofx" THEN <<"i1", "i1", "i2">> ELSE <<"i1", Plain>>]

MCMemberships == [u \in Users |-> <<"o1">>]

-----------------------------------------------------------------------------
VARIABLE screen

Machines == {"form", "catalog", "lists", "import", "nav", "data"}

\* The machines with several initial states rest in one of them.
Resting(machine, one) == screen # machine => one

Init ==
    /\ screen \in Machines
    /\ FormInit /\ CatalogInit /\ ListsInit /\ ImportInit /\ NavInit /\ DataInit
    /\ Resting("catalog", page = "accounts" /\ role = "admin" /\ server.rows = {"r1"})
    /\ Resting("lists", list = "reports" /\ viewer = "admin")
    /\ Resting("nav", at = "/login" /\ initialized)
    /\ Resting("data", active = "BRL" /\ \A o \in Orgs : currency[o] = "BRL")

\* Of the three windows that the data of a tab may have been through, two have
\* been open: what follows is not looked at.
SeveralWindows == (moved /\ followed) \/ (late /\ (moved \/ followed))

\* A tab is left alone, too, once an answer has written to another user's record:
\* the forced change is not claimed from there on, and redirects go by the probe,
\* the visitor and the flag, which need no such answer to take any value.
Next ==
    \/ /\ screen = "form" /\ FormNext
       /\ UNCHANGED <<screen, catalogVars, listsVars, importVars, navVars, dataVars>>
    \/ /\ screen = "catalog" /\ CatalogNext
       /\ UNCHANGED <<screen, formVars, listsVars, importVars, navVars, dataVars>>
    \/ /\ screen = "lists" /\ ListsNext
       /\ UNCHANGED <<screen, formVars, catalogVars, importVars, navVars, dataVars>>
    \/ /\ screen = "import" /\ ImportNext
       /\ UNCHANGED <<screen, formVars, catalogVars, listsVars, navVars, dataVars>>
    \/ /\ screen = "nav" /\ ~crossed /\ NavNext
       /\ UNCHANGED <<screen, formVars, catalogVars, listsVars, importVars, dataVars>>
    \/ /\ screen = "data" /\ ~SeveralWindows /\ DataNext
       /\ UNCHANGED <<screen, formVars, catalogVars, listsVars, importVars, navVars>>

Spec == Init /\ [][Next]_<<screen, formVars, catalogVars, listsVars, importVars, navVars, dataVars>>

-----------------------------------------------------------------------------
\* Every machine's variables keep their types.
ScreensTypeOK ==
    /\ screen \in Machines
    /\ FormTypeOK /\ CatalogTypeOK /\ ListsTypeOK /\ ImportTypeOK
    /\ NavTypeOK /\ DataTypeOK
=============================================================================
