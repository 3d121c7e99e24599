--------------------------- MODULE TransactionForm ---------------------------
(***************************************************************************)
(* The drawer that creates and edits a transaction                         *)
(* (components/forms/TransactionFormModal.tsx).  It is mounted with its    *)
(* page and stays mounted while it is closed, so its fields, its debounced *)
(* description and its mutations outlive a closing.                        *)
(*                                                                         *)
(* While the user types, a debounced effect asks the server for a likely   *)
(* category and fills it in; a second effect fills the whole form whenever *)
(* it opens, the transaction to edit changes, or the account list does.    *)
(* An effect runs with the values of the render that scheduled it, and a   *)
(* promise it started answers with those values, however old they are.     *)
(*                                                                         *)
(* A field is kept when something depends on it: the type, the description *)
(* and the category.  Amount, dates, accounts, contact, notes, tags and    *)
(* parcels are one field, "touched", that says whether the user changed    *)
(* any of them since the form was filled.                                  *)
(***************************************************************************)
EXTENDS Frontend, Naturals

CONSTANTS
    Texts,     \* descriptions of two characters or more
    NoText,    \* the empty description
    Categories,
    Kind,      \* the kind of a category: income or expense
    Editable,  \* the transactions that can be edited
    RowForm,   \* what the form shows of a row
    MaxReloads \* bound: answers of the account list that may be due

Types == {"income", "expense", "transfer"}

Form == [type : Types, text : Texts \cup {NoText},
         category : Categories \cup {None}, touched : BOOLEAN]

ASSUME FormAssumption ==
    /\ NoText \notin Texts /\ None \notin Categories /\ None \notin Editable
    /\ Kind \in [Categories -> {"income", "expense"}]
    /\ RowForm \in [Editable -> {f \in Form : ~f.touched}]
    /\ MaxReloads \in Nat

VARIABLES
    formOpen,    \* whether the drawer is shown
    editing,     \* the transaction being edited, None for a new one
    form,        \* the values of the form
    debounced,   \* debouncedDescription
    autoApplied, \* autoAppliedRef: the category the suggestion filled in
    hint,        \* whether "suggested automatically" is shown
    asked,       \* the suggestion under way: what the effect captured
    saving,      \* the creation or update under way
    reloads,     \* answers of the account list still to come
    picked       \* history: the user chose the category now in the form

formVars == <<formOpen, editing, form, debounced, autoApplied, hint, asked, saving,
              reloads, picked>>

Question == [text : Texts, type : {"income", "expense"},
             category : Categories \cup {None}]

-----------------------------------------------------------------------------
Blank == [type |-> "expense", text |-> NoText, category |-> None, touched |-> FALSE]

\* reset(): the stored values of the transaction, or the defaults.
Filled(row) == IF row = None THEN Blank ELSE RowForm[row]

\* A category other than the one the suggestion filled in is the user's.
IsManual(category, auto) == category # None /\ category # auto

(***************************************************************************)
(* The effect on [debouncedDescription, type, open]: its cleanup cancels   *)
(* the question under way; a new one is asked only for an income or an     *)
(* expense with a description and no category of the user's own.           *)
(***************************************************************************)
Ask(text, type, category, auto) ==
    IF type = "transfer" \/ text = NoText \/ IsManual(category, auto)
    THEN None
    ELSE [text |-> text, type |-> type, category |-> category]

(***************************************************************************)
(* The effect on [open, transaction, accounts]: every field is reset.      *)
(***************************************************************************)
FillForm(row) ==
    /\ form' = Filled(row)
    /\ autoApplied' = None
    /\ hint' = FALSE
    /\ picked' = (Filled(row).category # None)

-----------------------------------------------------------------------------
(***************************************************************************)
(* Opening runs both effects of the render that opened it: the question is *)
(* asked with the values the form had before it was filled.  When filling  *)
(* changes the type the effect runs again, with the new values.            *)
(***************************************************************************)
OpenForm(row) ==
    /\ ~formOpen
    /\ formOpen' = TRUE
    /\ editing' = row
    /\ FillForm(row)
    /\ asked' = IF Filled(row).type = form.type
                THEN Ask(debounced, form.type, form.category, autoApplied)
                ELSE Ask(debounced, Filled(row).type, Filled(row).category, None)
    /\ UNCHANGED <<debounced, saving, reloads>>

\* Cancel, the cross, Escape or a click outside: allowed while saving, too.
CloseForm ==
    /\ formOpen
    /\ formOpen' = FALSE
    /\ asked' = None
    /\ UNCHANGED <<editing, form, debounced, autoApplied, hint, saving, reloads,
                   picked>>

TypeDescription(text) ==
    /\ formOpen
    /\ form' = [form EXCEPT !.text = text]
    /\ UNCHANGED <<formOpen, editing, debounced, autoApplied, hint, asked, saving,
                   reloads, picked>>

\* The timer of the debounce: it runs on while the drawer is closed.
Debounce ==
    /\ debounced # form.text
    /\ debounced' = form.text
    /\ asked' = IF formOpen THEN Ask(form.text, form.type, form.category, autoApplied)
                ELSE None
    /\ UNCHANGED <<formOpen, editing, form, autoApplied, hint, saving, reloads,
                   picked>>

ChooseType(type) ==
    /\ formOpen
    /\ type # form.type
    /\ form' = [form EXCEPT !.type = type]
    /\ asked' = Ask(debounced, type, form.category, autoApplied)
    /\ UNCHANGED <<formOpen, editing, debounced, autoApplied, hint, saving, reloads,
                   picked>>

\* The list offers the categories of the form's kind, and none.
CategoryOptions ==
    {c \in Categories : Kind[c] = IF form.type = "income" THEN "income" ELSE "expense"}

(***************************************************************************)
(* The user's choice; the effect on [categoryId] takes the hint away when  *)
(* it is another category than the suggested one.  The question under way  *)
(* is not cancelled.                                                       *)
(***************************************************************************)
PickCategory(category) ==
    /\ formOpen
    /\ form.type # "transfer"
    /\ category \in CategoryOptions \cup {None}
    /\ category # form.category
    /\ form' = [form EXCEPT !.category = category]
    /\ picked' = TRUE
    /\ hint' = (hint /\ ~IsManual(category, autoApplied))
    /\ UNCHANGED <<formOpen, editing, debounced, autoApplied, asked, saving, reloads>>

DismissSuggestion ==
    /\ formOpen
    /\ hint
    /\ form.type # "transfer"
    /\ form.category # None
    /\ form' = IF form.category = autoApplied THEN [form EXCEPT !.category = None] ELSE form
    /\ hint' = FALSE
    /\ autoApplied' = None
    /\ picked' = TRUE
    /\ UNCHANGED <<formOpen, editing, debounced, asked, saving, reloads>>

\* Any other field.
Touch ==
    /\ formOpen
    /\ form' = [form EXCEPT !.touched = TRUE]
    /\ UNCHANGED <<formOpen, editing, debounced, autoApplied, hint, asked, saving,
                   reloads, picked>>

-----------------------------------------------------------------------------
\* Mutant: the answer fills the category in and says nothing of it.
ApplySuggestionSilently(category) ==
    /\ autoApplied' = category
    /\ form' = [form EXCEPT !.category = category]
    /\ picked' = FALSE
    /\ hint' = hint

\* setValue, setSuggestedName and the reference, together.
ApplySuggestion(category) ==
    /\ autoApplied' = category
    /\ form' = [form EXCEPT !.category = category]
    /\ picked' = FALSE
    /\ hint' = TRUE

(***************************************************************************)
(* The server's suggestion: none, or a category of the type asked for.     *)
(* The check for a category of the user's own is made on the one captured  *)
(* when the question was asked.                                            *)
(***************************************************************************)
Suggested ==
    /\ asked # None
    /\ asked' = None
    /\ \/ /\ ~IsManual(asked.category, autoApplied)
          /\ \E c \in Categories : Kind[c] = asked.type /\ ApplySuggestion(c)
       \/ UNCHANGED <<form, autoApplied, hint, picked>>
    /\ UNCHANGED <<formOpen, editing, debounced, saving, reloads>>

\* A list with other balances is a new value of the dependency.
AccountsReload ==
    /\ reloads > 0
    /\ reloads' = reloads - 1
    /\ IF formOpen
       THEN /\ FillForm(editing)
            /\ asked' = IF Filled(editing).type = form.type THEN asked
                        ELSE Ask(debounced, Filled(editing).type,
                                 Filled(editing).category, None)
       ELSE UNCHANGED <<form, autoApplied, hint, picked, asked>>
    /\ UNCHANGED <<formOpen, editing, debounced, saving>>

\* The schema asks for a description; the button is disabled while saving.
SubmitForm ==
    /\ formOpen
    /\ saving = None
    /\ form.text # NoText
    /\ saving' = [row |-> editing, form |-> form]
    /\ UNCHANGED <<formOpen, editing, form, debounced, autoApplied, hint, asked,
                   reloads, picked>>

(***************************************************************************)
(* The account list is invalidated, and onClose closes whatever the drawer *)
(* now shows.                                                              *)
(***************************************************************************)
Saved ==
    /\ saving # None
    /\ saving' = None
    /\ formOpen' = FALSE
    /\ asked' = None
    /\ reloads' = IF reloads < MaxReloads THEN reloads + 1 ELSE reloads
    /\ UNCHANGED <<editing, form, debounced, autoApplied, hint, picked>>

\* The errors are attached to the fields; what was typed stays.
SaveFails ==
    /\ saving # None
    /\ saving' = None
    /\ UNCHANGED <<formOpen, editing, form, debounced, autoApplied, hint, asked,
                   reloads, picked>>

-----------------------------------------------------------------------------
FormInit ==
    /\ formOpen = FALSE
    /\ editing = None
    /\ form = Blank
    /\ debounced = NoText
    /\ autoApplied = None
    /\ hint = FALSE
    /\ asked = None
    /\ saving = None
    /\ reloads = MaxReloads
    /\ picked = FALSE

UserStep ==
    \/ \E row \in Editable \cup {None} : OpenForm(row)
    \/ CloseForm
    \/ \E text \in Texts \cup {NoText} : TypeDescription(text)
    \/ \E type \in Types : ChooseType(type)
    \/ \E category \in Categories \cup {None} : PickCategory(category)
    \/ DismissSuggestion
    \/ Touch
    \/ SubmitForm

LateStep == Debounce \/ Suggested \/ AccountsReload \/ Saved \/ SaveFails

FormNext == UserStep \/ LateStep

FormSpec == FormInit /\ [][FormNext]_formVars

-----------------------------------------------------------------------------
FormTypeOK ==
    /\ formOpen \in BOOLEAN
    /\ editing \in Editable \cup {None}
    /\ form \in Form
    /\ debounced \in Texts \cup {NoText}
    /\ autoApplied \in Categories \cup {None}
    /\ hint \in BOOLEAN
    /\ asked \in Question \cup {None}
    /\ saving \in [row : Editable \cup {None}, form : Form] \cup {None}
    /\ reloads \in 0..MaxReloads
    /\ picked \in BOOLEAN

(***************************************************************************)
(* A category the user did not choose is never in the form unannounced:    *)
(* whatever the order of the answers, the timer and the resets, the hint   *)
(* that lets the user see and undo it is shown with it.                    *)
(***************************************************************************)
SuggestionIsAnnounced == form.category # None /\ ~picked => hint
=============================================================================
