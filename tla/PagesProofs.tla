---------------------------- MODULE PagesProofs ----------------------------
(***************************************************************************)
(* Theorems about the pages of the application, for any rows, categories,  *)
(* organizations, files and bounds: the transaction drawer announces what  *)
(* it filled in, a dialog holds the row it is open for and a page shows    *)
(* what was written, a tab shows the data and the currency of the          *)
(* organization it says it is in, a list follows its filters, and the      *)
(* import dialog books an id once.                                         *)
(***************************************************************************)
EXTENDS TransactionForm, CatalogPages, FilteredLists, StatementImport, ClientData,
        FiniteSetTheorems, SequenceTheorems, TLAPS

-----------------------------------------------------------------------------
(***************************************************************************)
(* The transaction drawer.                                                 *)
(***************************************************************************)
FormInv == FormTypeOK /\ SuggestionIsAnnounced

LEMMA FilledIsForm ==
    ASSUME NEW row \in Editable \cup {None}
    PROVE  Filled(row) \in Form
  BY FormAssumption DEF Filled, Blank, Form, Types

LEMMA AskedIsQuestion ==
    ASSUME NEW text \in Texts \cup {NoText}, NEW type \in Types,
           NEW category \in Categories \cup {None}, NEW auto
    PROVE  Ask(text, type, category, auto) \in Question \cup {None}
  BY DEF Ask, Question, Types

LEMMA FormInitInv == FormInit => FormInv
<1> SUFFICES ASSUME FormInit PROVE FormInv
  OBVIOUS
<1>1. form \in Form /\ reloads \in 0..MaxReloads
  BY FormAssumption DEF FormInit, Blank, Form, Types
<1>2. FormTypeOK
  BY <1>1 DEF FormInit, FormTypeOK
<1>3. SuggestionIsAnnounced
  BY DEF FormInit, Blank, SuggestionIsAnnounced
<1> QED  BY <1>2, <1>3 DEF FormInv

LEMMA FormUserKeeps == FormInv /\ UserStep => FormInv'
<1> SUFFICES ASSUME FormInv, UserStep PROVE FormInv'
  OBVIOUS
<1> USE FormAssumption DEF FormInv, FormTypeOK, SuggestionIsAnnounced
<1>1. ASSUME NEW row \in Editable \cup {None}, OpenForm(row) PROVE FormInv'
  <2>1. form' \in Form /\ form' = Filled(row)
    BY <1>1, FilledIsForm DEF OpenForm, FillForm
  <2>2. asked' \in Question \cup {None}
    BY <1>1, <2>1, AskedIsQuestion DEF OpenForm, Form
  <2>3. hint' = FALSE /\ autoApplied' = None /\ picked' = (form'.category # None)
    BY <1>1, <2>1 DEF OpenForm, FillForm
  <2>4. picked' \in BOOLEAN
    BY <2>3
  <2> QED  BY <1>1, <2>1, <2>2, <2>3, <2>4 DEF OpenForm
<1>2. CASE CloseForm
  BY <1>2 DEF CloseForm
<1>3. ASSUME NEW text \in Texts \cup {NoText}, TypeDescription(text) PROVE FormInv'
  BY <1>3 DEF TypeDescription, Form
<1>4. ASSUME NEW type \in Types, ChooseType(type) PROVE FormInv'
  <2>1. asked' \in Question \cup {None}
    BY <1>4, AskedIsQuestion DEF ChooseType, Form
  <2> QED  BY <1>4, <2>1 DEF ChooseType, Form
<1>5. ASSUME NEW category \in Categories \cup {None}, PickCategory(category) PROVE FormInv'
  <2>1. hint' \in BOOLEAN
    BY <1>5 DEF PickCategory
  <2> QED  BY <1>5, <2>1 DEF PickCategory, Form
<1>6. CASE DismissSuggestion
  BY <1>6 DEF DismissSuggestion, Form
<1>7. CASE Touch
  BY <1>7 DEF Touch, Form
<1>8. CASE SubmitForm
  BY <1>8 DEF SubmitForm
<1> QED  BY <1>1, <1>2, <1>3, <1>4, <1>5, <1>6, <1>7, <1>8 DEF UserStep

LEMMA FormLateKeeps == FormInv /\ LateStep => FormInv'
<1> SUFFICES ASSUME FormInv, LateStep PROVE FormInv'
  OBVIOUS
<1> USE FormAssumption DEF FormInv, FormTypeOK, SuggestionIsAnnounced
<1>1. CASE Debounce
  <2>1. asked' \in Question \cup {None}
    BY <1>1, AskedIsQuestion DEF Debounce, Form
  <2> QED  BY <1>1, <2>1 DEF Debounce, Form
<1>2. CASE Suggested
  <2>1. CASE \E c \in Categories : ApplySuggestion(c)
    <3>1. PICK c \in Categories : ApplySuggestion(c)
      BY <2>1
    <3>2. form' = [form EXCEPT !.category = c] /\ form' \in Form
      BY <3>1 DEF ApplySuggestion, Form
    <3>3. autoApplied' = c /\ hint' = TRUE /\ picked' = FALSE
      BY <3>1 DEF ApplySuggestion
    <3> QED  BY <1>2, <3>2, <3>3 DEF Suggested
  <2>2. CASE UNCHANGED <<form, autoApplied, hint, picked>>
    BY <1>2, <2>2 DEF Suggested
  <2> QED  BY <1>2, <2>1, <2>2 DEF Suggested
<1>3. CASE AccountsReload
  <2>1. reloads' \in 0..MaxReloads
    BY <1>3 DEF AccountsReload
  <2>2. CASE formOpen
    <3>1. form' \in Form /\ form' = Filled(editing)
      BY <1>3, <2>2, FilledIsForm DEF AccountsReload, FillForm
    <3>2. asked' \in Question \cup {None}
      BY <1>3, <2>2, <3>1, AskedIsQuestion DEF AccountsReload, Form
    <3>3. hint' = FALSE /\ autoApplied' = None /\ picked' = (form'.category # None)
      BY <1>3, <2>2, <3>1 DEF AccountsReload, FillForm
    <3>4. picked' \in BOOLEAN
      BY <3>3
    <3> QED  BY <1>3, <2>1, <3>1, <3>2, <3>3, <3>4 DEF AccountsReload
  <2>3. CASE ~formOpen
    BY <1>3, <2>1, <2>3 DEF AccountsReload
  <2> QED  BY <2>2, <2>3
<1>4. CASE Saved
  <2>1. reloads' \in 0..MaxReloads
    BY <1>4 DEF Saved
  <2> QED  BY <1>4, <2>1 DEF Saved
<1>5. CASE SaveFails
  BY <1>5 DEF SaveFails
<1> QED  BY <1>1, <1>2, <1>3, <1>4, <1>5 DEF LateStep

LEMMA FormInvariant == FormSpec => []FormInv
<1>1. ASSUME FormInv, UNCHANGED formVars PROVE FormInv'
  BY <1>1 DEF FormInv, FormTypeOK, SuggestionIsAnnounced, formVars
<1>2. FormInv /\ [FormNext]_formVars => FormInv'
  BY <1>1, FormUserKeeps, FormLateKeeps DEF FormNext
<1> QED  BY <1>2, FormInitInv, PTL DEF FormSpec

(***************************************************************************)
(* Whatever the order of typing, timers, late suggestions and account      *)
(* lists, a category nobody chose stands in the form with its hint.        *)
(***************************************************************************)
THEOREM SuggestionsAreAnnounced == FormSpec => []SuggestionIsAnnounced
<1>1. FormInv => SuggestionIsAnnounced
  BY DEF FormInv
<1> QED  BY <1>1, FormInvariant, PTL

\* The drawer keeps to its types, whatever the order of its answers.
THEOREM FormTypes == FormSpec => []FormTypeOK
<1>1. FormInv => FormTypeOK
  BY DEF FormInv
<1> QED  BY <1>1, FormInvariant, PTL

-----------------------------------------------------------------------------
(***************************************************************************)
(* The dialogs of the catalog pages.                                       *)
(***************************************************************************)
DialogInv ==
    dialog # None =>
        dialog = [name |-> dialog.name, button |-> dialog.button, row |-> dialog.row]

LEMMA DialogStep == DialogInv /\ [CatalogNext]_catalogVars => DialogInv'
<1> SUFFICES ASSUME DialogInv, [CatalogNext]_catalogVars PROVE DialogInv'
  OBVIOUS
<1>1. ASSUME dialog' = dialog PROVE DialogInv'
  BY <1>1 DEF DialogInv
<1>2. ASSUME NEW button, NEW row, OpenDialog(button, row) PROVE DialogInv'
  BY <1>2 DEF OpenDialog, DialogInv
<1>3. CASE CloseDialog
  BY <1>3 DEF CloseDialog, DialogInv
<1>4. ASSUME NEW r, WriteSucceeds(r) PROVE DialogInv'
  <2>1. dialog' = AfterSuccess(r)
    BY <1>4 DEF WriteSucceeds
  <2>2. \/ dialog' \in {None, dialog}
        \/ dialog # None /\ dialog' = [dialog EXCEPT !.button = "shown"]
    BY <2>1 DEF AfterSuccess
  <2>3. CASE dialog' \in {None, dialog}
    BY <2>3 DEF DialogInv
  <2>4. CASE dialog # None /\ dialog' = [dialog EXCEPT !.button = "shown"]
    <3>1. dialog' = [name |-> dialog.name, button |-> "shown", row |-> dialog.row]
      BY <2>4 DEF DialogInv
    <3> QED  BY <3>1 DEF DialogInv
  <2> QED  BY <2>2, <2>3, <2>4
<1>5. ASSUME NEW missing, Edited(missing) PROVE DialogInv'
  BY <1>1, <1>5 DEF Edited
<1>6. CASE SubmitDialog \/ ClickRow \/ ClickPage
  BY <1>1, <1>6 DEF SubmitDialog, ClickRow, ClickPage, SendWrite
<1>7. ASSUME NEW r, ApplyWrite(r) \/ WriteFails(r) PROVE DialogInv'
  BY <1>1, <1>7 DEF ApplyWrite, WriteFails
<1>8. CASE ReadList \/ ListAnswers \/ ListFails \/ Poll \/ AccountsAnswer
  BY <1>1, <1>8 DEF ReadList, ListAnswers, ListFails, Poll, AccountsAnswer
<1>9. CASE UNCHANGED catalogVars
  BY <1>1, <1>9 DEF catalogVars
<1> QED
  BY <1>2, <1>3, <1>4, <1>5, <1>6, <1>7, <1>8, <1>9
     DEF CatalogNext, OpenForCreate, OpenForRow, Type, Erase

-----------------------------------------------------------------------------
(***************************************************************************)
(* The lists of the catalog pages.                                         *)
(***************************************************************************)
\* These leave the list as it is.
Harmless == {"apply", "password"}

\* The success of a button's request has the list fetched again.
Refetches(button) == Shape.reads \in Shape.hooks[Mutation(button)]

Sent(button) == button \in Harmless \/ Refetches(button)

\* Every button of every page, but for the harmless ones, invalidates the list
\* of that page.
LEMMA ButtonsRefetch ==
    ASSUME page \in DOMAIN Page
    PROVE  /\ \A row \in Rows : \A button \in Shape.buttons[row] : Sent(button)
           /\ \A button \in DOMAIN Shape.page : Sent(button)
<1> USE DEF Sent, Harmless, Refetches, Mutation, Catalog, Crud, Shape, Page
<1>0. page \in {"accounts", "categories", "tags", "contacts", "cards", "budgets", "goals", "rules", "recurrences", "members", "invitations", "bills", "invoices", "attachments", "sessions", "notifications", "users"}
  OBVIOUS
<1>1. CASE page = "accounts"
  BY <1>1 DEF AccountsPage, AccountCard, AccountHooks
<1>2. CASE page = "categories"
  BY <1>2 DEF CategoriesPage, CategoryChip, CategoryHooks
<1>3. CASE page = "tags"
  BY <1>3 DEF TagsPage, TagRow, TagHooks
<1>4. CASE page = "contacts"
  BY <1>4 DEF ContactsPage, ContactCard, ContactHooks
<1>5. CASE page = "cards"
  BY <1>5 DEF CreditCardsPage, CreditCardItem, CreditCardHooks
<1>6. CASE page = "budgets"
  BY <1>6 DEF BudgetsTable, BudgetRow, BudgetHooks
<1>7. CASE page = "goals"
  BY <1>7 DEF GoalsPage, GoalCard, GoalHooks
<1>8. CASE page = "rules"
  BY <1>8 DEF CategorizationPage, RuleRow, CategorizationHooks
<1>9. CASE page = "recurrences"
  BY <1>9 DEF RecurrencesPage, RecurrenceRow, RecurrenceHooks
<1>10. CASE page = "members"
  <2>1. DOMAIN Shape.page = {}
    <3>1. Shape.page = <<>>
      BY <1>10 DEF MembersPage
    <3> QED  BY <3>1
  <2>2. \A row \in Rows : \A button \in Shape.buttons[row] : Sent(button)
    <3>1. /\ Shape.reads = "members" /\ Shape.hooks = MemberHooks
      BY <1>10 DEF MembersPage
    <3>2. Shape.buttons = [row \in Rows |-> MemberRow(row)]
      BY <1>10 DEF MembersPage
    <3> QED  BY <3>1, <3>2 DEF MemberRow, MemberHooks
  <2> QED  BY <2>1, <2>2
<1>11. CASE page = "invitations"
  BY <1>11 DEF PendingInvitations, MemberHooks
<1>12. CASE page = "bills"
  <2>1. DOMAIN Shape.page = {}
    <3>1. Shape.page = <<>>
      BY <1>12 DEF BillsTable
    <3> QED  BY <3>1
  <2>2. \A row \in Rows : \A button \in Shape.buttons[row] : Sent(button)
    BY <1>12 DEF BillsTable, BillRow, TransactionHooks, Transactional
  <2> QED  BY <2>1, <2>2
<1>13. CASE page = "invoices"
  <2>1. DOMAIN Shape.page = {}
    <3>1. Shape.page = <<>>
      BY <1>13 DEF InvoicesModal
    <3> QED  BY <3>1
  <2>2. \A row \in Rows : \A button \in Shape.buttons[row] : Sent(button)
    BY <1>13 DEF InvoicesModal, InvoiceRow, InvoiceHooks
  <2> QED  BY <2>1, <2>2
<1>14. CASE page = "attachments"
  BY <1>14 DEF AttachmentsSection, AttachmentHooks
<1>15. CASE page = "sessions"
  BY <1>15 DEF SessionsCard, SessionRow, SessionHooks
<1>16. CASE page = "notifications"
  BY <1>16 DEF NotificationBell, NotificationItem, NotificationHooks
<1>17. CASE page = "users"
  <2>1. DOMAIN Shape.page = {}
    <3>1. Shape.page = <<>>
      BY <1>17 DEF AdminUsers
    <3> QED  BY <3>1
  <2>2. \A row \in Rows : \A button \in Shape.buttons[row] : Sent(button)
    BY <1>17 DEF AdminUsers, AdminHooks
  <2> QED  BY <2>1, <2>2
<1> QED  BY <1>0, <1>1, <1>2, <1>3, <1>4, <1>5, <1>6, <1>7, <1>8, <1>9, <1>10, <1>11, <1>12, <1>13, <1>14, <1>15, <1>16, <1>17

CatalogRows ==
    /\ page \in DOMAIN Page
    /\ server = [rows |-> server.rows, version |-> server.version]
    /\ server.rows \subseteq Rows
    /\ shown # None => shown.rows \subseteq Rows
    /\ fetch \notin {None, Asked} => fetch.rows \subseteq Rows
    /\ \A r \in pending :
         /\ r = [button |-> r.button, row |-> r.row, last |-> r.last,
                 applied |-> r.applied, here |-> r.here, id |-> r.id]
         /\ Sent(r.button)
    /\ dialog # None => dialog.button = "shown" \/ Sent(dialog.button)

\* No request that changes the list has been applied and not yet answered.
NoneApplied == \A r \in pending : r.applied => r.button \in Harmless

\* Then what was read of the list, and what is shown of it, is the server's.
Current ==
    ~unseen /\ NoneApplied =>
        /\ fetch \notin {None, Asked} => fetch = server
        /\ ~outdated => shown = server

CatalogInv == DialogInv /\ CatalogRows /\ Current

LEMMA CatalogInitInv == CatalogInit => CatalogRows /\ Current
<1> SUFFICES ASSUME CatalogInit PROVE CatalogRows /\ Current
  OBVIOUS
<1>1. PICK row \in Rows : server = [rows |-> {row}, version |-> 0]
  BY DEF CatalogInit
<1> QED  BY <1>1 DEF CatalogInit, CatalogRows, Current

LEMMA SendKeepsCatalog ==
    ASSUME CatalogInv, NEW button, NEW row, NEW here, Sent(button),
           SendWrite(button, row, here)
    PROVE  CatalogRows' /\ Current'
<1>0. CatalogRows /\ Current
  BY DEF CatalogInv
<1> DEFINE told(r) == [r EXCEPT !.last = @ /\ r.button # button]
           sent == [button |-> button, row |-> row, last |-> TRUE, applied |-> FALSE,
                    here |-> here, id |-> writes]
<1>1. /\ pending' = {told(r) : r \in pending} \cup {sent}
      /\ UNCHANGED <<page, server, shown, outdated, fetch, dialog, unseen>>
  BY DEF SendWrite
<1>2. ASSUME NEW r \in pending
      PROVE  /\ told(r) = [button |-> told(r).button, row |-> told(r).row,
                           last |-> told(r).last, applied |-> told(r).applied,
                           here |-> told(r).here, id |-> told(r).id]
             /\ told(r).button = r.button /\ told(r).applied = r.applied
             /\ Sent(r.button)
  BY <1>0 DEF CatalogRows
<1>3. /\ sent = [button |-> sent.button, row |-> sent.row, last |-> sent.last,
                 applied |-> sent.applied, here |-> sent.here, id |-> sent.id]
      /\ sent.button = button
  OBVIOUS
<1> HIDE DEF told, sent
<1>4. \A b : Sent(b)' <=> Sent(b)
  BY <1>1 DEF Sent, Refetches, Shape
<1>5. CatalogRows'
  BY <1>0, <1>1, <1>2, <1>3, <1>4 DEF CatalogRows
<1>6. NoneApplied' => NoneApplied
  BY <1>1, <1>2 DEF NoneApplied
<1> QED  BY <1>0, <1>1, <1>5, <1>6 DEF Current

LEMMA AppliedRequest ==
    ASSUME NEW b, NEW row, NEW last, NEW applied, NEW here, NEW id, NEW r, NEW now,
           r = [button |-> b, row |-> row, last |-> last, applied |-> applied,
                here |-> here, id |-> id]
    PROVE  [r EXCEPT !.applied = now] =
             [button |-> b, row |-> row, last |-> last, applied |-> now,
              here |-> here, id |-> id]
  OBVIOUS

\* Closing the dialog leaves every request its button, its row and its answer.
LEMMA ClosedRequest ==
    ASSUME CatalogRows, NEW r \in pending
    PROVE  [r EXCEPT !.here = FALSE] =
             [button |-> r.button, row |-> r.row, last |-> r.last,
              applied |-> r.applied, here |-> FALSE, id |-> r.id]
<1>1. ASSUME NEW b, NEW row, NEW last, NEW applied, NEW here, NEW id, NEW q, NEW no,
             q = [button |-> b, row |-> row, last |-> last, applied |-> applied,
                  here |-> here, id |-> id]
      PROVE  [q EXCEPT !.here = no] =
               [button |-> b, row |-> row, last |-> last, applied |-> applied,
                here |-> no, id |-> id]
  BY <1>1
<1>2. r = [button |-> r.button, row |-> r.row, last |-> r.last,
           applied |-> r.applied, here |-> r.here, id |-> r.id]
  BY DEF CatalogRows
<1>3. PICK no : no = FALSE
  OBVIOUS
<1>4. [r EXCEPT !.here = no] =
        [button |-> r.button, row |-> r.row, last |-> r.last,
         applied |-> r.applied, here |-> no, id |-> r.id]
  BY <1>1, <1>2
<1> QED  BY <1>3, <1>4

LEMMA CloseKeepsCatalog ==
    ASSUME CatalogInv, CloseDialog
    PROVE  CatalogRows' /\ Current'
<1>0. CatalogRows /\ Current
  BY DEF CatalogInv
<1> DEFINE off(r) == [r EXCEPT !.here = FALSE]
<1>1. /\ pending' = {off(r) : r \in pending} /\ dialog' = None
      /\ UNCHANGED <<page, server, shown, outdated, fetch, unseen>>
  BY DEF CloseDialog
<1>2. ASSUME NEW r \in pending
      PROVE  /\ off(r) = [button |-> off(r).button, row |-> off(r).row,
                          last |-> off(r).last, applied |-> off(r).applied,
                          here |-> off(r).here, id |-> off(r).id]
             /\ off(r).button = r.button /\ off(r).applied = r.applied
             /\ Sent(r.button)
  BY <1>0, ClosedRequest DEF CatalogRows
<1> HIDE DEF off
<1>3. \A b : Sent(b)' <=> Sent(b)
  BY <1>1 DEF Sent, Refetches, Shape
<1>4. CatalogRows'
  BY <1>0, <1>1, <1>2, <1>3 DEF CatalogRows
<1>5. NoneApplied' => NoneApplied
  BY <1>1, <1>2 DEF NoneApplied
<1> QED  BY <1>0, <1>1, <1>4, <1>5 DEF Current

LEMMA ApplyKeepsCatalog ==
    ASSUME CatalogInv, NEW r \in pending, ApplyWrite(r)
    PROVE  CatalogRows' /\ Current'
<1>0. CatalogRows /\ Current
  BY DEF CatalogInv
<1> DEFINE done == [r EXCEPT !.applied = TRUE]
<1>1. /\ ~r.applied /\ server' = Written(r)
      /\ r.button \in Creating => server.rows # Rows
      /\ pending' = (pending \ {r}) \cup {done}
      /\ UNCHANGED <<page, shown, outdated, fetch, dialog, unseen>>
  BY DEF ApplyWrite
<1>2. /\ done = [button |-> done.button, row |-> done.row, last |-> done.last,
                 applied |-> done.applied, here |-> done.here, id |-> done.id]
      /\ done.button = r.button /\ done.applied
      /\ Sent(r.button)
  <2>1. /\ r = [button |-> r.button, row |-> r.row, last |-> r.last,
                applied |-> r.applied, here |-> r.here, id |-> r.id]
        /\ Sent(r.button)
    BY <1>0 DEF CatalogRows
  <2>2. PICK now : now = TRUE
    OBVIOUS
  <2>3. done = [r EXCEPT !.applied = now]
    BY <2>2
  <2> HIDE DEF done
  <2>4. done = [button |-> r.button, row |-> r.row, last |-> r.last,
                applied |-> now, here |-> r.here, id |-> r.id]
    BY <2>1, <2>3, AppliedRequest
  <2> QED  BY <2>1, <2>2, <2>4
<1> HIDE DEF done
<1>3. \A b : Sent(b)' <=> Sent(b)
  BY <1>1 DEF Sent, Refetches, Shape
<1>4. server' = [rows |-> server'.rows, version |-> server'.version]
  BY <1>1 DEF Written
<1>5. server'.rows \subseteq Rows
  <2>1. r.button \in Creating => (CHOOSE row \in Rows \ server.rows : TRUE) \in Rows
    BY <1>0, <1>1 DEF CatalogRows
  <2>2. \/ server'.rows \subseteq server.rows
        \/ /\ r.button \in Creating
           /\ server'.rows =
                server.rows \cup {CHOOSE row \in Rows \ server.rows : TRUE}
    <3> DEFINE new == CHOOSE row \in Rows \ server.rows : TRUE
    <3>1. server'.rows =
            CASE r.button \in {"remove", "revoke", "read"} -> server.rows \ {r.row}
              [] r.button \in Creating -> server.rows \cup {new}
              [] r.button = "revokeOthers" -> server.rows \cap Special
              [] r.button = "readAll" -> {}
              [] OTHER -> server.rows
      BY <1>1 DEF Written
    <3> HIDE DEF new
    <3>2. CASE r.button \in Creating
      BY <3>1, <3>2 DEF Creating, new
    <3>3. CASE r.button \notin Creating
      BY <3>1, <3>3
    <3> QED  BY <3>2, <3>3
  <2> QED  BY <1>0, <2>1, <2>2 DEF CatalogRows
<1>6. CatalogRows'
  BY <1>0, <1>1, <1>2, <1>3, <1>4, <1>5 DEF CatalogRows
<1>7. CASE r.button \in Harmless
  <2>1. server' = server
    BY <1>0, <1>1, <1>7 DEF Harmless, Written, Creating, CatalogRows
  <2>2. NoneApplied' => NoneApplied
    BY <1>1, <1>2 DEF NoneApplied
  <2> QED  BY <1>0, <1>1, <1>6, <2>1, <2>2 DEF Current
<1>8. CASE r.button \notin Harmless
  <2>1. ~NoneApplied'
    BY <1>1, <1>2, <1>8 DEF NoneApplied
  <2> QED  BY <1>6, <2>1 DEF Current
<1> QED  BY <1>7, <1>8

LEMMA SuccessKeepsCatalog ==
    ASSUME CatalogInv, NEW r \in pending, WriteSucceeds(r)
    PROVE  CatalogRows' /\ Current'
<1>0. CatalogRows /\ Current
  BY DEF CatalogInv
<1>1. /\ pending' = pending \ {r} /\ Sent(r.button)
      /\ Invalidate(Shape.hooks[Mutation(r.button)])
      /\ dialog' = AfterSuccess(r)
      /\ UNCHANGED <<page, server, shown>>
  BY <1>0 DEF WriteSucceeds, CatalogRows
<1>2. \A b : Sent(b)' <=> Sent(b)
  BY <1>1 DEF Sent, Refetches, Shape
<1>3. dialog' # None => dialog'.button = "shown" \/ Sent(dialog'.button)
  <2>1. \/ dialog' \in {None, dialog}
        \/ dialog # None /\ dialog' = [dialog EXCEPT !.button = "shown"]
    BY <1>1 DEF AfterSuccess
  <2>2. dialog # None /\ dialog' = [dialog EXCEPT !.button = "shown"]
          => dialog'.button = "shown"
    BY DEF CatalogInv, DialogInv
  <2> QED  BY <1>0, <2>1, <2>2 DEF CatalogRows
<1>4. fetch' \notin {None, Asked} => fetch' = fetch
  BY <1>1 DEF Invalidate
<1>5. CatalogRows'
  BY <1>0, <1>1, <1>2, <1>3, <1>4 DEF CatalogRows
<1>6. CASE Refetches(r.button)
  <2>1. outdated' = TRUE /\ (unseen' \/ fetch' = Asked)
    BY <1>1, <1>6 DEF Invalidate, Refetches
  <2> QED  BY <1>5, <2>1 DEF Current
<1>7. CASE ~Refetches(r.button)
  <2>1. UNCHANGED <<outdated, fetch, unseen>>
    BY <1>1, <1>7 DEF Invalidate, Refetches
  <2>2. NoneApplied' => NoneApplied
    BY <1>1, <1>7 DEF NoneApplied, Sent
  <2> QED  BY <1>0, <1>1, <1>5, <2>1, <2>2 DEF Current
<1> QED  BY <1>6, <1>7

\* Steps that send no request and answer none, and change no list but by
\* reading it.
LEMMA ReadKeepsCatalog ==
    ASSUME CatalogInv, pending' \subseteq pending, NoneApplied' => NoneApplied \/ unseen',
           fetch' \in {None, Asked, server, fetch},
           \/ UNCHANGED <<shown, outdated>>
           \/ fetch \notin {None, Asked} /\ shown' = fetch /\ fetch' = None,
           unseen => unseen',
           dialog' # None => dialog'.button = "shown" \/ Sent(dialog'.button),
           UNCHANGED <<page, server>>
    PROVE  CatalogRows' /\ Current'
<1>0. CatalogRows /\ Current
  BY DEF CatalogInv
<1>1. \A b : Sent(b)' <=> Sent(b)
  BY DEF Sent, Refetches, Shape
<1>2. CatalogRows'
  BY <1>0, <1>1 DEF CatalogRows
<1>3. Current'
  BY <1>0 DEF Current
<1> QED  BY <1>2, <1>3

LEMMA CatalogStep == CatalogInv /\ [CatalogNext]_catalogVars => CatalogInv'
<1> SUFFICES ASSUME CatalogInv, [CatalogNext]_catalogVars PROVE CatalogRows' /\ Current'
  BY DialogStep DEF CatalogInv
<1>0. CatalogRows /\ Current
  BY DEF CatalogInv
<1>a. Seen \subseteq Rows
  BY <1>0 DEF Seen, CatalogRows
<1>b. /\ \A row \in Rows : \A button \in Shape.buttons[row] : Sent(button)
      /\ \A button \in DOMAIN Shape.page : Sent(button)
  BY <1>0, ButtonsRefetch DEF CatalogRows
<1>1. ASSUME NEW button, NEW row, Sent(button), OpenDialog(button, row)
      PROVE  CatalogRows' /\ Current'
  <2>1. /\ dialog'.button = button
        /\ UNCHANGED <<page, server, shown, outdated, fetch, pending, unseen>>
    BY <1>1 DEF OpenDialog
  <2> QED  BY <1>1, <2>1, ReadKeepsCatalog DEF NoneApplied
<1>2. CASE OpenForCreate \/ OpenForRow
  BY <1>1, <1>2, <1>a, <1>b DEF OpenForCreate, OpenForRow
<1>3. CASE CloseDialog
  BY <1>3, CloseKeepsCatalog
<1>4. ASSUME NEW missing, Edited(missing) PROVE CatalogRows' /\ Current'
  BY <1>0, <1>4, ReadKeepsCatalog DEF Edited, NoneApplied, CatalogRows
<1>5. CASE SubmitDialog
  BY <1>0, <1>5, SendKeepsCatalog DEF SubmitDialog, CatalogRows
<1>6. CASE ClickRow
  BY <1>6, <1>a, <1>b, SendKeepsCatalog DEF ClickRow
<1>7. CASE ClickPage
  BY <1>7, <1>b, SendKeepsCatalog DEF ClickPage
<1>8. ASSUME NEW r \in pending, ApplyWrite(r) PROVE CatalogRows' /\ Current'
  BY <1>8, ApplyKeepsCatalog
<1>9. ASSUME NEW r \in pending, WriteSucceeds(r) PROVE CatalogRows' /\ Current'
  BY <1>9, SuccessKeepsCatalog
<1>10. ASSUME NEW r \in pending, WriteFails(r) PROVE CatalogRows' /\ Current'
  <2>1. NoneApplied' => NoneApplied \/ unseen'
    BY <1>10 DEF WriteFails, NoneApplied
  <2> QED  BY <1>0, <1>10, <2>1, ReadKeepsCatalog DEF WriteFails, CatalogRows
<1>11. CASE ReadList
  BY <1>0, <1>11, ReadKeepsCatalog DEF ReadList, NoneApplied, CatalogRows
<1>12. CASE ListAnswers
  BY <1>0, <1>12, ReadKeepsCatalog DEF ListAnswers, NoneApplied, CatalogRows
<1>13. CASE ListFails \/ Poll
  BY <1>0, <1>13, ReadKeepsCatalog DEF ListFails, Poll, NoneApplied, CatalogRows
<1>14. CASE AccountsAnswer
  BY <1>0, <1>14, ReadKeepsCatalog DEF AccountsAnswer, NoneApplied, CatalogRows
<1>15. CASE UNCHANGED catalogVars
  <2>1. UNCHANGED <<page, server, shown, outdated, fetch, dialog, pending, unseen>>
    BY <1>15 DEF catalogVars
  <2> QED  BY <1>0, <2>1, ReadKeepsCatalog DEF NoneApplied, CatalogRows
<1> QED
  BY <1>2, <1>3, <1>4, <1>5, <1>6, <1>7, <1>8, <1>9, <1>10, <1>11, <1>12, <1>13, <1>14, <1>15
     DEF CatalogNext, Type, Erase

(***************************************************************************)
(* With nothing under way, a page's list is the server's unless it is      *)
(* marked for a refetch, for any rows and any number of requests: every    *)
(* button of every page invalidates the list it writes to, and a fetch     *)
(* that began before a write was applied is not what is shown after it     *)
(* (the onSuccess of the hooks, invalidateQueries).                        *)
(***************************************************************************)
THEOREM WritesAreShown == CatalogSpec => []OwnWritesShow
<1>1. CatalogInit => CatalogInv
  BY CatalogInitInv DEF CatalogInit, CatalogInv, DialogInv
<1>2. CatalogInv => OwnWritesShow
  BY DEF CatalogInv, Current, NoneApplied, OwnWritesShow
<1> QED  BY <1>1, <1>2, CatalogStep, PTL DEF CatalogSpec

-----------------------------------------------------------------------------
(***************************************************************************)
(* One opening of a dialog saves once.  At most one request of a dialog is *)
(* under way, and the open one's is the open one's until its answer.       *)
(***************************************************************************)
Showing(name) == dialog # None /\ dialog.button # "shown" /\ dialog.name = name

OfDialog(r, name) == r.button \in DOMAIN Opens /\ Opens[r.button] = name

OneEach == \A q, r \in pending : \A name : OfDialog(q, name) /\ OfDialog(r, name) => q = r

SaveInv ==
    /\ saves \in {0, 1}
    /\ dialog # None /\ dialog.button # "shown" =>
           OfDialog(dialog, dialog.name)
    /\ OneEach
    /\ \A r \in pending : r.here =>
           \E name : Showing(name) /\ OfDialog(r, name)
    /\ \A r \in pending : r.here => (r.applied <=> saves = 1)
    /\ dialog # None /\ dialog.button # "shown" /\ (\A r \in pending : ~r.here) => saves = 0

\* Steps after which the dialogs' requests are those that were there before.
LEMMA QuietKeepsSaves ==
    ASSUME SaveInv, UNCHANGED <<dialog, pending, saves>>
    PROVE  SaveInv'
  BY DEF SaveInv, Showing, OfDialog, OneEach

LEMMA OpenKeepsSaves ==
    ASSUME SaveInv, NEW button \in DOMAIN Opens, NEW row, OpenDialog(button, row)
    PROVE  SaveInv'
<1>1. /\ dialog = None /\ dialog' = [name |-> Opens[button], button |-> button, row |-> row]
      /\ saves' = 0 /\ pending' = pending
  BY DEF OpenDialog
<1>2. \A r \in pending : ~r.here
  BY <1>1 DEF SaveInv, Showing
<1> QED  BY <1>1, <1>2 DEF SaveInv, Showing, OfDialog, OneEach

LEMMA CloseKeepsSaves ==
    ASSUME SaveInv, CatalogRows, CloseDialog
    PROVE  SaveInv'
<1> DEFINE off(r) == [r EXCEPT !.here = FALSE]
<1>1. pending' = {off(r) : r \in pending} /\ dialog' = None /\ saves' = saves
  BY DEF CloseDialog
<1>2. ASSUME NEW r \in pending PROVE off(r).button = r.button /\ ~off(r).here
  BY ClosedRequest
<1> HIDE DEF off
<1>3. OneEach'
  <2> SUFFICES ASSUME NEW q \in pending', NEW r \in pending', NEW name,
                      OfDialog(q, name), OfDialog(r, name)
               PROVE  q = r
    BY DEF OneEach, OfDialog
  <2>1. PICK q0 \in pending, r0 \in pending : q = off(q0) /\ r = off(r0)
    BY <1>1
  <2>2. OfDialog(q0, name) /\ OfDialog(r0, name)
    BY <1>2, <2>1 DEF OfDialog
  <2> QED  BY <2>1, <2>2 DEF SaveInv, OneEach
<1> QED  BY <1>1, <1>2, <1>3 DEF SaveInv

\* A button of the page that is not "create" opens no dialog.
LEMMA PageButtonsOpenNothing ==
    ASSUME page \in DOMAIN Page, NEW button \in DOMAIN Shape.page \ {"create"}
    PROVE  button \notin DOMAIN Opens
<1> USE DEF Opens, Catalog, Shape, Page
<1>0. page \in {"accounts", "categories", "tags", "contacts", "cards", "budgets", "goals", "rules", "recurrences", "members", "invitations", "bills", "invoices", "attachments", "sessions", "notifications", "users"}
  OBVIOUS
<1>1. CASE page = "accounts"
  <2>1. Shape.page = [create |-> 0]
    BY <1>1 DEF AccountsPage
  <2> QED  BY <2>1
<1>2. CASE page = "categories"
  <2>1. Shape.page = [create |-> 0]
    BY <1>2 DEF CategoriesPage
  <2> QED  BY <2>1
<1>3. CASE page = "tags"
  <2>1. Shape.page = [create |-> 0]
    BY <1>3 DEF TagsPage
  <2> QED  BY <2>1
<1>4. CASE page = "contacts"
  <2>1. Shape.page = [create |-> 0]
    BY <1>4 DEF ContactsPage
  <2> QED  BY <2>1
<1>5. CASE page = "cards"
  <2>1. Shape.page = [create |-> 0]
    BY <1>5 DEF CreditCardsPage
  <2> QED  BY <2>1
<1>6. CASE page = "budgets"
  <2>1. Shape.page = [create |-> 0]
    BY <1>6 DEF BudgetsTable
  <2> QED  BY <2>1
<1>7. CASE page = "goals"
  <2>1. Shape.page = [create |-> 0]
    BY <1>7 DEF GoalsPage
  <2> QED  BY <2>1
<1>8. CASE page = "rules"
  <2>1. Shape.page = [create |-> 0, apply |-> 1]
    BY <1>8 DEF CategorizationPage
  <2> QED  BY <2>1
<1>9. CASE page = "recurrences"
  <2>1. Shape.page = [create |-> 0]
    BY <1>9 DEF RecurrencesPage
  <2> QED  BY <2>1
<1>10. CASE page = "members"
  <2>1. Shape.page = <<>>
    BY <1>10 DEF MembersPage
  <2> QED  BY <2>1
<1>11. CASE page = "invitations"
  <2>1. Shape.page = [create |-> 0]
    BY <1>11 DEF PendingInvitations
  <2> QED  BY <2>1
<1>12. CASE page = "bills"
  <2>1. Shape.page = <<>>
    BY <1>12 DEF BillsTable
  <2> QED  BY <2>1
<1>13. CASE page = "invoices"
  <2>1. Shape.page = <<>>
    BY <1>13 DEF InvoicesModal
  <2> QED  BY <2>1
<1>14. CASE page = "attachments"
  <2>1. Shape.page = [upload |-> 0]
    BY <1>14 DEF AttachmentsSection
  <2> QED  BY <2>1
<1>15. CASE page = "sessions"
  <2>1. Shape.page = [revokeOthers |-> 2]
    BY <1>15 DEF SessionsCard
  <2> QED  BY <2>1
<1>16. CASE page = "notifications"
  <2>1. Shape.page = [readAll |-> 1]
    BY <1>16 DEF NotificationBell
  <2> QED  BY <2>1
<1>17. CASE page = "users"
  <2>1. Shape.page = <<>>
    BY <1>17 DEF AdminUsers
  <2> QED  BY <2>1
<1> QED  BY <1>0, <1>1, <1>2, <1>3, <1>4, <1>5, <1>6, <1>7, <1>8, <1>9, <1>10, <1>11, <1>12, <1>13, <1>14, <1>15, <1>16, <1>17

\* A request of the page itself, and one of the dialog that is open.
LEMMA SendKeepsSaves ==
    ASSUME SaveInv, CatalogRows, NEW button, NEW row, NEW here \in BOOLEAN,
           SendWrite(button, row, here),
           \/ ~here /\ button \notin DOMAIN Opens
           \/ /\ here /\ dialog # None /\ dialog.button # "shown" /\ button = dialog.button
              /\ ~Busy(dialog.name)
    PROVE  SaveInv'
<1> DEFINE told(r) == [r EXCEPT !.last = @ /\ r.button # button]
           sent == [button |-> button, row |-> row, last |-> TRUE, applied |-> FALSE,
                    here |-> here, id |-> writes]
<1>1. pending' = {told(r) : r \in pending} \cup {sent} /\ UNCHANGED <<dialog, saves>>
  BY DEF SendWrite
<1>2. ASSUME NEW r \in pending
      PROVE  told(r).button = r.button /\ told(r).applied = r.applied /\ told(r).here = r.here
  BY DEF CatalogRows
<1>3. sent.button = button /\ ~sent.applied /\ sent.here = here
  OBVIOUS
<1> HIDE DEF told, sent
<1>4. ASSUME NEW name, OfDialog(sent, name), NEW r \in pending, OfDialog(r, name)
      PROVE  FALSE
  BY <1>3, <1>4 DEF OfDialog, Busy, SaveInv
<1>5. OneEach'
  <2> SUFFICES ASSUME NEW q \in pending', NEW r \in pending', NEW name,
                      OfDialog(q, name), OfDialog(r, name)
               PROVE  q = r
    BY DEF OneEach, OfDialog
  <2>1. ASSUME NEW p \in pending, OfDialog(told(p), name) PROVE OfDialog(p, name)
    BY <1>2, <2>1 DEF OfDialog
  <2>2. CASE q = sent \/ r = sent
    BY <1>1, <1>4, <2>1, <2>2
  <2>3. CASE q # sent /\ r # sent
    <3>1. PICK p \in pending, o \in pending : q = told(p) /\ r = told(o)
      BY <1>1, <2>3
    <3> QED  BY <2>1, <3>1 DEF SaveInv, OneEach
  <2> QED  BY <2>2, <2>3
<1>6. ASSUME here
      PROVE  /\ OfDialog(sent, dialog.name) /\ Showing(dialog.name) /\ saves = 0
             /\ \A r \in pending : ~r.here
  <2>1. OfDialog(sent, dialog.name) /\ Showing(dialog.name)
    BY <1>3, <1>6 DEF SaveInv, OfDialog, Showing
  <2>2. \A r \in pending : ~r.here
    BY <1>4, <2>1 DEF SaveInv, Showing
  <2> QED  BY <1>6, <2>1, <2>2 DEF SaveInv
<1>7. ASSUME NEW r \in pending', r.here
      PROVE  /\ \E name : Showing(name) /\ OfDialog(r, name)
             /\ r.applied <=> saves = 1
  <2>1. CASE r = sent
    BY <1>3, <1>6, <1>7, <2>1
  <2>2. CASE r # sent
    <3>1. PICK p \in pending : r = told(p)
      BY <1>1, <2>2
    <3>2. p.here /\ r.button = p.button /\ r.applied = p.applied
      BY <1>2, <1>7, <3>1
    <3> QED  BY <3>2 DEF SaveInv, OfDialog
  <2> QED  BY <2>1, <2>2
<1>8. (\A r \in pending' : ~r.here) => \A r \in pending : ~r.here
  BY <1>1, <1>2
<1> QED  BY <1>1, <1>5, <1>7, <1>8 DEF SaveInv, Showing, OfDialog

LEMMA ApplyKeepsSaves ==
    ASSUME SaveInv, CatalogRows, NEW r \in pending, ApplyWrite(r)
    PROVE  SaveInv'
<1> DEFINE done == [r EXCEPT !.applied = TRUE]
<1>1. /\ pending' = (pending \ {r}) \cup {done} /\ dialog' = dialog /\ ~r.applied
      /\ saves' = IF r.here THEN saves + 1 ELSE saves
  BY DEF ApplyWrite
<1>2. done.button = r.button /\ done.applied /\ done.here = r.here
  BY DEF CatalogRows
<1> HIDE DEF done
<1>3. \A name : OfDialog(done, name) <=> OfDialog(r, name)
  BY <1>2 DEF OfDialog
<1>4. OneEach'
  <2> SUFFICES ASSUME NEW p \in pending', NEW q \in pending', NEW name,
                      OfDialog(p, name), OfDialog(q, name)
               PROVE  p = q
    BY DEF OneEach, OfDialog
  <2> QED  BY <1>1, <1>3 DEF SaveInv, OneEach
<1>5. ASSUME NEW q \in pending \ {r}, q.here, r.here
      PROVE  FALSE
  BY <1>5 DEF SaveInv, OneEach, Showing
<1>6. r.here => saves = 0 /\ saves' = 1
  BY <1>1 DEF SaveInv
<1>7. CASE r.here
  BY <1>1, <1>2, <1>3, <1>4, <1>5, <1>6, <1>7 DEF SaveInv, Showing, OfDialog
<1>8. CASE ~r.here
  BY <1>1, <1>2, <1>3, <1>4, <1>8 DEF SaveInv, Showing, OfDialog
<1> QED  BY <1>7, <1>8

LEMMA AnswerKeepsSaves ==
    ASSUME SaveInv, DialogInv, NEW r \in pending, WriteSucceeds(r) \/ WriteFails(r)
    PROVE  SaveInv'
<1>1. pending' = pending \ {r} /\ OneEach'
  BY DEF WriteSucceeds, WriteFails, SaveInv, OneEach, OfDialog
<1>2. ASSUME NEW q \in pending', q.here, r.here
      PROVE  FALSE
  BY <1>1, <1>2 DEF SaveInv, OneEach, Showing
<1>3. CASE WriteFails(r)
  <2>1. dialog' = dialog /\ saves' = IF r.here /\ r.applied THEN saves - 1 ELSE saves
    BY <1>3 DEF WriteFails
  <2>2. r.here => saves' = 0
    BY <2>1 DEF SaveInv
  <2>3. ~r.here => saves' = saves
    BY <2>1
  <2>4. CASE r.here
    BY <1>1, <1>2, <2>1, <2>2, <2>4 DEF SaveInv, Showing, OfDialog
  <2>5. CASE ~r.here
    BY <1>1, <2>1, <2>3, <2>5 DEF SaveInv, Showing, OfDialog
  <2> QED  BY <2>4, <2>5
<1>4. CASE WriteSucceeds(r)
  <2>1. dialog' = AfterSuccess(r) /\ saves' = saves
    BY <1>4 DEF WriteSucceeds
  <2>2. CASE dialog # None /\ OfDialog(r, dialog.name)
    <3>1. dialog' = None \/ (dialog' = [dialog EXCEPT !.button = "shown"])
      BY <2>1, <2>2 DEF AfterSuccess, OfDialog
    <3>2. dialog' # None => dialog'.button = "shown"
      <4>1. [dialog EXCEPT !.button = "shown"].button = "shown"
        BY <2>2 DEF DialogInv
      <4> QED  BY <3>1, <4>1
    <3>3. \A q \in pending' : ~q.here
      BY <1>1, <2>2 DEF SaveInv, OneEach, Showing
    <3> QED  BY <1>1, <2>1, <3>2, <3>3 DEF SaveInv
  <2>3. CASE ~(dialog # None /\ OfDialog(r, dialog.name))
    <3>1. dialog' = dialog
      BY <2>1, <2>3 DEF AfterSuccess, OfDialog
    <3>2. ~r.here
      BY <2>3 DEF SaveInv, Showing
    <3> QED  BY <1>1, <2>1, <3>1, <3>2 DEF SaveInv, Showing, OfDialog
  <2> QED  BY <2>2, <2>3
<1> QED  BY <1>3, <1>4

LEMMA SaveStep ==
    CatalogInv /\ SaveInv /\ [CatalogNext]_catalogVars => SaveInv' /\ saves' \in Nat
<1> SUFFICES ASSUME CatalogInv, SaveInv, [CatalogNext]_catalogVars PROVE SaveInv'
  BY DEF SaveInv
<1>0. CatalogRows /\ DialogInv /\ page \in DOMAIN Page
  BY DEF CatalogInv, CatalogRows
<1>1. CASE OpenForCreate
  BY <1>1, OpenKeepsSaves DEF OpenForCreate, Opens
<1>2. CASE OpenForRow
  BY <1>2, OpenKeepsSaves DEF OpenForRow
<1>3. CASE CloseDialog
  BY <1>0, <1>3, CloseKeepsSaves
<1>4. CASE SubmitDialog
  BY <1>0, <1>4, SendKeepsSaves DEF SubmitDialog
<1>5. CASE ClickRow
  BY <1>0, <1>5, SendKeepsSaves DEF ClickRow
<1>6. CASE ClickPage
  BY <1>0, <1>6, SendKeepsSaves, PageButtonsOpenNothing DEF ClickPage
<1>7. ASSUME NEW r \in pending, ApplyWrite(r) PROVE SaveInv'
  BY <1>0, <1>7, ApplyKeepsSaves
<1>8. ASSUME NEW r \in pending, WriteSucceeds(r) \/ WriteFails(r) PROVE SaveInv'
  BY <1>0, <1>8, AnswerKeepsSaves
<1>9. ASSUME NEW missing, Edited(missing) PROVE SaveInv'
  BY <1>9, QuietKeepsSaves DEF Edited
<1>10. CASE ReadList \/ ListAnswers \/ ListFails \/ Poll \/ AccountsAnswer
  BY <1>10, QuietKeepsSaves DEF ReadList, ListAnswers, ListFails, Poll, AccountsAnswer
<1>11. CASE UNCHANGED catalogVars
  BY <1>11, QuietKeepsSaves DEF catalogVars
<1> QED
  BY <1>1, <1>2, <1>3, <1>4, <1>5, <1>6, <1>7, <1>8, <1>9, <1>10, <1>11
     DEF CatalogNext, Type, Erase

LEMMA SaveInvariant == CatalogSpec => [](CatalogInv /\ SaveInv)
<1>1. CatalogInit => CatalogInv /\ SaveInv
  BY CatalogInitInv DEF CatalogInit, CatalogInv, DialogInv, SaveInv, OneEach
<1> QED  BY <1>1, CatalogStep, SaveStep, PTL DEF CatalogSpec

(***************************************************************************)
(* A dialog that is opened once saves at most once, on every page and for  *)
(* any number of requests, however often it is submitted, closed and       *)
(* opened again, unless an answer was lost (the isPending of the modals'   *)
(* buttons, their onClose).                                                *)
(***************************************************************************)
THEOREM DialogsSaveOnce == CatalogSpec => []SavesOnce
<1>1. CatalogInv /\ SaveInv => SavesOnce
  BY DEF SaveInv, SavesOnce
<1> QED  BY <1>1, SaveInvariant, PTL

-----------------------------------------------------------------------------
(***************************************************************************)
(* The types of the catalog.  A list's version stays within the number of  *)
(* requests sent because a request is applied once: the version and the    *)
(* requests not applied yet are no more than those sent.                   *)
(***************************************************************************)
\* What a page offers has a name, and what opens a dialog has one to open.
LEMMA ButtonsAreNamed ==
    ASSUME page \in DOMAIN Page
    PROVE  /\ \A row \in Rows : \A button \in Shape.buttons[row] :
                  /\ button \in Buttons
                  /\ button \in DOMAIN Opens => Opens[button] \in DOMAIN Shape.dialogs
           /\ \A button \in DOMAIN Shape.page : button \in Buttons
           /\ "create" \in DOMAIN Shape.page => Opens["create"] \in DOMAIN Shape.dialogs
<1> USE DEF Buttons, Opens, Catalog, Shape, Page
<1>0. page \in {"accounts", "categories", "tags", "contacts", "cards", "budgets", "goals", "rules", "recurrences", "members", "invitations", "bills", "invoices", "attachments", "sessions", "notifications", "users"}
  OBVIOUS
<1>1. CASE page = "accounts"
  BY <1>1 DEF AccountsPage, AccountCard
<1>2. CASE page = "categories"
  BY <1>2 DEF CategoriesPage, CategoryChip
<1>3. CASE page = "tags"
  BY <1>3 DEF TagsPage, TagRow
<1>4. CASE page = "contacts"
  BY <1>4 DEF ContactsPage, ContactCard
<1>5. CASE page = "cards"
  BY <1>5 DEF CreditCardsPage, CreditCardItem
<1>6. CASE page = "budgets"
  BY <1>6 DEF BudgetsTable, BudgetRow
<1>7. CASE page = "goals"
  <2>1. /\ Shape.page = [create |-> 0]
        /\ Shape.buttons = [row \in Rows |-> GoalCard(row)]
        /\ Shape.dialogs = [form |-> GoalFormModal, add |-> AddValueModal]
    BY <1>7 DEF GoalsPage
  <2>2. DOMAIN Shape.dialogs = {"form", "add"}
    BY <2>1
  <2> HIDE DEF Shape
  <2> QED  BY <2>1, <2>2 DEF GoalCard
<1>8. CASE page = "rules"
  <2>1. /\ Shape.page = [create |-> 0, apply |-> 1]
        /\ Shape.buttons = [row \in Rows |-> RuleRow(row)]
        /\ Shape.dialogs = [form |-> RuleFormModal]
    BY <1>8 DEF CategorizationPage
  <2> QED  BY <2>1 DEF RuleRow
<1>9. CASE page = "recurrences"
  <2>1. /\ Shape.page = [create |-> 0]
        /\ Shape.buttons = [row \in Rows |-> RecurrenceRow(row)]
        /\ Shape.dialogs = [form |-> RecurrenceFormModal]
    BY <1>9 DEF RecurrencesPage
  <2> QED  BY <2>1 DEF RecurrenceRow
<1>10. CASE page = "members"
  <2>1. Shape.page = <<>> /\ DOMAIN Shape.page = {}
    <3>1. Shape.page = <<>>
      BY <1>10 DEF MembersPage
    <3> QED  BY <3>1
  <2>2. Shape.buttons = [row \in Rows |-> MemberRow(row)]
    BY <1>10 DEF MembersPage
  <2> QED  BY <2>1, <2>2 DEF MemberRow
<1>11. CASE page = "invitations"
  BY <1>11 DEF PendingInvitations
<1>12. CASE page = "bills"
  <2>1. DOMAIN Shape.page = {}
    <3>1. Shape.page = <<>>
      BY <1>12 DEF BillsTable
    <3> QED  BY <3>1
  <2>2. /\ Shape.buttons = [row \in Rows |-> BillRow(row)]
        /\ Shape.dialogs = [form |-> SettleModal]
    BY <1>12 DEF BillsTable
  <2> QED  BY <2>1, <2>2 DEF BillRow
<1>13. CASE page = "invoices"
  <2>1. DOMAIN Shape.page = {}
    <3>1. Shape.page = <<>>
      BY <1>13 DEF InvoicesModal
    <3> QED  BY <3>1
  <2>2. /\ Shape.buttons = [row \in Rows |-> InvoiceRow(row)]
        /\ Shape.dialogs = [form |-> PayInvoiceModal]
    BY <1>13 DEF InvoicesModal
  <2> QED  BY <2>1, <2>2 DEF InvoiceRow
<1>14. CASE page = "attachments"
  BY <1>14 DEF AttachmentsSection
<1>15. CASE page = "sessions"
  BY <1>15 DEF SessionsCard, SessionRow
<1>16. CASE page = "notifications"
  BY <1>16 DEF NotificationBell, NotificationItem
<1>17. CASE page = "users"
  <2>1. DOMAIN Shape.page = {}
    <3>1. Shape.page = <<>>
      BY <1>17 DEF AdminUsers
    <3> QED  BY <3>1
  <2>2. /\ Shape.buttons = [row \in Rows |-> {b \in {"password"} : row \notin Special}]
        /\ Shape.dialogs = [form |-> AdminResetPasswordModal]
    BY <1>17 DEF AdminUsers
  <2> QED  BY <2>1, <2>2
<1> QED  BY <1>0, <1>1, <1>2, <1>3, <1>4, <1>5, <1>6, <1>7, <1>8, <1>9, <1>10, <1>11, <1>12, <1>13, <1>14, <1>15, <1>16, <1>17

CatalogTyped ==
    /\ CatalogTypeOK
    /\ dialog # None => /\ dialog.row \in Rows \cup {None}
                        /\ dialog.button \in Buttons \cup {"shown"}

\* The ids of the requests under way that the server has not applied.
Unapplied == {r.id : r \in {q \in pending : ~q.applied}}

WritesCounted ==
    /\ \A q, r \in pending : q.id = r.id => q = r
    /\ \A r \in pending : r.id < writes
    /\ server.version + Cardinality(Unapplied) <= writes

CatalogTypesInv == CatalogTyped /\ WritesCounted

LEMMA UnappliedIsFinite ==
    ASSUME CatalogTypesInv
    PROVE  /\ Unapplied \subseteq 0..(writes - 1) /\ IsFiniteSet(Unapplied)
           /\ Cardinality(Unapplied) \in Nat
           /\ writes \in Nat /\ server.version \in Nat
<1>1. writes \in Nat /\ server.version \in Nat
  BY CatalogAssumption DEF CatalogTypesInv, CatalogTyped, CatalogTypeOK, List
<1>2. Unapplied \subseteq 0..(writes - 1)
  <2> SUFFICES ASSUME NEW r \in pending PROVE r.id \in 0..(writes - 1)
    BY DEF Unapplied
  <2>1. r.id \in Nat /\ r.id < writes
    BY DEF CatalogTypesInv, CatalogTyped, CatalogTypeOK, Request, WritesCounted
  <2> QED  BY <1>1, <2>1
<1> HIDE DEF Unapplied
<1>3. IsFiniteSet(0..(writes - 1))
  BY <1>1, FS_Interval
<1>4. IsFiniteSet(Unapplied)
  BY <1>2, <1>3, FS_Subset
<1> QED  BY <1>1, <1>2, <1>4, FS_CardinalityType

\* Steps that leave the server alone and send no request.
LEMMA QuietKeepsCount ==
    ASSUME CatalogTypesInv, pending' \subseteq pending, UNCHANGED <<server, writes>>
    PROVE  WritesCounted'
<1>1. Unapplied' \subseteq Unapplied
  BY DEF Unapplied
<1>2. Cardinality(Unapplied') <= Cardinality(Unapplied) /\ Cardinality(Unapplied') \in Nat
  <2> HIDE DEF Unapplied
  <2> QED  BY <1>1, UnappliedIsFinite, FS_Subset, FS_CardinalityType
<1>3. server.version + Cardinality(Unapplied') <= writes
  BY <1>2, UnappliedIsFinite DEF CatalogTypesInv, WritesCounted
<1> QED  BY <1>3 DEF CatalogTypesInv, WritesCounted

LEMMA SendKeepsTypes ==
    ASSUME CatalogTypesInv, NEW button \in Buttons, NEW row \in Rows \cup {None},
           NEW here \in BOOLEAN, SendWrite(button, row, here)
    PROVE  CatalogTypesInv'
<1> DEFINE told(r) == [r EXCEPT !.last = @ /\ r.button # button]
           sent == [button |-> button, row |-> row, last |-> TRUE, applied |-> FALSE,
                    here |-> here, id |-> writes]
<1>1. /\ writes < MaxWrites /\ writes' = writes + 1
      /\ pending' = {told(r) : r \in pending} \cup {sent}
      /\ UNCHANGED <<page, role, server, shown, outdated, fetch, dialog, draft, saves,
                     unseen>>
  BY DEF SendWrite
<1>2. \A r \in pending : r \in Request /\ r.id < writes
  BY DEF CatalogTypesInv, CatalogTyped, CatalogTypeOK, WritesCounted
<1>3. writes \in Nat /\ writes \in 0..MaxWrites
  BY UnappliedIsFinite DEF CatalogTypesInv, CatalogTyped, CatalogTypeOK
<1>4. sent \in Request /\ sent.id = writes /\ ~sent.applied
  BY <1>3 DEF Request
<1>5. ASSUME NEW r \in pending
      PROVE  told(r) \in Request /\ told(r).id = r.id /\ told(r).applied = r.applied
  BY <1>2 DEF Request
<1> HIDE DEF told, sent
<1>6. pending' \subseteq Request
  BY <1>1, <1>4, <1>5
<1>7. CatalogTyped'
  BY <1>1, <1>3, <1>6, CatalogAssumption DEF CatalogTypesInv, CatalogTyped, CatalogTypeOK, Shape
<1>8. Unapplied' = Unapplied \cup {writes}
  <2>1. ASSUME NEW x \in Unapplied' PROVE x \in Unapplied \cup {writes}
    <3>1. PICK q \in pending' : ~q.applied /\ q.id = x
      BY DEF Unapplied
    <3> QED  BY <1>1, <1>4, <1>5, <3>1 DEF Unapplied
  <2>2. ASSUME NEW x \in Unapplied PROVE x \in Unapplied'
    <3>1. PICK r \in pending : ~r.applied /\ r.id = x
      BY DEF Unapplied
    <3>2. told(r) \in pending' /\ ~told(r).applied /\ told(r).id = x
      BY <1>1, <1>5, <3>1
    <3> QED  BY <3>2 DEF Unapplied
  <2>3. writes \in Unapplied'
    BY <1>1, <1>4 DEF Unapplied
  <2> QED  BY <2>1, <2>2, <2>3
<1>9. Cardinality(Unapplied') = Cardinality(Unapplied) + 1
  <2>1. writes \notin Unapplied
    BY <1>3, UnappliedIsFinite
  <2> HIDE DEF Unapplied
  <2> QED  BY <1>8, <2>1, UnappliedIsFinite, FS_AddElement
<1>10. \A q, r \in pending' : q.id = r.id => q = r
  <2> SUFFICES ASSUME NEW q \in pending', NEW r \in pending', q.id = r.id PROVE q = r
    OBVIOUS
  <2>1. \A p \in pending : told(p).id < writes
    BY <1>2, <1>5
  <2>2. CASE q = sent \/ r = sent
    BY <1>1, <1>3, <1>4, <2>1, <2>2
  <2>3. CASE q # sent /\ r # sent
    <3>1. PICK p \in pending, s \in pending : q = told(p) /\ r = told(s)
      BY <1>1, <2>3
    <3>2. p.id = s.id
      BY <1>5, <3>1
    <3>3. p = s
      BY <3>2 DEF CatalogTypesInv, WritesCounted
    <3> QED  BY <3>1, <3>3
  <2> QED  BY <2>2, <2>3
<1>11. \A r \in pending' : r.id < writes'
  BY <1>1, <1>2, <1>3, <1>4, <1>5 DEF Request
<1>12. server'.version + Cardinality(Unapplied') <= writes'
  BY <1>1, <1>9, UnappliedIsFinite DEF CatalogTypesInv, WritesCounted
<1> QED  BY <1>7, <1>10, <1>11, <1>12 DEF CatalogTypesInv, WritesCounted

LEMMA ApplyKeepsTypes ==
    ASSUME CatalogInv, CatalogTypesInv, NEW r \in pending, ApplyWrite(r)
    PROVE  CatalogTypesInv'
<1> DEFINE done == [r EXCEPT !.applied = TRUE]
<1>1. /\ ~r.applied /\ server' = Written(r)
      /\ pending' = (pending \ {r}) \cup {done}
      /\ saves' = IF r.here THEN saves + 1 ELSE saves
      /\ UNCHANGED <<page, role, shown, outdated, fetch, dialog, draft, writes, unseen>>
  BY DEF ApplyWrite
<1>2. /\ r \in Request /\ r.id < writes
      /\ \A q \in pending : q.id = r.id => q = r
  BY DEF CatalogTypesInv, CatalogTyped, CatalogTypeOK, WritesCounted
<1>3. done \in Request /\ done.id = r.id /\ done.applied
  BY <1>2 DEF Request
<1> HIDE DEF done
<1>4. Unapplied' = Unapplied \ {r.id} /\ r.id \in Unapplied
  <2>1. ASSUME NEW x \in Unapplied' PROVE x \in Unapplied \ {r.id}
    <3>1. PICK q \in pending' : ~q.applied /\ q.id = x
      BY DEF Unapplied
    <3>2. q \in pending /\ q # r
      BY <1>1, <1>3, <3>1
    <3> QED  BY <1>2, <3>1, <3>2 DEF Unapplied
  <2>2. ASSUME NEW x \in Unapplied \ {r.id} PROVE x \in Unapplied'
    <3>1. PICK q \in pending : ~q.applied /\ q.id = x
      BY DEF Unapplied
    <3>2. q \in pending'
      BY <1>1, <2>2, <3>1
    <3> QED  BY <3>1, <3>2 DEF Unapplied
  <2>3. r.id \in Unapplied
    BY <1>1 DEF Unapplied
  <2> QED  BY <2>1, <2>2, <2>3
<1>5. Cardinality(Unapplied') = Cardinality(Unapplied) - 1
  <2> HIDE DEF Unapplied
  <2> QED  BY <1>4, UnappliedIsFinite, FS_RemoveElement
<1>6. /\ server'.version \in {server.version, server.version + 1}
      /\ server' = [rows |-> server'.rows, version |-> server'.version]
  BY <1>1 DEF Written
<1>7. server.version + Cardinality(Unapplied) <= writes /\ writes <= MaxWrites
  BY CatalogAssumption DEF CatalogTypesInv, WritesCounted, CatalogTyped, CatalogTypeOK
<1>8. server'.version + Cardinality(Unapplied') <= writes
  BY <1>5, <1>6, <1>7, UnappliedIsFinite
<1>9. Cardinality(Unapplied') \in Nat
  BY <1>4, <1>5, UnappliedIsFinite, FS_RemoveElement, FS_CardinalityType
<1>10. server'.version \in 0..MaxWrites
  BY <1>6, <1>7, <1>8, <1>9, UnappliedIsFinite, CatalogAssumption
<1>11. server'.rows \subseteq Rows
  BY ApplyKeepsCatalog DEF CatalogRows
<1>12. server' \in List
  BY <1>6, <1>10, <1>11 DEF List
<1>13. CatalogTyped'
  BY <1>1, <1>3, <1>12 DEF CatalogTypesInv, CatalogTyped, CatalogTypeOK, Shape
<1>14. \A p, q \in pending' : p.id = q.id => p = q
  BY <1>1, <1>2, <1>3 DEF CatalogTypesInv, WritesCounted
<1>15. \A q \in pending' : q.id < writes
  BY <1>1, <1>2, <1>3 DEF CatalogTypesInv, WritesCounted
<1> QED  BY <1>1, <1>8, <1>13, <1>14, <1>15 DEF CatalogTypesInv, WritesCounted

LEMMA CloseKeepsTypes ==
    ASSUME CatalogInv, CatalogTypesInv, CloseDialog
    PROVE  CatalogTypesInv'
<1> DEFINE off(r) == [r EXCEPT !.here = FALSE]
<1>1. /\ pending' = {off(r) : r \in pending} /\ dialog' = None
      /\ UNCHANGED <<page, role, server, shown, outdated, fetch, draft, writes, saves, unseen>>
  BY DEF CloseDialog
<1>2. ASSUME NEW r \in pending
      PROVE  off(r) \in Request /\ off(r).id = r.id /\ off(r).applied = r.applied
  <2>1. r \in Request
    BY DEF CatalogTypesInv, CatalogTyped, CatalogTypeOK
  <2> QED  BY <2>1 DEF Request
<1> HIDE DEF off
<1>3. CatalogTyped'
  BY <1>1, <1>2 DEF CatalogTypesInv, CatalogTyped, CatalogTypeOK
<1>4. Unapplied' = Unapplied
  <2>1. ASSUME NEW x \in Unapplied' PROVE x \in Unapplied
    <3>1. PICK q \in pending' : ~q.applied /\ q.id = x
      BY DEF Unapplied
    <3> QED  BY <1>1, <1>2, <3>1 DEF Unapplied
  <2>2. ASSUME NEW x \in Unapplied PROVE x \in Unapplied'
    <3>1. PICK r \in pending : ~r.applied /\ r.id = x
      BY DEF Unapplied
    <3>2. off(r) \in pending' /\ ~off(r).applied /\ off(r).id = x
      BY <1>1, <1>2, <3>1
    <3> QED  BY <3>2 DEF Unapplied
  <2> QED  BY <2>1, <2>2
<1>5. \A q, r \in pending' : q.id = r.id => q = r
  BY <1>1, <1>2 DEF CatalogTypesInv, WritesCounted
<1>6. \A r \in pending' : r.id < writes'
  BY <1>1, <1>2 DEF CatalogTypesInv, WritesCounted
<1> QED  BY <1>1, <1>3, <1>4, <1>5, <1>6 DEF CatalogTypesInv, WritesCounted

\* What a dialog begins without is among what it needs.
LEMMA DialogsAsk ==
    ASSUME page \in DOMAIN Page, NEW name \in DOMAIN Shape.dialogs
    PROVE  Shape.dialogs[name].blank \subseteq Shape.dialogs[name].needs
<1> USE DEF Dialog, Catalog, Shape, Page
<1>0. page \in {"accounts", "categories", "tags", "contacts", "cards", "budgets", "goals", "rules", "recurrences", "members", "invitations", "bills", "invoices", "attachments", "sessions", "notifications", "users"}
  OBVIOUS
<1>1. CASE page = "accounts"
  <2>1. Shape.dialogs = [form |-> AccountFormModal]
    BY <1>1 DEF AccountsPage
  <2> QED  BY <2>1 DEF AccountFormModal
<1>2. CASE page = "categories"
  <2>1. Shape.dialogs = [form |-> CategoryFormModal]
    BY <1>2 DEF CategoriesPage
  <2> QED  BY <2>1 DEF CategoryFormModal
<1>3. CASE page = "tags"
  <2>1. Shape.dialogs = [form |-> TagFormModal]
    BY <1>3 DEF TagsPage
  <2> QED  BY <2>1 DEF TagFormModal
<1>4. CASE page = "contacts"
  <2>1. Shape.dialogs = [form |-> ContactFormModal]
    BY <1>4 DEF ContactsPage
  <2> QED  BY <2>1 DEF ContactFormModal
<1>5. CASE page = "cards"
  <2>1. Shape.dialogs = [form |-> CreditCardFormModal]
    BY <1>5 DEF CreditCardsPage
  <2> QED  BY <2>1 DEF CreditCardFormModal
<1>6. CASE page = "budgets"
  <2>1. Shape.dialogs = [form |-> BudgetFormModal]
    BY <1>6 DEF BudgetsTable
  <2> QED  BY <2>1 DEF BudgetFormModal
<1>7. CASE page = "goals"
  <2>1. Shape.dialogs = [form |-> GoalFormModal, add |-> AddValueModal]
    BY <1>7 DEF GoalsPage
  <2> QED  BY <2>1 DEF GoalFormModal, AddValueModal
<1>8. CASE page = "rules"
  <2>1. Shape.dialogs = [form |-> RuleFormModal]
    BY <1>8 DEF CategorizationPage
  <2> QED  BY <2>1 DEF RuleFormModal
<1>9. CASE page = "recurrences"
  <2>1. Shape.dialogs = [form |-> RecurrenceFormModal]
    BY <1>9 DEF RecurrencesPage
  <2> QED  BY <2>1 DEF RecurrenceFormModal
<1>10. CASE page = "members"
  <2>1. Shape.dialogs = [form |-> InviteMemberModal]
    BY <1>10 DEF MembersPage
  <2> QED  BY <2>1 DEF InviteMemberModal
<1>11. CASE page = "invitations"
  <2>1. Shape.dialogs = [form |-> InviteMemberModal]
    BY <1>11 DEF PendingInvitations
  <2> QED  BY <2>1 DEF InviteMemberModal
<1>12. CASE page = "bills"
  <2>1. Shape.dialogs = [form |-> SettleModal]
    BY <1>12 DEF BillsTable
  <2> QED  BY <2>1 DEF SettleModal
<1>13. CASE page = "invoices"
  <2>1. Shape.dialogs = [form |-> PayInvoiceModal]
    BY <1>13 DEF InvoicesModal
  <2> QED  BY <2>1 DEF PayInvoiceModal
<1>14. CASE page = "attachments"
  <2>1. Shape.dialogs = <<>> /\ DOMAIN Shape.dialogs = {}
    <3>1. Shape.dialogs = <<>>
      BY <1>14 DEF AttachmentsSection
    <3> QED  BY <3>1
  <2> QED  BY <2>1
<1>15. CASE page = "sessions"
  <2>1. Shape.dialogs = <<>> /\ DOMAIN Shape.dialogs = {}
    <3>1. Shape.dialogs = <<>>
      BY <1>15 DEF SessionsCard
    <3> QED  BY <3>1
  <2> QED  BY <2>1
<1>16. CASE page = "notifications"
  <2>1. Shape.dialogs = <<>> /\ DOMAIN Shape.dialogs = {}
    <3>1. Shape.dialogs = <<>>
      BY <1>16 DEF NotificationBell
    <3> QED  BY <3>1
  <2> QED  BY <2>1
<1>17. CASE page = "users"
  <2>1. Shape.dialogs = [form |-> AdminResetPasswordModal]
    BY <1>17 DEF AdminUsers
  <2> QED  BY <2>1 DEF AdminResetPasswordModal
<1> QED  BY <1>0, <1>1, <1>2, <1>3, <1>4, <1>5, <1>6, <1>7, <1>8, <1>9, <1>10, <1>11, <1>12, <1>13, <1>14, <1>15, <1>16, <1>17

LEMMA FillDialogAsks ==
    ASSUME page \in DOMAIN Page, NEW name \in DOMAIN Shape.dialogs, NEW row
    PROVE  FillDialog(name, row) \subseteq Shape.dialogs[name].needs
  BY DialogsAsk DEF FillDialog

LEMMA CatalogTypesStep ==
    CatalogInv /\ CatalogTypesInv /\ [CatalogNext]_catalogVars /\ saves' \in Nat
        => CatalogTypesInv'
<1> SUFFICES ASSUME CatalogInv, CatalogTypesInv, [CatalogNext]_catalogVars, saves' \in Nat
             PROVE  CatalogTypesInv'
  OBVIOUS
<1>0. CatalogTypeOK /\ page \in DOMAIN Page /\ Seen \subseteq Rows
  BY DEF CatalogTypesInv, CatalogTyped, CatalogTypeOK, Seen, List
<1>a. /\ \A row \in Rows : \A button \in Shape.buttons[row] :
            /\ button \in Buttons
            /\ button \in DOMAIN Opens => Opens[button] \in DOMAIN Shape.dialogs
      /\ \A button \in DOMAIN Shape.page : button \in Buttons
      /\ "create" \in DOMAIN Shape.page => Opens["create"] \in DOMAIN Shape.dialogs
  BY <1>0, ButtonsAreNamed
<1>1. ASSUME NEW button \in Buttons, NEW row \in Rows \cup {None}, OpenDialog(button, row),
             Opens[button] \in DOMAIN Shape.dialogs
      PROVE  CatalogTypesInv'
  <2>1. /\ dialog' = [name |-> Opens[button], button |-> button, row |-> row]
        /\ draft' = FillDialog(Opens[button], row)
        /\ UNCHANGED <<page, role, server, shown, outdated, fetch, pending, writes, unseen>>
    BY <1>1 DEF OpenDialog
  <2>2. CatalogTyped'
    BY <1>1, <2>1, FillDialogAsks DEF CatalogTypesInv, CatalogTyped, CatalogTypeOK, Shape
  <2> QED  BY <2>1, <2>2, QuietKeepsCount DEF CatalogTypesInv
<1>2. CASE OpenForCreate
  <2>1. "create" \in DOMAIN Shape.page /\ OpenDialog("create", None)
    BY <1>2 DEF OpenForCreate
  <2> QED  BY <1>1, <1>a, <2>1
<1>3. CASE OpenForRow
  <2>1. PICK row \in Seen :
            \E button \in Shape.buttons[row] \cap DOMAIN Opens : OpenDialog(button, row)
    BY <1>3 DEF OpenForRow
  <2> QED  BY <1>0, <1>1, <1>a, <2>1
<1>4. CASE CloseDialog
  BY <1>4, CloseKeepsTypes
<1>5. ASSUME NEW missing, Edited(missing),
             dialog # None => missing \subseteq Shape.dialogs[dialog.name].needs
      PROVE  CatalogTypesInv'
  <2>1. draft' = missing
        /\ UNCHANGED <<page, role, server, shown, outdated, fetch, dialog, pending, writes,
                       saves, unseen>>
    BY <1>5 DEF Edited
  <2>2. CatalogTyped'
    BY <1>5, <2>1 DEF CatalogTypesInv, CatalogTyped, CatalogTypeOK, Shape
  <2> QED  BY <2>1, <2>2, QuietKeepsCount DEF CatalogTypesInv
<1>6. CASE SubmitDialog
  <2>1. /\ dialog.button \in Buttons /\ dialog.row \in Rows \cup {None}
        /\ SendWrite(dialog.button, dialog.row, TRUE)
    BY <1>6 DEF SubmitDialog, CatalogTypesInv, CatalogTyped
  <2> QED  BY <2>1, SendKeepsTypes
<1>7. CASE ClickRow
  <2>1. PICK row \in Seen : \E button \in Shape.buttons[row] : SendWrite(button, row, FALSE)
    BY <1>7 DEF ClickRow
  <2> QED  BY <1>0, <1>a, <2>1, SendKeepsTypes
<1>8. CASE ClickPage
  <2>1. PICK button \in DOMAIN Shape.page : SendWrite(button, None, FALSE)
    BY <1>8 DEF ClickPage
  <2> QED  BY <1>a, <2>1, SendKeepsTypes
<1>9. ASSUME NEW r \in pending, ApplyWrite(r) PROVE CatalogTypesInv'
  BY <1>9, ApplyKeepsTypes
<1>10. ASSUME NEW r \in pending, WriteSucceeds(r) PROVE CatalogTypesInv'
  <2>1. /\ pending' \subseteq pending /\ dialog' = AfterSuccess(r)
        /\ Invalidate(Shape.hooks[Mutation(r.button)])
        /\ UNCHANGED <<page, role, server, shown, draft, writes, saves>>
    BY <1>10 DEF WriteSucceeds
  <2>2. /\ fetch' \in {fetch, Asked} /\ outdated' \in BOOLEAN /\ unseen' \in BOOLEAN
    BY <1>0, <2>1 DEF Invalidate, CatalogTypeOK
  <2>3. \/ dialog' \in {None, dialog}
        \/ dialog # None /\ dialog' = [dialog EXCEPT !.button = "shown"]
    BY <2>1 DEF AfterSuccess
  <2>4. dialog' # None =>
            /\ dialog # None /\ dialog'.name = dialog.name /\ dialog'.row = dialog.row
            /\ dialog'.button \in {dialog.button, "shown"}
    BY <2>3 DEF CatalogInv, DialogInv
  <2>5. CatalogTyped'
    BY <2>1, <2>2, <2>4 DEF CatalogTypesInv, CatalogTyped, CatalogTypeOK, Shape
  <2> QED  BY <2>1, <2>5, QuietKeepsCount DEF CatalogTypesInv
<1>11. ASSUME NEW r \in pending, WriteFails(r) PROVE CatalogTypesInv'
  <2>1. /\ pending' \subseteq pending /\ unseen' = (unseen \/ r.applied)
        /\ UNCHANGED <<page, role, server, shown, outdated, fetch, dialog, draft, writes>>
    BY <1>11 DEF WriteFails
  <2>2. CatalogTyped'
    BY <2>1 DEF CatalogTypesInv, CatalogTyped, CatalogTypeOK, Shape
  <2> QED  BY <2>1, <2>2, QuietKeepsCount DEF CatalogTypesInv
<1>12. CASE ReadList \/ ListAnswers \/ ListFails \/ Poll \/ UNCHANGED catalogVars
  <2>1. /\ UNCHANGED <<page, role, server, dialog, draft, pending, writes, saves,
                       unseen>>
        /\ fetch' \in {fetch, None, Asked, server}
        /\ UNCHANGED <<shown, outdated>>
               \/ (fetch \notin {None, Asked} /\ shown' = fetch /\ outdated' = FALSE)
    BY <1>12 DEF ReadList, ListAnswers, ListFails, Poll, catalogVars
  <2>2. CatalogTyped'
    BY <2>1 DEF CatalogTypesInv, CatalogTyped, CatalogTypeOK, Shape
  <2> QED  BY <2>1, <2>2, QuietKeepsCount DEF CatalogTypesInv
<1>13. CASE AccountsAnswer
  <2>1. /\ dialog # None /\ draft' = FillDialog(dialog.name, dialog.row)
        /\ UNCHANGED <<page, role, server, shown, outdated, fetch, dialog, pending, writes,
                       saves, unseen>>
    BY <1>13 DEF AccountsAnswer
  <2>2. draft' \subseteq Shape.dialogs[dialog.name].needs
    BY <1>0, <2>1, FillDialogAsks DEF CatalogTypesInv, CatalogTyped, CatalogTypeOK
  <2>3. CatalogTyped'
    BY <2>1, <2>2 DEF CatalogTypesInv, CatalogTyped, CatalogTypeOK, Shape
  <2> QED  BY <2>1, <2>3, QuietKeepsCount DEF CatalogTypesInv
<1>14. ASSUME dialog # None, NEW field \in Shape.dialogs[dialog.name].needs,
              Type(field) \/ Erase(field)
       PROVE  CatalogTypesInv'
  <2>1. draft \subseteq Shape.dialogs[dialog.name].needs
    BY <1>0, <1>14 DEF CatalogTypeOK
  <2> QED  BY <1>5, <1>14, <2>1 DEF Type, Erase
<1> QED
  BY <1>2, <1>3, <1>4, <1>6, <1>7, <1>8, <1>9, <1>10, <1>11, <1>12, <1>13, <1>14
     DEF CatalogNext

LEMMA CatalogInitTypes == CatalogInit => CatalogTypesInv
<1> SUFFICES ASSUME CatalogInit PROVE CatalogTypesInv
  OBVIOUS
<1>1. PICK row \in Rows : server = [rows |-> {row}, version |-> 0]
  BY DEF CatalogInit
<1>2. Unapplied = {} /\ writes = 0
  BY DEF CatalogInit, Unapplied
<1>3. WritesCounted
  BY <1>1, <1>2, FS_EmptySet DEF CatalogInit, WritesCounted
<1>4. server \in List
  BY <1>1, CatalogAssumption DEF List
<1>5. role \in {"super", "admin", "viewer"}
  BY DEF CatalogInit
<1>6. /\ page \in DOMAIN Page /\ shown = None /\ outdated = TRUE /\ fetch = Asked
      /\ dialog = None /\ draft = {} /\ saves = 0
      /\ pending = {} /\ unseen = FALSE
  BY DEF CatalogInit
<1>7. writes \in 0..MaxWrites
  BY <1>2, CatalogAssumption
<1>8. CatalogTyped
  BY <1>4, <1>5, <1>6, <1>7 DEF CatalogTyped, CatalogTypeOK
<1> QED  BY <1>3, <1>8 DEF CatalogTypesInv

(***************************************************************************)
(* The types of the catalog, for any rows and any number of requests: a    *)
(* dialog that is open is one the page mounts, and a list never has seen   *)
(* more writes than were sent (the pages and their mutations).             *)
(***************************************************************************)
THEOREM CatalogTypes == CatalogSpec => []CatalogTypeOK
<1>1. CatalogInit => CatalogInv /\ CatalogTypesInv
  BY CatalogInitInv, CatalogInitTypes DEF CatalogInit, CatalogInv, DialogInv
<1>2. CatalogTypesInv => CatalogTypeOK
  BY DEF CatalogTypesInv, CatalogTyped
<1>3. CatalogInv /\ SaveInv /\ CatalogTypesInv /\ [CatalogNext]_catalogVars
        => CatalogTypesInv'
  BY SaveStep, CatalogTypesStep
<1> QED  BY <1>1, <1>2, <1>3, SaveInvariant, PTL DEF CatalogSpec

-----------------------------------------------------------------------------
(***************************************************************************)
(* The organization of a tab: lists of organizations.                      *)
(***************************************************************************)
Listed(orgList, id) == \E i \in DOMAIN orgList : orgList[i].id = id

LEMMA SeqByIndex ==
    ASSUME NEW S, NEW T, NEW orgList \in Seq(S), NEW f,
           f = [i \in DOMAIN orgList |-> f[i]], \A i \in DOMAIN orgList : f[i] \in T
    PROVE  f \in Seq(T)
<1>1. DOMAIN orgList = 1..Len(orgList) /\ Len(orgList) \in Nat
  BY LenProperties
<1>2. f \in [1..Len(orgList) -> T]
  BY <1>1
<1> QED  BY <1>1, <1>2, SeqDef

LEMMA CurrentOfList ==
    ASSUME NEW orgList \in Seq(Org), NEW id
    PROVE  /\ CurrentOf(orgList, id) \in Org \cup {None}
           /\ orgList = <<>> => CurrentOf(orgList, id) = None
           /\ Listed(orgList, id) => CurrentOf(orgList, id) \in Org /\ CurrentOf(orgList, id).id = id
           /\ Listed(orgList, id) => \E i \in DOMAIN orgList :
                                    orgList[i].id = id /\ CurrentOf(orgList, id) = orgList[i]
<1>0. \A i \in DOMAIN orgList : orgList[i] \in Org
  BY LenProperties, ElementOfSeq
<1>1. CASE Listed(orgList, id)
  <2> DEFINE k == CHOOSE i \in DOMAIN orgList : orgList[i].id = id
  <2>1. k \in DOMAIN orgList /\ orgList[k].id = id
    BY <1>1 DEF Listed
  <2>2. CurrentOf(orgList, id) = orgList[k]
    BY <1>1 DEF Listed, CurrentOf
  <2>3. orgList # <<>>
    BY <2>1
  <2> QED  BY <1>0, <2>1, <2>2, <2>3
<1>2. CASE ~Listed(orgList, id) /\ orgList # <<>>
  <2>1. CurrentOf(orgList, id) = orgList[1]
    BY <1>2 DEF Listed, CurrentOf
  <2>2. 1 \in DOMAIN orgList
    BY <1>2, LenProperties, EmptySeq
  <2> QED  BY <1>0, <1>2, <2>1, <2>2
<1>3. CASE orgList = <<>>
  <2>1. CurrentOf(orgList, id) = None
    BY <1>3 DEF CurrentOf
  <2>2. ~Listed(orgList, id)
    BY <1>3 DEF Listed
  <2> QED  BY <1>3, <2>1, <2>2
<1> QED  BY <1>1, <1>2, <1>3

LEMMA AppendedOrg ==
    ASSUME NEW orgList \in Seq(Org), NEW org \in Org
    PROVE  /\ Append(orgList, org) \in Seq(Org)
           /\ Listed(Append(orgList, org), org.id)
           /\ ~Listed(orgList, org.id) => CurrentOf(Append(orgList, org), org.id) = org
<1> DEFINE new == Append(orgList, org)
<1>1. /\ new \in Seq(Org) /\ DOMAIN new = 1..(Len(orgList) + 1) /\ Len(orgList) \in Nat
      /\ DOMAIN orgList = 1..Len(orgList)
      /\ \A i \in 1..Len(orgList) : new[i] = orgList[i]
      /\ new[Len(orgList) + 1] = org
  BY AppendProperties, LenProperties
<1> HIDE DEF new
<1>2. Listed(new, org.id)
  BY <1>1 DEF Listed
<1>3. ASSUME ~Listed(orgList, org.id) PROVE CurrentOf(new, org.id) = org
  <2>1. PICK i \in DOMAIN new : new[i].id = org.id /\ CurrentOf(new, org.id) = new[i]
    BY <1>1, <1>2, CurrentOfList
  <2>2. i = Len(orgList) + 1
    BY <1>1, <1>3, <2>1 DEF Listed
  <2> QED  BY <1>1, <2>1, <2>2
<1> QED  BY <1>1, <1>2, <1>3 DEF new

LEMMA MergedOrg ==
    ASSUME NEW orgList \in Seq(Org), NEW org \in Org
    PROVE  MergeOrg(orgList, org) \in Seq(Org) /\ Listed(MergeOrg(orgList, org), org.id)
<1>0. \A i \in DOMAIN orgList : orgList[i] \in Org
  BY LenProperties, ElementOfSeq
<1>1. CASE Listed(orgList, org.id)
  <2> DEFINE new == [i \in DOMAIN orgList |-> IF orgList[i].id = org.id THEN org ELSE orgList[i]]
  <2>1. MergeOrg(orgList, org) = new
    BY <1>1 DEF MergeOrg, Listed
  <2>2. new \in Seq(Org)
    BY <1>0, SeqByIndex
  <2>3. Listed(new, org.id)
    BY <1>1 DEF Listed
  <2> QED  BY <2>1, <2>2, <2>3
<1>2. CASE ~Listed(orgList, org.id)
  BY <1>2, AppendedOrg DEF MergeOrg, Listed
<1> QED  BY <1>1, <1>2

\* setOrgDetails changes no id, and stores what it is given.
LEMMA DetailsOfOrg ==
    ASSUME orgs \in Seq(Org), NEW org, org.id \in Orgs => org \in Org
    PROVE  /\ SetOrgDetails(org) \in Seq(Org)
           /\ DOMAIN SetOrgDetails(org) = DOMAIN orgs
           /\ \A i \in DOMAIN orgs : SetOrgDetails(org)[i].id = orgs[i].id
           /\ Listed(SetOrgDetails(org), org.id)
                => CurrentOf(SetOrgDetails(org), org.id) = org
<1> DEFINE new == SetOrgDetails(org)
<1>0. \A i \in DOMAIN orgs : orgs[i] \in Org
  BY LenProperties, ElementOfSeq
<1>1. new = [i \in DOMAIN orgs |-> IF orgs[i].id = org.id THEN org ELSE orgs[i]]
  BY DEF SetOrgDetails
<1> HIDE DEF new
<1>2. \A i \in DOMAIN orgs : new[i] \in Org
  BY <1>0, <1>1 DEF Org
<1>3. new \in Seq(Org)
  BY <1>1, <1>2, SeqByIndex
<1>4. Listed(new, org.id) => CurrentOf(new, org.id) = org
  BY <1>1, <1>3, CurrentOfList
<1> QED  BY <1>1, <1>3, <1>4 DEF new

-----------------------------------------------------------------------------
(***************************************************************************)
(* The tab's data.                                                         *)
(***************************************************************************)
CallTyped(q) ==
    /\ q = [call |-> q.call, header |-> q.header, user |-> q.user,
            values |-> [id |-> q.values.id, currency |-> q.values.currency],
            applied |-> q.applied]
    /\ q.user \in Users
    /\ q.call \in {"update", "create"} => q.values.currency \in Currencies
    /\ q.call = "create" /\ q.applied => q.values.id \in Orgs

\* A call asks for the organization of its header, unless it was sent again.
CallIsOwn(q) ==
    /\ q.call \in {"query", "update"} => q.values.id = q.header \/ moved
    /\ q.call = "query" => q.user = user \/ followed

Calls == \A q \in inFlight : CallTyped(q) /\ CallIsOwn(q)

\* The cache is of the signed-in user, and empty without one.
Cache ==
    /\ \A o \in Orgs : cached[o] # None =>
         (cached[o].org = o \/ moved) /\ (cached[o].user = user \/ followed)
    /\ user = None => \/ followed
                      \/ /\ \A q \in inFlight : q.call # "query"
                         /\ \A o \in Orgs : cached[o] = None

\* The form of the organization has the current one.
OrgInForm ==
    orgDraft # None \/ CurrentOrg # None => orgDraft \in Org /\ orgDraft.id = CurrentOrg.id

DataInv ==
    /\ DataTypeOK /\ (hydrating => user # None)
    /\ Calls /\ Cache
    /\ CurrentOrgIsListed /\ OrgInForm /\ CurrencyOfTheOrg

LEMMA DataInitInv == DataInit => DataInv
<1> SUFFICES ASSUME DataInit PROVE DataInv
  OBVIOUS
<1> USE ClientDataAssumption DEF DataInit
<1>1. CurrentOrg = None
  BY DEF CurrentOrg, CurrentOf
<1>2. orgs \in Seq(Org)
  BY EmptySeq
<1>3. DataTypeOK
  BY <1>2 DEF DataTypeOK
<1>4. Calls /\ Cache
  BY DEF Calls, Cache
<1>5. CurrentOrgIsListed /\ OrgInForm /\ CurrencyOfTheOrg
  BY <1>1 DEF CurrentOrgIsListed, OrgInForm, CurrencyOfTheOrg
<1> QED  BY <1>3, <1>4, <1>5 DEF DataInv

\* What follows a change of the stored session.
LEMMA EffectsKeep ==
    ASSUME DataInv, orgs' \in Seq(Org), NEW assigned \in Currencies,
           Effects(orgs', current', assigned),
           CurrentOrg # None /\ CurrentOrg' # None
           /\ CurrentOrg.currency = CurrentOrg'.currency
             => assigned = CurrentOrg'.currency \/ late'
    PROVE  /\ active' \in Currencies /\ orgDraft' \in Org \cup {None}
           /\ OrgInForm' /\ CurrencyOfTheOrg'
<1>1. CurrentOrg' = CurrentOf(orgs', current')
  BY DEF CurrentOrg
<1>2. CurrentOrg' \in Org \cup {None}
  BY <1>1, CurrentOfList
<1>3. /\ active' = IF CurrentOrg' = None THEN assigned
                   ELSE IF CurrentOrg # None /\ CurrentOrg.currency = CurrentOrg'.currency
                   THEN assigned ELSE CurrentOrg'.currency
      /\ orgDraft' = IF CurrentOrg = CurrentOrg' THEN orgDraft ELSE CurrentOrg'
  BY <1>1 DEF Effects, Refill
<1>4. orgDraft \in Org \cup {None} /\ OrgInForm
  BY DEF DataInv, DataTypeOK
<1>5. active' \in Currencies /\ orgDraft' \in Org \cup {None}
  BY <1>2, <1>3, <1>4 DEF Org
<1>6. OrgInForm'
  BY <1>2, <1>3, <1>4 DEF OrgInForm
<1>7. CurrencyOfTheOrg'
  BY <1>3 DEF CurrencyOfTheOrg
<1> QED  BY <1>5, <1>6, <1>7

\* The organizations of a user, as /me and the storage of another tab have them.
MemberOrgs(u) == [i \in DOMAIN members[u] |-> Details(members[u][i])]

LEMMA OrgsOfMember ==
    ASSUME DataInv, NEW u \in Users
    PROVE  /\ MemberOrgs(u) \in Seq(Org)
           /\ \A o \in ToSet(members[u]) : o \in Orgs /\ Listed(MemberOrgs(u), o)
           /\ members[u] = <<>> => MemberOrgs(u) = <<>>
           /\ members[u] # <<>> => /\ members[u][1] \in Orgs
                                  /\ Details(members[u][1]) \in Org
<1>1. members[u] \in Seq(Orgs) /\ \A o \in Orgs : Details(o) \in Org /\ Details(o).id = o
  BY DEF DataInv, DataTypeOK, Details, Org
<1>2. \A i \in DOMAIN members[u] : members[u][i] \in Orgs
  BY <1>1, LenProperties, ElementOfSeq
<1>3. MemberOrgs(u) \in Seq(Org)
  BY <1>1, <1>2, SeqByIndex DEF MemberOrgs
<1>4. \A o \in ToSet(members[u]) : o \in Orgs /\ Listed(MemberOrgs(u), o)
  BY <1>1, <1>2 DEF ToSet, Listed, MemberOrgs
<1>5. ASSUME members[u] = <<>> PROVE MemberOrgs(u) = <<>>
  <2>1. DOMAIN MemberOrgs(u) = {}
    BY <1>5 DEF MemberOrgs
  <2> QED  BY <1>3, <2>1, LenProperties, EmptySeq
<1>6. ASSUME members[u] # <<>> PROVE 1 \in DOMAIN members[u]
  BY <1>1, <1>6, LenProperties, EmptySeq
<1> QED  BY <1>1, <1>2, <1>3, <1>4, <1>5, <1>6

\* A step that leaves requests and the cache alone keeps whose they are.
LEMMA SameRequests ==
    ASSUME DataInv, UNCHANGED <<inFlight, cached, moved>>, followed => followed',
           user' # user => user = None \/ followed'
    PROVE  Calls' /\ Cache'
<1>1. Calls'
  BY DEF DataInv, Calls, CallTyped, CallIsOwn, Cache
<1>2. Cache'
  BY DEF DataInv, Cache
<1> QED  BY <1>1, <1>2

LEMMA SignInKeepsData == ASSUME DataInv, NEW u \in Users, SignIn(u) PROVE DataInv'
<1> USE ClientDataAssumption
<1>1. /\ user = None /\ user' = u /\ hydrating' = TRUE /\ Effects(orgs', current', active)
      /\ UNCHANGED <<members, currency, cached, inFlight, moved, followed, late>>
  BY DEF SignIn, History
<1>2. orgs \in Seq(Org) /\ active \in Currencies /\ current \in Orgs \cup {None}
      /\ CurrentOrgIsListed /\ CurrencyOfTheOrg
  BY DEF DataInv, DataTypeOK
<1>3. orgs' \in Seq(Org) /\ current' \in Orgs \cup {None} /\ CurrentOrgIsListed'
  <2>1. CASE members[u] # <<>>
    <3>1. orgs' = MergeOrg(orgs, Details(members[u][1])) /\ current' = members[u][1]
      BY <2>1 DEF SignIn
    <3>2. Listed(orgs', current') /\ orgs' \in Seq(Org)
      BY <1>2, <2>1, <3>1, OrgsOfMember, MergedOrg DEF Details
    <3> QED  BY <2>1, <3>1, <3>2, OrgsOfMember DEF CurrentOrgIsListed, ListedIds, Listed
  <2>2. CASE members[u] = <<>>
    BY <1>2, <2>2 DEF SignIn, CurrentOrgIsListed, ListedIds
  <2> QED  BY <2>1, <2>2
<1>4. /\ active' \in Currencies /\ orgDraft' \in Org \cup {None}
      /\ OrgInForm' /\ CurrencyOfTheOrg'
  BY <1>1, <1>2, <1>3, EffectsKeep DEF CurrencyOfTheOrg
<1>5. DataTypeOK'
  BY <1>1, <1>3, <1>4 DEF DataInv, DataTypeOK
<1>6. Calls' /\ Cache'
  BY <1>1, SameRequests
<1> QED  BY <1>1, <1>3, <1>4, <1>5, <1>6 DEF DataInv

LEMMA ProviderKeepsData == ASSUME DataInv, AuthProvider PROVE DataInv'
<1>1. /\ hydrating /\ hydrating' = FALSE /\ user \in Users
      /\ UNCHANGED <<members, currency, user, cached, inFlight, moved, followed, late>>
  BY DEF AuthProvider, DataInv, DataTypeOK, History
<1>2. orgs \in Seq(Org) /\ active \in Currencies /\ current \in Orgs \cup {None}
      /\ CurrentOrgIsListed /\ OrgInForm /\ CurrencyOfTheOrg /\ orgDraft \in Org \cup {None}
  BY DEF DataInv, DataTypeOK
<1>3. Calls' /\ Cache'
  BY <1>1, SameRequests
<1>4. CASE UNCHANGED <<orgs, current, active, orgDraft>>
  <2>1. CurrentOrg' = CurrentOrg /\ ListedIds' = ListedIds
    BY <1>4 DEF CurrentOrg, ListedIds
  <2>2. DataTypeOK'
    BY <1>1, <1>4 DEF DataInv, DataTypeOK
  <2>3. CurrentOrgIsListed' /\ OrgInForm' /\ CurrencyOfTheOrg'
    BY <1>1, <1>2, <1>4, <2>1 DEF CurrentOrgIsListed, OrgInForm, CurrencyOfTheOrg
  <2> QED  BY <1>1, <1>3, <2>2, <2>3 DEF DataInv
<1>5. CASE ~UNCHANGED <<orgs, current, active, orgDraft>>
  <2> DEFINE orgList == MemberOrgs(user)
             assigned == IF CurrentOf(orgList, KeepOrFirst(orgList)) = None THEN active
                         ELSE CurrentOf(orgList, KeepOrFirst(orgList)).currency
  <2>1. orgs' = orgList /\ current' = KeepOrFirst(orgList) /\ Effects(orgs', current', assigned)
    BY <1>5 DEF AuthProvider, MemberOrgs
  <2>2. orgList \in Seq(Org)
    BY <1>1, OrgsOfMember
  <2> HIDE DEF orgList
  <2>3. \A i \in DOMAIN orgList : orgList[i] \in Org
    BY <2>2, LenProperties, ElementOfSeq
  <2>4. orgList # <<>> => 1 \in DOMAIN orgList
    BY <2>2, LenProperties, EmptySeq
  <2>5. KeepOrFirst(orgList) \in Orgs \cup {None}
        /\ (orgList # <<>> => Listed(orgList, KeepOrFirst(orgList)))
    BY <1>2, <2>3, <2>4 DEF KeepOrFirst, Listed, Org
  <2>6. assigned \in Currencies
    BY <1>2, <2>2, CurrentOfList DEF Org
  <2>7. CurrentOrg' = CurrentOf(orgList, KeepOrFirst(orgList))
    BY <2>1 DEF CurrentOrg
  <2>8. CurrentOrg' # None => assigned = CurrentOrg'.currency
    BY <2>7
  <2> HIDE DEF assigned
  <2>9. /\ active' \in Currencies /\ orgDraft' \in Org \cup {None}
        /\ OrgInForm' /\ CurrencyOfTheOrg'
    BY <2>1, <2>2, <2>6, <2>8, EffectsKeep
  <2>10. CurrentOrgIsListed'
    BY <2>1, <2>5 DEF CurrentOrgIsListed, ListedIds, Listed
  <2>11. DataTypeOK'
    BY <1>1, <2>1, <2>2, <2>5, <2>9 DEF DataInv, DataTypeOK
  <2> QED  BY <1>1, <1>3, <2>9, <2>10, <2>11 DEF DataInv
<1> QED  BY <1>4, <1>5

LEMMA SwitchKeepsData == ASSUME DataInv, NEW o \in Orgs, OrgSwitcher(o) PROVE DataInv'
<1>1. /\ current' = o /\ Effects(orgs, o, CurrentOf(orgs, o).currency) /\ Listed(orgs, o)
      /\ UNCHANGED <<members, currency, user, orgs, hydrating, cached, inFlight, moved,
                     followed, late>>
  BY DEF OrgSwitcher, ListedIds, Listed, History
<1>2. orgs \in Seq(Org)
  BY DEF DataInv, DataTypeOK
<1>3. CurrentOf(orgs, o) \in Org /\ CurrentOrg' = CurrentOf(orgs, o)
  BY <1>1, <1>2, CurrentOfList DEF CurrentOrg
<1>4. CurrentOf(orgs, o).currency \in Currencies /\ Effects(orgs', current', CurrentOf(orgs, o).currency)
  BY <1>1, <1>3 DEF Org
<1>5. /\ active' \in Currencies /\ orgDraft' \in Org \cup {None}
      /\ OrgInForm' /\ CurrencyOfTheOrg'
  BY <1>1, <1>2, <1>3, <1>4, EffectsKeep
<1>6. CurrentOrgIsListed'
  BY <1>1 DEF CurrentOrgIsListed, ListedIds, Listed
<1>7. DataTypeOK'
  BY <1>1, <1>5 DEF DataInv, DataTypeOK
<1>8. Calls' /\ Cache'
  BY <1>1, SameRequests
<1> QED  BY <1>1, <1>5, <1>6, <1>7, <1>8 DEF DataInv

LEMMA OtherTabKeepsData == ASSUME DataInv, OtherTab PROVE DataInv'
<1> USE ClientDataAssumption
<1>1. PICK u \in Users \cup {None} :
         /\ user' = u
         /\ IF u = None THEN orgs' = <<>> /\ current' = None
            ELSE /\ orgs' = MemberOrgs(u)
                 /\ current' \in IF members[u] = <<>> THEN {None} ELSE ToSet(members[u])
         /\ hydrating' = (u # None /\ (hydrating \/ user = None))
  BY DEF OtherTab, MemberOrgs
<1>2. /\ Effects(orgs', current', active) /\ followed' = (followed \/ user' # user)
      /\ UNCHANGED <<members, currency, cached, inFlight, moved, late>>
  BY DEF OtherTab
<1>3. active \in Currencies /\ CurrencyOfTheOrg
  BY DEF DataInv, DataTypeOK
<1>4. orgs' \in Seq(Org) /\ current' \in Orgs \cup {None} /\ CurrentOrgIsListed'
  <2>1. CASE u = None
    BY <1>1, <2>1, EmptySeq DEF CurrentOrgIsListed
  <2>2. CASE u \in Users
    <3>1. orgs' = MemberOrgs(u) /\ orgs' \in Seq(Org)
          /\ current' \in IF members[u] = <<>> THEN {None} ELSE ToSet(members[u])
      BY <1>1, <2>2, OrgsOfMember
    <3>2. CASE members[u] = <<>>
      BY <2>2, <3>1, <3>2, OrgsOfMember DEF CurrentOrgIsListed
    <3>3. CASE members[u] # <<>>
      <4>1. current' \in Orgs /\ Listed(MemberOrgs(u), current')
        BY <2>2, <3>1, <3>3, OrgsOfMember
      <4> QED  BY <3>1, <4>1 DEF CurrentOrgIsListed, ListedIds, Listed
    <3> QED  BY <3>2, <3>3
  <2> QED  BY <2>1, <2>2
<1>5. /\ active' \in Currencies /\ orgDraft' \in Org \cup {None}
      /\ OrgInForm' /\ CurrencyOfTheOrg'
  BY <1>2, <1>3, <1>4, EffectsKeep DEF CurrencyOfTheOrg
<1>6. hydrating' \in BOOLEAN /\ followed' \in BOOLEAN
  BY <1>1, <1>2
<1>7. DataTypeOK'
  BY <1>1, <1>2, <1>4, <1>5, <1>6 DEF DataInv, DataTypeOK
<1>8. Calls' /\ Cache'
  BY <1>2, SameRequests
<1> QED  BY <1>1, <1>4, <1>5, <1>7, <1>8 DEF DataInv

LEMMA NewDocumentKeepsData == ASSUME DataInv, Load \/ Logout PROVE DataInv'
<1> USE ClientDataAssumption
<1>1. /\ inFlight' \subseteq inFlight /\ \A q \in inFlight' : q.call # "query"
      /\ cached' = [o \in Orgs |-> None]
      /\ UNCHANGED <<members, currency, moved, followed, late>>
  BY DEF Load, Logout, ClearCache, History
<1>2. Calls' /\ Cache'
  BY <1>1 DEF DataInv, Calls, CallTyped, CallIsOwn, Cache
<1>3. CASE Load
  <2>1. /\ UNCHANGED <<user, orgs, current>> /\ hydrating' = (user # None)
        /\ active' \in IF CurrentOrg = None THEN Currencies ELSE {CurrentOrg.currency}
        /\ orgDraft' = CurrentOrg
    BY <1>3 DEF Load, Session
  <2>2. CurrentOrg' = CurrentOrg /\ ListedIds' = ListedIds
    BY <2>1 DEF CurrentOrg, ListedIds
  <2>3. CurrentOrg \in Org \cup {None}
    BY CurrentOfList DEF CurrentOrg, DataInv, DataTypeOK
  <2>4. active' \in Currencies /\ hydrating' \in BOOLEAN
    BY <2>1, <2>3 DEF Org
  <2>5. DataTypeOK'
    BY <1>1, <2>1, <2>3, <2>4 DEF DataInv, DataTypeOK
  <2>6. CurrentOrgIsListed' /\ OrgInForm' /\ CurrencyOfTheOrg'
    BY <2>1, <2>2, <2>3 DEF DataInv, CurrentOrgIsListed, OrgInForm, CurrencyOfTheOrg
  <2> QED  BY <1>2, <2>1, <2>5, <2>6 DEF DataInv
<1>4. CASE Logout
  <2>1. user' = None /\ orgs' = <<>> /\ current' = None /\ hydrating' = FALSE
        /\ orgDraft' = None /\ active' = active
    BY <1>4 DEF Logout
  <2>2. CurrentOrg' = None
    BY <2>1 DEF CurrentOrg, CurrentOf
  <2>3. DataTypeOK'
    BY <1>1, <2>1, EmptySeq DEF DataInv, DataTypeOK
  <2>4. CurrentOrgIsListed' /\ OrgInForm' /\ CurrencyOfTheOrg'
    BY <2>1, <2>2 DEF CurrentOrgIsListed, OrgInForm, CurrencyOfTheOrg
  <2> QED  BY <1>2, <2>1, <2>3, <2>4 DEF DataInv
<1> QED  BY <1>3, <1>4

-----------------------------------------------------------------------------
\* A step that leaves the session, the form and the currency alone.
LEMMA SameSession ==
    ASSUME DataInv, UNCHANGED <<user, orgs, current, hydrating, active, orgDraft, late>>,
           members' \in [Users -> Seq(Orgs)], currency' \in [Orgs -> Currencies],
           cached' \in [Orgs -> {None} \cup [user : Users, org : Orgs]],
           moved' \in BOOLEAN, followed' \in BOOLEAN, Calls', Cache'
    PROVE  DataInv'
<1>1. DataTypeOK'
  BY DEF DataInv, DataTypeOK
<1>2. CurrentOrgIsListed' /\ OrgInForm' /\ CurrencyOfTheOrg'
  BY DEF DataInv, CurrentOrgIsListed, ListedIds, OrgInForm, CurrencyOfTheOrg, CurrentOrg
<1> QED  BY <1>1, <1>2 DEF DataInv

\* A request is sent for the signed-in user and the current organization.
LEMMA SendKeeps ==
    ASSUME DataInv, NEW call, NEW values, SendRequest(call, values),
           values = [id |-> values.id, currency |-> values.currency],
           call \in {"update", "create"} => values.currency \in Currencies,
           call \in {"query", "update"} => values.id = current
    PROVE  DataInv'
<1> DEFINE new == [call |-> call, header |-> current, user |-> user, values |-> values,
                  applied |-> FALSE]
<1>1. /\ user # None /\ inFlight' = inFlight \cup {new}
      /\ UNCHANGED <<members, currency, user, orgs, current, hydrating, active, cached, orgDraft,
                     moved, followed, late>>
  BY DEF SendRequest, Session, History
<1>2. user \in Users
  BY <1>1 DEF DataInv, DataTypeOK
<1>3. new.values = [id |-> new.values.id, currency |-> new.values.currency]
  OBVIOUS
<1>4. CallTyped(new)
  BY <1>2, <1>3 DEF CallTyped
<1>5. CallIsOwn(new)
  BY <1>1 DEF CallIsOwn
<1> HIDE DEF new
<1>6. Calls'
  <2>1. \A q \in inFlight' : CallTyped(q) /\ CallIsOwn(q)
    BY <1>1, <1>4, <1>5 DEF DataInv, Calls
  <2> QED  BY <1>1, <2>1 DEF Calls, CallTyped, CallIsOwn
<1>7. Cache'
  BY <1>1 DEF DataInv, Cache
<1> QED  BY <1>1, <1>6, <1>7, SameSession DEF DataInv, DataTypeOK

LEMMA CardsKeepData ==
    ASSUME DataInv,
           \/ Fetch \/ OrganizationCard \/ ImportCard
           \/ \E c \in Currencies : EditOrganization(c) \/ CreateOrgCard(c)
    PROVE  DataInv'
<1>1. CASE Fetch
  <2> DEFINE values == [id |-> QueryKey(current), currency |-> None]
  <2>1. SendRequest("query", values)
    BY <1>1 DEF Fetch
  <2>2. values.id = current
    BY DEF QueryKey
  <2> QED  BY <2>1, <2>2, SendKeeps
<1>2. CASE OrganizationCard
  <2>1. CurrentOrg # None /\ SendRequest("update", orgDraft)
    BY <1>2 DEF OrganizationCard
  <2>2. orgDraft \in Org /\ orgDraft.id = CurrentOrg.id
    BY <2>1 DEF DataInv, OrgInForm
  <2>3. orgs \in Seq(Org) /\ orgs # <<>>
    BY <2>1, CurrentOfList DEF DataInv, DataTypeOK, CurrentOrg
  <2>4. Listed(orgs, current)
    BY <2>3 DEF DataInv, CurrentOrgIsListed, ListedIds, Listed
  <2>5. orgDraft.id = current
    BY <2>2, <2>3, <2>4, CurrentOfList DEF CurrentOrg
  <2> QED  BY <2>1, <2>2, <2>5, SendKeeps DEF Org
<1>3. CASE ImportCard
  <2>1. SendRequest("import", [id |-> None, currency |-> None])
    BY <1>3 DEF ImportCard
  <2> QED  BY <2>1, SendKeeps
<1>4. ASSUME NEW c \in Currencies, CreateOrgCard(c) PROVE DataInv'
  <2>1. SendRequest("create", [id |-> None, currency |-> c])
    BY <1>4 DEF CreateOrgCard
  <2> QED  BY <2>1, SendKeeps
<1>5. ASSUME NEW c \in Currencies, EditOrganization(c) PROVE DataInv'
  <2>1. /\ orgDraft # None /\ orgDraft' = [orgDraft EXCEPT !.currency = c]
        /\ UNCHANGED <<members, currency, user, orgs, current, hydrating, active, cached,
                       inFlight, moved, followed, late>>
    BY <1>5 DEF EditOrganization, Session, History
  <2>2. orgDraft' \in Org /\ orgDraft'.id = orgDraft.id
    BY <2>1 DEF DataInv, DataTypeOK, OrgInForm, Org
  <2>3. DataTypeOK'
    BY <2>1, <2>2 DEF DataInv, DataTypeOK
  <2>4. CurrentOrgIsListed' /\ OrgInForm' /\ CurrencyOfTheOrg'
    BY <2>1, <2>2 DEF DataInv, CurrentOrgIsListed, ListedIds, OrgInForm, CurrencyOfTheOrg,
                      CurrentOrg
  <2>5. Calls' /\ Cache'
    BY <2>1, SameRequests
  <2> QED  BY <2>1, <2>3, <2>4, <2>5 DEF DataInv
<1> QED  BY <1>1, <1>2, <1>3, <1>4, <1>5

-----------------------------------------------------------------------------
\* The requests that remain when one of them is over.
LEMMA RequestOver ==
    ASSUME DataInv, NEW q, inFlight' = inFlight \ {q}, UNCHANGED <<user, cached, moved, followed>>
    PROVE  Calls' /\ Cache'
  BY DEF DataInv, Calls, CallTyped, CallIsOwn, Cache

\* A request sent again, and one the server has applied, one field at a time.
LEMMA HeaderSet ==
    ASSUME NEW q, NEW c, NEW h0, NEW u, NEW v, NEW a, NEW h,
           q = [call |-> c, header |-> h0, user |-> u, values |-> v, applied |-> a]
    PROVE  [q EXCEPT !.header = h] =
           [call |-> c, header |-> h, user |-> u, values |-> v, applied |-> a]
  OBVIOUS

LEMMA UserSet ==
    ASSUME NEW q, NEW c, NEW h, NEW u0, NEW v, NEW a, NEW u,
           q = [call |-> c, header |-> h, user |-> u0, values |-> v, applied |-> a]
    PROVE  [q EXCEPT !.user = u] =
           [call |-> c, header |-> h, user |-> u, values |-> v, applied |-> a]
  OBVIOUS

LEMMA AppliedSet ==
    ASSUME NEW q, NEW c, NEW h, NEW u, NEW v, NEW a0, NEW a,
           q = [call |-> c, header |-> h, user |-> u, values |-> v, applied |-> a0]
    PROVE  [q EXCEPT !.applied = a] =
           [call |-> c, header |-> h, user |-> u, values |-> v, applied |-> a]
  OBVIOUS

LEMMA IdSet ==
    ASSUME NEW q, NEW c, NEW h, NEW u, NEW i0, NEW k, NEW a, NEW i,
           q = [call |-> c, header |-> h, user |-> u,
                values |-> [id |-> i0, currency |-> k], applied |-> a]
    PROVE  [q EXCEPT !.values.id = i] =
           [call |-> c, header |-> h, user |-> u,
            values |-> [id |-> i, currency |-> k], applied |-> a]
  OBVIOUS

LEMMA TwoFields ==
    ASSUME NEW q, NEW h, NEW u, NEW i, NEW a
    PROVE  /\ [q EXCEPT !.header = h, !.user = u] = [[q EXCEPT !.header = h] EXCEPT !.user = u]
           /\ [q EXCEPT !.applied = a, !.values.id = i]
                = [[q EXCEPT !.applied = a] EXCEPT !.values.id = i]
  OBVIOUS

LEMMA ResentCall ==
    ASSUME NEW q, CallTyped(q), NEW h, NEW u
    PROVE  [q EXCEPT !.header = h, !.user = u] =
           [call |-> q.call, header |-> h, user |-> u,
            values |-> [id |-> q.values.id, currency |-> q.values.currency],
            applied |-> q.applied]
<1> DEFINE v == [id |-> q.values.id, currency |-> q.values.currency]
           once == [q EXCEPT !.header = h]
<1>1. q = [call |-> q.call, header |-> q.header, user |-> q.user, values |-> v,
           applied |-> q.applied]
  BY DEF CallTyped
<1> HIDE DEF v
<1>2. once = [call |-> q.call, header |-> h, user |-> q.user, values |-> v,
              applied |-> q.applied]
  BY <1>1, HeaderSet
<1>3. [q EXCEPT !.header = h, !.user = u] = [once EXCEPT !.user = u]
  BY TwoFields
<1> HIDE DEF once
<1>4. [once EXCEPT !.user = u] = [call |-> q.call, header |-> h, user |-> u, values |-> v,
                                  applied |-> q.applied]
  BY <1>2, UserSet
<1> QED  BY <1>3, <1>4 DEF v

LEMMA AppliedCall ==
    ASSUME NEW q, CallTyped(q), NEW o, NEW t
    PROVE  /\ [q EXCEPT !.applied = t] =
              [call |-> q.call, header |-> q.header, user |-> q.user,
               values |-> [id |-> q.values.id, currency |-> q.values.currency],
               applied |-> t]
           /\ [q EXCEPT !.applied = t, !.values.id = o] =
              [call |-> q.call, header |-> q.header, user |-> q.user,
               values |-> [id |-> o, currency |-> q.values.currency], applied |-> t]
<1> DEFINE v == [id |-> q.values.id, currency |-> q.values.currency]
           once == [q EXCEPT !.applied = t]
<1>1. q = [call |-> q.call, header |-> q.header, user |-> q.user, values |-> v,
           applied |-> q.applied]
  BY DEF CallTyped
<1> HIDE DEF v
<1>2. once = [call |-> q.call, header |-> q.header, user |-> q.user, values |-> v,
              applied |-> t]
  BY <1>1, AppliedSet
<1>3. [q EXCEPT !.applied = t, !.values.id = o] = [once EXCEPT !.values.id = o]
  BY TwoFields
<1> HIDE DEF once
<1>4. once = [call |-> q.call, header |-> q.header, user |-> q.user,
              values |-> [id |-> q.values.id, currency |-> q.values.currency],
              applied |-> t]
  BY <1>2 DEF v
<1>5. [once EXCEPT !.values.id = o] =
      [call |-> q.call, header |-> q.header, user |-> q.user,
       values |-> [id |-> o, currency |-> q.values.currency], applied |-> t]
  BY <1>4
<1> QED  BY <1>3, <1>4, <1>5 DEF once

LEMMA RequestsKeepData ==
    ASSUME DataInv, NEW q \in inFlight,
           Resend(q) \/ ServerApplies(q) \/ Answer(q) \/ RequestFails(q) \/ Imported(q)
    PROVE  DataInv'
<1>0. CallTyped(q) /\ CallIsOwn(q)
  BY DEF DataInv, Calls
<1>1. CASE Resend(q)
  <2> DEFINE new == [q EXCEPT !.header = current, !.user = user]
  <2>1. /\ user # None /\ inFlight' = (inFlight \ {q}) \cup {new} /\ moved' = TRUE
        /\ UNCHANGED <<members, currency, user, orgs, current, hydrating, active, cached, orgDraft,
                       followed, late>>
    BY <1>1 DEF Resend, Session
  <2>2. user \in Users
    BY <2>1 DEF DataInv, DataTypeOK
  <2>3. new = [call |-> q.call, header |-> current, user |-> user,
               values |-> [id |-> q.values.id, currency |-> q.values.currency],
               applied |-> q.applied]
    BY <1>0, ResentCall
  <2> HIDE DEF new
  <2>4. CallTyped(new) /\ new.user = user
    BY <1>0, <2>2, <2>3 DEF CallTyped
  <2>5. Calls'
    BY <2>1, <2>4 DEF DataInv, Calls, CallTyped, CallIsOwn
  <2>6. Cache'
    BY <2>1 DEF DataInv, Cache
  <2>7. moved' \in BOOLEAN
    BY <2>1
  <2> QED  BY <2>1, <2>5, <2>6, <2>7, SameSession DEF DataInv, DataTypeOK
<1>2. CASE ServerApplies(q)
  <2>0. UNCHANGED <<user, orgs, current, hydrating, active, cached, orgDraft, moved, followed, late>>
    BY <1>2 DEF ServerApplies, Session, History
  <2>1. CASE q.call = "update"
    <3> DEFINE new == [q EXCEPT !.applied = TRUE]
    <3>1. /\ currency' = [currency EXCEPT ![q.header] = q.values.currency]
          /\ inFlight' = (inFlight \ {q}) \cup {new} /\ UNCHANGED members
      BY <1>2, <2>1 DEF ServerApplies
    <3>2. new = [call |-> q.call, header |-> q.header, user |-> q.user,
                 values |-> [id |-> q.values.id, currency |-> q.values.currency],
                 applied |-> TRUE]
      BY <1>0, AppliedCall, Zenon
    <3> HIDE DEF new
    <3>3. CallTyped(new) /\ CallIsOwn(new)
      BY <1>0, <2>1, <3>2 DEF CallTyped, CallIsOwn
    <3>4. currency' \in [Orgs -> Currencies]
      BY <1>0, <2>1, <3>1 DEF CallTyped, DataInv, DataTypeOK
    <3>5. Calls' /\ Cache'
      <4>1. new.call # "query"
        BY <2>1, <3>2
      <4>2. Calls'
        BY <2>0, <3>1, <3>3 DEF DataInv, Calls, CallTyped, CallIsOwn
      <4>3. Cache'
        BY <2>0, <3>1, <4>1 DEF DataInv, Cache
      <4> QED  BY <4>2, <4>3
    <3> QED  BY <2>0, <3>1, <3>4, <3>5, SameSession DEF DataInv, DataTypeOK
  <2>2. CASE q.call # "update"
    <3> DEFINE o == CHOOSE o \in Orgs \ Known : TRUE
               new == [q EXCEPT !.applied = TRUE, !.values.id = o]
    <3>1. /\ q.call # "query" /\ ~(Orgs \subseteq Known)
          /\ members' = [members EXCEPT ![q.user] = Append(@, o)]
          /\ currency' = IF q.call = "create" THEN [currency EXCEPT ![o] = q.values.currency]
                         ELSE currency
          /\ inFlight' = (inFlight \ {q}) \cup {new}
      <4>1. Known \subseteq Orgs
        BY LenProperties, ElementOfSeq DEF Known, DataInv, DataTypeOK
      <4> QED  BY <1>2, <2>2, <4>1 DEF ServerApplies
    <3>2. o \in Orgs
      BY <3>1
    <3> HIDE DEF o
    <3>3. new = [call |-> q.call, header |-> q.header, user |-> q.user,
                 values |-> [id |-> o, currency |-> q.values.currency], applied |-> TRUE]
      BY <1>0, AppliedCall, Zenon
    <3> HIDE DEF new
    <3>4. CallTyped(new) /\ CallIsOwn(new)
      BY <1>0, <2>2, <3>1, <3>2, <3>3 DEF CallTyped, CallIsOwn
    <3>5. members' \in [Users -> Seq(Orgs)]
      <4>1. Append(members[q.user], o) \in Seq(Orgs)
        BY <1>0, <3>2, AppendProperties DEF CallTyped, DataInv, DataTypeOK
      <4> QED  BY <3>1, <4>1 DEF DataInv, DataTypeOK
    <3>6. currency' \in [Orgs -> Currencies]
      BY <1>0, <3>1 DEF CallTyped, DataInv, DataTypeOK
    <3>7. Calls' /\ Cache'
      <4>1. new.call # "query"
        BY <3>1, <3>3
      <4>2. Calls'
        BY <2>0, <3>1, <3>4 DEF DataInv, Calls, CallTyped, CallIsOwn
      <4>3. Cache'
        BY <2>0, <3>1, <4>1 DEF DataInv, Cache
      <4> QED  BY <4>2, <4>3
    <3> QED  BY <2>0, <3>5, <3>6, <3>7, SameSession DEF DataInv, DataTypeOK
  <2> QED  BY <2>1, <2>2
<1>3. CASE Answer(q)
  <2> DEFINE data == [user |-> q.user, org |-> q.header]
  <2>1. /\ q.call = "query" /\ q.header \in ToSet(members[q.user])
        /\ cached' = [cached EXCEPT ![q.values.id] = data] /\ inFlight' = inFlight \ {q}
        /\ UNCHANGED <<members, currency, user, orgs, current, hydrating, active, orgDraft, moved,
                       followed, late>>
    BY <1>3 DEF Answer, Session, History
  <2>2. data \in [user : Users, org : Orgs]
    BY <1>0, <2>1, OrgsOfMember DEF CallTyped
  <2>3. (data.org = q.values.id \/ moved) /\ (data.user = user \/ followed)
    BY <1>0, <2>1 DEF CallIsOwn
  <2>4. user = None => followed
    BY <2>1 DEF DataInv, Cache
  <2> HIDE DEF data
  <2>5. cached' \in [Orgs -> {None} \cup [user : Users, org : Orgs]]
    BY <2>1, <2>2 DEF DataInv, DataTypeOK
  <2>6. Calls'
    BY <2>1 DEF DataInv, Calls, CallTyped, CallIsOwn
  <2>7. Cache'
    BY <2>1, <2>3, <2>4 DEF DataInv, DataTypeOK, Cache
  <2> QED  BY <2>1, <2>5, <2>6, <2>7, SameSession DEF DataInv, DataTypeOK
<1>4. CASE RequestFails(q) \/ Imported(q)
  <2>1. /\ inFlight' = inFlight \ {q}
        /\ UNCHANGED <<members, currency, user, orgs, current, hydrating, active, cached, orgDraft,
                       moved, followed, late>>
    BY <1>4 DEF RequestFails, Imported, Session, History
  <2>2. Calls' /\ Cache'
    BY <2>1, RequestOver
  <2> QED  BY <2>1, <2>2, SameSession DEF DataInv, DataTypeOK
<1> QED  BY <1>1, <1>2, <1>3, <1>4

\* The stored session after the answer of an update and of a creation.
LEMMA AnswersKeepData ==
    ASSUME DataInv, NEW q \in inFlight, UpdateOrganization(q) \/ CreateOrganization(q)
    PROVE  DataInv'
<1>0. /\ CallTyped(q) /\ orgs \in Seq(Org) /\ CurrentOrgIsListed
      /\ late \in BOOLEAN /\ current \in Orgs \cup {None}
  BY DEF DataInv, DataTypeOK, Calls
<1>1. q.values.currency \in Currencies
  BY <1>0 DEF UpdateOrganization, CreateOrganization, CallTyped
<1>2. /\ inFlight' = inFlight \ {q} /\ Effects(orgs', current', q.values.currency)
      /\ late' \in BOOLEAN
      /\ UNCHANGED <<members, currency, user, hydrating, cached, moved, followed>>
  BY <1>0 DEF UpdateOrganization, CreateOrganization
<1>3. /\ orgs' \in Seq(Org) /\ current' \in Orgs \cup {None} /\ CurrentOrgIsListed'
      /\ CurrentOrg' # None => q.values.currency = CurrentOrg'.currency \/ late'
  <2>1. CASE UpdateOrganization(q)
    <3> DEFINE org == [id |-> q.header, currency |-> q.values.currency]
    <3>1. /\ orgs' = SetOrgDetails(org) /\ current' = current
          /\ late' = (late \/ q.header # current)
      BY <2>1 DEF UpdateOrganization
    <3>2. (org.id \in Orgs => org \in Org) /\ org.id = q.header
          /\ org.currency = q.values.currency
      BY <1>1 DEF Org
    <3> HIDE DEF org
    <3>3. /\ orgs' \in Seq(Org) /\ DOMAIN orgs' = DOMAIN orgs
          /\ \A i \in DOMAIN orgs : orgs'[i].id = orgs[i].id
          /\ Listed(orgs', org.id) => CurrentOf(orgs', org.id) = org
      BY <1>0, <3>1, <3>2, DetailsOfOrg
    <3>4. orgs' # <<>> => orgs # <<>>
      BY <1>0, <3>3, LenProperties, EmptySeq
    <3>5. orgs' # <<>> => Listed(orgs', current)
      BY <1>0, <3>3, <3>4 DEF CurrentOrgIsListed, ListedIds, Listed
    <3>6. CurrentOrgIsListed'
      BY <3>1, <3>5 DEF CurrentOrgIsListed, ListedIds, Listed
    <3>7. ASSUME CurrentOrg' # None, ~late' PROVE q.values.currency = CurrentOrg'.currency
      <4>1. CurrentOrg' = CurrentOf(orgs', org.id) /\ q.header = current
        BY <3>1, <3>2, <3>7 DEF CurrentOrg
      <4>2. orgs' # <<>>
        BY <3>3, <3>7, <4>1, CurrentOfList
      <4> QED  BY <3>2, <3>3, <3>5, <4>1, <4>2
    <3> QED  BY <1>0, <3>1, <3>3, <3>6, <3>7
  <2>2. CASE CreateOrganization(q)
    <3> DEFINE org == q.values
    <3>1. /\ orgs' = Append(orgs, org) /\ current' = org.id
          /\ late' = (late \/ Listed(orgs, org.id))
      BY <2>2 DEF CreateOrganization, ListedIds, Listed
    <3>2. org \in Org
      <4>1. q.values.id \in Orgs
        BY <1>0, <2>2 DEF CallTyped, CreateOrganization
      <4>2. q.values = [id |-> q.values.id, currency |-> q.values.currency]
        BY <1>0 DEF CallTyped
      <4> QED  BY <1>1, <4>1, <4>2 DEF Org
    <3> HIDE DEF org
    <3>3. /\ orgs' \in Seq(Org) /\ Listed(orgs', org.id)
          /\ ~Listed(orgs, org.id) => CurrentOf(orgs', org.id) = org
      BY <1>0, <3>1, <3>2, AppendedOrg
    <3>4. CurrentOrgIsListed'
      BY <3>1, <3>3 DEF CurrentOrgIsListed, ListedIds, Listed
    <3>5. CurrentOrg' = CurrentOf(orgs', org.id)
      BY <3>1 DEF CurrentOrg
    <3> QED  BY <3>1, <3>2, <3>3, <3>4, <3>5 DEF org, Org
  <2> QED  BY <2>1, <2>2
<1>4. /\ active' \in Currencies /\ orgDraft' \in Org \cup {None}
      /\ OrgInForm' /\ CurrencyOfTheOrg'
  BY <1>1, <1>2, <1>3, EffectsKeep
<1>5. DataTypeOK'
  BY <1>2, <1>3, <1>4 DEF DataInv, DataTypeOK
<1>6. Calls' /\ Cache'
  BY <1>2, RequestOver
<1> QED  BY <1>2, <1>3, <1>4, <1>5, <1>6 DEF DataInv

LEMMA DataStutters == ASSUME DataInv, UNCHANGED dataVars PROVE DataInv'
<1>1. UNCHANGED <<members, currency, user, orgs, current, hydrating, active, cached, orgDraft,
                  inFlight, moved, followed, late>>
  BY DEF dataVars, Session, History
<1>2. Calls' /\ Cache'
  BY <1>1, SameRequests
<1> QED  BY <1>1, <1>2, SameSession DEF DataInv, DataTypeOK

LEMMA DataInvariant == DataSpec => []DataInv
<1>1. DataInv /\ [DataNext]_dataVars => DataInv'
  <2> SUFFICES ASSUME DataInv, [DataNext]_dataVars PROVE DataInv'
    OBVIOUS
  <2>1. CASE UNCHANGED dataVars
    BY <2>1, DataStutters
  <2>2. ASSUME NEW u \in Users, SignIn(u) PROVE DataInv'
    BY <2>2, SignInKeepsData
  <2>3. CASE Load \/ Logout
    BY <2>3, NewDocumentKeepsData
  <2>4. CASE AuthProvider
    BY <2>4, ProviderKeepsData
  <2>5. CASE OtherTab
    BY <2>5, OtherTabKeepsData
  <2>6. ASSUME NEW o \in Orgs, OrgSwitcher(o) PROVE DataInv'
    BY <2>6, SwitchKeepsData
  <2>7. CASE \/ Fetch \/ OrganizationCard \/ ImportCard
             \/ \E c \in Currencies : EditOrganization(c) \/ CreateOrgCard(c)
    BY <2>7, CardsKeepData
  <2>8. ASSUME NEW q \in inFlight,
               Resend(q) \/ ServerApplies(q) \/ Answer(q) \/ RequestFails(q) \/ Imported(q)
        PROVE  DataInv'
    BY <2>8, RequestsKeepData
  <2>9. ASSUME NEW q \in inFlight, UpdateOrganization(q) \/ CreateOrganization(q)
        PROVE  DataInv'
    BY <2>9, AnswersKeepData
  <2> QED  BY <2>1, <2>2, <2>3, <2>4, <2>5, <2>6, <2>7, <2>8, <2>9 DEF DataNext
<1> QED  BY <1>1, DataInitInv, PTL DEF DataSpec

-----------------------------------------------------------------------------
(***************************************************************************)
(* The header of a request names one of the user's organizations           *)
(* (useCurrentOrg, setOrganizations, setOrg, the storage event).           *)
(***************************************************************************)
THEOREM OrgIsListed == DataSpec => []CurrentOrgIsListed
<1>1. DataInv => CurrentOrgIsListed
  BY DEF DataInv
<1> QED  BY <1>1, DataInvariant, PTL

(***************************************************************************)
(* What a page shows is the current organization's and the signed-in       *)
(* user's, and the details of one organization are never saved as          *)
(* another's, but for a request sent again after a switch and a user       *)
(* changed by another tab (the query keys and the two interceptors).       *)
(***************************************************************************)
THEOREM OwnDataIsShown == DataSpec => []DataIsOnesOwn
<1>1. ASSUME DataInv PROVE DataIsOnesOwn
  <2>1. DataShown # None => /\ DataShown.org = current \/ moved
                            /\ DataShown.user = user \/ followed
    BY <1>1 DEF DataInv, DataTypeOK, Cache, DataShown, QueryKey
  <2>2. orgDraft # None => orgDraft.id = CurrentOrg.id
    BY <1>1 DEF DataInv, OrgInForm
  <2>3. \A q \in inFlight : q.call = "update" => q.values.id = q.header \/ moved
    BY <1>1 DEF DataInv, Calls, CallIsOwn
  <2> QED  BY <2>1, <2>2, <2>3 DEF DataIsOnesOwn
<1> QED  BY <1>1, DataInvariant, PTL

(***************************************************************************)
(* Amounts are shown in the currency of the current organization, unless   *)
(* an update or a creation was answered late (useActiveCurrency and the    *)
(* calls of setActiveCurrency).                                            *)
(***************************************************************************)
THEOREM CurrencyIsTheOrgs == DataSpec => []CurrencyOfTheOrg
<1>1. DataInv => CurrencyOfTheOrg
  BY DEF DataInv
<1> QED  BY <1>1, DataInvariant, PTL

\* The data of a tab keeps to its types: a list of organizations is one.
THEOREM DataTypes == DataSpec => []DataTypeOK
<1>1. DataInv => DataTypeOK
  BY DEF DataInv
<1> QED  BY <1>1, DataInvariant, PTL

-----------------------------------------------------------------------------
(***************************************************************************)
(* The filtered lists.                                                     *)
(***************************************************************************)
Operations ==
    {"removeOne", "removeAll", "settle", "unsettle", "disable", "enable",
     "bulkDelete", "bulkSettle", "bulkCategorize"}

Change == [op : Operations, rows : SUBSET ListRows, last : BOOLEAN, id : Nat]

BulkDialog == [op : Operations, ready : BOOLEAN]

\* Each answer in the cache is to its query, and the page's own query has an
\* answer, has failed or is under way; what it has answered with has been seen,
\* and what is ticked has been seen or was ticked before the first answer.
AnswersAreTheirs ==
    /\ \A k \in Keys : HasData(answers[k]) => <<answers[k].choice, answers[k].page>> = k
    /\ answers[Key] = None => Key \in fetching
    /\ AnsweredRows(answers[Key]) \subseteq seen
    /\ selected \subseteq seen \cup early

ListsInv ==
    /\ ListsTypeOK /\ AnswersAreTheirs
    /\ changes \subseteq Change
    /\ bulk \in {None} \cup BulkDialog

LEMMA OnePageAtLeast == Cardinality(ListRows) \in Nat \ {0}
<1>1. Cardinality(ListRows) \in Nat
  BY ListsAssumption, FS_CardinalityType
<1>2. Cardinality(ListRows) # 0
  BY ListsAssumption, FS_EmptySet
<1> QED  BY <1>1, <1>2

LEMMA PagesBound ==
    ASSUME NEW m \in Nat, NEW s \in Nat \ {0}
    PROVE  (m + s - 1) \div s \in 0..m
<1> DEFINE q == (m + s - 1) \div s
<1>1. q \in Nat /\ s * q <= m + s - 1
  OBVIOUS
<1>2. ASSUME q > m PROVE FALSE
  <2> HIDE DEF q
  <2>1. s * q >= s * (m + 1)
    BY <1>1, <1>2
  <2>2. s * (m + 1) = s * m + s /\ s * m >= m
    OBVIOUS
  <2>3. s * m \in Nat /\ s * q \in Nat /\ s * (m + 1) \in Nat
    BY <1>1
  <2> QED  BY <1>1, <2>1, <2>2, <2>3
<1> QED  BY <1>1, <1>2

LEMMA ReadIsPage ==
    ASSUME ListsTypeOK, NEW c \in Filters, NEW n \in 1..Cardinality(ListRows)
    PROVE  Read(c, n) \in PageOfRows /\ Read(c, n).choice = c /\ Read(c, n).page = n
<1> DEFINE m == Cardinality(Matching(c))
           Rank(r) == Cardinality({s \in Matching(c) : s <= r})
           here == {r \in Matching(c) : (n - 1) * Size < Rank(r) /\ Rank(r) <= n * Size}
           rows == [r \in here |-> state[r]]
           pages == (m + Size - 1) \div Size
<1>1. Size \in Nat \ {0}
  BY OnePageAtLeast, ListsAssumption DEF Size
<1>2. Matching(c) \subseteq ListRows
  BY DEF Matching
<1>3. m \in Nat /\ m <= Cardinality(ListRows)
  BY <1>2, ListsAssumption, FS_Subset, FS_CardinalityType
<1>4. pages \in 0..m
  <2> HIDE DEF m
  <2> QED  BY <1>1, <1>3, PagesBound
<1>5. pages \in 0..Cardinality(ListRows)
  BY <1>3, <1>4, OnePageAtLeast
<1>6. here \subseteq ListRows /\ \A r \in here : state[r] \in {"on", "off"}
  BY <1>2 DEF ListsTypeOK, Matching, Matches
<1>7. rows \in [here -> {"on", "off"}]
  BY <1>6
<1>8. Read(c, n) = [choice |-> c, page |-> n, rows |-> rows, pages |-> pages]
  BY DEF Read
<1> HIDE DEF here, pages
<1>9. rows \in UNION {[S -> {"on", "off"}] : S \in SUBSET ListRows}
  BY <1>6, <1>7
<1> QED  BY <1>5, <1>8, <1>9 DEF PageOfRows

LEMMA ShownIsPage ==
    ASSUME NEW c \in PageOfRows \cup {None, Error}, NEW old \in PageOfRows \cup {None}
    PROVE  /\ ShownFor(c, old) \in PageOfRows \cup {Nothing}
           /\ DOMAIN ShownFor(c, old).rows \subseteq ListRows
           /\ ShownFor(c, old).pages \in 0..Cardinality(ListRows)
<1>1. ShownFor(c, old) \in PageOfRows \cup {Nothing}
  BY DEF ShownFor
<1>2. DOMAIN Nothing.rows = {} /\ Nothing.pages = 1
  BY DEF Nothing
<1>3. \A a \in PageOfRows : /\ DOMAIN a.rows \subseteq ListRows
                           /\ a.pages \in 0..Cardinality(ListRows)
  BY DEF PageOfRows
<1> QED  BY <1>1, <1>2, <1>3, OnePageAtLeast

\* What the buttons of a row do, on every page.
LEMMA ButtonsAreOperations ==
    ASSUME list \in DOMAIN ListPage, NEW r \in ListRows, NEW s \in {"on", "off"}
    PROVE  ListShape.buttons[r][s] \subseteq Operations
<1> USE DEF ReadOnly, Operations
<1>1. list \in {"transactions", "bills", "budgets", "users", "organizations", "audit",
               "reports", "forecast"}
  BY DEF ListPage
<1>2. CASE list = "transactions"
  <2>1. ListShape = TransactionsPage
    BY <1>2 DEF ListShape, ListPage
  <2>2. TransactionsPage.buttons =
          [row \in ListRows |->
             [on |-> {"removeOne"} \cup {b \in {"removeAll"} : Group[row] # {row}},
              off |-> {"removeOne"} \cup {b \in {"removeAll"} : Group[row] # {row}}]]
    BY DEF TransactionsPage
  <2> QED  BY <2>1, <2>2
<1>3. CASE list = "bills"
  <2>1. ListShape = BillsView
    BY <1>3 DEF ListShape, ListPage
  <2>2. BillsView.buttons =
          [row \in ListRows |-> [on |-> {"settle"}, off |-> {"unsettle"}]]
    BY DEF BillsView
  <2> QED  BY <2>1, <2>2
<1>4. CASE list = "budgets"
  BY <1>4 DEF ListShape, ListPage, BudgetsPage
<1>5. CASE list = "users"
  <2>1. ListShape = AdminUsersPage
    BY <1>5 DEF ListShape, ListPage
  <2>2. AdminUsersPage.buttons =
          [row \in ListRows |-> IF row \in Fixed THEN [on |-> {}, off |-> {}]
                               ELSE [on |-> {"disable"}, off |-> {"enable"}]]
    BY DEF AdminUsersPage
  <2> QED  BY <2>1, <2>2
<1>6. CASE list = "organizations"
  BY <1>6 DEF ListShape, ListPage, AdminOrganizationsPage
<1>7. CASE list = "audit"
  BY <1>7 DEF ListShape, ListPage, AuditPage
<1>8. CASE list = "reports"
  BY <1>8 DEF ListShape, ListPage, ReportsPage
<1>9. CASE list = "forecast"
  BY <1>9 DEF ListShape, ListPage, ForecastPage
<1> QED  BY <1>1, <1>2, <1>3, <1>4, <1>5, <1>6, <1>7, <1>8, <1>9

LEMMA ChangedRows ==
    ASSUME ListsTypeOK, NEW q, q.op \in Operations
    PROVE  Changed(q) \in [ListRows -> {"on", "off", "gone"}]
<1>1. q.op # "bulkCategorize" => After(q.op) \in {"on", "off", "gone"}
  BY DEF Operations, After
<1> QED  BY <1>1 DEF ListsTypeOK, Changed

\* With an answer, what is shown is the answer.
LEMMA VisibleIsAnswered ==
    ASSUME HasData(answers[Key]) PROVE Visible = AnsweredRows(answers[Key])
BY DEF HasData, Visible, Shown, ShownFor, AnsweredRows

LEMMA AnswersAreRows ==
    ASSUME NEW c \in PageOfRows \cup {None, Error} PROVE AnsweredRows(c) \subseteq ListRows
<1>1. \A a \in PageOfRows : DOMAIN a.rows \subseteq ListRows
  BY DEF PageOfRows
<1> QED  BY <1>1 DEF AnsweredRows, HasData

LEMMA ListsInitInv == ListsInit => ListsInv
<1> SUFFICES ASSUME ListsInit PROVE ListsInv
  OBVIOUS
<1> USE OnePageAtLeast, ListsAssumption DEF ListsInit
<1>1. Key \in Keys /\ Key = <<"all", 1>>
  BY DEF Key, Keys, Filters
<1>2. answers[Key] = None /\ ~HasData(None)
  BY <1>1 DEF HasData
<1>3. AnsweredRows(answers[Key]) = {}
  BY <1>2 DEF AnsweredRows
<1>4. ListsTypeOK
  BY <1>1 DEF ListsTypeOK, ListShape
<1>5. AnswersAreTheirs
  BY <1>1, <1>2, <1>3 DEF AnswersAreTheirs
<1> QED  BY <1>4, <1>5 DEF ListsInv

LEMMA GoKeeps ==
    ASSUME ListsInv, NEW c \in Filters, NEW n \in 1..Cardinality(ListRows),
           NEW also \in SUBSET Keys, Go(c, n, also)
    PROVE  ListsInv'
<1> DEFINE key == <<c, n>>
<1>0. ListsTypeOK /\ AnswersAreTheirs
  BY DEF ListsInv
<1>1. /\ Key' = key /\ key \in Keys /\ selected' = {}
      /\ seen' = AnsweredRows(answers[key]) /\ early' = {}
      /\ UNCHANGED <<list, viewer, state, bulk, changes, changesSent>>
  BY DEF Go, ClearSelection, Key, Keys
<1>2. moves' \in 0..MaxMoves
  BY <1>0, ListsAssumption DEF Go, ListsTypeOK
<1>3. /\ answers' \in [Keys -> PageOfRows \cup {None, Error}]
      /\ \A k \in Keys : HasData(answers'[k]) => answers'[k] = answers[k]
  BY <1>0, <1>1 DEF Go, ListsTypeOK, HasData
<1>4. previous' \in PageOfRows \cup {None}
  BY <1>0, <1>1 DEF Go, ListsTypeOK, HasData
<1>5. PICK more \in SUBSET {key} : /\ ~HasData(answers[key]) => more # {}
                                  /\ fetching' = fetching \cup more \cup also
  BY DEF Go
<1>6. fetching' \subseteq Keys
  BY <1>0, <1>1, <1>5 DEF ListsTypeOK
<1>7. seen' \subseteq ListRows
  BY <1>0, <1>1, AnswersAreRows DEF ListsTypeOK
<1>8. ListsTypeOK'
  BY <1>0, <1>1, <1>2, <1>3, <1>4, <1>6, <1>7 DEF ListsTypeOK, ListShape
<1>9. answers'[key] = None => key \in fetching'
  <2>1. answers'[key] = None => ~HasData(answers[key])
    BY <1>0, <1>1 DEF Go, ListsTypeOK, HasData
  <2> QED  BY <1>5, <2>1
<1>10. AnsweredRows(answers'[key]) \subseteq seen'
  BY <1>1, <1>3 DEF AnsweredRows
<1>11. AnswersAreTheirs'
  BY <1>0, <1>1, <1>3, <1>9, <1>10 DEF AnswersAreTheirs, HasData
<1> QED  BY <1>1, <1>8, <1>11 DEF ListsInv

LEMMA AnswersKeepLists ==
    ASSUME ListsInv, NEW key \in fetching, QueryAnswers(key) \/ QueryFails(key)
    PROVE  ListsInv'
<1>0. ListsTypeOK /\ AnswersAreTheirs /\ key \in Keys
  BY DEF ListsInv, ListsTypeOK
<1>1. Key' = Key /\ Key \in Keys /\ fetching' = fetching \ {key}
  BY <1>0 DEF QueryAnswers, QueryFails, Key, ListsTypeOK
<1>2. CASE QueryAnswers(key)
  <2>1. /\ Read(key[1], key[2]) \in PageOfRows
        /\ <<Read(key[1], key[2]).choice, Read(key[1], key[2]).page>> = key
    BY <1>0, ReadIsPage DEF Keys
  <2>2. /\ answers' \in [Keys -> PageOfRows \cup {None, Error}]
        /\ answers'[key] = Read(key[1], key[2])
        /\ \A k \in Keys \ {key} : answers'[k] = answers[k]
    BY <1>0, <1>2, <2>1 DEF QueryAnswers, Store, ListsTypeOK
  <2>3. previous' \in PageOfRows \cup {None}
    BY <1>0, <1>1, <1>2, <2>2 DEF QueryAnswers, ListsTypeOK, HasData
  <2>4. /\ seen' = seen \cup AnsweredRows(answers'[Key])
        /\ AnsweredRows(answers'[Key]) \subseteq ListRows
    BY <1>1, <1>2, <2>2, AnswersAreRows DEF QueryAnswers
  <2>5. ListsTypeOK'
    BY <1>0, <1>1, <1>2, <2>2, <2>3, <2>4 DEF QueryAnswers, ListsTypeOK, ListShape
  <2>6. AnswersAreTheirs'
    BY <1>0, <1>1, <1>2, <2>1, <2>2, <2>4, AnswersAssumption DEF QueryAnswers, AnswersAreTheirs
  <2> QED  BY <1>2, <2>5, <2>6 DEF ListsInv, QueryAnswers
<1>3. CASE QueryFails(key)
  <2>1. /\ answers' = IF HasData(answers[key]) THEN answers
                      ELSE [answers EXCEPT ![key] = Error]
        /\ UNCHANGED <<list, viewer, state, choice, number, previous, selected, bulk,
                       changes, moves, changesSent, seen, early>>
    BY <1>3 DEF QueryFails
  <2>2. /\ answers' \in [Keys -> PageOfRows \cup {None, Error}]
        /\ \A k \in Keys : answers'[k] = answers[k] \/ (k = key /\ answers'[k] = Error)
        /\ answers'[key] = Error \/ HasData(answers'[key])
    BY <1>0, <2>1 DEF ListsTypeOK
  <2>3. AnsweredRows(answers'[Key]) \subseteq AnsweredRows(answers[Key])
    BY <1>1, <2>2 DEF AnsweredRows, HasData
  <2>4. ListsTypeOK'
    BY <1>0, <1>1, <2>1, <2>2 DEF ListsTypeOK, ListShape
  <2>5. answers'[Key] = None => Key \in fetching'
    <3>1. CASE Key = key
      BY <2>2, <3>1, AnswersAssumption DEF HasData
    <3>2. CASE Key # key
      BY <1>0, <1>1, <2>2, <3>2 DEF AnswersAreTheirs
    <3> QED  BY <3>1, <3>2
  <2>6. AnswersAreTheirs'
    BY <1>0, <1>1, <2>1, <2>2, <2>3, <2>5 DEF AnswersAreTheirs, HasData
  <2> QED  BY <2>1, <2>4, <2>6 DEF ListsInv
<1> QED  BY <1>2, <1>3

\* Steps that leave the cache, the page and what it has shown as they are.
LEMMA TicksKeepLists ==
    ASSUME ListsInv, selected' \subseteq seen \cup early', early' \subseteq ListRows,
           fetching \subseteq fetching', fetching' \subseteq Keys,
           state' \in [ListRows -> {"on", "off", "gone"}],
           changesSent' \in 0..MaxChanges, changes' \subseteq Change,
           bulk' \in {None} \cup BulkDialog,
           UNCHANGED <<list, viewer, choice, number, answers, previous, moves, seen>>
    PROVE  ListsInv'
<1>1. ListsTypeOK /\ AnswersAreTheirs
  BY DEF ListsInv
<1>2. Key' = Key
  BY DEF Key
<1>3. ListsTypeOK'
  BY <1>1, <1>2 DEF ListsTypeOK, ListShape, AnswersAreTheirs
<1>4. AnswersAreTheirs'
  BY <1>1, <1>2 DEF AnswersAreTheirs
<1> QED  BY <1>3, <1>4 DEF ListsInv

LEMMA SendKeepsLists ==
    ASSUME ListsInv, NEW op \in Operations, NEW rows \in SUBSET ListRows, SendChange(op, rows)
    PROVE  ListsInv'
<1>0. ListsTypeOK /\ AnswersAreTheirs /\ changes \subseteq Change
  BY DEF ListsInv
<1>1. changesSent' \in 0..MaxChanges /\ changesSent \in Nat
  BY <1>0, ListsAssumption DEF SendChange, ListsTypeOK
<1>2. changes' \subseteq Change
  <2>1. [op |-> op, rows |-> rows, last |-> TRUE, id |-> changesSent] \in Change
    BY <1>1 DEF Change
  <2>2. \A q \in Change : [q EXCEPT !.last = @ /\ q.op # op] \in Change
    BY DEF Change
  <2> QED  BY <1>0, <2>1, <2>2 DEF SendChange
<1> QED  BY <1>0, <1>1, <1>2, TicksKeepLists DEF SendChange, ListsInv, ListsTypeOK, AnswersAreTheirs

LEMMA TogglesKeepLists ==
    ASSUME ListsInv, NEW rows, rows \subseteq selected \cup Visible, Toggle(rows)
    PROVE  ListsInv'
<1>0. ListsTypeOK /\ AnswersAreTheirs
  BY DEF ListsInv
<1>1. Visible \subseteq ListRows
  BY <1>0, ShownIsPage DEF ListsTypeOK, Visible, Shown
<1>2. selected' = rows /\ early' \subseteq ListRows
  BY <1>0, <1>1 DEF Toggle, ListsTypeOK
<1>3. selected' \subseteq seen \cup early'
  <2>1. CASE HasData(answers[Key])
    BY <1>0, <1>2, <2>1, VisibleIsAnswered DEF Toggle, AnswersAreTheirs
  <2>2. CASE ~HasData(answers[Key])
    BY <2>2 DEF Toggle
  <2> QED  BY <2>1, <2>2
<1> QED  BY <1>2, <1>3, TicksKeepLists DEF Toggle, ListsInv, ListsTypeOK

LEMMA ClicksKeepLists ==
    ASSUME ListsInv, NEW r \in ListRows, ClickListRow(r)
    PROVE  ListsInv'
<1>0. ListsTypeOK
  BY DEF ListsInv
<1>1. r \in Visible /\ Shown.rows[r] \in {"on", "off"}
  <2>1. r \in Visible
    BY DEF ClickListRow
  <2>2. Shown \in PageOfRows \cup {Nothing}
    BY <1>0, ShownIsPage DEF ListsTypeOK, Shown
  <2>3. Shown # Nothing
    BY <2>1 DEF Visible, Nothing
  <2> QED  BY <2>1, <2>2, <2>3 DEF Visible, PageOfRows
<1>2. PICK op \in ListShape.buttons[r][Shown.rows[r]] :
         SendChange(op, IF op = "removeAll" THEN Group[r] ELSE {r})
  BY DEF ClickListRow
<1>3. op \in Operations
  BY <1>0, <1>1, <1>2, ButtonsAreOperations DEF ListsTypeOK
<1>4. (IF op = "removeAll" THEN Group[r] ELSE {r}) \in SUBSET ListRows
  BY ListsAssumption
<1> QED  BY <1>2, <1>3, <1>4, SendKeepsLists

LEMMA BulkKeepsLists ==
    ASSUME ListsInv,
           \/ \E op \in {"bulkSettle", "bulkCategorize"} : OpenBulk(op)
           \/ FillBulk \/ CloseBulk
    PROVE  ListsInv'
<1>0. bulk \in {None} \cup BulkDialog
  BY DEF ListsInv
<1>1. bulk' \in {None} \cup BulkDialog
  <2>1. ASSUME NEW op \in {"bulkSettle", "bulkCategorize"}, OpenBulk(op)
        PROVE  bulk' \in BulkDialog
    <3>1. bulk' = [op |-> op, ready |-> (op = "bulkSettle")]
      BY <2>1 DEF OpenBulk
    <3>2. (op = "bulkSettle") \in BOOLEAN
      OBVIOUS
    <3> QED  BY <3>1, <3>2 DEF BulkDialog, Operations
  <2>2. CASE FillBulk
    BY <1>0, <2>2 DEF FillBulk, BulkDialog
  <2>3. CASE CloseBulk
    BY <2>3 DEF CloseBulk
  <2> QED  BY <2>1, <2>2, <2>3
<1>2. UNCHANGED <<list, viewer, state, choice, number, answers, fetching, previous,
                  selected, changes, moves, changesSent, seen, early>>
  BY DEF OpenBulk, FillBulk, CloseBulk
<1> QED  BY <1>1, <1>2, TicksKeepLists DEF ListsInv, ListsTypeOK, AnswersAreTheirs

LEMMA SuccessKeepsLists ==
    ASSUME ListsInv, NEW q \in changes, ChangeSucceeds(q) \/ ChangeFails(q)
    PROVE  ListsInv'
<1>0. ListsTypeOK /\ AnswersAreTheirs /\ changes \subseteq Change /\ bulk \in {None} \cup BulkDialog
  BY DEF ListsInv
<1>1. q.op \in Operations
  BY <1>0 DEF Change
<1>2. state' \in [ListRows -> {"on", "off", "gone"}]
  BY <1>0, <1>1, ChangedRows DEF ChangeSucceeds, ChangeFails, ListsTypeOK
<1>3. changes' \subseteq Change
  BY <1>0 DEF ChangeSucceeds, ChangeFails
<1>4. bulk' \in {None} \cup BulkDialog
  BY <1>0 DEF ChangeSucceeds, ChangeFails
<1>5. fetching \subseteq fetching' /\ fetching' \subseteq Keys
  BY <1>0 DEF ChangeSucceeds, ChangeFails, ListsTypeOK
<1>6. selected' \subseteq seen \cup early
  BY <1>0 DEF ChangeSucceeds, ChangeFails, AnswersAreTheirs
<1>7. UNCHANGED <<list, viewer, choice, number, answers, previous, moves, changesSent, seen,
                  early>>
  BY DEF ChangeSucceeds, ChangeFails
<1> QED  BY <1>0, <1>2, <1>3, <1>4, <1>5, <1>6, <1>7, TicksKeepLists DEF ListsTypeOK

LEMMA ListsStep == ListsInv /\ [ListsNext]_listsVars => ListsInv'
<1> SUFFICES ASSUME ListsInv, [ListsNext]_listsVars PROVE ListsInv'
  OBVIOUS
<1>0. ListsTypeOK /\ AnswersAreTheirs
  BY DEF ListsInv
<1>a. Visible \subseteq ListRows /\ selected \subseteq ListRows
      /\ Shown.pages \in 0..Cardinality(ListRows)
  BY <1>0, ShownIsPage DEF ListsTypeOK, Visible, Shown
<1>b. number \in 1..Cardinality(ListRows) /\ choice \in Filters
  BY <1>0 DEF ListsTypeOK, Key, Keys
<1>1. CASE UpdateFilter
  <2>1. PICK c \in Filters :
           Go(c, 1, IF list \in Searched /\ ~HasData(answers[<<c, number>>])
                    THEN {<<c, number>>} ELSE {})
    BY <1>1 DEF UpdateFilter
  <2>2. (IF list \in Searched /\ ~HasData(answers[<<c, number>>])
         THEN {<<c, number>>} ELSE {}) \in SUBSET Keys
    BY <1>b DEF Keys
  <2>3. 1 \in 1..Cardinality(ListRows)
    BY OnePageAtLeast
  <2> QED  BY <2>1, <2>2, <2>3, GoKeeps
<1>2. ASSUME NEW n, Turn(n) PROVE ListsInv'
  <2>1. n \in 1..Cardinality(ListRows)
    BY <1>a, <1>2, OnePageAtLeast DEF Turn
  <2> QED  BY <1>b, <1>2, <2>1, GoKeeps DEF Turn
<1>3. ASSUME NEW key \in fetching, QueryAnswers(key) \/ QueryFails(key) PROVE ListsInv'
  BY <1>3, AnswersKeepLists
<1>4. ASSUME NEW r \in ListRows, ToggleOne(r) PROVE ListsInv'
  BY <1>4, TogglesKeepLists DEF ToggleOne
<1>5. ASSUME NEW r \in ListRows, ClickListRow(r) PROVE ListsInv'
  BY <1>5, ClicksKeepLists
<1>6. CASE ToggleAll
  BY <1>6, TogglesKeepLists DEF ToggleAll
<1>7. CASE ClearTicks
  BY <1>7, TogglesKeepLists DEF ClearTicks
<1>8. CASE BulkDelete
  BY <1>a, <1>8, SendKeepsLists DEF BulkDelete, Operations
<1>9. CASE \/ \E op \in {"bulkSettle", "bulkCategorize"} : OpenBulk(op)
           \/ FillBulk \/ CloseBulk
  BY <1>9, BulkKeepsLists
<1>10. CASE ConfirmBulk
  <2>1. bulk.op \in Operations
    BY <1>10 DEF ConfirmBulk, ListsInv, BulkDialog
  <2> QED  BY <1>a, <1>10, <2>1, SendKeepsLists DEF ConfirmBulk
<1>11. ASSUME NEW q \in changes, ChangeSucceeds(q) \/ ChangeFails(q) PROVE ListsInv'
  BY <1>11, SuccessKeepsLists
<1>12. CASE UNCHANGED listsVars
  <2>1. UNCHANGED <<list, viewer, state, choice, number, answers, fetching, previous,
                    selected, bulk, changes, moves, changesSent, seen, early>>
    BY <1>12 DEF listsVars
  <2> QED  BY <2>1, TicksKeepLists DEF ListsInv, ListsTypeOK, AnswersAreTheirs
<1> QED  BY <1>1, <1>2, <1>3, <1>4, <1>5, <1>6, <1>7, <1>8, <1>9, <1>10, <1>11, <1>12
         DEF ListsNext

LEMMA ListsInvariant == ListsSpec => []ListsInv
  BY ListsInitInv, ListsStep, PTL DEF ListsSpec

(***************************************************************************)
(* The list shown is that of the filters once it is not under way, and     *)
(* what is ticked is a row these filters have answered with, or was ticked *)
(* after they changed and before their first answer, for any rows, pages   *)
(* and requests, whatever the order of the answers (the query keys of the  *)
(* hooks, the effect on filters that empties selected).                    *)
(***************************************************************************)
THEOREM ListsFollowTheFilters == ListsSpec => []ListOfTheFilters
<1>1. ASSUME ListsInv PROVE ListOfTheFilters
  <2>1. ListsTypeOK /\ AnswersAreTheirs
    BY <1>1 DEF ListsInv
  <2>2. ASSUME Key \notin fetching PROVE Shown = Nothing \/ <<Shown.choice, Shown.page>> = Key
    <3>1. Key \in Keys /\ answers[Key] # None
      BY <2>1, <2>2 DEF AnswersAreTheirs, ListsTypeOK
    <3>2. CASE answers[Key] = Error
      BY <3>2 DEF Shown, ShownFor
    <3>3. CASE answers[Key] # Error
      BY <2>1, <3>1, <3>3 DEF Shown, ShownFor, AnswersAreTheirs, HasData
    <3> QED  BY <3>2, <3>3
  <2> QED  BY <2>1, <2>2 DEF AnswersAreTheirs, ListOfTheFilters
<1> QED  BY <1>1, ListsInvariant, PTL

\* A filtered list keeps to its types: an answer is a page of rows, or an error.
THEOREM ListsTypes == ListsSpec => []ListsTypeOK
<1>1. ListsInv => ListsTypeOK
  BY DEF ListsInv
<1> QED  BY <1>1, ListsInvariant, PTL

-----------------------------------------------------------------------------
(***************************************************************************)
(* The statement import dialog.  What it shows is of this visit because    *)
(* only calls of this visit are heard; an id is booked once because the    *)
(* commit that has looked it up and not found it is, unless two overlap,   *)
(* the only one of its account - so nobody books it in between.            *)
(***************************************************************************)
Chosen == UNION {[D -> Labels] : D \in SUBSET Nat}

PreviewCall ==
    [call : {"preview"}, id : Nat, heard : BOOLEAN, visit : 0..MaxVisits,
     account : Accounts, file : Files, options : BOOLEAN]

CommitCall ==
    [call : {"commit"}, id : Nat, heard : BOOLEAN, visit : 0..MaxVisits,
     account : Accounts, existing : {None} \cup SUBSET ExternalIds,
     applied : BOOLEAN, lines : Chosen]

\* What ImportTypeOK leaves open.
CallsTyped ==
    /\ importCalls \subseteq PreviewCall \cup CommitCall
    /\ DOMAIN booked = Accounts

\* Only calls of this visit are heard, and what they said is kept.
OfThisVisit ==
    /\ \A q \in importCalls : q.heard => q.visit = visit /\ account # None
    /\ preview # None => preview.visit = visit /\ account # None
    /\ result # None => result = visit

\* A commit between its query and its insertion.
LookedUp(q) == q.call = "commit" /\ q.existing # None /\ ~q.applied

BookedOnce == \A a \in Accounts : \A i \in ExternalIds : booked[a][i] \in {0, 1}

FreshIds ==
    \A q \in importCalls : LookedUp(q) =>
        \A i \in ExternalIds \ q.existing : booked[q.account][i] = 0

OneLooksUp ==
    \A p, q \in importCalls : LookedUp(p) /\ LookedUp(q) /\ p.account = q.account => p = q

ImportInv ==
    /\ ImportTypeOK /\ CallsTyped /\ OfThisVisit
    /\ ~overlapped => BookedOnce /\ FreshIds /\ OneLooksUp

-----------------------------------------------------------------------------
LEMMA InitInv == ImportInit => ImportInv
<1> SUFFICES ASSUME ImportInit PROVE ImportInv
  OBVIOUS
<1> USE ImportAssumption DEF ImportInit
<1>1. ImportTypeOK
  <2>1. visit \in 0..MaxVisits /\ sends \in 0..MaxSends
    OBVIOUS
  <2> QED  BY <2>1 DEF ImportTypeOK
<1>2. CallsTyped
  BY DEF CallsTyped
<1>3. OfThisVisit
  BY DEF OfThisVisit
<1>4. BookedOnce
  BY DEF BookedOnce, Labels
<1>5. FreshIds /\ OneLooksUp
  BY DEF FreshIds, OneLooksUp
<1> QED  BY <1>1, <1>2, <1>3, <1>4, <1>5 DEF ImportInv

\* Steps of the dialog that send nothing and hear nothing.
DialogSteps ==
    \/ CloseImport
    \/ \E a \in Accounts : ChooseAccount(a)
    \/ \E f \in Files : ChooseFile(f)
    \/ ChangeOptions
    \/ \E i \in Lines : TickOne(i)
    \/ TickAll \/ Back

LEMMA DialogKeeps == ImportInv /\ DialogSteps => ImportInv'
<1> SUFFICES ASSUME ImportInv, DialogSteps PROVE ImportInv'
  OBVIOUS
<1>1. UNCHANGED <<visit, preview, result, importCalls, sends, booked, overlapped>>
  BY DEF DialogSteps, CloseImport, ChooseAccount, ChooseFile, ChangeOptions, TickOne,
         TickAll, Select, Back, ImportServer
<1>2. ImportTypeOK'
  BY DEF ImportInv, ImportTypeOK, DialogSteps, CloseImport, ChooseAccount, ChooseFile,
         ChangeOptions, TickOne, TickAll, RenderedRows, Select, Back, ImportServer, Lines
<1>3. CallsTyped'
  BY <1>1 DEF ImportInv, CallsTyped
<1>5. OfThisVisit'
  <2>1. account' # None \/ account' = account
    BY ImportAssumption DEF DialogSteps, CloseImport, ChooseAccount, ChooseFile,
       ChangeOptions, TickOne, TickAll, Select, Back
  <2> QED  BY <1>1, <2>1 DEF ImportInv, OfThisVisit
<1>4. ~overlapped' => BookedOnce' /\ FreshIds' /\ OneLooksUp'
  BY <1>1 DEF ImportInv, BookedOnce, FreshIds, OneLooksUp
<1> QED  BY <1>2, <1>3, <1>4, <1>5 DEF ImportInv

\* The reset of a call changes what it is heard by, and nothing else.
LEMMA ResetCall ==
    ASSUME CallsTyped, NEW q \in Reset(importCalls)
    PROVE  /\ q \in PreviewCall \cup CommitCall
           /\ ~q.heard
           /\ \E p \in importCalls :
                 /\ q = [p EXCEPT !.heard = FALSE]
                 /\ p.call = q.call /\ p.account = q.account
                 /\ q.call = "commit" => /\ p.existing = q.existing
                                         /\ p.applied = q.applied
<1>1. PICK p \in importCalls : q = [p EXCEPT !.heard = FALSE]
  BY DEF Reset
<1>2. CASE p \in PreviewCall
  BY <1>1, <1>2 DEF PreviewCall
<1>3. CASE p \in CommitCall
  BY <1>1, <1>3 DEF CommitCall
<1> QED  BY <1>2, <1>3 DEF CallsTyped

LEMMA OpenKeeps == ImportInv /\ OpenImport => ImportInv'
<1> SUFFICES ASSUME ImportInv, OpenImport PROVE ImportInv'
  OBVIOUS
<1> USE ImportAssumption
<1>0. CallsTyped
  BY DEF ImportInv
<1>1. ImportTypeOK'
  <2>1. visit' \in 0..MaxVisits
    BY DEF ImportInv, ImportTypeOK, OpenImport
  <2> QED  BY <2>1 DEF ImportInv, ImportTypeOK, OpenImport, ImportServer
<1>2. CallsTyped'
  BY <1>0, ResetCall DEF CallsTyped, OpenImport, ImportServer
<1>3. OfThisVisit'
  BY <1>0, ResetCall DEF OfThisVisit, OpenImport
<1>4. ASSUME ~overlapped' PROVE BookedOnce' /\ FreshIds' /\ OneLooksUp'
  <2>1. BookedOnce /\ FreshIds /\ OneLooksUp /\ booked' = booked
    BY <1>4 DEF ImportInv, OpenImport, ImportServer
  <2>2. BookedOnce'
    BY <2>1 DEF BookedOnce
  <2>3. FreshIds'
    BY <1>0, <2>1, ResetCall DEF FreshIds, LookedUp, OpenImport
  <2>4. OneLooksUp'
    <3> SUFFICES ASSUME NEW p \in Reset(importCalls), NEW q \in Reset(importCalls),
                        LookedUp(p), LookedUp(q), p.account = q.account
                 PROVE  p = q
      BY DEF OneLooksUp, OpenImport, LookedUp
    <3>1. PICK p0 \in importCalls : /\ p = [p0 EXCEPT !.heard = FALSE]
                                    /\ LookedUp(p0) /\ p0.account = p.account
      BY <1>0, ResetCall DEF LookedUp
    <3>2. PICK q0 \in importCalls : /\ q = [q0 EXCEPT !.heard = FALSE]
                                    /\ LookedUp(q0) /\ q0.account = q.account
      BY <1>0, ResetCall DEF LookedUp
    <3> QED  BY <2>1, <3>1, <3>2 DEF OneLooksUp
  <2> QED  BY <2>2, <2>3, <2>4
<1> QED  BY <1>1, <1>2, <1>3, <1>4 DEF ImportInv

-----------------------------------------------------------------------------
LEMMA PreviewKeeps == ImportInv /\ RunPreview => ImportInv'
<1> SUFFICES ASSUME ImportInv, RunPreview PROVE ImportInv'
  OBVIOUS
<1> DEFINE new == [call |-> "preview", id |-> sends, heard |-> TRUE, visit |-> visit,
                   account |-> account, file |-> file,
                   options |-> options /\ file \in IsCsv]
<1>1. /\ importCalls' = importCalls \cup {new} /\ sends' = sends + 1 /\ sends < MaxSends
      /\ UNCHANGED <<ImportDialog, ImportServer>>
  BY DEF RunPreview, SendImport
<1>2. new \in PreviewCall
  BY DEF ImportInv, ImportTypeOK, RunPreview, PreviewCall
<1>3. ~LookedUp(new)
  BY DEF LookedUp
<1> HIDE DEF new
<1>4. ImportTypeOK'
  BY <1>1, ImportAssumption DEF ImportInv, ImportTypeOK, ImportDialog, ImportServer, Lines
<1>5. CallsTyped'
  BY <1>1, <1>2 DEF ImportInv, CallsTyped, ImportDialog, ImportServer
<1>6. OfThisVisit'
  <2>1. new.visit = visit
    BY DEF new
  <2> QED  BY <1>1, <2>1 DEF ImportInv, OfThisVisit, ImportDialog, RunPreview
<1>7. ~overlapped' => BookedOnce' /\ FreshIds' /\ OneLooksUp'
  BY <1>1, <1>3 DEF ImportInv, BookedOnce, FreshIds, OneLooksUp, ImportServer
<1> QED  BY <1>4, <1>5, <1>6, <1>7 DEF ImportInv

LEMMA CommitKeeps == ImportInv /\ RunCommit => ImportInv'
<1> SUFFICES ASSUME ImportInv, RunCommit PROVE ImportInv'
  OBVIOUS
<1> DEFINE chosen == [i \in Lines \cap ticked |-> preview.lines[i]]
           new == [call |-> "commit", id |-> sends, heard |-> TRUE, visit |-> visit,
                   account |-> account, existing |-> None, applied |-> FALSE,
                   lines |-> chosen]
<1>1. /\ importCalls' = importCalls \cup {new} /\ sends' = sends + 1 /\ sends < MaxSends
      /\ UNCHANGED <<ImportDialog, ImportServer>>
  BY DEF RunCommit, SendImport
<1>2. preview \in Preview
  BY DEF ImportInv, ImportTypeOK, CallsTyped, RunCommit, Lines
<1>3. chosen \in [Lines \cap ticked -> Labels] /\ Lines \cap ticked \in SUBSET Nat
  <2>1. preview.lines \in Seq(Labels)
    BY <1>2 DEF Preview
  <2>2. Lines \subseteq DOMAIN preview.lines
    BY DEF Lines
  <2> QED  BY <2>1, <2>2
<1>4. chosen \in Chosen
  BY <1>3 DEF Chosen
<1>5. account \in Accounts
  <2>1. account # None
    BY <1>2 DEF ImportInv, OfThisVisit, RunCommit, Lines, ImportTypeOK
  <2> QED  BY <2>1 DEF ImportInv, ImportTypeOK
<1> HIDE DEF chosen
<1>6. new \in CommitCall
  BY <1>4, <1>5 DEF ImportInv, ImportTypeOK, CommitCall
<1>7. ~LookedUp(new) /\ new.visit = visit
  BY DEF LookedUp
<1> HIDE DEF new
<1>8. ImportTypeOK'
  BY <1>1, ImportAssumption DEF ImportInv, ImportTypeOK, ImportDialog, ImportServer, Lines
<1>9. CallsTyped' /\ OfThisVisit'
  BY <1>1, <1>5, <1>6, <1>7, ImportAssumption DEF ImportInv, CallsTyped, OfThisVisit, ImportDialog, ImportServer
<1>10. ~overlapped' => BookedOnce' /\ FreshIds' /\ OneLooksUp'
  BY <1>1, <1>7 DEF ImportInv, BookedOnce, FreshIds, OneLooksUp, ImportServer
<1> QED  BY <1>8, <1>9, <1>10 DEF ImportInv
-----------------------------------------------------------------------------
LEMMA PreviewedKeeps ==
    ASSUME ImportInv, NEW q \in importCalls, Previewed(q)
    PROVE  ImportInv'
<1> USE ImportAssumption
<1>0. q \in PreviewCall
  BY DEF ImportInv, CallsTyped, CommitCall, Previewed
<1>1. /\ importCalls' = importCalls \ {q}
      /\ UNCHANGED <<importOpen, visit, account, file, options, result, sends, ImportServer>>
  BY DEF Previewed
<1>2. ~overlapped' => BookedOnce' /\ FreshIds' /\ OneLooksUp'
  BY <1>1 DEF ImportInv, BookedOnce, FreshIds, OneLooksUp, ImportServer
<1>3. CASE q.heard
  <2> DEFINE lines == Content[q.file]
  <2>1. preview' = [lines |-> lines, account |-> q.account, visit |-> q.visit]
    BY <1>3 DEF Previewed
  <2>2. lines \in Seq(Labels)
    BY <1>0 DEF PreviewCall, Labels
  <2>3. ticked' \subseteq DOMAIN lines /\ step' = "preview"
    BY <1>3 DEF Previewed, NewLines
  <2>4. q.visit = visit /\ account # None
    BY <1>3 DEF ImportInv, OfThisVisit
  <2>5. CallsTyped'
    BY <1>0, <1>1, <2>1, <2>2 DEF ImportInv, CallsTyped, ImportServer
  <2>6. OfThisVisit'
    BY <1>1, <2>1, <2>4 DEF ImportInv, OfThisVisit
  <2>7. preview' \in Preview
    BY <1>0, <2>1, <2>2 DEF PreviewCall, Preview
  <2>8. Lines' = DOMAIN lines
    BY <2>1, <2>7 DEF Lines
  <2>9. ImportTypeOK'
    BY <1>1, <2>3, <2>7, <2>8 DEF ImportInv, ImportTypeOK, ImportServer
  <2> QED  BY <1>2, <2>5, <2>6, <2>9 DEF ImportInv
<1>4. CASE ~q.heard
  <2>1. UNCHANGED <<preview, ticked, step>>
    BY <1>4 DEF Previewed
  <2> QED  BY <1>1, <1>2, <2>1 DEF ImportInv, ImportTypeOK, CallsTyped, OfThisVisit, Lines,
              ImportServer
<1> QED  BY <1>3, <1>4

\* A call that is over, or takes a step, leaves the dialog alone.
LEMMA CallStep ==
    ASSUME ImportInv, NEW q \in importCalls, NEW new \in SUBSET (PreviewCall \cup CommitCall),
           \A n \in new : n.heard = q.heard /\ n.visit = q.visit,
           importCalls' = (importCalls \ {q}) \cup new,
           UNCHANGED <<ImportDialog, sends>>, DOMAIN booked' = Accounts,
           overlapped' \in BOOLEAN
    PROVE  ImportTypeOK' /\ CallsTyped' /\ OfThisVisit'
<1>1. ImportTypeOK'
  BY DEF ImportInv, ImportTypeOK, ImportDialog, Lines
<1>2. CallsTyped'
  BY DEF ImportInv, CallsTyped
<1>3. OfThisVisit'
  BY DEF ImportInv, OfThisVisit, ImportDialog
<1> QED  BY <1>1, <1>2, <1>3

LEMMA CheckIdsKeeps ==
    ASSUME ImportInv, NEW q \in importCalls, CheckIds(q)
    PROVE  ImportInv'
<1> DEFINE found == {i \in ExternalIds : booked[q.account][i] > 0}
           new == [q EXCEPT !.existing = found]
<1>1. q \in CommitCall
  BY DEF ImportInv, CallsTyped, PreviewCall, CheckIds
<1>2. /\ importCalls' = (importCalls \ {q}) \cup {new}
      /\ UNCHANGED <<ImportDialog, sends, booked>>
      /\ overlapped' = (overlapped \/ \E p \in importCalls \ {q} :
                          /\ p.call = "commit" /\ p.account = q.account
                          /\ p.existing # None /\ ~p.applied)
  BY DEF CheckIds
<1>3. found \in SUBSET ExternalIds
  OBVIOUS
<1>4. /\ new \in CommitCall /\ new.heard = q.heard /\ new.visit = q.visit
      /\ new.account = q.account /\ new.existing = found
  BY <1>1, <1>3 DEF CommitCall
<1>5. overlapped' \in BOOLEAN /\ DOMAIN booked' = Accounts
  BY <1>2 DEF ImportInv, ImportTypeOK, CallsTyped
<1> HIDE DEF new
<1>6. ImportTypeOK' /\ CallsTyped' /\ OfThisVisit'
  <2>1. /\ {new} \in SUBSET (PreviewCall \cup CommitCall)
        /\ \A n \in {new} : n.heard = q.heard /\ n.visit = q.visit
    BY <1>4
  <2>2. UNCHANGED <<ImportDialog, sends>>
    BY <1>2
  <2> QED  BY <1>2, <1>5, <2>1, <2>2, CallStep
<1>7. ASSUME ~overlapped' PROVE BookedOnce' /\ FreshIds' /\ OneLooksUp'
  <2>1. BookedOnce /\ FreshIds /\ OneLooksUp
    BY <1>2, <1>7 DEF ImportInv
  <2>2. \A p \in importCalls \ {q} : LookedUp(p) => p.account # q.account
    BY <1>2, <1>7 DEF LookedUp
  <2>3. BookedOnce'
    BY <1>2, <2>1 DEF BookedOnce
  <2>4. \A i \in ExternalIds \ found : booked[q.account][i] = 0
    <3>1. q.account \in Accounts
      BY <1>1 DEF CommitCall
    <3> QED  BY <2>1, <3>1 DEF BookedOnce
  <2>5. FreshIds'
    BY <1>2, <1>4, <2>1, <2>4 DEF FreshIds
  <2>6. OneLooksUp'
    BY <1>2, <1>4, <2>1, <2>2 DEF OneLooksUp
  <2> QED  BY <2>3, <2>5, <2>6
<1> QED  BY <1>6, <1>7 DEF ImportInv

\* The lines of an id that was not there make one transaction.
LEMMA CreateKeeps ==
    ASSUME ImportInv, NEW q \in importCalls, Create(q)
    PROVE  ImportInv'
<1> DEFINE new == [q EXCEPT !.applied = TRUE]
<1>1. q \in CommitCall /\ LookedUp(q)
  BY DEF ImportInv, CallsTyped, PreviewCall, Create, LookedUp
<1>2. q.account \in Accounts
  BY <1>1 DEF CommitCall
<1>3. /\ importCalls' = (importCalls \ {q}) \cup {new}
      /\ UNCHANGED <<ImportDialog, sends, overlapped>>
      /\ booked' = [booked EXCEPT ![q.account] = [l \in Labels |-> @[l] + Creates(q, l)]]
  BY DEF Create
<1>4. /\ new \in CommitCall /\ new.heard = q.heard /\ new.visit = q.visit /\ new.applied
  BY <1>1 DEF CommitCall
<1>5. overlapped' \in BOOLEAN /\ DOMAIN booked' = Accounts
  BY <1>3 DEF ImportInv, ImportTypeOK, CallsTyped
<1> HIDE DEF new
<1>6. ~LookedUp(new)
  BY <1>4 DEF LookedUp
<1>7. ImportTypeOK' /\ CallsTyped' /\ OfThisVisit'
  <2>1. /\ {new} \in SUBSET (PreviewCall \cup CommitCall)
        /\ \A n \in {new} : n.heard = q.heard /\ n.visit = q.visit
    BY <1>4
  <2>2. UNCHANGED <<ImportDialog, sends>>
    BY <1>3
  <2> QED  BY <1>3, <1>5, <2>1, <2>2, CallStep
<1>8. ASSUME ~overlapped' PROVE BookedOnce' /\ FreshIds' /\ OneLooksUp'
  <2>1. BookedOnce /\ FreshIds /\ OneLooksUp
    BY <1>3, <1>8 DEF ImportInv
  <2>2. \A i \in ExternalIds : booked'[q.account][i] = booked[q.account][i] + Creates(q, i)
    BY <1>2, <1>3 DEF ImportInv, CallsTyped, Labels
  <2>3. \A a \in Accounts \ {q.account} : booked'[a] = booked[a]
    BY <1>3 DEF ImportInv, CallsTyped
  <2>4. \A i \in ExternalIds : /\ Creates(q, i) \in {0, 1}
                               /\ Creates(q, i) = 1 => booked[q.account][i] = 0
    BY <1>1, <2>1, ImportAssumption DEF Creates, FreshIds
  <2>5. BookedOnce'
    BY <1>2, <2>1, <2>2, <2>3, <2>4 DEF BookedOnce
  <2>6. FreshIds'
    <3> SUFFICES ASSUME NEW p \in importCalls \ {q}, LookedUp(p),
                        NEW i \in ExternalIds \ p.existing
                 PROVE  booked'[p.account][i] = 0
      BY <1>3, <1>6 DEF FreshIds, LookedUp
    <3>1. p.account # q.account
      BY <1>1, <2>1 DEF OneLooksUp
    <3>2. p.account \in Accounts
      BY DEF ImportInv, CallsTyped, PreviewCall, CommitCall
    <3> QED  BY <2>1, <2>3, <3>1, <3>2 DEF FreshIds
  <2>7. OneLooksUp'
    BY <1>3, <1>6, <2>1 DEF OneLooksUp, LookedUp
  <2> QED  BY <2>5, <2>6, <2>7
<1> QED  BY <1>7, <1>8 DEF ImportInv

LEMMA CommittedKeeps ==
    ASSUME ImportInv, NEW q \in importCalls, Committed(q)
    PROVE  ImportInv'
<1>1. /\ importCalls' = importCalls \ {q}
      /\ UNCHANGED <<importOpen, visit, account, file, options, preview, ticked, sends,
                     booked, overlapped>>
  BY DEF Committed, ImportServer
<1>2. q.visit \in 0..MaxVisits
  BY DEF ImportInv, CallsTyped, PreviewCall, CommitCall
<1>3. ImportTypeOK'
  BY <1>1, <1>2 DEF ImportInv, ImportTypeOK, Committed, Lines
<1>4. CallsTyped' /\ OfThisVisit'
  BY <1>1 DEF ImportInv, CallsTyped, OfThisVisit, Committed
<1>5. ~overlapped' => BookedOnce' /\ FreshIds' /\ OneLooksUp'
  BY <1>1 DEF ImportInv, BookedOnce, FreshIds, OneLooksUp
<1> QED  BY <1>3, <1>4, <1>5 DEF ImportInv

LEMMA FailsKeeps ==
    ASSUME ImportInv, NEW q \in importCalls, ImportFails(q)
    PROVE  ImportInv'
<1>1. importCalls' = importCalls \ {q} /\ UNCHANGED <<ImportDialog, sends, ImportServer>>
  BY DEF ImportFails
<1>2. ImportTypeOK' /\ CallsTyped' /\ OfThisVisit'
  BY <1>1 DEF ImportInv, ImportTypeOK, CallsTyped, OfThisVisit, ImportDialog,
              ImportServer, Lines
<1>3. ~overlapped' => BookedOnce' /\ FreshIds' /\ OneLooksUp'
  BY <1>1 DEF ImportInv, BookedOnce, FreshIds, OneLooksUp, ImportServer
<1> QED  BY <1>2, <1>3 DEF ImportInv

-----------------------------------------------------------------------------
\* The invariant of every behaviour: each step of ImportNext keeps it.
LEMMA ImportInvariant == ImportSpec => []ImportInv
<1>1. ImportInv /\ [ImportNext]_importVars => ImportInv'
  <2> SUFFICES ASSUME ImportInv, [ImportNext]_importVars PROVE ImportInv'
    OBVIOUS
  <2>1. CASE OpenImport
    BY <2>1, OpenKeeps
  <2>2. CASE DialogSteps
    BY <2>2, DialogKeeps
  <2>3. CASE RunPreview
    BY <2>3, PreviewKeeps
  <2>4. CASE RunCommit
    BY <2>4, CommitKeeps
  <2>5. ASSUME NEW q \in importCalls,
               Previewed(q) \/ CheckIds(q) \/ Create(q) \/ Committed(q) \/ ImportFails(q)
        PROVE  ImportInv'
    BY <2>5, PreviewedKeeps, CheckIdsKeeps, CreateKeeps, CommittedKeeps, FailsKeeps
  <2>6. CASE UNCHANGED importVars
    BY <2>6 DEF importVars, ImportInv, ImportTypeOK, CallsTyped, OfThisVisit, BookedOnce,
                FreshIds, OneLooksUp, LookedUp, Lines
  <2> QED  BY <2>1, <2>2, <2>3, <2>4, <2>5, <2>6 DEF ImportNext, DialogSteps
<1> QED  BY InitInv, <1>1, PTL DEF ImportSpec

(***************************************************************************)
(* The state of the dialog, its calls and the bank lines booked is typed:  *)
(* what is ticked is always among the lines of the preview shown.          *)
(***************************************************************************)
THEOREM ImportTypes == ImportSpec => []ImportTypeOK
<1>1. ImportInv => ImportTypeOK
  BY DEF ImportInv
<1> QED  BY ImportInvariant, <1>1, PTL

(***************************************************************************)
(* No answer to what was asked before the dialog was closed turns up in    *)
(* the next import: preview.reset() and commit.reset() of the open effect. *)
(***************************************************************************)
THEOREM VisitsAreApart == ImportSpec => []AnswersOfThisVisit
<1>1. ImportInv => AnswersOfThisVisit
  BY DEF ImportInv, OfThisVisit, AnswersOfThisVisit
<1> QED  BY ImportInvariant, <1>1, PTL

(***************************************************************************)
(* Importing again, from any file and to any account, books an external id *)
(* of an account once, unless two commits overlap on it: the check of      *)
(* Commit in import_service.go and its insertion are two statements.       *)
(***************************************************************************)
THEOREM IdsAreImportedOnce == ImportSpec => []ImportedOnce
<1>1. ImportInv => ImportedOnce
  BY DEF ImportInv, BookedOnce, ImportedOnce
<1> QED  BY ImportInvariant, <1>1, PTL

=============================================================================
