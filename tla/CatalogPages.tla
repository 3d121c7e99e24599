---------------------------- MODULE CatalogPages ----------------------------
(***************************************************************************)
(* The pages that keep a list - accounts, categories, tags, contacts,      *)
(* goals, rules, recurrences, cards and their invoices, bills, budgets,    *)
(* attachments, members, invitations, sessions, notifications, users -     *)
(* with the dialogs that create and edit its rows.  They are one machine   *)
(* with a table: a page reads one list, offers buttons by row and by role, *)
(* mounts its dialog once and keeps it mounted while it is closed; every   *)
(* button has a mutation of its own, whose success invalidates the         *)
(* families DataHooks lists.                                               *)
(*                                                                         *)
(* A list is known by the rows it has and by its version, the number of    *)
(* writes it has seen.  Of a dialog's fields those are kept that block its *)
(* submission while they are empty.  A request is answered in two steps:   *)
(* the server applies it, and the browser learns of it, or does not.       *)
(***************************************************************************)
EXTENDS Frontend, DataHooks, Naturals, FiniteSets

CONSTANTS
    Asked,    \* a fetch the server has not read for yet
    Rows,     \* ids of rows
    Special,  \* rows treated apart: the owner's and one's own membership,
              \* a goal that is reached, a paid bill or invoice, the
              \* user's current session, a disabled user
    MaxWrites \* bound: requests of one visit to a page

ASSUME CatalogAssumption ==
    None \notin Rows /\ Special \subseteq Rows /\ MaxWrites \in Nat

-----------------------------------------------------------------------------
\* What the row of a list offers to whom may write.
AccountCard(row) == {"edit", "remove"}
CategoryChip(row) == {"edit", "remove"}
TagRow(row) == {"edit", "remove"}
ContactCard(row) == {"edit", "remove"}
CreditCardItem(row) == {"edit", "remove"}
RuleRow(row) == {"edit", "remove", "toggle"}
RecurrenceRow(row) == {"edit", "remove", "toggle", "run"}
GoalCard(row) ==
    {"edit", "remove"} \cup {b \in {"add"} : row \notin Special}
MemberRow(row) == {b \in {"role", "remove"} : row \notin Special}
BudgetRow(row) == {"edit", "remove"}
\* Unless it is paid, or nothing of it is open.
InvoiceRow(row) == {b \in {"pay"} : row \notin Special}
BillRow(row) == IF row \in Special THEN {"unsettle"} ELSE {"settle"}
\* Any of them, the current one too: the page cannot tell which it is.
SessionRow(row) == {"revoke"}
\* The rows are the unread ones.
NotificationItem(row) == {"read"}

(***************************************************************************)
(* The dialogs: the fields the schema requires, those of them a new row    *)
(* begins without, what the effect refills all of them upon, and what      *)
(* follows a success.                                                      *)
(***************************************************************************)
Dialog(needs, blank, refills) ==
    [needs |-> needs, blank |-> blank, refills |-> refills, saved |-> "closes"]

AccountFormModal == Dialog({"name"}, {"name"}, {"open", "row"})
CategoryFormModal == Dialog({"name"}, {"name"}, {"open", "row"})
TagFormModal == Dialog({"name"}, {"name"}, {"open", "row"})
ContactFormModal == Dialog({"name"}, {"name"}, {"open", "row"})
GoalFormModal ==
    Dialog({"name", "target_amount"}, {"name", "target_amount"}, {"open", "row"})
RuleFormModal ==
    Dialog({"pattern", "category_id"}, {"pattern", "category_id"}, {"open", "row"})
RecurrenceFormModal ==
    Dialog({"description", "amount", "account_id", "start_date"},
           {"description", "amount"}, {"open", "row", "accounts"})
CreditCardFormModal ==
    Dialog({"name", "limit", "closing_day", "due_day"}, {"name", "limit"},
           {"open", "row"})
\* The contribution to a goal.
AddValueModal == Dialog({"amount"}, {"amount"}, {"open"})
BudgetFormModal ==
    Dialog({"category_id", "amount"}, {"category_id", "amount"}, {"open", "row"})
\* The account and the date have defaults, and may be left out.
SettleModal == Dialog({}, {}, {"open", "row", "accounts"})
\* The first account is chosen, when there is one.
PayInvoiceModal == Dialog({"account_id"}, {}, {"open", "accounts"})
\* Emptied when it closes, and so when it opens.
AdminResetPasswordModal ==
    Dialog({"new_password", "confirm_password"}, {"new_password", "confirm_password"},
           {"open"})
\* Once created, the invitation's token is shown in place of the form.
InviteMemberModal ==
    [Dialog({"email"}, {"email"}, {"open"}) EXCEPT !.saved = "shows"]

-----------------------------------------------------------------------------
(***************************************************************************)
(* The pages: the list read, the hooks, the buttons of the rows, those of  *)
(* the page with the number of rows they need, the dialogs, what a button  *)
(* waits for, and who is offered any button.  Most removals are confirmed  *)
(* first, and never disabled.                                              *)
(*                                                                         *)
(* A button waits for "any" request of its own, for those of its "row", or *)
(* for its row's if it is the "last" that was sent.                        *)
(***************************************************************************)
\* useIsViewer and useIsAdmin, negated and positive
Writers == {"owner", "admin", "member"}

Catalog(family, hooks, Buttons(_), dialogs) ==
    [reads |-> family, hooks |-> hooks,
     buttons |-> [r \in Rows |-> Buttons(r)], page |-> [create |-> 0],
     dialogs |-> dialogs, waits |-> <<>>, roles |-> Writers]

AccountsPage == Catalog("accounts", AccountHooks, AccountCard, [form |-> AccountFormModal])
CategoriesPage ==
    Catalog("categories", CategoryHooks, CategoryChip, [form |-> CategoryFormModal])
TagsPage == Catalog("tags", TagHooks, TagRow, [form |-> TagFormModal])
ContactsPage == Catalog("contacts", ContactHooks, ContactCard, [form |-> ContactFormModal])
CreditCardsPage ==
    Catalog("credit-cards", CreditCardHooks, CreditCardItem, [form |-> CreditCardFormModal])
BudgetsTable == Catalog("budgets", BudgetHooks, BudgetRow, [form |-> BudgetFormModal])
GoalsPage ==
    Catalog("goals", GoalHooks, GoalCard, [form |-> GoalFormModal, add |-> AddValueModal])
\* The rules are applied when there is one.
CategorizationPage ==
    [Catalog("categorization-rules", CategorizationHooks, RuleRow, [form |-> RuleFormModal])
        EXCEPT !.page = [create |-> 0, apply |-> 1],
               !.waits = [toggle |-> "any", apply |-> "any"]]
RecurrencesPage ==
    [Catalog("recurrences", RecurrenceHooks, RecurrenceRow, [form |-> RecurrenceFormModal])
        EXCEPT !.waits = [toggle |-> "any", run |-> "any"]]
\* Anyone else is redirected to the dashboard.
MembersPage ==
    [Catalog("members", MemberHooks, MemberRow, [form |-> InviteMemberModal])
        EXCEPT !.page = <<>>, !.roles = {"owner", "admin"}]
PendingInvitations ==
    [Catalog("invitations",
             [create |-> MemberHooks.invite, remove |-> MemberHooks.revoke],
             LAMBDA row : {"remove"}, [form |-> InviteMemberModal])
        EXCEPT !.roles = {"owner", "admin"}]
\* The bills of one filter, without the dialog that creates one.
BillsTable ==
    [Catalog("payables", TransactionHooks, BillRow, [form |-> SettleModal])
        EXCEPT !.page = <<>>, !.waits = [unsettle |-> "last"]]
InvoicesModal ==
    [Catalog("invoices", InvoiceHooks, InvoiceRow, [form |-> PayInvoiceModal])
        EXCEPT !.page = <<>>]
\* A file of another type or above the size is not sent.
AttachmentsSection ==
    [Catalog("attachments", AttachmentHooks, LAMBDA row : {"remove"}, <<>>)
        EXCEPT !.page = [upload |-> 0],
               !.waits = [upload |-> "any", remove |-> "last"]]
SessionsCard ==
    [Catalog("sessions", SessionHooks, SessionRow, <<>>)
        EXCEPT !.page = [revokeOthers |-> 2],
               !.waits = [revokeOthers |-> "any", revoke |-> "row"],
               !.roles = Writers \cup {"viewer"}]
NotificationBell ==
    [Catalog("notifications", NotificationHooks, NotificationItem, <<>>)
        EXCEPT !.page = [readAll |-> 1],
               !.waits = [readAll |-> "any"],
               !.roles = Writers \cup {"viewer"}]
\* A new password, for users that are not disabled.
AdminUsers ==
    [Catalog("admin", AdminHooks, LAMBDA row : {b \in {"password"} : row \notin Special},
             [form |-> AdminResetPasswordModal])
        EXCEPT !.page = <<>>, !.roles = {"super"}]

Page ==
    [accounts |-> AccountsPage, categories |-> CategoriesPage, tags |-> TagsPage,
     contacts |-> ContactsPage, cards |-> CreditCardsPage, budgets |-> BudgetsTable,
     goals |-> GoalsPage, rules |-> CategorizationPage, recurrences |-> RecurrencesPage,
     members |-> MembersPage, invitations |-> PendingInvitations, bills |-> BillsTable,
     invoices |-> InvoicesModal, attachments |-> AttachmentsSection,
     sessions |-> SessionsCard, notifications |-> NotificationBell, users |-> AdminUsers]

\* The button that opens a dialog, and the dialog it opens.
Opens ==
    [create |-> "form", edit |-> "form", settle |-> "form", pay |-> "form",
     password |-> "form", add |-> "add"]

\* The mutation behind a button.
Mutation(button) ==
    CASE button \in {"edit", "add", "toggle"} -> "update"
      [] button = "password" -> "resetPassword"
      [] OTHER -> button

-----------------------------------------------------------------------------
VARIABLES
    page, role, \* which page is shown, to whom
    server,     \* the list the server has: its rows and its version
    shown,      \* the list the page shows, None before the first answer
    outdated,   \* the cached list is invalidated
    fetch,      \* the fetch of the list: None, Asked, or what was read
    dialog,     \* the open dialog: its name, button and row, or None
    draft,      \* the required fields of the dialog that are empty
    pending,    \* requests under way
    writes,     \* history: requests sent
    saves,      \* history: requests of the open dialog that were applied,
                \* but for those whose answer was lost
    unseen      \* history: a write was applied and its answer lost, or
                \* came before the first answer of the list

catalogVars == <<page, role, server, shown, outdated, fetch, dialog, draft, pending,
                 writes, saves, unseen>>

List == [rows : SUBSET Rows, version : 0..MaxWrites]

Buttons ==
    {"create", "edit", "remove", "toggle", "run", "add", "apply", "role", "settle",
     "unsettle", "pay", "upload", "revoke", "revokeOthers", "read", "readAll",
     "password"}

\* "last" says that no other of its button was sent since, "here" that the open
\* dialog sent it.
Request ==
    [button : Buttons, row : Rows \cup {None}, last : BOOLEAN, applied : BOOLEAN,
     here : BOOLEAN, id : Nat]

Seen == IF shown = None THEN {} ELSE shown.rows

Shape == Page[page]

\* A dialog's button waits for the mutations of that dialog.
Busy(name) == \E r \in pending : r.button \in DOMAIN Opens /\ Opens[r.button] = name

WaitsFor(button, row, r) ==
    /\ r.button = button
    /\ \/ Shape.waits[button] = "any"
       \/ r.row = row /\ (Shape.waits[button] = "row" \/ r.last)

Offered(button, row) ==
    /\ role \in Shape.roles
    /\ button \in DOMAIN Shape.waits => ~\E r \in pending : WaitsFor(button, row, r)

\* The effect of a dialog: the values of the row, or the blank ones.
FillDialog(name, row) ==
    IF row # None /\ "row" \in Shape.dialogs[name].refills THEN {}
    ELSE Shape.dialogs[name].blank

-----------------------------------------------------------------------------
\* A dialog covers the page: a button of the page is clicked without one.
OpenDialog(button, row) ==
    /\ dialog = None
    /\ Offered(button, row)
    /\ dialog' = [name |-> Opens[button], button |-> button, row |-> row]
    /\ draft' = FillDialog(Opens[button], row)
    /\ saves' = 0
    /\ UNCHANGED <<page, role, server, shown, outdated, fetch, pending, writes, unseen>>

OpenForCreate == "create" \in DOMAIN Shape.page /\ OpenDialog("create", None)

OpenForRow ==
    \E row \in Seen : \E button \in Shape.buttons[row] \cap DOMAIN Opens :
        OpenDialog(button, row)

\* Cancel, the cross, Escape or the backdrop, while a request is pending too.
CloseDialog ==
    /\ dialog # None
    /\ dialog' = None
    /\ pending' = {[r EXCEPT !.here = FALSE] : r \in pending}
    /\ UNCHANGED <<page, role, server, shown, outdated, fetch, draft, writes, saves, unseen>>

Edited(missing) ==
    /\ draft' = missing
    /\ UNCHANGED <<page, role, server, shown, outdated, fetch, dialog, pending, writes,
                   saves, unseen>>

\* Only a dialog that shows its form has fields.
Type(field) == dialog # None /\ Edited(draft \ {field})
Erase(field) == dialog # None /\ Edited(draft \cup {field})

SendWrite(button, row, here) ==
    /\ writes < MaxWrites
    /\ writes' = writes + 1
    /\ pending' = {[r EXCEPT !.last = @ /\ r.button # button] : r \in pending}
                \cup {[button |-> button, row |-> row, last |-> TRUE,
                       applied |-> FALSE, here |-> here, id |-> writes]}
    /\ UNCHANGED <<page, role, server, shown, outdated, fetch, dialog, draft, saves, unseen>>

\* Mutant: the button of a dialog does not wait.
SubmitDialogTwice ==
    /\ dialog # None
    /\ dialog.button # "shown"
    /\ draft = {}
    /\ SendWrite(dialog.button, dialog.row, TRUE)

SubmitDialog ==
    /\ dialog # None
    /\ dialog.button # "shown"
    /\ ~Busy(dialog.name)
    /\ draft = {}
    /\ SendWrite(dialog.button, dialog.row, TRUE)

\* Toggles, runs, roles and removals take the row as the list shows it.
ClickRow ==
    /\ dialog = None
    /\ \E row \in Seen : \E button \in Shape.buttons[row] \ DOMAIN Opens :
          Offered(button, row) /\ SendWrite(button, row, FALSE)

ClickPage ==
    /\ dialog = None
    /\ \E button \in DOMAIN Shape.page \ {"create"} :
          /\ Cardinality(Seen) >= Shape.page[button]
          /\ Offered(button, None)
          /\ SendWrite(button, None, FALSE)

-----------------------------------------------------------------------------
(***************************************************************************)
(* The server.  An update of a row that is gone, or a validation, refuses. *)
(* Applying the rules and setting a password leave the list as it is.      *)
(***************************************************************************)
Creating == {"create", "upload"}

Written(r) ==
    [rows |-> CASE r.button \in {"remove", "revoke", "read"} -> server.rows \ {r.row}
                [] r.button \in Creating ->
                     server.rows \cup {CHOOSE row \in Rows \ server.rows : TRUE}
                [] r.button = "revokeOthers" -> server.rows \cap Special
                [] r.button = "readAll" -> {}
                [] OTHER -> server.rows,
     version |-> IF r.button \in {"apply", "password"} THEN server.version
                 ELSE server.version + 1]

ApplyWrite(r) ==
    /\ ~r.applied
    /\ r.row \in server.rows \cup {None} \/ r.button = "read"
    /\ r.button \in Creating => server.rows # Rows
    /\ server' = Written(r)
    /\ pending' = (pending \ {r}) \cup {[r EXCEPT !.applied = TRUE]}
    /\ saves' = IF r.here THEN saves + 1 ELSE saves
    /\ UNCHANGED <<page, role, shown, outdated, fetch, dialog, draft, writes, unseen>>

\* Mutant: any fetch under way is left to finish.
InvalidateLazily(families) ==
    IF Shape.reads \in families
    THEN /\ outdated' = TRUE
         /\ fetch' = IF fetch = None THEN Asked ELSE fetch
         /\ unseen' = (unseen \/ (shown = None /\ fetch # None))
    ELSE UNCHANGED <<outdated, fetch, unseen>>

(***************************************************************************)
(* The library cancels the fetch under way and starts another, but lets a  *)
(* first fetch go on: there is nothing to show meanwhile.                  *)
(***************************************************************************)
Invalidate(families) ==
    IF Shape.reads \in families
    THEN /\ outdated' = TRUE
         /\ fetch' = IF shown = None /\ fetch # None THEN fetch ELSE Asked
         /\ unseen' = (unseen \/ (shown = None /\ fetch # None))
    ELSE UNCHANGED <<outdated, fetch, unseen>>

(***************************************************************************)
(* onSuccess of the call: onClose closes the dialog of that name, whatever *)
(* it now shows; an invitation replaces the form by its token.             *)
(***************************************************************************)
AfterSuccess(r) ==
    IF r.button \in DOMAIN Opens /\ dialog # None /\ Opens[r.button] = dialog.name
    THEN IF Shape.dialogs[dialog.name].saved = "closes" THEN None
         ELSE [dialog EXCEPT !.button = "shown"]
    ELSE dialog

WriteSucceeds(r) ==
    /\ r.applied
    /\ pending' = pending \ {r}
    /\ Invalidate(Shape.hooks[Mutation(r.button)])
    /\ dialog' = AfterSuccess(r)
    /\ UNCHANGED <<page, role, server, shown, draft, writes, saves>>

\* A toast, and the server's messages on the fields; nothing is refetched.
WriteFails(r) ==
    /\ pending' = pending \ {r}
    /\ unseen' = (unseen \/ r.applied)
    /\ saves' = IF r.here /\ r.applied THEN saves - 1 ELSE saves
    /\ UNCHANGED <<page, role, server, shown, outdated, fetch, dialog, draft, writes>>

ReadList ==
    /\ fetch = Asked
    /\ fetch' = server
    /\ UNCHANGED <<page, role, server, shown, outdated, dialog, draft, pending,
                   writes, saves, unseen>>

\* Lists come back in new objects; the row a dialog was opened for does not.
ListAnswers ==
    /\ fetch \notin {None, Asked}
    /\ shown' = fetch
    /\ fetch' = None
    /\ outdated' = FALSE
    /\ UNCHANGED <<page, role, server, dialog, draft, pending, writes, saves, unseen>>

\* After its retries; the list stays as it was, and invalidated.
ListFails ==
    /\ fetch # None
    /\ fetch' = None
    /\ UNCHANGED <<page, role, server, shown, outdated, dialog, draft, pending,
                   writes, saves, unseen>>

\* refetchInterval of the notifications
Poll ==
    /\ page = "notifications" /\ fetch = None
    /\ fetch' = Asked
    /\ UNCHANGED <<page, role, server, shown, outdated, dialog, draft, pending,
                   writes, saves, unseen>>

\* The accounts of a select arrive, or change.
AccountsAnswer ==
    /\ dialog # None
    /\ "accounts" \in Shape.dialogs[dialog.name].refills
    /\ draft' = FillDialog(dialog.name, dialog.row)
    /\ UNCHANGED <<page, role, server, shown, outdated, fetch, dialog, pending, writes,
                   saves, unseen>>

-----------------------------------------------------------------------------
CatalogInit ==
    /\ page \in DOMAIN Page
    /\ role \in IF page = "users" THEN {"super"} ELSE {"admin", "viewer"}
    /\ \E row \in Rows : server = [rows |-> {row}, version |-> 0]
    /\ shown = None
    /\ outdated = TRUE
    /\ fetch = Asked
    /\ dialog = None
    /\ draft = {}
    /\ pending = {}
    /\ writes = 0
    /\ saves = 0
    /\ unseen = FALSE

CatalogNext ==
    \/ OpenForCreate \/ OpenForRow \/ CloseDialog
    \/ dialog # None /\ \E field \in Shape.dialogs[dialog.name].needs :
          Type(field) \/ Erase(field)
    \/ SubmitDialog \/ ClickRow \/ ClickPage
    \/ \E r \in pending : ApplyWrite(r) \/ WriteSucceeds(r) \/ WriteFails(r)
    \/ ReadList \/ ListAnswers \/ ListFails \/ Poll \/ AccountsAnswer

CatalogSpec == CatalogInit /\ [][CatalogNext]_catalogVars

-----------------------------------------------------------------------------
CatalogTypeOK ==
    /\ page \in DOMAIN Page
    /\ role \in {"owner", "admin", "member", "viewer", "super"}
    /\ server \in List
    /\ shown \in List \cup {None}
    /\ outdated \in BOOLEAN
    /\ fetch \in {None, Asked} \cup List
    /\ dialog # None => dialog.name \in DOMAIN Shape.dialogs
    /\ dialog # None => draft \subseteq Shape.dialogs[dialog.name].needs
    /\ pending \subseteq Request
    /\ writes \in 0..MaxWrites
    /\ saves \in Nat
    /\ unseen \in BOOLEAN

(***************************************************************************)
(* What was written is shown: when no request is under way and the list is *)
(* not marked for a refetch, it is the server's - unless the answer to a   *)
(* write was lost, or came while the list was first being fetched.         *)
(***************************************************************************)
OwnWritesShow ==
    pending = {} /\ fetch = None /\ ~outdated /\ ~unseen => shown = server

(***************************************************************************)
(* One opening of a dialog saves once, whether it creates or edits: nobody *)
(* books a row twice by an impatient second click, by closing the dialog   *)
(* and opening it again while its request is under way, or while the       *)
(* accounts of its select arrive - unless the answer was lost, when the    *)
(* form stays and its user cannot know.  The dialog's button waits for its *)
(* mutations, and their success closes it or replaces the form.            *)
(***************************************************************************)
SavesOnce == saves <= 1
=============================================================================
