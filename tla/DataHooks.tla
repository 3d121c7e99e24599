------------------------------ MODULE DataHooks ------------------------------
(***************************************************************************)
(* The data hooks of the frontend (hooks/*.ts): for each mutation, the     *)
(* families of cached queries it invalidates when the server answers that  *)
(* it succeeded.  No hook invalidates anything when a request fails, none  *)
(* returns the promise of the refetch, so a mutation is over before the    *)
(* lists it invalidated are back, and none is retried.                     *)
(*                                                                         *)
(* Keys begin with the family and the organization; "me", "sessions",      *)
(* "admin" and "currencies" carry no organization.                         *)
(***************************************************************************)
Crud(families) == [op \in {"create", "update", "remove"} |-> families]

\* useInvalidateTransactional
Transactional ==
    {"transactions", "payables", "receivables", "forecast", "dashboard",
     "accounts", "credit-cards", "invoices"}

\* create, update, remove, settle, unsettle and the bulk operations
TransactionHooks ==
    [op \in {"create", "update", "remove", "settle", "unsettle", "bulkSettle",
            "bulkCategorize", "bulkDelete"} |-> Transactional]

AccountHooks == Crud({"accounts", "dashboard"})

CategoryHooks == Crud({"categories"})

TagHooks == Crud({"tags", "transactions"})

ContactHooks == Crud({"contacts"})

BudgetHooks == Crud({"budgets"})

GoalHooks == Crud({"goals"})

CategorizationHooks ==
    [op \in {"create", "update", "remove", "apply"} |->
        IF op = "apply" THEN {"transactions", "payables", "receivables", "dashboard"}
        ELSE {"categorization-rules"}]

RecurrenceHooks ==
    [op \in {"create", "update", "remove", "run"} |->
        IF op = "run" THEN {"recurrences", "transactions", "dashboard", "payables",
                            "receivables", "accounts", "forecast"}
        ELSE {"recurrences"}]

CreditCardHooks == Crud({"credit-cards"})

\* usePayInvoice, with the lists of invoices and the invoice it reads
InvoiceHooks ==
    [pay |-> {"credit-cards", "invoices", "invoice", "transactions",
              "payables", "dashboard", "accounts"}]

MemberHooks ==
    [role |-> {"members"}, remove |-> {"members"},
     invite |-> {"invitations"}, revoke |-> {"invitations"}]

AttachmentHooks ==
    [op \in {"upload", "remove"} |-> {"attachments", "transactions"}]

NotificationHooks ==
    [op \in {"read", "readAll"} |-> {"notifications"}]

SessionHooks == [op \in {"revoke", "revokeOthers"} |-> {"sessions"}]

\* Lists and counts of the administration; a new password changes neither.
AdminHooks == [disable |-> {"admin"}, enable |-> {"admin"}, resetPassword |-> {}]
=============================================================================
