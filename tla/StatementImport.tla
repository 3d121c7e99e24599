-------------------------- MODULE StatementImport --------------------------
(***************************************************************************)
(* Importing a bank statement: the three steps of the dialog               *)
(* (components/forms/ImportStatementModal.tsx) and the two calls of the    *)
(* import service.  The server parses the file and flags the lines that    *)
(* seem to be stored already; the user reviews them; the chosen ones are   *)
(* committed, after a second look at the external ids alone.               *)
(*                                                                         *)
(* A line is its label: the bank's external id, or Plain when it has none, *)
(* two plain lines then having the same signature.  The dialog is mounted  *)
(* with its page; both mutations are reset when it opens, which drops what *)
(* an earlier visit would have done with their answers.                    *)
(***************************************************************************)
EXTENDS Frontend, Naturals, Sequences, FiniteSets

CONSTANTS
    ExternalIds, Plain, \* the labels of lines
    Accounts,
    Files,              \* what can be chosen, by name
    Content,            \* the labels of the lines the parser finds in each
    IsCsv,              \* files read with the CSV options
    MaxRendered,        \* MAX_RENDERED_ROWS
    MaxSends,           \* bound: requests
    MaxVisits           \* bound: times the dialog opens

Labels == ExternalIds \cup {Plain}

\* The lines found, the account they were compared with, and who asked.
Preview == [lines : Seq(Labels), account : Accounts, visit : 0..MaxVisits]

ASSUME ImportAssumption ==
    /\ Plain \notin ExternalIds /\ None \notin Accounts \cup Files \cup Preview
    /\ Content \in [Files -> Seq(Labels)]
    /\ IsCsv \subseteq Files
    /\ MaxRendered \in Nat /\ MaxSends \in Nat /\ MaxVisits \in Nat

VARIABLES
    importOpen, visit, \* whether the dialog is shown, for which time
    step,              \* upload, preview or done
    account, file,
    options,           \* the CSV options differ from the defaults
    preview,           \* previewData
    ticked,            \* indexes of the lines ticked
    result,            \* the visit whose commit is shown as done
    importCalls,       \* requests under way
    sends,             \* history: requests sent
    booked,            \* server: transactions by account and label
    overlapped         \* history: an account's ids were looked up for two commits at once

importVars == <<importOpen, visit, step, account, file, options, preview, ticked,
                result, importCalls, sends, booked, overlapped>>

ImportDialog == <<importOpen, visit, step, account, file, options, preview, ticked,
                  result>>
ImportServer == <<booked, overlapped>>

ImportPending(call) == \E q \in importCalls : q.call = call /\ q.heard

-----------------------------------------------------------------------------
\* Mutant: the mutations are not reset.
KeepHearing(requests) == requests

\* preview.reset() and commit.reset()
Reset(requests) == {[q EXCEPT !.heard = FALSE] : q \in requests}

\* The effect on [open], with the account the page filters by, if any.
OpenImport ==
    /\ ~importOpen
    /\ visit < MaxVisits
    /\ importOpen' = TRUE
    /\ visit' = visit + 1
    /\ step' = "upload"
    /\ account' \in Accounts \cup {None}
    /\ file' = None
    /\ options' = FALSE
    /\ preview' = None
    /\ ticked' = {}
    /\ result' = None
    /\ importCalls' = Reset(importCalls)
    /\ UNCHANGED <<sends, ImportServer>>

\* The cross, Escape or the backdrop, whatever is pending.
CloseImport ==
    /\ importOpen
    /\ importOpen' = FALSE
    /\ UNCHANGED <<visit, step, account, file, options, preview, ticked, result,
                   importCalls, sends, ImportServer>>

\* The select of the account is never disabled.
ChooseAccount(a) ==
    /\ importOpen /\ step = "upload"
    /\ account' = a
    /\ UNCHANGED <<importOpen, visit, step, file, options, preview, ticked, result,
                   importCalls, sends, ImportServer>>

\* acceptFile, from the dialog of the browser or dropped.
ChooseFile(f) ==
    /\ importOpen /\ step = "upload"
    /\ ~ImportPending("preview")
    /\ file' = f
    /\ UNCHANGED <<importOpen, visit, step, account, options, preview, ticked, result,
                   importCalls, sends, ImportServer>>

\* Shown for a CSV file only; they outlast a change of the file.
ChangeOptions ==
    /\ importOpen /\ step = "upload"
    /\ file \in IsCsv
    /\ options' = ~options
    /\ UNCHANGED <<importOpen, visit, step, account, file, preview, ticked, result,
                   importCalls, sends, ImportServer>>

SendImport(request) ==
    /\ sends < MaxSends
    /\ sends' = sends + 1
    /\ importCalls' = importCalls \cup {request}
    /\ UNCHANGED <<ImportDialog, ImportServer>>

RunPreview ==
    /\ importOpen /\ step = "upload"
    /\ ~ImportPending("preview")
    /\ account # None /\ file # None
    /\ SendImport([call |-> "preview", id |-> sends, heard |-> TRUE, visit |-> visit,
             account |-> account, file |-> file, options |-> options /\ file \in IsCsv])

-----------------------------------------------------------------------------
Lines == IF preview = None THEN {} ELSE DOMAIN preview.lines

\* Beyond so many lines there is no box to tick.
RenderedRows == {i \in Lines : i <= MaxRendered}

Select(lines) ==
    /\ importOpen /\ step = "preview"
    /\ ticked' = lines
    /\ UNCHANGED <<importOpen, visit, step, account, file, options, preview, result,
                   importCalls, sends, ImportServer>>

TickOne(i) ==
    /\ i \in RenderedRows
    /\ Select(IF i \in ticked THEN ticked \ {i} ELSE ticked \cup {i})

\* All the lines, those not rendered too.
TickAll == Lines # {} /\ Select(IF Lines \subseteq ticked THEN {} ELSE Lines)

Back ==
    /\ importOpen /\ step = "preview"
    /\ ~ImportPending("commit")
    /\ step' = "upload"
    /\ UNCHANGED <<importOpen, visit, account, file, options, preview, ticked, result,
                   importCalls, sends, ImportServer>>

\* To the account now chosen, whichever the lines were compared with.
RunCommit ==
    /\ importOpen /\ step = "preview"
    /\ ~ImportPending("commit")
    /\ ticked # {}
    /\ SendImport([call |-> "commit", id |-> sends, heard |-> TRUE, visit |-> visit,
             account |-> account, existing |-> None, applied |-> FALSE,
             lines |-> [i \in Lines \cap ticked |-> preview.lines[i]]])

-----------------------------------------------------------------------------
(***************************************************************************)
(* classifyRow: a line with an id is a duplicate when the account has that *)
(* id or an earlier line does; one without, when the account has an entry  *)
(* with its signature.                                                     *)
(***************************************************************************)
Duplicates(lines, a) ==
    {i \in DOMAIN lines :
        \/ booked[a][lines[i]] > 0
        \/ lines[i] # Plain /\ \E j \in DOMAIN lines : j < i /\ lines[j] = lines[i]}

\* Mutant: they are added to what is ticked.
NewLinesAdded(lines, a) == ticked \cup (DOMAIN lines \ Duplicates(lines, a))

NewLines(lines, a) == DOMAIN lines \ Duplicates(lines, a)

(***************************************************************************)
(* onSuccess: the new lines are ticked and the second step is shown.  With *)
(* other options the parser may find the same lines or none it can read.   *)
(***************************************************************************)
Previewed(q) ==
    /\ q.call = "preview"
    /\ importCalls' = importCalls \ {q}
    /\ IF q.heard
       THEN LET lines == Content[q.file]
            IN  /\ preview' = [lines |-> lines, account |-> q.account, visit |-> q.visit]
                /\ ticked' = NewLines(lines, q.account)
                /\ step' = "preview"
       ELSE UNCHANGED <<preview, ticked, step>>
    /\ UNCHANGED <<importOpen, visit, account, file, options, result, sends,
                   ImportServer>>

\* Commit: one query for the external ids of the lines ...
CheckIds(q) ==
    /\ q.call = "commit" /\ q.existing = None
    /\ importCalls' = (importCalls \ {q}) \cup
                {[q EXCEPT !.existing = {i \in ExternalIds : booked[q.account][i] > 0}]}
    /\ overlapped' = (overlapped \/ \E p \in importCalls \ {q} :
                        /\ p.call = "commit" /\ p.account = q.account
                        /\ p.existing # None /\ ~p.applied)
    /\ UNCHANGED <<ImportDialog, sends, booked>>

\* Mutant: the lines are created as the preview left them.
CreatesAll(q, label) == Cardinality({i \in DOMAIN q.lines : q.lines[i] = label})

\* One transaction of each id that was not there, and every plain line.
Creates(q, label) ==
    LET n == Cardinality({i \in DOMAIN q.lines : q.lines[i] = label})
    IN  IF label = Plain THEN n
        ELSE IF label \in q.existing \/ n = 0 THEN 0 ELSE 1

\* ... then all the rows in one database transaction.
Create(q) ==
    /\ q.call = "commit" /\ q.existing # None /\ ~q.applied
    /\ booked' = [booked EXCEPT ![q.account] =
                     [l \in Labels |-> @[l] + Creates(q, l)]]
    /\ importCalls' = (importCalls \ {q}) \cup {[q EXCEPT !.applied = TRUE]}
    /\ UNCHANGED <<ImportDialog, sends, overlapped>>

Committed(q) ==
    /\ q.call = "commit" /\ q.applied
    /\ importCalls' = importCalls \ {q}
    /\ IF q.heard THEN result' = q.visit /\ step' = "done"
       ELSE UNCHANGED <<result, step>>
    /\ UNCHANGED <<importOpen, visit, account, file, options, preview, ticked, sends,
                   ImportServer>>

\* A refusal, or an answer lost after the rows were created: a toast.
ImportFails(q) ==
    /\ q.call = "commit" => q.existing = None \/ q.applied
    /\ importCalls' = importCalls \ {q}
    /\ UNCHANGED <<ImportDialog, sends, ImportServer>>

-----------------------------------------------------------------------------
ImportInit ==
    /\ importOpen = FALSE /\ visit = 0 /\ step = "upload"
    /\ account = None /\ file = None /\ options = FALSE
    /\ preview = None /\ ticked = {} /\ result = None
    /\ importCalls = {} /\ sends = 0
    /\ booked = [a \in Accounts |-> [l \in Labels |-> 0]]
    /\ overlapped = FALSE

ImportNext ==
    \/ OpenImport \/ CloseImport
    \/ \E a \in Accounts : ChooseAccount(a)
    \/ \E f \in Files : ChooseFile(f)
    \/ ChangeOptions \/ RunPreview
    \/ \E i \in Lines : TickOne(i)
    \/ TickAll \/ Back \/ RunCommit
    \/ \E q \in importCalls :
          Previewed(q) \/ CheckIds(q) \/ Create(q) \/ Committed(q) \/ ImportFails(q)

ImportSpec == ImportInit /\ [][ImportNext]_importVars

-----------------------------------------------------------------------------
ImportTypeOK ==
    /\ importOpen \in BOOLEAN /\ visit \in 0..MaxVisits
    /\ step \in {"upload", "preview", "done"}
    /\ account \in Accounts \cup {None} /\ file \in Files \cup {None}
    /\ options \in BOOLEAN
    /\ preview \in Preview \cup {None} /\ ticked \subseteq Lines
    /\ result \in 0..MaxVisits \cup {None}
    /\ sends \in 0..MaxSends
    /\ overlapped \in BOOLEAN

(***************************************************************************)
(* What an open dialog shows - lines to review, or an import that is done  *)
(* - comes from requests of this visit: an answer to what was asked before *)
(* the dialog was closed never turns up in the next import.                *)
(***************************************************************************)
AnswersOfThisVisit ==
    importOpen =>
        /\ preview # None => preview.visit = visit
        /\ result # None => result = visit

(***************************************************************************)
(* "Duplicates (by ExternalID) are re-checked and skipped": however often  *)
(* a statement is imported, to whichever account and with whatever lines   *)
(* ticked, an account has one transaction of an external id - as long as   *)
(* no two imports of the account overlap on it.                            *)
(***************************************************************************)
ImportedOnce ==
    ~overlapped => \A a \in Accounts : \A i \in ExternalIds : booked[a][i] <= 1
=============================================================================
