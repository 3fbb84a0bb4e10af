------------------------------ MODULE SqlEditor ------------------------------
(***************************************************************************)
(* The SQL editor of a workspace tab (components/sql-editor.tsx): a run    *)
(* splits the text into statements, sends them one by one, each after the  *)
(* answer to the one before, and shows their results when the last answer  *)
(* has come or one of them fails.  Runs overlap: the keyboard shortcut     *)
(* starts one whether or not another is in flight.                         *)
(*                                                                         *)
(* A statement is a model value with a kind, a text the sequence of its    *)
(* statements; that splitting respects quotes and comments is the subject  *)
(* of SqlStatements.  What the native side makes of a statement is left    *)
(* open: it answers with a full page, a short one, or an error.            *)
(***************************************************************************)
EXTENDS Absent, Integers, Sequences

CONSTANTS
    Text,          \* the texts the user runs: the editor's, or a selection in it
    StatementsOf,  \* splitSqlStatements: the statements of each text
    Chained,       \* the texts whose statements are separated by semicolons
    StatementKind, \* "select", "values" (rows, but no read-only keyword) or "write"
    Limits,        \* the row limits offered; 0 is "No limit"
    MaxRuns        \* bound: runs of one mounted editor

ASSUME EditorAssumption ==
    /\ 0 \in Limits /\ Limits \subseteq Nat
    /\ \A t \in Text : StatementsOf[t] # <<>>
    /\ MaxRuns \in Nat /\ None \notin Nat

VARIABLES
    draft,       \* sql: the editor's text
    base,        \* baseSqlRef: the text that the page buttons run
    limit,       \* queryLimit
    offset,      \* the page of the result on display
    readOnly,    \* the saved profile's flag, as last rendered
    runs,        \* every executeQuery call, in the order they started
    watched,     \* the run whose statement was sent last: what isPending follows
    executing,   \* isExecutingBatch
    cancelling,  \* isCancellingRef
    notice,      \* "error", "cancelled": the messages on display
    result,      \* the single result on display
    results,     \* the results of several statements
    executed,    \* executedStatements
    activeResult,\* activeResultIndex
    edit,        \* the cell edit in flight: the statement it was derived from
    mounted

editorInput == <<draft, base, limit, offset, readOnly>>
editorView == <<cancelling, notice, result, results, executed, activeResult>>
editorVars == <<editorInput, editorView, runs, watched, executing, edit, mounted>>

Run == DOMAIN runs
InFlight(r) == runs[r].phase = "sent"

EditorTypeOK ==
    /\ {draft, base} \subseteq Text /\ limit \in Limits /\ offset \in Nat
    /\ \A r \in Run :
          /\ runs[r].phase \in {"sent", "over"}
          /\ runs[r].text \in Text
          /\ Len(runs[r].sent) <= Len(StatementsOf[runs[r].text])
          /\ Len(runs[r].answers) <= Len(runs[r].sent)
    /\ watched \in Run \cup {None}
    /\ notice \subseteq {"error", "cancelled"}
    /\ {readOnly, executing, cancelling, mounted} \subseteq BOOLEAN

EditorInit ==
    /\ draft \in Text /\ base = draft
    /\ limit \in Limits \ {0} /\ offset = 0
    /\ readOnly \in BOOLEAN
    /\ runs = <<>> /\ watched = None
    /\ executing = FALSE /\ cancelling = FALSE /\ notice = {}
    /\ result = None /\ results = <<>> /\ executed = <<>> /\ activeResult = 1
    /\ edit = None
    /\ mounted = TRUE

-----------------------------------------------------------------------------
(* The checks and the limit put on a text.                                  *)

Limitable(s) == StatementKind[s] \in {"select", "values"}

\* applyQueryLimit on a whole text: only a single statement takes the clause.
LimitOfText(t, n) ==
    IF Len(StatementsOf[t]) = 1 /\ Limitable(StatementsOf[t][1]) THEN n ELSE 0

\* isQuerySafe on the normalized original, when the profile is read-only.
OriginalIsSafe(t) ==
    /\ t \notin Chained
    /\ StatementKind[StatementsOf[t][1]] = "select"
    /\ \A i \in DOMAIN StatementsOf[t] : StatementKind[StatementsOf[t][i]] # "write"

StatementIsSafe(s) == StatementKind[s] = "select"

\* One turn of runSqlBatch's loop: the i-th statement is limited, screened, sent.
\* Mutant: the statements after the first are not screened.
SendableFirstOnly(run, i) ==
    ~run.readOnly \/ i > 1 \/ StatementIsSafe(StatementsOf[run.text][i])

Sendable(run, i) == ~run.readOnly \/ StatementIsSafe(StatementsOf[run.text][i])

Send(run, i) ==
    LET s == StatementsOf[run.text][i]
    IN  [run EXCEPT !.sent = Append(@, [statement |-> s,
             limit |-> IF run.appended > 0 THEN run.appended
                       ELSE IF Limitable(s) THEN run.limit ELSE 0])]

-----------------------------------------------------------------------------
(* executeQuery, up to the first request.  run.limit and run.readOnly are   *)
(* the values its closure captured.                                         *)

NewRun(t, n, screened) ==
    [text |-> t, appended |-> LimitOfText(t, n), limit |-> limit, readOnly |-> screened,
     sent |-> <<>>, answers |-> <<>>, phase |-> "sent", aborted |-> FALSE]

\* What a finished run showed is in the view; only what it sent is kept.
Over(run) == [run EXCEPT !.phase = "over", !.answers = <<>>]

\* The table on display unmounts with the result: its edit is aborted.
ExecuteQuery(t, n, screened) ==
    LET run == NewRun(t, n, screened)
        refused == (screened /\ ~OriginalIsSafe(t)) \/ ~Sendable(run, 1)
    IN  /\ mounted /\ Len(runs) < MaxRuns
        /\ result' = None /\ results' = <<>> /\ executed' = <<>> /\ activeResult' = 1
        /\ cancelling' = FALSE
        /\ edit' = None
        /\ IF refused
           THEN /\ runs' = Append(runs, Over(run))
                /\ notice' = {"error"}
                /\ executing' = FALSE
                /\ UNCHANGED watched
           ELSE /\ runs' = Append(runs, Send(run, 1))
                /\ notice' = {}
                /\ executing' = TRUE
                /\ watched' = Len(runs) + 1

\* handleRun: the Run button, Mod-Enter, or a tab opened to run at once.
HandleRun(t) ==
    /\ ExecuteQuery(t, limit, readOnly)
    /\ base' = t /\ offset' = 0
    /\ UNCHANGED <<draft, limit, readOnly, mounted>>

-----------------------------------------------------------------------------
(* The native answers.                                                      *)

\* The results a finished run puts on display.
Show(r, answers) ==
    LET items == [i \in DOMAIN answers |-> [run |-> r, index |-> i, full |-> answers[i]]]
        shown == SubSeq(StatementsOf[runs[r].text], 1, Len(answers))
    IN  /\ executed' = shown
        /\ IF Len(answers) = 1
           THEN result' = items[1] /\ UNCHANGED <<results, activeResult>>
           ELSE results' = items /\ activeResult' = 1 /\ UNCHANGED result

\* An answer whose request was not aborted: the next statement, or the end.
\* full: the statement returned as many rows as its limit.
AnswerRun(r, full) ==
    LET run == [runs[r] EXCEPT !.answers = Append(@, full)]
        i == Len(run.answers) + 1
        last == i > Len(StatementsOf[run.text])
    IN  IF ~last /\ Sendable(run, i)
        THEN /\ runs' = [runs EXCEPT ![r] = Send(run, i)]
             /\ watched' = r
             /\ UNCHANGED <<executing, editorView, edit>>
        ELSE /\ runs' = [runs EXCEPT ![r] = Over(run)]
             /\ Show(r, run.answers)
             /\ edit' = None
             /\ notice' = IF last THEN notice ELSE notice \cup {"error"}
             /\ executing' = FALSE
             /\ UNCHANGED <<watched, cancelling>>

\* The request failed, or was aborted: a late answer of an aborted request is
\* dropped (use-gui-requests.ts, gui-request.ts), and the batch ends here.
FailRun(r) ==
    /\ runs' = [runs EXCEPT ![r] = Over(@)]
    /\ notice' = IF runs[r].aborted \/ cancelling THEN {"cancelled"} ELSE notice \cup {"error"}
    /\ executing' = FALSE
    /\ UNCHANGED <<watched, cancelling, result, results, executed, activeResult, edit>>

\* Mutant: the answer of an aborted request still counts as an answer.
AnswerKeepsGoing(r) ==
    /\ InFlight(r)
    /\ FailRun(r) \/ \E full \in BOOLEAN : AnswerRun(r, full)
    /\ UNCHANGED <<editorInput, mounted>>

StatementAnswered(r) ==
    /\ InFlight(r)
    /\ FailRun(r) \/ (~runs[r].aborted /\ \E full \in BOOLEAN : AnswerRun(r, full))
    /\ UNCHANGED <<editorInput, mounted>>

-----------------------------------------------------------------------------
(* Cancel, and leaving the tab.                                             *)

CancelOffered == executing \/ (watched # None /\ InFlight(watched))

AbortAll == [r \in Run |-> [runs[r] EXCEPT !.aborted = @ \/ InFlight(r)]]

\* handleCancel: the Cancel button, or Escape while it is offered.
HandleCancel ==
    /\ mounted /\ CancelOffered
    /\ cancelling' = TRUE
    /\ runs' = AbortAll
    /\ UNCHANGED <<editorInput, notice, result, results, executed, activeResult,
                   watched, executing, edit, mounted>>

\* Another tab is shown, or this one is closed: both hooks' requests are aborted.
CloseEditor ==
    /\ mounted
    /\ mounted' = FALSE
    /\ runs' = AbortAll
    /\ result' = None /\ results' = <<>>
    /\ edit' = None
    /\ UNCHANGED <<editorInput, cancelling, notice, executed, activeResult, watched, executing>>

-----------------------------------------------------------------------------
(* The result table.                                                        *)

\* The table on display is the one of results while there are any.
Shown ==
    IF results # <<>> THEN results[activeResult]
    ELSE result

HasResult == mounted /\ Shown # None

\* goNextPage and goPrevPage; refreshCurrentResult after a cell edit.
GoToPage(newOffset, screened) ==
    /\ ExecuteQuery(base, limit, screened)
    /\ offset' = newOffset
    /\ UNCHANGED <<draft, base, limit, readOnly, mounted>>

GoNextPage == HasResult /\ limit # 0 /\ Shown.full /\ GoToPage(offset + limit, readOnly)

GoPrevPage ==
    /\ HasResult /\ offset # 0
    /\ GoToPage(IF offset > limit THEN offset - limit ELSE 0, readOnly)

\* onLimitChange: the editor's text is run, and base stays as it was.
OnLimitChange(n) ==
    /\ HasResult /\ n # limit
    /\ ExecuteQuery(draft, n, readOnly)
    /\ limit' = n /\ offset' = 0
    /\ UNCHANGED <<draft, base, readOnly, mounted>>

SelectResult(i) ==
    /\ mounted /\ i \in DOMAIN results /\ i # activeResult
    /\ activeResult' = i
    /\ edit' = None
    /\ UNCHANGED <<editorInput, cancelling, notice, result, results, executed,
                   runs, watched, executing, mounted>>

\* saveCellEdit: the table to update is read from the executed statement.
SaveCellEdit ==
    /\ HasResult /\ ~readOnly /\ edit = None
    /\ LET s == IF activeResult \in DOMAIN executed THEN executed[activeResult]
                ELSE StatementsOf[base][1]
       IN  StatementKind[s] = "select" /\ edit' = s
    /\ UNCHANGED <<editorInput, editorView, runs, watched, executing, mounted>>

\* onSuccess and onError both refresh, with the page on display and the
\* executeQuery of the time of the edit, when the profile was writable.
CellEditAnswered ==
    /\ edit # None
    /\ GoToPage(offset, FALSE)

-----------------------------------------------------------------------------
(* The editor's text, and the profile's policy edited elsewhere.            *)

HandleChange(t) ==
    /\ mounted /\ t # draft
    /\ draft' = t
    /\ UNCHANGED <<base, limit, offset, readOnly, editorView, runs, watched, executing,
                   edit, mounted>>

PolicyEdited ==
    /\ mounted
    /\ readOnly' = ~readOnly
    /\ UNCHANGED <<draft, base, limit, offset, editorView, runs, watched, executing,
                   edit, mounted>>

EditorNext ==
    \/ \E t \in Text : HandleRun(t) \/ HandleChange(t)
    \/ \E r \in Run : StatementAnswered(r)
    \/ HandleCancel \/ CloseEditor
    \/ GoNextPage \/ GoPrevPage
    \/ \E n \in Limits : OnLimitChange(n)
    \/ \E i \in DOMAIN results : SelectResult(i)
    \/ SaveCellEdit \/ CellEditAnswered
    \/ PolicyEdited

-----------------------------------------------------------------------------
(* Properties.                                                              *)

\* Once a run's request has been aborted, by Cancel or by leaving the tab, the
\* batch sends nothing more, whatever the native side still answers.
NothingSentAfterAbort ==
    [][\A r \in Run : runs[r].aborted => runs'[r].sent = runs[r].sent]_editorVars

\* A run that started under a read-only profile sends only statements that the
\* screen accepts, however the batch was separated and wherever it stops.
ReadOnlySendsSelects ==
    \A r \in Run : runs[r].readOnly =>
        \A i \in DOMAIN runs[r].sent : StatementKind[runs[r].sent[i].statement] = "select"

\* The spinner and the Cancel button do not outlive the requests, however runs overlap.
SpinnerHasARequest == executing => \E r \in Run : InFlight(r)

\* "The SQL as last-executed [...] so we can paginate by varying the offset
\* while keeping the query intact": the page buttons run the query on display.
PagesTheShownQuery == HasResult => base = runs[Shown.run].text

EditorSpec == EditorInit /\ [][EditorNext]_editorVars
=============================================================================
