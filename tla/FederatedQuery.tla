--------------------------- MODULE FederatedQuery ---------------------------
(***************************************************************************)
(* One statement run on several SQL connections at once                    *)
(* (components/federated-query-canvas.tsx, lib/federated-merge.ts).  A run *)
(* asks every selected connection, waits for all of them, and merges what  *)
(* the successful ones answered; the errors of the others are shown beside *)
(* it.  The next run cancels the one before.                               *)
(***************************************************************************)
EXTENDS Absent, Selection, SequencesExt, FiniteSets

CONSTANTS
    Source,      \* the SQL connections
    Unsafe,      \* the text that isQuerySafe refuses
    Statements,  \* the texts it lets through
    MaxFedRuns   \* bound: runs started

ASSUME FederatedAssumption ==
    /\ Unsafe \notin Statements /\ MaxFedRuns \in Nat /\ None \notin Source

VARIABLES
    fedSql,      \* sql
    selected,    \* selectedIds, in the order of selection
    fedSequence, \* runSequence
    fedRuns,     \* runs that wait for a connection: what each has answered so far
    merged,      \* mergedResult with perConnectionErrors, or None
    fedRunning,  \* isRunning
    refused      \* safetyError is set

fedVars == <<fedSql, selected, fedSequence, fedRuns, merged, fedRunning, refused>>

\* What a connection has answered.
Reply == {"waiting", "rows", "error"}

FedTypeOK ==
    /\ fedSql \in Statements \cup {Unsafe}
    /\ selected \in Seq(Source) /\ IsInjective(selected)
    /\ fedSequence \in 0 .. MaxFedRuns
    /\ \A r \in fedRuns : r.reply \in [Range(r.of) -> Reply]
    /\ {fedRunning, refused} \subseteq BOOLEAN

FedInit ==
    /\ fedSql \in Statements /\ selected = <<>>
    /\ fedSequence = 0 /\ fedRuns = {}
    /\ merged = None /\ fedRunning = FALSE /\ refused = FALSE

-----------------------------------------------------------------------------

ToggleConnection(c) ==
    /\ selected' = IF c \in Range(selected)
                   THEN Picked(selected, {i \in DOMAIN selected : selected[i] # c})
                   ELSE Append(selected, c)
    /\ UNCHANGED <<fedSql, fedSequence, fedRuns, merged, fedRunning, refused>>

EditStatement(t) ==
    /\ fedSql' = t
    /\ UNCHANGED <<selected, fedSequence, fedRuns, merged, fedRunning, refused>>

\* handleRun, also from the keyboard while a run is under way: requests.cancel() makes
\* an error of every answer the run before still waits for.
RunFederated ==
    /\ selected # <<>> /\ fedSequence < MaxFedRuns
    /\ fedSequence' = fedSequence + 1
    /\ refused' = (fedSql = Unsafe) /\ fedRunning' = ~refused'
    /\ merged' = None
    /\ fedRuns' = fedRuns \cup
          IF refused' THEN {}
          ELSE {[n |-> fedSequence', text |-> fedSql, of |-> selected,
                 reply |-> [c \in Range(selected) |-> "waiting"]]}
    /\ UNCHANGED <<fedSql, selected>>

\* mergeQueryResults: the connections that answered in one way, in the order of selection.
AnsweredWith(a, of, reply) == Picked(of, {i \in DOMAIN of : reply[of[i]] = a})

\* All have answered: shown unless a later run has begun.
Merges(r, reply) ==
    IF r.n # fedSequence THEN UNCHANGED <<merged, fedRunning>>
    ELSE /\ merged' = [n |-> r.n, text |-> r.text, of |-> r.of,
                       rows |-> AnsweredWith("rows", r.of, reply),
                       errors |-> AnsweredWith("error", r.of, reply)]
         /\ fedRunning' = FALSE

\* A connection answers rows or an error; nothing but an error once the run is cancelled.
SourceAnswers(r, c) ==
    \E a \in {"rows", "error"} :
        LET reply == [r.reply EXCEPT ![c] = a]
            all == \A s \in Range(r.of) : reply[s] # "waiting"
        IN  /\ r.reply[c] = "waiting" /\ (a = "rows" => r.n = fedSequence)
            /\ fedRuns' = (fedRuns \ {r}) \cup IF all THEN {} ELSE {[r EXCEPT !.reply = reply]}
            /\ IF all THEN Merges(r, reply) ELSE UNCHANGED <<merged, fedRunning>>
            /\ UNCHANGED <<fedSql, selected, fedSequence, refused>>

\* The tab is left, which unmounts the canvas and cancels its requests, and shown again
\* with its text and selection.
RemountCanvas ==
    /\ fedRuns' = {} /\ merged' = None /\ fedRunning' = FALSE /\ refused' = FALSE
    /\ UNCHANGED <<fedSql, selected, fedSequence>>

FedNext ==
    \/ \E c \in Source : ToggleConnection(c)
    \/ \E t \in Statements \cup {Unsafe} : EditStatement(t)
    \/ RunFederated
    \/ \E r \in fedRuns : \E c \in Range(r.of) : SourceAnswers(r, c)
    \/ RemountCanvas

FedSpec == FedInit /\ [][FedNext]_fedVars

-----------------------------------------------------------------------------
(* Properties.                                                              *)

\* "Failed connections don't abort", and no "superseded run merges late data": what is
\* shown is the newest run's, and every connection it asked is either among the rows
\* or among the errors, once, whatever was selected or typed meanwhile.
MergeIsWhole ==
    merged # None =>
        /\ merged.n = fedSequence /\ ~refused
        /\ Range(merged.rows) \cap Range(merged.errors) = {}
        /\ Len(merged.rows) + Len(merged.errors) = Len(merged.of)

\* "Running..." has a run behind it that waits for a connection.
FederatedRunIsUnderWay == fedRunning => \E r \in fedRuns : r.n = fedSequence
=============================================================================
