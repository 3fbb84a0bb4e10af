--------------------------- MODULE MongoPipeline ---------------------------
(***************************************************************************)
(* The aggregation tab (components/mongo-query.tsx, with the run scopes of *)
(* hooks/use-gui-requests.ts and the answer of Adapter.Aggregate in        *)
(* dbcore/providers/mongo/mongo.go).  A run belongs to the inputs it was   *)
(* started with: database, collection and pipeline.  Changing them drops   *)
(* the result and gives later runs a new owner; a run in the same inputs   *)
(* supersedes the one before by its sequence number.  Pages are asked for  *)
(* by the offsets of the pages visited, as in MongoBrowse.                 *)
(***************************************************************************)
EXTENDS Absent, Integers, Sequences, SequencesExt

CONSTANTS
    Inputs,      \* databases, collections and pipelines that can be run
    Found,       \* how many documents each of them finds
    LargeOnes,   \* documents with no room for another one behind them in a page
    PageRows,    \* PAGE_LIMIT
    MaxPipeRuns, \* bound: runs started
    MaxEdits     \* bound: changes of the inputs

ASSUME PipelineAssumption ==
    /\ {Found, MaxPipeRuns, MaxEdits} \subseteq Nat /\ PageRows \in Nat \ {0}
    /\ LargeOnes \subseteq 1 .. Found /\ None \notin Inputs

VARIABLES
    inputs,      \* state.db, .collection and .pipeline
    owner,       \* the scope of requests, renewed when the inputs change
    sequence,    \* runSequence
    pipeRuns,    \* requests under way
    pipePage,    \* state.page
    pipeOffset,  \* state.pageOffset: the first row's number, less one
    visited,     \* pageOffsets: the offset of each page, from page 0
    aggregated,  \* state.result with the request it answers, or None
    pipeRunning, \* state.running
    failed       \* state.error is set

pipeView == <<pipePage, pipeOffset, aggregated, pipeRunning, failed>>
pipeVars == <<inputs, owner, sequence, pipeRuns, visited, pipeView>>

PipeTypeOK ==
    /\ inputs \in Inputs /\ owner \in 0 .. MaxEdits /\ sequence \in 0 .. MaxPipeRuns
    /\ {pipePage, pipeOffset} \subseteq Nat /\ visited \in Seq(Nat)
    /\ {pipeRunning, failed} \subseteq BOOLEAN

PipeInit ==
    /\ inputs \in Inputs /\ owner = 0 /\ sequence = 0 /\ pipeRuns = {}
    /\ pipePage = 0 /\ pipeOffset = 0 /\ visited = <<0>>
    /\ aggregated = None /\ pipeRunning = FALSE /\ failed = FALSE

\* A page ends with its limit of documents, or with one that fills its bytes.
Closes(skip, n) ==
    \/ n = Found
    \/ n = skip + PageRows
    \/ n > skip /\ n \in LargeOnes

PageEnd(skip) == CHOOSE n \in skip .. Found :
                     Closes(skip, n) /\ \A m \in skip .. n - 1 : ~Closes(skip, m)

-----------------------------------------------------------------------------

\* handleRun(p), with the offsets o: what the runs before still answer is void.
StartRun(p, o) ==
    LET at == IF p = 0 THEN <<0>> ELSE o
        skip == IF p < Len(at) THEN at[p + 1] ELSE p * PageRows
    IN  /\ sequence < MaxPipeRuns
        /\ sequence' = sequence + 1
        /\ visited' = at
        /\ pipeRuns' = pipeRuns \cup
              {[n |-> sequence', owner |-> owner, inputs |-> inputs, page |-> p, skip |-> skip]}
        /\ pipePage' = p /\ pipeOffset' = skip
        /\ aggregated' = None /\ pipeRunning' = TRUE /\ failed' = FALSE
        /\ UNCHANGED <<inputs, owner>>

\* The button waits for the run under way, the editor's Ctrl+Enter does not.
RunPipeline == StartRun(0, visited)

\* Only the newest run of the present owner is heard.
Heard(r) == r.owner = owner /\ r.n = sequence

AggregateAnswers(r) ==
    /\ pipeRuns' = pipeRuns \ {r}
    /\ IF Heard(r)
       THEN /\ aggregated' = [inputs |-> r.inputs, skip |-> r.skip, end |-> PageEnd(r.skip)]
            /\ pipePage' = r.page /\ pipeRunning' = FALSE
            /\ UNCHANGED <<pipeOffset, failed>>
       ELSE UNCHANGED pipeView
    /\ UNCHANGED <<inputs, owner, sequence, visited>>

\* The request fails, or was cancelled; a pipeline that is no JSON5 fails like this at once.
AggregateFails(r) ==
    /\ pipeRuns' = pipeRuns \ {r}
    /\ IF Heard(r)
       THEN failed' = TRUE /\ pipeRunning' = FALSE /\ UNCHANGED <<pipePage, pipeOffset, aggregated>>
       ELSE UNCHANGED pipeView
    /\ UNCHANGED <<inputs, owner, sequence, visited>>

\* onPageChange: the page left counts what it admitted.
TurnTo(p) ==
    LET next == Last(visited) + IF Len(visited) - 1 = pipePage
                                THEN aggregated.end - aggregated.skip ELSE PageRows
    IN  StartRun(p, IF p < Len(visited) THEN visited ELSE Append(visited, next))

PipePaged == aggregated # None /\ ~pipeRunning /\ ~failed
PipePrevious == PipePaged /\ pipePage > 0 /\ TurnTo(pipePage - 1)
PipeNextPage == PipePaged /\ aggregated.end < Found /\ TurnTo(pipePage + 1)

\* The reducer on setPipeline, setDb and setCollection: an error stays.
ContextDropped ==
    /\ pipePage' = 0 /\ pipeOffset' = 0 /\ aggregated' = None /\ pipeRunning' = FALSE
    /\ UNCHANGED failed

ChangeInputs(i) ==
    /\ owner < MaxEdits /\ i # inputs
    /\ inputs' = i /\ owner' = owner + 1
    /\ visited' = <<0>>
    /\ ContextDropped
    /\ UNCHANGED <<sequence, pipeRuns>>

\* onFormat: another text with the same meaning, or the very same text.  The offsets
\* are left, and with the same text the run under way keeps its owner.
FormatPipeline ==
    /\ \/ owner < MaxEdits /\ owner' = owner + 1
       \/ UNCHANGED owner
    /\ ContextDropped
    /\ UNCHANGED <<inputs, sequence, pipeRuns, visited>>

\* Another tab is shown and this one again: a new mount with the inputs of the tab.
RemountPipeline ==
    /\ owner < MaxEdits
    /\ owner' = owner + 1
    /\ pipePage' = 0 /\ pipeOffset' = 0 /\ visited' = <<0>>
    /\ aggregated' = None /\ pipeRunning' = FALSE /\ failed' = FALSE
    /\ UNCHANGED <<inputs, sequence, pipeRuns>>

PipeNext ==
    \/ RunPipeline \/ PipePrevious \/ PipeNextPage
    \/ \E r \in pipeRuns : AggregateAnswers(r) \/ AggregateFails(r)
    \/ \E i \in Inputs : ChangeInputs(i)
    \/ FormatPipeline \/ RemountPipeline

PipeSpec == PipeInit /\ [][PipeNext]_pipeVars

-----------------------------------------------------------------------------
(* Properties.                                                              *)

\* "Reject late completions": the result on display answers the inputs on display.
ResultIsOfTheInputs == aggregated # None => aggregated.inputs = inputs

\* A spinner has a run behind it that will end it.
SpinnerHasARun == pipeRunning => \E r \in pipeRuns : Heard(r)

\* "Advancing by admitted count prevents skipping": the pages up to the one on display
\* adjoin, however they were cut and turned.
NoDocumentIsSkipped ==
    aggregated # None =>
        /\ aggregated.skip = visited[pipePage + 1]
        /\ \A i \in 1 .. pipePage : visited[i + 1] = PageEnd(visited[i])

\* "Actual skip offset the current page was fetched with": the row numbers beside the
\* documents, and "x-y of" below them, are those of the page.
RowNumbersAreTrue == aggregated # None => pipeOffset = aggregated.skip
=============================================================================
