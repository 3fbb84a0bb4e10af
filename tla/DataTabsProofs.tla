--------------------------- MODULE DataTabsProofs ----------------------------
(***************************************************************************)
(* Theorems about DataTabs, for any texts, rows, keys, documents,          *)
(* connections and numbers of runs: what the view of a tab shows is of     *)
(* what was asked for last. The views share no state, so each has an       *)
(* invariant of its own, and at the end the tab's specification is shown   *)
(* to be one of each view.                                                 *)
(*                                                                         *)
(* SQL editor. What every run has sent was accepted under the policy the   *)
(* run captured when it started; it is inductive because both places that  *)
(* send ask Sendable of the run's own copy of the policy and not of the    *)
(* profile's present one.                                                  *)
(*                                                                         *)
(* Table grid. A fresh page in the cache, and a page at rest on display,   *)
(* has no rows but those of the table, those whose DELETE is not answered  *)
(* yet and those whose answer was lost; a cursor, be it in a bookmark or   *)
(* in a cached page, is of the view of its key.                            *)
(*                                                                         *)
(* Redis browser. A lease that a cached page goes on with was not handed   *)
(* back: the fetches that are not aborted are counted by the leases they   *)
(* go on with, and a page in view that is not aborted is cached.           *)
(*                                                                         *)
(* MongoDB collection and pipeline. The offsets visited adjoin: each is    *)
(* the one before and the number of documents its page admitted.           *)
(*                                                                         *)
(* Federated canvas and AI chat. Only the newest run, or chat, is heeded   *)
(* when it ends.                                                           *)
(***************************************************************************)
EXTENDS DataTabs, SequenceFacts, FiniteSetTheorems

-----------------------------------------------------------------------------
(* The SQL editor.                                                          *)

\* The values a run's record ranges over.
StatementsRun == {StatementsOf[t][i] : t \in Text, i \in Nat}
SentRequest == [statement : StatementsRun, limit : Limits]
RunRecord ==
    [text : Text, appended : Limits, limit : Limits, readOnly : BOOLEAN,
     sent : Seq(SentRequest), answers : Seq(BOOLEAN), phase : {"sent", "over"},
     aborted : BOOLEAN]

Accepted(run) ==
    run.readOnly =>
        \A i \in DOMAIN run.sent : StatementKind[run.sent[i].statement] = "select"

RunsOK(rs) == rs \in Seq(RunRecord) /\ \A r \in DOMAIN rs : Accepted(rs[r])

InputOK == draft \in Text /\ base \in Text /\ limit \in Limits /\ readOnly \in BOOLEAN

\* A spinner has a request behind it.
Spins(spinner, rs) == spinner => \E r \in DOMAIN rs : rs[r].phase = "sent"

EditorInv == InputOK /\ RunsOK(runs) /\ Spins(executing, runs) /\ executing \in BOOLEAN

-----------------------------------------------------------------------------
(* What the operators on one run preserve.                                  *)

\* A run starts with nothing sent.
LEMMA NewRunOK ==
    ASSUME InputOK, NEW t \in Text, NEW n \in Limits, NEW screened \in BOOLEAN
    PROVE  NewRun(t, n, screened) \in RunRecord /\ Accepted(NewRun(t, n, screened))
<1>1. LimitOfText(t, n) \in Limits
  BY EditorAssumption DEF LimitOfText
<1>2. QED
  BY <1>1 DEF NewRun, RunRecord, InputOK, Accepted

\* One turn of the loop sends one more accepted statement, and changes nothing else.
LEMMA SendOK ==
    ASSUME NEW run \in RunRecord, Accepted(run), NEW i \in Nat, Sendable(run, i)
    PROVE  Send(run, i) \in RunRecord /\ Accepted(Send(run, i)) /\ Send(run, i).phase = run.phase
<1> DEFINE s == StatementsOf[run.text][i]
           request == [statement |-> s, limit |-> IF run.appended > 0 THEN run.appended
                                                  ELSE IF Limitable(s) THEN run.limit ELSE 0]
<1>1. request \in SentRequest
  BY EditorAssumption DEF RunRecord, SentRequest, StatementsRun
<1>2. Send(run, i) = [run EXCEPT !.sent = Append(@, request)]
  BY DEF Send
<1> HIDE DEF request
<1>3. Append(run.sent, request) \in Seq(SentRequest)
  BY <1>1 DEF RunRecord
<1>4. Send(run, i) \in RunRecord
  BY <1>2, <1>3 DEF RunRecord
<1>5. request.statement = s
  BY DEF request
<1>6. ASSUME run.readOnly, NEW j \in DOMAIN Append(run.sent, request)
      PROVE  StatementKind[Append(run.sent, request)[j].statement] = "select"
  <2>1. j \in 1 .. Len(run.sent) + 1
    BY <1>1, <1>6 DEF RunRecord
  <2>2. CASE j = Len(run.sent) + 1
    BY <2>2, <1>1, <1>5, <1>6 DEF Sendable, StatementIsSafe, RunRecord
  <2>3. CASE j \in 1 .. Len(run.sent)
    BY <2>3, <1>1, <1>6 DEF Accepted, RunRecord
  <2>4. QED
    BY <2>1, <2>2, <2>3 DEF RunRecord
<1>7. Send(run, i).sent = Append(run.sent, request) /\ Send(run, i).readOnly = run.readOnly
      /\ Send(run, i).phase = run.phase
  BY <1>2 DEF RunRecord
<1>8. QED
  BY <1>4, <1>6, <1>7 DEF Accepted

\* A run that ends keeps what it sent.
LEMMA OverOK ==
    ASSUME NEW run \in RunRecord, Accepted(run)
    PROVE  /\ Over(run) \in RunRecord /\ Accepted(Over(run))
           /\ Over(run).sent = run.sent
<1>1. <<>> \in Seq(BOOLEAN)
  OBVIOUS
<1>2. Over(run) \in RunRecord
  BY <1>1 DEF Over, RunRecord
<1>3. Over(run).sent = run.sent /\ Over(run).readOnly = run.readOnly
  BY DEF Over, RunRecord
<1>4. QED
  BY <1>2, <1>3 DEF Accepted

\* A new run is put behind the others, which stay as they are.
LEMMA AppendOK ==
    ASSUME RunsOK(runs), NEW run \in RunRecord, Accepted(run), runs' = Append(runs, run)
    PROVE  /\ RunsOK(runs')
           /\ \A r \in Run : r \in DOMAIN runs' /\ runs'[r] = runs[r]
<1>1. runs' \in Seq(RunRecord) /\ DOMAIN runs' = 1 .. Len(runs) + 1
  BY DEF RunsOK
<1>2. \A r \in 1 .. Len(runs) : runs'[r] = runs[r]
  BY DEF RunsOK
<1>3. runs'[Len(runs) + 1] = run
  BY DEF RunsOK
<1>4. \A r \in DOMAIN runs' : Accepted(runs'[r])
  BY <1>1, <1>2, <1>3 DEF RunsOK
<1>5. QED
  BY <1>1, <1>2, <1>4 DEF RunsOK, Run

\* One run is replaced by a later state of it.
LEMMA ReplaceOK ==
    ASSUME RunsOK(runs), NEW r \in Run, NEW run \in RunRecord, Accepted(run),
           runs' = [runs EXCEPT ![r] = run]
    PROVE  RunsOK(runs')
  BY DEF RunsOK, Run

\* executeQuery, whether its first statement is sent or declined.
LEMMA ExecuteOK ==
    ASSUME EditorInv, NEW t \in Text, NEW n \in Limits, NEW screened \in BOOLEAN,
           ExecuteQuery(t, n, screened)
    PROVE  /\ RunsOK(runs') /\ Spins(executing', runs') /\ executing' \in BOOLEAN
           /\ \A r \in Run : r \in DOMAIN runs' /\ runs'[r] = runs[r]
<1> DEFINE run == NewRun(t, n, screened)
           declined == (screened /\ ~OriginalIsSafe(t)) \/ ~Sendable(run, 1)
<1>1. run \in RunRecord /\ Accepted(run)
  BY NewRunOK DEF EditorInv
<1>2. CASE declined
  <2>1. runs' = Append(runs, Over(run)) /\ executing' = FALSE
    BY <1>2 DEF ExecuteQuery
  <2>2. QED
    BY <1>1, <2>1, OverOK, AppendOK DEF EditorInv, Spins
<1>3. CASE ~declined
  <2>1. runs' = Append(runs, Send(run, 1)) /\ Sendable(run, 1) /\ executing' = TRUE
    BY <1>3 DEF ExecuteQuery
  <2>2. run.phase = "sent"
    BY DEF NewRun
  <2> HIDE DEF run
  <2>3. PICK sent : sent = Send(run, 1)
    OBVIOUS
  <2>4. sent \in RunRecord /\ Accepted(sent) /\ sent.phase = "sent"
    BY <1>1, <2>1, <2>2, <2>3, SendOK
  <2>5. runs' = Append(runs, sent) /\ runs \in Seq(RunRecord)
    BY <2>1, <2>3 DEF EditorInv, RunsOK
  <2>6. Len(runs) + 1 \in DOMAIN runs' /\ runs'[Len(runs) + 1] = sent
    BY <2>4, <2>5, Appended
  <2>7. QED
    BY <2>1, <2>4, <2>5, <2>6, AppendOK DEF EditorInv, Spins
<1>4. QED
  BY <1>2, <1>3

-----------------------------------------------------------------------------
(* The invariant, and what a step may do to the runs there are.             *)

\* The invariant holds of an editor that has run nothing.
LEMMA InitEditor == EditorInit => EditorInv
<1> SUFFICES ASSUME EditorInit PROVE EditorInv
  OBVIOUS
<1>1. InputOK
  BY DEF EditorInit, InputOK
<1>2. RunsOK(runs)
  BY Nothing DEF EditorInit, RunsOK
<1>3. Spins(executing, runs) /\ executing \in BOOLEAN
  BY DEF EditorInit, Spins
<1>4. QED
  BY <1>1, <1>2, <1>3 DEF EditorInv

\* A step keeps the runs, and what a run that was aborted has sent.
Kept ==
    /\ RunsOK(runs') /\ Spins(executing', runs') /\ executing' \in BOOLEAN
    /\ \A r \in Run : runs[r].aborted => runs'[r].sent = runs[r].sent

\* The answer to a statement: the run goes on, or is over.
LEMMA AnswerOK ==
    ASSUME EditorInv, NEW r \in Run, StatementAnswered(r)
    PROVE  Kept
<1>1. runs \in Seq(RunRecord) /\ runs[r] \in RunRecord /\ Accepted(runs[r])
  BY DEF EditorInv, RunsOK, Run
<1>2. CASE FailRun(r)
  <2>1. runs' = [runs EXCEPT ![r] = Over(runs[r])]
    BY <1>2 DEF FailRun
  <2>2. RunsOK(runs')
    BY <1>1, <2>1, OverOK, ReplaceOK DEF EditorInv
  <2>3. \A q \in Run : runs'[q].sent = runs[q].sent
    BY <1>1, <2>1, OverOK DEF Run
  <2>4. QED
    BY <1>2, <2>2, <2>3 DEF Kept, FailRun, Spins
<1>3. ASSUME ~runs[r].aborted, NEW full \in BOOLEAN, AnswerRun(r, full)
      PROVE  Kept
  <2> DEFINE run == [runs[r] EXCEPT !.answers = Append(@, full)]
             i == Len(run.answers) + 1
  <2>1. /\ run \in RunRecord /\ Accepted(run) /\ i \in Nat /\ run.phase = "sent"
    <3>1. Append(runs[r].answers, full) \in Seq(BOOLEAN)
      BY <1>1 DEF RunRecord
    <3>2. run \in RunRecord
      BY <1>1, <3>1 DEF RunRecord
    <3>3. run.sent = runs[r].sent /\ run.readOnly = runs[r].readOnly /\ run.phase = "sent"
      BY <1>1 DEF RunRecord, StatementAnswered, InFlight
    <3>4. i \in Nat
      BY <3>2 DEF RunRecord
    <3>5. QED
      BY <1>1, <3>2, <3>3, <3>4 DEF Accepted
  <2>2. \/ /\ Sendable(run, i) /\ runs' = [runs EXCEPT ![r] = Send(run, i)]
           /\ executing' = executing
        \/ runs' = [runs EXCEPT ![r] = Over(run)] /\ executing' = FALSE
    BY <1>3 DEF AnswerRun
  <2> HIDE DEF run, i
  <2>3. RunsOK(runs')
    BY <2>1, <2>2, SendOK, OverOK, ReplaceOK DEF EditorInv
  <2>4. \A q \in Run : q # r => runs'[q] = runs[q]
    BY <1>1, <2>2 DEF Run
  <2>5. Spins(executing', runs') /\ executing' \in BOOLEAN
    <3>1. CASE Sendable(run, i) /\ runs' = [runs EXCEPT ![r] = Send(run, i)] /\ executing' = executing
      <4>1. PICK sent : sent = Send(run, i)
        OBVIOUS
      <4>2. sent.phase = "sent"
        BY <2>1, <3>1, <4>1, SendOK
      <4>3. r \in DOMAIN runs' /\ runs'[r] = sent
        BY <1>1, <3>1, <4>1 DEF Run
      <4>4. QED
        BY <3>1, <4>2, <4>3 DEF Spins, EditorInv
    <3>2. CASE executing' = FALSE
      BY <3>2 DEF Spins
    <3>3. QED
      BY <2>2, <3>1, <3>2
  <2>6. QED
    BY <1>3, <2>3, <2>4, <2>5 DEF Kept
<1>4. QED
  BY <1>2, <1>3 DEF StatementAnswered

\* Cancel and the unmount mark the runs in flight, and touch nothing else of them.
LEMMA AbortOK ==
    ASSUME EditorInv, runs' = AbortAll, executing' = executing
    PROVE  Kept
<1>1. runs \in Seq(RunRecord)
  BY DEF EditorInv, RunsOK
<1>2. \A r \in Run : runs[r] \in RunRecord /\ Accepted(runs[r])
  BY <1>1 DEF EditorInv, RunsOK, Run
<1>3. runs' = [r \in 1 .. Len(runs) |->
                 [runs[r] EXCEPT !.aborted = runs[r].aborted \/ InFlight(r)]]
  BY <1>1 DEF AbortAll, Run
<1>4. \A r \in Run : runs'[r] \in RunRecord /\ runs'[r].sent = runs[r].sent
                     /\ runs'[r].readOnly = runs[r].readOnly /\ runs'[r].phase = runs[r].phase
  <2> TAKE r \in Run
  <2> DEFINE flag == runs[r].aborted \/ InFlight(r)
  <2>1. flag \in BOOLEAN
    BY <1>2 DEF RunRecord, InFlight
  <2>2. runs'[r] = [runs[r] EXCEPT !.aborted = flag]
    BY <1>1, <1>3 DEF Run
  <2> HIDE DEF flag
  <2>3. QED
    BY <1>2, <2>1, <2>2 DEF RunRecord
<1>5. runs' \in Seq(RunRecord) /\ DOMAIN runs' = Run
  <2>1. Run = 1 .. Len(runs) /\ Len(runs) \in Nat
    BY <1>1 DEF Run
  <2>2. runs' \in [1 .. Len(runs) -> RunRecord]
    BY <1>3, <1>4, <2>1
  <2>3. QED
    BY <2>1, <2>2
<1>6. QED
  BY <1>2, <1>4, <1>5 DEF Kept, RunsOK, Accepted, Spins, EditorInv, Run

\* Every step keeps the invariant; a run that was aborted sends nothing in it.
LEMMA StepOK ==
    ASSUME EditorInv, [EditorNext]_editorVars
    PROVE  EditorInv' /\ \A r \in Run : runs[r].aborted => runs'[r].sent = runs[r].sent
<1> USE DEF Kept
<1>1. ASSUME NEW t \in Text, HandleRun(t) PROVE InputOK' /\ Kept
  <2>1. ExecuteQuery(t, limit, readOnly) /\ InputOK'
    BY <1>1 DEF HandleRun, EditorInv, InputOK
  <2>2. QED
    BY <2>1, ExecuteOK DEF EditorInv, InputOK
<1>2. ASSUME NEW t \in Text, HandleChange(t) PROVE InputOK' /\ Kept
  BY <1>2 DEF HandleChange, EditorInv, InputOK, RunsOK, Spins
<1>3. ASSUME NEW r \in Run, StatementAnswered(r) PROVE InputOK' /\ Kept
  BY <1>3, AnswerOK DEF StatementAnswered, editorInput, EditorInv, InputOK
<1>4. CASE HandleCancel
  BY <1>4, AbortOK DEF HandleCancel, editorInput, EditorInv, InputOK
<1>5. CASE CloseEditor
  BY <1>5, AbortOK DEF CloseEditor, editorInput, EditorInv, InputOK
<1>6. ASSUME NEW o, NEW screened \in BOOLEAN, GoToPage(o, screened) PROVE InputOK' /\ Kept
  <2>1. ExecuteQuery(base, limit, screened) /\ InputOK'
    BY <1>6 DEF GoToPage, EditorInv, InputOK
  <2>2. QED
    BY <2>1, ExecuteOK DEF EditorInv, InputOK
<1>7. CASE GoNextPage
  BY <1>6, <1>7 DEF GoNextPage, EditorInv, InputOK
<1>8. CASE GoPrevPage
  <2>1. PICK o : GoToPage(o, readOnly)
    BY <1>8 DEF GoPrevPage
  <2>2. QED
    BY <1>6, <2>1 DEF EditorInv, InputOK
<1>9. CASE CellEditAnswered
  <2>1. GoToPage(offset, FALSE)
    BY <1>9 DEF CellEditAnswered
  <2>2. QED
    BY <1>6, <2>1 DEF EditorInv
<1>10. ASSUME NEW n \in Limits, OnLimitChange(n) PROVE InputOK' /\ Kept
  <2>1. ExecuteQuery(draft, n, readOnly) /\ InputOK'
    BY <1>10 DEF OnLimitChange, EditorInv, InputOK
  <2>2. QED
    BY <2>1, ExecuteOK DEF EditorInv, InputOK
<1>11. ASSUME NEW i \in DOMAIN results, SelectResult(i) PROVE InputOK' /\ Kept
  BY <1>11 DEF SelectResult, editorInput, EditorInv, InputOK, RunsOK, Spins
<1>12. CASE SaveCellEdit
  BY <1>12 DEF SaveCellEdit, editorInput, EditorInv, InputOK, RunsOK, Spins
<1>13. CASE PolicyEdited
  BY <1>13 DEF PolicyEdited, EditorInv, InputOK, RunsOK, Spins
<1>14. CASE UNCHANGED editorVars
  BY <1>14 DEF editorVars, editorInput, EditorInv, InputOK, RunsOK, Spins
<1>15. QED
  BY <1>1, <1>2, <1>3, <1>4, <1>5, <1>7, <1>8, <1>9, <1>10, <1>11, <1>12, <1>13, <1>14
  DEF EditorNext, EditorInv

\* What the invariant says of the properties.
LEMMA EditorTrue == EditorInv => ReadOnlySendsSelects /\ SpinnerHasARequest
  BY DEF EditorInv, RunsOK, Accepted, Spins, ReadOnlySendsSelects, SpinnerHasARequest, InFlight, Run

-----------------------------------------------------------------------------
(* The table grid.                                                          *)

\* A cursor of a view, a place in it, and a page of it.
CursorOf(v) == {None} \cup [view : {v}, after : 1 .. Rows]
PositionIn(v) == [offset : Nat, mode : {"auto", "offset"}, cursor : CursorOf(v)]
PageOf(v) == [rows : Seq(1 .. Rows), hasMore : BOOLEAN, keyset : BOOLEAN, next : CursorOf(v)]
Entry(v) == [page : PageOf(v), stale : BOOLEAN]

\* The rows that may be on display: those in the table, and those deleted by a statement
\* that has run and is not answered, or was lost.
Alive(t, gone, m) == t \cup gone \cup IF m # None /\ m.ran THEN {m.row} \ {None} ELSE {}
Within(served, S) == \A i \in DOMAIN served.rows : served.rows[i] \in S

NavOK(n, v) == n.position \in PositionIn(v) /\ n.previous \in Seq(PositionIn(v))
CacheOK(c) == \A k \in DOMAIN c : c[k] \in Entry(k.view)
DataOK(d) == d # None => d.page \in PageOf(d.key.view)
Mutation == [row : 1 .. Rows \cup {None}, ran : BOOLEAN]
MutationOK(m) == m # None => m \in Mutation

\* What is fresh in the cache, and what is at rest on display, holds no row but these.
FreshPages(c, S) == \A k \in DOMAIN c : ~c[k].stale => Within(c[k].page, S)
RestsOn(open, d, busy, key, err, S) ==
    open /\ d # None /\ ~busy /\ d.key = key /\ ~err => Within(d.page, S)

GridTypes ==
    /\ table \subseteq 1 .. Rows /\ seekable \in BOOLEAN
    /\ size \in PageSizes
    /\ NavOK(nav, view) /\ CacheOK(pages) /\ DataOK(data) /\ MutationOK(mutation)

GridInv ==
    /\ GridTypes
    /\ FreshPages(pages, Alive(table, lost, mutation))
    /\ RestsOn(gridOpen, data, fetching, Key, isError, Alive(table, lost, mutation))

\* The first page is a place in every view.
LEMMA StartsOK == \A v : NavOK(InitialNavigation, v)
<1> TAKE v
<1>1. InitialNavigation.position = [offset |-> 0, mode |-> "auto", cursor |-> None]
      /\ InitialNavigation.previous = <<>>
  BY DEF InitialNavigation
<1>2. [offset |-> 0, mode |-> "auto", cursor |-> None] \in PositionIn(v)
  BY DEF PositionIn, CursorOf
<1>3. QED
  BY <1>1, <1>2, Nothing DEF NavOK

\* Nothing is cached and nothing shown.
LEMMA InitGrid == GridInit => GridInv
<1> SUFFICES ASSUME GridInit PROVE GridInv
  OBVIOUS
<1>1. NavOK(nav, view)
  BY StartsOK DEF GridInit
<1>2. pages = <<>> /\ \A k \in DOMAIN pages : FALSE
  BY Nothing DEF GridInit
<1>3. CacheOK(pages) /\ FreshPages(pages, Alive(table, lost, mutation))
  BY <1>2 DEF CacheOK, FreshPages
<1>4. size \in PageSizes
  BY GridAssumption DEF GridInit
<1>5. QED
  BY <1>1, <1>3, <1>4 DEF GridInit, GridInv, GridTypes, DataOK, MutationOK, RestsOn

-----------------------------------------------------------------------------
(* What the server answers.                                                 *)

\* A listing has rows of the table alone.
LEMMA ListingOK ==
    ASSUME NEW t, NEW v
    PROVE  Listing(t, v) \in Seq(1 .. Rows) /\ \A j \in DOMAIN Listing(t, v) : Listing(t, v)[j] \in t
<1>1. Rows \in Nat
  BY GridAssumption
<1>2. Ordered(v) \in [1 .. Rows -> 1 .. Rows]
  BY <1>1 DEF Ordered
<1>3. Ordered(v) \in Seq(1 .. Rows) /\ DOMAIN Ordered(v) = 1 .. Rows
  BY <1>1, <1>2
<1> PICK s : s = Ordered(v)
  OBVIOUS
<1>4. s \in Seq(1 .. Rows)
  BY <1>3
<1>5. PICK P : P = {i \in 1 .. Rows : s[i] \in t /\ (v.search = "" \/ s[i] % 2 = 1)}
  OBVIOUS
<1>6. Listing(t, v) = Picked(s, P)
  BY <1>5 DEF Listing
<1>7. \A i \in P : s[i] \in t
  BY <1>5
<1>8. /\ Picked(s, P) \in Seq(1 .. Rows)
      /\ \A j \in DOMAIN Picked(s, P) : \E i \in DOMAIN s : i \in P /\ Picked(s, P)[j] = s[i]
  BY <1>4, PickedFrom
<1>9. QED
  BY <1>6, <1>7, <1>8

\* So has what is left of it after a cursor or from an offset on.
LEMMA RestOK ==
    ASSUME table \subseteq 1 .. Rows, NEW key, key.position.offset \in Nat
    PROVE  Rest(key) \in Seq(1 .. Rows) /\ \A j \in DOMAIN Rest(key) : Rest(key)[j] \in table
<1> PICK T : T = 1 .. Rows
  OBVIOUS
<1>1. CASE key.position.cursor # None
  <2>1. PICK t : Rest(key) = Listing(t, key.view) /\ t \subseteq table
    <3>1. PICK t : t = {r \in table : IF key.position.cursor.view.order = "asc"
                                     THEN r > key.position.cursor.after
                                     ELSE r < key.position.cursor.after}
      OBVIOUS
    <3>2. Rest(key) = Listing(t, key.view)
      BY <1>1, <3>1 DEF Rest
    <3>3. QED
      BY <3>1, <3>2
  <2>2. QED
    BY <2>1, ListingOK
<1>2. CASE key.position.cursor = None
  <2> PICK s : s = Listing(table, key.view)
    OBVIOUS
  <2> PICK n \in Nat : n = key.position.offset
    OBVIOUS
  <2>1. s \in Seq(1 .. Rows) /\ \A j \in DOMAIN s : s[j] \in table
    BY ListingOK
  <2>2. Rest(key) = SubSeq(s, n + 1, Len(s))
    BY <1>2 DEF Rest
  <2> PICK len \in Nat : len = Len(s)
    BY <2>1
  <2>3. n + 1 \in Int /\ len \in Int /\ \A i \in n + 1 .. len : i \in 1 .. len /\ s[i] \in table
    BY <2>1
  <2>4. PICK q : q = SubSeq(s, n + 1, len)
    OBVIOUS
  <2>5. q \in Seq(table)
    BY <2>3, <2>4, SubSeqProperties
  <2>6. q \in Seq(1 .. Rows)
    <3>1. \A i \in n + 1 .. len : s[i] \in 1 .. Rows
      BY <2>3
    <3>2. QED
      BY <2>3, <2>4, <3>1, SubSeqProperties
  <2>7. Rest(key) = q
    BY <2>2, <2>4
  <2>8. QED
    BY <2>5, <2>6, <2>7
<1>3. QED
  BY <1>1, <1>2

\* A page is some of them, from the first on, with a cursor of its own view.
LEMMA ServedOK ==
    ASSUME table \subseteq 1 .. Rows, seekable \in BOOLEAN, NEW key, key.position.offset \in Nat, key.size \in Nat,
           NEW served \in PagesOf(key)
    PROVE  served \in PageOf(key.view) /\ Within(served, table)
<1> PICK rest : rest = Rest(key)
  OBVIOUS
<1> PICK keyset \in BOOLEAN : keyset = (seekable /\ key.position.mode = "auto")
  OBVIOUS
<1>1. rest \in Seq(1 .. Rows) /\ \A j \in DOMAIN rest : rest[j] \in table
  BY RestOK
<1> PICK len \in Nat : len = Len(rest)
  BY <1>1
<1>2. \A j \in 1 .. len : rest[j] \in table /\ rest[j] \in 1 .. Rows
  <2>1. DOMAIN rest = 1 .. len
    BY <1>1
  <2>2. \A j \in DOMAIN rest : rest[j] \in 1 .. Rows
    BY <1>1
  <2>3. QED
    BY <1>1, <2>1, <2>2
<1> PICK pageSize \in Nat : pageSize = key.size
  OBVIOUS
<1> PICK most \in 0 .. len : most = IF len < pageSize THEN len ELSE pageSize
  OBVIOUS
<1> DEFINE After(n) == IF keyset /\ 0 < n /\ n < len THEN [view |-> key.view, after |-> rest[n]] ELSE None
           Page(n) == [rows |-> SubSeq(rest, 1, n), hasMore |-> n < len, keyset |-> keyset, next |-> After(n)]
<1>3. PagesOf(key) = {Page(n) : n \in (IF most = 0 THEN {0} ELSE 1 .. most)}
  BY ZenonT(60) DEF PagesOf
<1>4. PICK n \in 0 .. len : served = Page(n)
  <2> HIDE DEF Page
  <2>1. PICK n \in (IF most = 0 THEN {0} ELSE 1 .. most) : served = Page(n)
    BY <1>3
  <2>2. n \in 0 .. len
    OBVIOUS
  <2>3. QED
    BY <2>1, <2>2
<1> PICK next : next = After(n)
  OBVIOUS
<1>5. /\ served = [rows |-> SubSeq(rest, 1, n), hasMore |-> n < len, keyset |-> keyset, next |-> next]
      /\ next = IF keyset /\ 0 < n /\ n < len THEN [view |-> key.view, after |-> rest[n]] ELSE None
  BY <1>4
<1> HIDE DEF Page, After
<1>6. next \in CursorOf(key.view)
  <2>1. CASE keyset /\ 0 < n /\ n < len
    <3>1. rest[n] \in 1 .. Rows
      BY <1>2, <2>1
    <3>2. QED
      BY <1>5, <2>1, <3>1 DEF CursorOf
  <2>2. CASE ~(keyset /\ 0 < n /\ n < len)
    BY <1>5, <2>2 DEF CursorOf
  <2>3. QED
    BY <2>1, <2>2
<1>7. 1 \in Int /\ n \in Int /\ \A i \in 1 .. n : rest[i] \in table /\ rest[i] \in 1 .. Rows
  BY <1>2
<1> PICK rows : rows = SubSeq(rest, 1, n)
  OBVIOUS
<1>8. rows \in Seq(1 .. Rows)
  BY <1>7, SubSeqProperties
<1>9. rows \in Seq(table)
  BY <1>7, SubSeqProperties
<1>10. served \in PageOf(key.view) /\ served.rows = rows
  BY <1>5, <1>6, <1>8 DEF PageOf
<1>11. QED
  BY <1>9, <1>10 DEF Within

-----------------------------------------------------------------------------
(* What the grid asks for.                                                  *)

\* What is cached under a key is of its view, and is shown as it is.
LEMMA ObserveOK ==
    ASSUME GridTypes, NEW S, FreshPages(pages, S), NEW k, Observe(k)
    PROVE  /\ DataOK(data') /\ fetching' \in BOOLEAN
           /\ ~fetching' => Within(data'.page, S)
<1>1. CASE k \in DOMAIN pages
  <2>1. data' = [key |-> k, page |-> pages[k].page]
        /\ fetching' \in (IF pages[k].stale THEN {TRUE} ELSE BOOLEAN)
    BY <1>1 DEF Observe
  <2>2. data'.key = k /\ data'.page = pages[k].page
    BY <2>1
  <2>3. pages[k] \in Entry(k.view)
    BY <1>1 DEF GridTypes, CacheOK
  <2>4. pages[k].page \in PageOf(k.view) /\ pages[k].stale \in BOOLEAN
    BY <2>3 DEF Entry
  <2>5. ~fetching' => ~pages[k].stale
    BY <2>1, <2>4
  <2>6. fetching' \in BOOLEAN
    BY <2>1
  <2>7. QED
    BY <1>1, <2>2, <2>4, <2>5, <2>6 DEF DataOK, FreshPages
<1>2. CASE k \notin DOMAIN pages
  BY <1>2 DEF Observe, GridTypes
<1>3. QED
  BY <1>1, <1>2

\* Another place, size or view: the page of the new key is shown, or fetched.
LEMMA ReduceOK ==
    ASSUME GridInv, NEW n, NEW s \in PageSizes, NEW v, NavOK(n, v), Reduce(n, s, v), seekable' = seekable
    PROVE  GridInv'
<1>1. /\ nav' = n /\ size' = s /\ view' = v /\ UNCHANGED <<table, pages, mutation, lost, gridOpen>>
      /\ Key' = [view |-> v, size |-> s, position |-> n.position]
  BY DEF Reduce, Key
<1>2. PICK S : S = Alive(table, lost, mutation)
  OBVIOUS
<1>3. S = Alive(table, lost, mutation)'
  BY <1>1, <1>2 DEF Alive
<1>4. CASE Key' = Key
  <2>1. UNCHANGED <<data, fetching, isError>>
    BY <1>1, <1>4 DEF Reduce
  <2>2. QED
    BY <1>1, <1>2, <1>3, <1>4, <2>1 DEF GridInv, GridTypes
<1>5. CASE Key' # Key
  <2>1. Observe(Key')
    BY <1>1, <1>5 DEF Reduce
  <2>2. DataOK(data') /\ (~fetching' => Within(data'.page, S))
    BY <1>2, <2>1, ObserveOK DEF GridInv
  <2>3. RestsOn(gridOpen, data, fetching, Key, isError, S)'
    BY <1>3, <2>2 DEF RestsOn
  <2>4. QED
    BY <1>1, <1>2, <1>3, <2>2, <2>3 DEF GridInv, GridTypes
<1>6. QED
  BY <1>4, <1>5

\* The places that the controls lead to are in the view.
LEMMA NextOK ==
    ASSUME GridTypes, data # None, CanAdvance
    PROVE  NavOK(NextNavigation, view)
<1>1. data.key = Key /\ Key.view = view
  BY DEF CanAdvance, PendingPage, Key
<1>2. data.page \in PageOf(view)
  BY <1>1 DEF GridTypes, DataOK
<1>3. data.page.rows \in Seq(1 .. Rows) /\ data.page.next \in CursorOf(view) /\ data.page.keyset \in BOOLEAN
  BY <1>2 DEF PageOf
<1>4. nav.position \in PositionIn(view) /\ nav.previous \in Seq(PositionIn(view))
  BY DEF GridTypes, NavOK
<1>5. PICK p : p = [offset |-> nav.position.offset + Len(data.page.rows),
                    mode |-> IF data.page.keyset THEN "auto" ELSE "offset",
                    cursor |-> IF data.page.keyset THEN data.page.next ELSE None]
  OBVIOUS
<1>6. nav.position.offset + Len(data.page.rows) \in Nat
  <2>1. nav.position.offset \in Nat /\ Len(data.page.rows) \in Nat
    BY <1>3, <1>4 DEF PositionIn
  <2>2. QED
    BY <2>1
<1>7. p \in PositionIn(view)
  <2>1. None \in CursorOf(view)
    BY DEF CursorOf
  <2>2. QED
    BY <1>3, <1>5, <1>6, <2>1 DEF PositionIn
<1>8. NextNavigation.position = p /\ NextNavigation.previous = Append(nav.previous, nav.position)
  BY <1>5 DEF NextNavigation
<1>9. QED
  BY <1>4, <1>7, <1>8 DEF NavOK

\* So is a place at an offset.
LEMMA OffsetOK ==
    ASSUME NEW n \in Nat, NEW v, NEW nv, nv.position = [offset |-> n, mode |-> "offset", cursor |-> None],
           nv.previous = <<>>
    PROVE  NavOK(nv, v)
<1>1. nv.position \in PositionIn(v)
  BY DEF PositionIn, CursorOf
<1>2. QED
  BY <1>1, Nothing DEF NavOK

\* The place before is a bookmark, or an offset.
LEMMA PreviousOK ==
    ASSUME GridTypes
    PROVE  NavOK(PreviousNavigation, view)
<1>1. nav.position \in PositionIn(view) /\ nav.previous \in Seq(PositionIn(view)) /\ size \in Nat
  BY GridAssumption DEF GridTypes, NavOK
<1>2. CASE nav.previous # <<>>
  <2>1. PreviousNavigation.position = Last(nav.previous) /\ PreviousNavigation.previous = Front(nav.previous)
    BY <1>2 DEF PreviousNavigation
  <2>2. PICK T : T = PositionIn(view)
    OBVIOUS
  <2>3. PICK s \in Seq(T) : s = nav.previous
    BY <1>1, <2>2
  <2>4. PICK len \in Nat : len = Len(s)
    OBVIOUS
  <2>5. len > 0 /\ Last(s) = s[len] /\ s[len] \in T
    BY <1>2, <2>3, <2>4 DEF Last
  <2>6. PICK q : q = SubSeq(s, 1, len - 1)
    OBVIOUS
  <2>7. q \in Seq(T)
    <3>1. 1 \in Int /\ len - 1 \in Int /\ \A i \in 1 .. len - 1 : s[i] \in T
      BY <2>4
    <3>2. QED
      BY <2>6, <3>1, SubSeqProperties
  <2>8. Front(s) = q
    BY <2>4, <2>6 DEF Front
  <2>9. QED
    BY <2>1, <2>2, <2>3, <2>5, <2>7, <2>8 DEF NavOK
<1>3. CASE nav.previous = <<>>
  <2>1. PICK n : n = IF nav.position.offset > size THEN nav.position.offset - size ELSE 0
    OBVIOUS
  <2>2. nav.position.offset \in Nat
    BY <1>1 DEF PositionIn
  <2>3. n \in Nat
    BY <1>1, <2>1, <2>2
  <2>4. PreviousNavigation.position = [offset |-> n, mode |-> "offset", cursor |-> None]
        /\ PreviousNavigation.previous = <<>>
    BY <1>3, <2>1 DEF PreviousNavigation
  <2>5. QED
    BY <2>3, <2>4, OffsetOK
<1>4. QED
  BY <1>2, <1>3

\* A jump leads to an offset.
LEMMA JumpOK ==
    ASSUME NEW n \in Nat
    PROVE  NavOK(AtOffset(n), view)
<1>1. CASE n = 0
  BY <1>1, StartsOK DEF AtOffset
<1>2. CASE n # 0
  <2>1. AtOffset(n).position = [offset |-> n, mode |-> "offset", cursor |-> None] /\ AtOffset(n).previous = <<>>
    BY <1>2 DEF AtOffset
  <2>2. QED
    BY <2>1, OffsetOK
<1>3. QED
  BY <1>1, <1>2

\* The page that comes is the one of the key in view.
LEMMA FetchOK ==
    ASSUME GridInv, FetchAnswered, seekable' = seekable
    PROVE  GridInv'
<1>1. PICK S : S = Alive(table, lost, mutation)
  OBVIOUS
<1>2. UNCHANGED <<table, gridState, mutation, lost, gridOpen>> /\ fetching' = FALSE
  BY DEF FetchAnswered
<1>3. S = Alive(table, lost, mutation)' /\ Key' = Key
  BY <1>1, <1>2 DEF Alive, Key, gridState
<1>4. GridTypes /\ FreshPages(pages, S)
  BY <1>1 DEF GridInv
<1>5. CASE isError' = TRUE /\ UNCHANGED <<pages, data>>
  BY <1>1, <1>2, <1>3, <1>4, <1>5 DEF GridInv, GridTypes, RestsOn, gridState
<1>6. ASSUME NEW served \in PagesOf(Key),
             pages' = [k \in DOMAIN pages \cup {Key} |->
                           IF k = Key THEN [page |-> served, stale |-> FALSE] ELSE pages[k]],
             data' = [key |-> Key, page |-> served]
      PROVE  GridInv'
  <2>1. Key.position.offset \in Nat /\ Key.size \in Nat
    BY <1>4, GridAssumption DEF GridTypes, NavOK, PositionIn, Key
  <2>2. served \in PageOf(Key.view) /\ Within(served, table)
    BY <1>4, <2>1, ServedOK DEF GridTypes
  <2>3. Within(served, S)
    BY <1>1, <2>2 DEF Within, Alive
  <2>4. PICK e : e = [page |-> served, stale |-> FALSE]
    OBVIOUS
  <2>5. e \in Entry(Key.view) /\ e.page = served /\ ~e.stale
    BY <2>2, <2>4 DEF Entry
  <2>6. PICK key : key = Key
    OBVIOUS
  <2>7. DOMAIN pages' = DOMAIN pages \cup {key} /\ pages'[key] = e
        /\ \A k \in DOMAIN pages : k # key => pages'[k] = pages[k]
    BY <1>6, <2>4, <2>6
  <2>8. \A k \in DOMAIN pages' : k = key \/ (k \in DOMAIN pages /\ pages'[k] = pages[k])
    BY <2>7
  <2>9. CacheOK(pages')
    BY <1>4, <2>5, <2>6, <2>7, <2>8 DEF CacheOK, GridTypes
  <2>10. FreshPages(pages', S)
    BY <1>4, <2>3, <2>5, <2>7, <2>8 DEF FreshPages
  <2>11. data'.key = key /\ data'.page = served
    BY <1>6, <2>6
  <2>12. DataOK(data') /\ RestsOn(gridOpen, data, fetching, Key, isError, S)'
    BY <2>2, <2>3, <2>6, <2>11, <1>3 DEF DataOK, RestsOn
  <2>13. QED
    BY <1>2, <1>3, <1>4, <2>9, <2>10, <2>12 DEF GridInv, GridTypes, gridState
<1>7. QED
  BY <1>5, <1>6 DEF FetchAnswered

\* Where nothing of the view and the cache changes but the rows there may be more of.
LEMMA MoreAlive ==
    ASSUME GridInv, UNCHANGED <<nav, size, view, pages, seekable>>, table' \subseteq table,
           Alive(table, lost, mutation) \subseteq Alive(table, lost, mutation)',
           UNCHANGED <<data, fetching, isError, gridOpen>>, MutationOK(mutation')
    PROVE  GridInv'
<1>1. Key' = Key
  BY DEF Key
<1>2. FreshPages(pages, Alive(table, lost, mutation))'
  BY DEF GridInv, FreshPages, Within
<1>3. RestsOn(gridOpen, data, fetching, Key, isError, Alive(table, lost, mutation))'
  BY <1>1 DEF GridInv, RestsOn, Within
<1>4. QED
  BY <1>2, <1>3 DEF GridInv, GridTypes

\* Deletions and edits, from the dialog to the answer.
LEMMA MutationStep ==
    ASSUME GridInv, seekable' = seekable,
           \/ \E i \in 1 .. Rows : DeleteRow(i)
           \/ SaveGridEdit \/ DeleteRuns \/ MutationFailed \/ LostDeleteRuns
    PROVE  GridInv'
<1>1. UNCHANGED <<nav, size, view, pages, data, fetching, isError, gridOpen>>
  BY DEF DeleteRow, SaveGridEdit, DeleteRuns, MutationFailed, LostDeleteRuns, gridState, queryState
<1>2. ASSUME table' \subseteq table, MutationOK(mutation'),
             Alive(table, lost, mutation) \subseteq Alive(table, lost, mutation)'
      PROVE  GridInv'
  BY <1>1, <1>2, MoreAlive
<1>3. ASSUME NEW i \in 1 .. Rows, DeleteRow(i) PROVE GridInv'
  <2>1. mutation = None /\ mutation' = [row |-> data.page.rows[i], ran |-> FALSE]
        /\ table' = table /\ lost' = lost
    BY <1>3 DEF DeleteRow
  <2>2. data.page.rows[i] \in 1 .. Rows
    <3>1. data # None /\ i \in DOMAIN data.page.rows
      BY <1>3 DEF DeleteRow, Interactive
    <3>2. data.page.rows \in Seq(1 .. Rows)
      BY <3>1 DEF GridInv, GridTypes, DataOK, PageOf
    <3>3. PICK R : R = 1 .. Rows
      OBVIOUS
    <3>4. PICK s \in Seq(R) : s = data.page.rows
      BY <3>2, <3>3
    <3>5. \A j \in DOMAIN s : s[j] \in R
      OBVIOUS
    <3>6. QED
      BY <3>1, <3>3, <3>4, <3>5
  <2>3. MutationOK(mutation')
    BY <2>1, <2>2 DEF MutationOK, Mutation
  <2>4. QED
    BY <1>2, <2>1, <2>3 DEF Alive
<1>4. CASE SaveGridEdit
  <2>1. mutation = None /\ mutation' = [row |-> None, ran |-> TRUE] /\ table' = table /\ lost' = lost
    BY <1>4 DEF SaveGridEdit
  <2>2. MutationOK(mutation')
    BY <2>1 DEF MutationOK, Mutation
  <2>3. QED
    BY <1>2, <2>1, <2>2 DEF Alive
<1>5. CASE DeleteRuns
  <2>1. mutation # None /\ ~mutation.ran /\ table' = table \ {mutation.row} /\ lost' = lost
        /\ mutation' = [mutation EXCEPT !.ran = TRUE]
    BY <1>5 DEF DeleteRuns
  <2>2. mutation \in Mutation
    BY <2>1 DEF GridInv, GridTypes, MutationOK
  <2>3. mutation' \in Mutation /\ mutation'.row = mutation.row /\ mutation'.ran = TRUE
    BY <2>1, <2>2 DEF Mutation
  <2>4. MutationOK(mutation')
    BY <2>3 DEF MutationOK
  <2>5. mutation' # None
    BY <2>3, GridAssumption DEF Mutation
  <2>6. \A x \in table : x # None
    <3>1. table \subseteq 1 .. Rows /\ 1 .. Rows \subseteq Nat
      <4>1. Rows \in Nat
        BY GridAssumption
      <4>2. QED
        BY <4>1 DEF GridInv, GridTypes
    <3>2. None \notin Nat
      BY GridAssumption
    <3>3. QED
      BY <3>1, <3>2
  <2>7. Alive(table, lost, mutation) \subseteq Alive(table, lost, mutation)'
    BY <2>1, <2>3, <2>5, <2>6 DEF Alive
  <2>8. QED
    BY <1>2, <2>1, <2>4, <2>7
<1>6. CASE MutationFailed
  <2>1. mutation # None /\ mutation' = None /\ table' = table
        /\ lost' = IF mutation.ran THEN lost \cup ({mutation.row} \ {None}) ELSE lost
    BY <1>6 DEF MutationFailed
  <2>2. Alive(table, lost, mutation) \subseteq Alive(table, lost, mutation)'
    BY <2>1 DEF Alive
  <2>3. QED
    BY <1>2, <2>1, <2>2 DEF MutationOK
<1>7. CASE LostDeleteRuns
  <2>1. PICK r \in lost : table' = table \ {r}
    BY <1>7 DEF LostDeleteRuns
  <2>2. lost' = lost /\ mutation' = mutation
    BY <1>7 DEF LostDeleteRuns
  <2>3. Alive(table, lost, mutation) \subseteq Alive(table, lost, mutation)'
    BY <2>1, <2>2 DEF Alive
  <2>4. QED
    BY <1>2, <2>1, <2>2, <2>3 DEF GridInv, GridTypes
<1>8. QED
  BY <1>3, <1>4, <1>5, <1>6, <1>7

\* An answer makes all that is cached stale, and the page on display is fetched.
LEMMA AnsweredOK ==
    ASSUME GridInv, MutationAnswered, seekable' = seekable
    PROVE  GridInv'
<1>1. /\ UNCHANGED <<table, nav, size, view, data>>
      /\ mutation' = None /\ fetching' = TRUE
      /\ pages' = [k \in DOMAIN pages |-> [pages[k] EXCEPT !.stale = TRUE]]
  BY DEF MutationAnswered, gridState
<1>2. \A k \in DOMAIN pages : pages'[k] = [pages[k] EXCEPT !.stale = TRUE]
  BY <1>1
<1>3. DOMAIN pages' = DOMAIN pages
  BY <1>1
<1>4. \A k \in DOMAIN pages' : pages'[k] \in Entry(k.view) /\ pages'[k].stale
  <2> TAKE k \in DOMAIN pages'
  <2>1. pages[k] \in Entry(k.view)
    BY <1>3 DEF GridInv, GridTypes, CacheOK
  <2>2. QED
    BY <1>2, <1>3, <2>1 DEF Entry
<1>5. CacheOK(pages') /\ FreshPages(pages, Alive(table, lost, mutation))'
  BY <1>4 DEF CacheOK, FreshPages
<1>6. RestsOn(gridOpen, data, fetching, Key, isError, Alive(table, lost, mutation))'
  BY <1>1 DEF RestsOn
<1>7. QED
  BY <1>1, <1>5, <1>6 DEF GridInv, GridTypes, MutationOK

\* A grid that is hidden shows nothing, and its statement is lost.
LEMMA HideOK ==
    ASSUME GridInv, HideGrid, seekable' = seekable
    PROVE  GridInv'
<1>1. /\ UNCHANGED <<table, pages>>
      /\ gridOpen' = FALSE /\ data' = None /\ mutation' = None
      /\ nav' = InitialNavigation /\ size' = FirstSize
      /\ lost' = IF mutation = None THEN lost ELSE lost \cup ({mutation.row} \ {None})
  BY DEF HideGrid
<1>2. Alive(table, lost, mutation) \subseteq Alive(table, lost, mutation)'
  BY <1>1 DEF Alive
<1>3. FreshPages(pages, Alive(table, lost, mutation))'
  BY <1>1, <1>2 DEF GridInv, FreshPages, Within
<1>4. NavOK(nav', view')
  BY <1>1, StartsOK
<1>5. QED
  BY <1>1, <1>3, <1>4, GridAssumption DEF GridInv, GridTypes, DataOK, MutationOK, RestsOn

\* One that is shown again starts with what is cached.
LEMMA ShowOK ==
    ASSUME GridInv, ShowGrid, seekable' = seekable
    PROVE  GridInv'
<1>1. UNCHANGED <<table, nav, size, view, pages, mutation, lost>> /\ Observe(Key)
  BY DEF ShowGrid, gridState
<1>2. PICK S : S = Alive(table, lost, mutation)
  OBVIOUS
<1>3. DataOK(data') /\ (~fetching' => Within(data'.page, S))
  BY <1>1, <1>2, ObserveOK DEF GridInv
<1>4. S = Alive(table, lost, mutation)'
  BY <1>1, <1>2 DEF Alive
<1>5. QED
  BY <1>1, <1>2, <1>3, <1>4 DEF GridInv, GridTypes, RestsOn

\* The controls that lead to another page, size, order or search.
LEMMA MoveStep ==
    ASSUME GridInv, seekable' = seekable,
           \/ NextPage \/ PreviousPage \/ CycleSort \/ DebounceFires \/ ClearSearch
           \/ \E p \in 0 .. Rows \div size : JumpTo(p)
           \/ \E n \in PageSizes : SetPageSize(n)
    PROVE  GridInv'
<1>1. GridTypes /\ size \in PageSizes /\ size \in Nat
  BY GridAssumption DEF GridInv, GridTypes
<1>2. ASSUME NextPage PROVE GridInv'
  <2>1. NavOK(NextNavigation, view)
    BY <1>1, <1>2, NextOK DEF NextPage, Interactive
  <2>2. QED
    BY <1>1, <1>2, <2>1, ReduceOK DEF NextPage
<1>3. ASSUME PreviousPage PROVE GridInv'
  BY <1>1, <1>3, PreviousOK, ReduceOK DEF PreviousPage
<1>4. ASSUME CycleSort PROVE GridInv'
  BY <1>1, <1>4, StartsOK, ReduceOK DEF CycleSort
<1>5. ASSUME DebounceFires PROVE GridInv'
  BY <1>1, <1>5, StartsOK, ReduceOK DEF DebounceFires
<1>6. ASSUME ClearSearch PROVE GridInv'
  BY <1>1, <1>6, StartsOK, ReduceOK DEF ClearSearch
<1>7. ASSUME NEW p \in 0 .. Rows \div size, JumpTo(p) PROVE GridInv'
  <2>1. p * size \in Nat
    BY <1>1
  <2>2. NavOK(AtOffset(p * size), view)
    BY <2>1, JumpOK
  <2>3. QED
    BY <1>1, <1>7, <2>2, ReduceOK DEF JumpTo
<1>8. ASSUME NEW n \in PageSizes, SetPageSize(n) PROVE GridInv'
  BY <1>8, StartsOK, ReduceOK DEF SetPageSize
<1>9. QED
  BY <1>2, <1>3, <1>4, <1>5, <1>6, <1>7, <1>8

\* Every step of the grid keeps its invariant.
LEMMA GridStepOK == GridInv /\ [GridNext]_gridVars => GridInv'
<1> SUFFICES ASSUME GridInv, [GridNext]_gridVars PROVE GridInv'
  OBVIOUS
<1>1. ASSUME UNCHANGED gridVars PROVE GridInv'
  <2>1. UNCHANGED <<table, nav, size, view, pages, seekable, data, fetching, isError, gridOpen, mutation, lost>>
    BY <1>1 DEF gridVars, gridState, queryState
  <2>2. QED
    BY <2>1, MoreAlive DEF Alive, GridInv, GridTypes
<1>2. ASSUME \E text \in Searches : TypeSearch(text), seekable' = seekable PROVE GridInv'
  <2>1. UNCHANGED <<table, nav, size, view, pages, data, fetching, isError, gridOpen, mutation, lost>>
    BY <1>2 DEF TypeSearch, queryState
  <2>2. QED
    BY <1>2, <2>1, MoreAlive DEF Alive, GridInv, GridTypes
<1>3. ASSUME Refetch, seekable' = seekable PROVE GridInv'
  <2>1. UNCHANGED <<table, nav, size, view, pages, data, isError, gridOpen, mutation, lost>> /\ fetching' = TRUE
    BY <1>3 DEF Refetch, gridState
  <2>2. Alive(table, lost, mutation)' = Alive(table, lost, mutation)
    BY <2>1 DEF Alive
  <2>3. QED
    BY <1>3, <2>1, <2>2 DEF GridInv, GridTypes, RestsOn
<1>4. ASSUME GridStep, seekable' = seekable PROVE GridInv'
  BY <1>2, <1>3, <1>4, FetchOK, MutationStep, AnsweredOK, HideOK, ShowOK, MoveStep DEF GridStep
<1>5. QED
  BY <1>1, <1>4 DEF GridNext

\* Bookmarks are of the view, and a page at rest has rows that are alive.
LEMMA GridTrue == GridInv => GridIsCurrent
<1> SUFFICES ASSUME GridInv PROVE GridIsCurrent
  OBVIOUS
<1>1. nav.position \in PositionIn(view) /\ nav.previous \in Seq(PositionIn(view))
  BY DEF GridInv, GridTypes, NavOK
<1>2. Bookmarks \subseteq PositionIn(view)
  BY <1>1 DEF Bookmarks, Range
<1>3. CursorsFitTheView
  BY <1>2 DEF CursorsFitTheView, PositionIn, CursorOf
<1>4. SettledPageIsCurrent
  <2> SUFFICES ASSUME gridOpen, data # None, ~PendingPage, ~isError, mutation = None,
                      NEW i \in DOMAIN data.page.rows
               PROVE  data.page.rows[i] \in table \cup lost
    BY DEF SettledPageIsCurrent
  <2>1. Within(data.page, Alive(table, lost, mutation))
    BY DEF GridInv, RestsOn, PendingPage
  <2>2. QED
    BY <2>1 DEF Within, Alive
<1>5. QED
  BY <1>3, <1>4 DEF GridIsCurrent

\* While the table is whole, pages and cursors lie where the listing has them.

\* The listing of the whole table, and the rows that a cursor leaves.
Full(v) == Listing(1 .. Rows, v)
Behind(c, t) == {r \in t : IF c.view.order = "asc" THEN r > c.after ELSE r < c.after}

\* A cursor leads on to the same place as the offset beside it; a page lies there.
CursorAt(v, off, c) == c # None => Listing(Behind(c, 1 .. Rows), v) = SubSeq(Full(v), off + 1, Len(Full(v)))
AtPlace(v, p) == CursorAt(v, p.offset, p.cursor)
InPlace(v, off, pg) ==
    /\ pg.rows = SubSeq(Full(v), off + 1, off + Len(pg.rows))
    /\ CursorAt(v, off + Len(pg.rows), pg.next)

PlacedNav(n, v) == AtPlace(v, n.position) /\ \A i \in DOMAIN n.previous : AtPlace(v, n.previous[i])
PlacedCache(c) == \A k \in DOMAIN c : InPlace(k.view, k.position.offset, c[k].page)
PlacedData(d) == d # None => InPlace(d.key.view, d.key.position.offset, d.page)

PlaceInv == table = 1 .. Rows => PlacedNav(nav, view) /\ PlacedCache(pages) /\ PlacedData(data)

\* The positions of the order at which a row of t stands that the search finds.
Searched(v, r) == v.search = "" \/ r % 2 = 1
Seats(v, t) == {i \in 1 .. Rows : Ordered(v)[i] \in t /\ Searched(v, Ordered(v)[i])}

\* A listing picks its rows from the ordered table.
LEMMA ListingSeats == \A v, t : Listing(t, v) = Picked(Ordered(v), Seats(v, t))
  BY DEF Listing, Seats, Searched

\* The rows behind the one at a position stand at the positions behind it.
LEMMA OrderedBehind ==
    ASSUME NEW v, NEW m \in 1 .. Rows, NEW i \in 1 .. Rows, NEW c, c.view = v, c.after = Ordered(v)[m]
    PROVE  Ordered(v)[i] \in Behind(c, 1 .. Rows) <=> i > m
<1>1. Rows \in Nat
  BY GridAssumption
<1>2. /\ Ordered(v)[i] = IF v.order = "asc" THEN i ELSE Rows + 1 - i
      /\ Ordered(v)[m] = IF v.order = "asc" THEN m ELSE Rows + 1 - m
  BY DEF Ordered
<1>3. Ordered(v)[i] \in 1 .. Rows
  BY <1>1, <1>2
<1>4. Ordered(v)[i] \in Behind(c, 1 .. Rows)
        <=> IF v.order = "asc" THEN Ordered(v)[i] > Ordered(v)[m] ELSE Ordered(v)[i] < Ordered(v)[m]
  BY <1>3 DEF Behind
<1>5. QED
  BY <1>1, <1>2, <1>4

\* Behind a row of the listing lies what a cursor at that row leaves.
LEMMA CursorLeaves ==
    ASSUME NEW v, NEW j \in 1 .. Len(Full(v)), NEW c, c.view = v, c.after = Full(v)[j]
    PROVE  CursorAt(v, j, c)
<1> PICK top \in Nat : top = Rows
  BY GridAssumption
<1> PICK s : s = Ordered(v)
  OBVIOUS
<1> PICK T : T = 1 .. top
  OBVIOUS
<1>1. s \in Seq(T) /\ DOMAIN s = 1 .. top /\ \A i \in 1 .. top : s[i] \in T
  <2>1. s \in [1 .. top -> 1 .. top]
    BY DEF Ordered
  <2>2. QED
    BY <2>1
<1> PICK P : P = Seats(v, T)
  OBVIOUS
<1>2. Full(v) = Picked(s, P)
  BY ListingSeats DEF Full
<1>3. PICK m \in DOMAIN s :
              /\ m \in P /\ Picked(s, P)[j] = s[m]
              /\ \A Q : (\A i \in DOMAIN s : i \in Q <=> i \in P /\ i > m) =>
                    Picked(s, Q) = SubSeq(Picked(s, P), j + 1, Len(Picked(s, P)))
  <2>1. j \in 1 .. Len(Picked(s, P))
    BY <1>2
  <2>2. QED
    <3>1. PicksBehind(s, P, j)
      BY <1>1, <2>1, PickedAfter
    <3>2. QED
      BY <3>1 DEF PicksBehind
<1> PICK B : B = Behind(c, T)
  OBVIOUS
<1> PICK Q : Q = Seats(v, B)
  OBVIOUS
<1>4. Listing(B, v) = Picked(s, Q)
  BY ListingSeats
<1>5. \A i \in 1 .. top : s[i] \in B <=> i > m
  BY <1>1, <1>2, <1>3, OrderedBehind, ZenonT(60)
<1>6. \A i \in DOMAIN s : i \in Q <=> i \in P /\ i > m
  BY <1>1, <1>5 DEF Seats
<1>7. Picked(s, Q) = SubSeq(Picked(s, P), j + 1, Len(Picked(s, P)))
  BY <1>3, <1>6
<1>8. QED
  BY <1>2, <1>4, <1>7 DEF CursorAt

\* What the server answers to a request at its place is a page in its place.
LEMMA ServedInPlace ==
    ASSUME table = 1 .. Rows, seekable \in BOOLEAN, NEW key, key.position.offset \in Nat, key.size \in Nat,
           key.position.cursor \in CursorOf(key.view),
           AtPlace(key.view, key.position),
           NEW served \in PagesOf(key)
    PROVE  InPlace(key.view, key.position.offset, served)
<1> PICK v : v = key.view
  OBVIOUS
<1> PICK off \in Nat : off = key.position.offset
  OBVIOUS
<1> PICK full : full = Full(v)
  OBVIOUS
<1> PICK rest : rest = Rest(key)
  OBVIOUS
<1> PICK T : T = 1 .. Rows
  OBVIOUS
<1>1. full \in Seq(T)
  BY ListingOK DEF Full
<1>2. rest = SubSeq(full, off + 1, Len(full))
  <2>1. CASE key.position.cursor # None
    <3>1. PICK c : c = key.position.cursor
      OBVIOUS
    <3>2. rest = Listing(Behind(c, table), v)
      BY <2>1, <3>1 DEF Rest, Behind
    <3>3. Listing(Behind(c, 1 .. Rows), v) = SubSeq(Full(v), off + 1, Len(Full(v)))
      BY <2>1, <3>1 DEF AtPlace, CursorAt
    <3>4. QED
      BY <3>2, <3>3
  <2>2. CASE key.position.cursor = None
    BY <2>2 DEF Rest, Full
  <2>3. QED
    BY <2>1, <2>2
<1>3. rest \in Seq(T)
  BY RestOK
<1> PICK len \in Nat : len = Len(rest)
  BY <1>3
<1> PICK keyset \in BOOLEAN : keyset = (seekable /\ key.position.mode = "auto")
  OBVIOUS
<1> PICK pageSize \in Nat : pageSize = key.size
  OBVIOUS
<1> PICK most \in 0 .. len : most = IF len < pageSize THEN len ELSE pageSize
  OBVIOUS
<1> DEFINE After(n) == IF keyset /\ 0 < n /\ n < len THEN [view |-> key.view, after |-> rest[n]] ELSE None
           Page(n) == [rows |-> SubSeq(rest, 1, n), hasMore |-> n < len, keyset |-> keyset, next |-> After(n)]
<1>4. PagesOf(key) = {Page(n) : n \in (IF most = 0 THEN {0} ELSE 1 .. most)}
  BY ZenonT(60) DEF PagesOf
<1>5. PICK n \in 0 .. len : served = Page(n)
  <2> HIDE DEF Page
  <2>1. PICK n \in (IF most = 0 THEN {0} ELSE 1 .. most) : served = Page(n)
    BY <1>4
  <2>2. n \in 0 .. len
    OBVIOUS
  <2>3. QED
    BY <2>1, <2>2
<1>6. served.rows = SubSeq(rest, 1, n) /\ served.next = After(n)
  BY <1>5
<1> HIDE DEF Page, After
<1>7. /\ Len(served.rows) = n /\ served.rows = SubSeq(full, off + 1, off + n)
      /\ n > 0 => off + n \in 1 .. Len(full) /\ rest[n] = full[off + n]
  <2>1. PICK S : S = T
    OBVIOUS
  <2>2. PICK g \in Seq(S) : g = full
    BY <1>1, <2>1
  <2>3. rest = SubSeq(g, off + 1, Len(g)) /\ n \in 0 .. Len(rest)
    BY <1>2, <2>2
  <2>4. /\ Len(SubSeq(rest, 1, n)) = n
        /\ SubSeq(rest, 1, n) = SubSeq(g, off + 1, off + n)
        /\ n > 0 => off + n \in 1 .. Len(g) /\ rest[n] = g[off + n]
    <3>1. FirstOfRest(g, off, rest, n)
      BY <2>3, PartOfRest
    <3>2. QED
      BY <3>1 DEF FirstOfRest
  <2>5. QED
    BY <1>6, <2>2, <2>4
<1>8. CursorAt(v, off + n, served.next)
  <2>1. CASE keyset /\ 0 < n /\ n < len
    <3>1. PICK c : c = served.next
      OBVIOUS
    <3>2. c = [view |-> key.view, after |-> rest[n]]
      BY <1>6, <2>1, <3>1 DEF After
    <3>3. c.view = v /\ c.after = full[off + n] /\ off + n \in 1 .. Len(full)
      BY <1>7, <2>1, <3>2
    <3>4. QED
      BY <3>1, <3>3, CursorLeaves
  <2>2. CASE ~(keyset /\ 0 < n /\ n < len)
    BY <1>6, <2>2 DEF CursorAt, After
  <2>3. QED
    BY <2>1, <2>2
<1>9. QED
  BY <1>7, <1>8 DEF InPlace

\* The first page is in its place, and so is a jump's.
LEMMA StartPlaced == \A v : PlacedNav(InitialNavigation, v)
<1> TAKE v
<1>1. InitialNavigation.position.cursor = None /\ InitialNavigation.previous = <<>>
  BY DEF InitialNavigation
<1>2. QED
  BY <1>1, Nothing DEF PlacedNav, AtPlace, CursorAt

\* Without a cursor, a position is its offset.
LEMMA NoCursorPlaced ==
    ASSUME NEW nv, NEW v, nv.position.cursor = None, nv.previous = <<>>
    PROVE  PlacedNav(nv, v)
  BY Nothing DEF PlacedNav, AtPlace, CursorAt

\* Going on from a page in its place leads to the place behind it.
LEMMA NextPlaced ==
    ASSUME GridTypes, PlacedNav(nav, view), PlacedData(data), data # None, CanAdvance
    PROVE  PlacedNav(NextNavigation, view)
<1>1. data.key = Key /\ Key.view = view /\ Key.position = nav.position
  BY DEF CanAdvance, PendingPage, Key
<1>2. InPlace(view, nav.position.offset, data.page)
  BY <1>1 DEF PlacedData
<1>3. PICK off : off = nav.position.offset + Len(data.page.rows)
  OBVIOUS
<1>4. CursorAt(view, off, data.page.next)
  BY <1>2, <1>3 DEF InPlace
<1>5. PICK p : p = [offset |-> off,
                    mode |-> IF data.page.keyset THEN "auto" ELSE "offset",
                    cursor |-> IF data.page.keyset THEN data.page.next ELSE None]
  OBVIOUS
<1>6. AtPlace(view, p)
  BY <1>4, <1>5 DEF AtPlace, CursorAt
<1>7. NextNavigation.position = p /\ NextNavigation.previous = Append(nav.previous, nav.position)
  BY <1>3, <1>5 DEF NextNavigation
<1>8. PICK T : T = PositionIn(view)
  OBVIOUS
<1>9. nav.position \in T /\ nav.previous \in Seq(T)
  BY <1>8 DEF GridTypes, NavOK
<1>10. PICK q : q = Append(nav.previous, nav.position)
  OBVIOUS
<1>11. PICK len \in Nat : len = Len(nav.previous)
  BY <1>9
<1>12. /\ DOMAIN q = 1 .. len + 1 /\ DOMAIN nav.previous = 1 .. len
       /\ q[len + 1] = nav.position /\ \A i \in 1 .. len : q[i] = nav.previous[i]
  BY <1>9, <1>10, <1>11, Appended
<1>13. \A i \in DOMAIN q : AtPlace(view, q[i])
  <2> TAKE i \in DOMAIN q
  <2>1. i = len + 1 \/ i \in 1 .. len
    BY <1>12
  <2>2. QED
    BY <1>12, <2>1 DEF PlacedNav
<1>14. QED
  BY <1>6, <1>7, <1>10, <1>13 DEF PlacedNav

\* Going back leads to a bookmark, or to an offset.
LEMMA PreviousPlaced ==
    ASSUME GridTypes, PlacedNav(nav, view)
    PROVE  PlacedNav(PreviousNavigation, view)
<1>1. CASE nav.previous # <<>>
  <2>1. PreviousNavigation.position = Last(nav.previous) /\ PreviousNavigation.previous = Front(nav.previous)
    BY <1>1 DEF PreviousNavigation
  <2>2. PICK T : T = PositionIn(view)
    OBVIOUS
  <2>3. PICK s \in Seq(T) : s = nav.previous
    BY <2>2 DEF GridTypes, NavOK
  <2>4. PICK len \in Nat : len = Len(s)
    OBVIOUS
  <2>5. len > 0 /\ DOMAIN s = 1 .. len /\ Last(s) = s[len] /\ \A i \in 1 .. len : s[i] \in T
    BY <1>1, <2>3, <2>4 DEF Last
  <2>6. PICK q : q = SubSeq(s, 1, len - 1)
    OBVIOUS
  <2>7. DOMAIN q = 1 .. len - 1 /\ \A i \in 1 .. len - 1 : q[i] = s[i]
    <3>1. 1 \in Int /\ len - 1 \in Int /\ \A i \in 1 .. len - 1 : s[i] \in T
      BY <2>5
    <3>2. /\ q \in Seq(T) /\ Len(q) = IF 1 <= len - 1 THEN len - 1 - 1 + 1 ELSE 0
          /\ \A i \in 1 .. len - 1 - 1 + 1 : q[i] = s[1 + i - 1]
      BY <2>6, <3>1, SubSeqProperties
    <3>3. Len(q) = len - 1 /\ \A i \in 1 .. len - 1 : i \in 1 .. len - 1 - 1 + 1 /\ 1 + i - 1 = i
      BY <2>5, <3>2
    <3>4. DOMAIN q = 1 .. Len(q)
      BY <3>2
    <3>5. QED
      BY <3>2, <3>3, <3>4
  <2>8. Front(s) = q
    BY <2>4, <2>6 DEF Front
  <2>9. \A i \in DOMAIN s : AtPlace(view, s[i])
    BY <2>3 DEF PlacedNav
  <2>10. \A i \in DOMAIN q : AtPlace(view, q[i])
    <3>1. \A i \in DOMAIN q : i \in DOMAIN s /\ q[i] = s[i]
      BY <2>4, <2>5, <2>7
    <3>2. QED
      BY <2>9, <3>1
  <2>11. len \in DOMAIN s
    BY <2>5
  <2>12. QED
    BY <2>1, <2>3, <2>5, <2>8, <2>9, <2>10, <2>11 DEF PlacedNav
<1>2. CASE nav.previous = <<>>
  BY <1>2, NoCursorPlaced DEF PreviousNavigation
<1>3. QED
  BY <1>1, <1>2

\* What is cached under a key is shown where it is.
LEMMA ObservePlaced ==
    ASSUME PlacedCache(pages), PlacedData(data), NEW k, Observe(k)
    PROVE  PlacedData(data')
<1>1. CASE k \in DOMAIN pages
  <2>1. data' = [key |-> k, page |-> pages[k].page]
    BY <1>1 DEF Observe
  <2>2. data'.key = k /\ data'.page = pages[k].page
    BY <2>1
  <2>3. QED
    BY <1>1, <2>2 DEF PlacedCache, PlacedData
<1>2. CASE k \notin DOMAIN pages
  BY <1>2 DEF Observe
<1>3. QED
  BY <1>1, <1>2

\* Another place in the view, or another view.
LEMMA ReducePlaced ==
    ASSUME PlaceInv, NEW n, NEW z, NEW v, Reduce(n, z, v), table = 1 .. Rows => PlacedNav(n, v)
    PROVE  PlaceInv'
<1>1. /\ nav' = n /\ view' = v /\ UNCHANGED <<table, pages>>
      /\ UNCHANGED data \/ \E k : Observe(k)
  BY DEF Reduce
<1>2. QED
  BY <1>1, ObservePlaced DEF PlaceInv

\* The controls that lead there.
LEMMA MovePlaced ==
    ASSUME GridInv, PlaceInv,
           \/ NextPage \/ PreviousPage \/ CycleSort \/ DebounceFires \/ ClearSearch
           \/ \E p \in 0 .. Rows \div size : JumpTo(p)
           \/ \E n \in PageSizes : SetPageSize(n)
    PROVE  PlaceInv'
<1>1. GridTypes
  BY DEF GridInv
<1>2. ASSUME NextPage PROVE PlaceInv'
  <2>1. table = 1 .. Rows => PlacedNav(NextNavigation, view)
    BY <1>1, <1>2, NextPlaced DEF NextPage, Interactive, PlaceInv
  <2>2. QED
    BY <1>2, <2>1, ReducePlaced DEF NextPage
<1>3. ASSUME PreviousPage PROVE PlaceInv'
  <2>1. table = 1 .. Rows => PlacedNav(PreviousNavigation, view)
    BY <1>1, PreviousPlaced DEF PlaceInv
  <2>2. QED
    BY <1>3, <2>1, ReducePlaced DEF PreviousPage
<1>4. ASSUME CycleSort PROVE PlaceInv'
  BY <1>4, StartPlaced, ReducePlaced DEF CycleSort
<1>5. ASSUME DebounceFires PROVE PlaceInv'
  BY <1>5, StartPlaced, ReducePlaced DEF DebounceFires
<1>6. ASSUME ClearSearch PROVE PlaceInv'
  BY <1>6, StartPlaced, ReducePlaced DEF ClearSearch
<1>7. ASSUME NEW p \in 0 .. Rows \div size, JumpTo(p) PROVE PlaceInv'
  <2>1. PICK n : n = AtOffset(p * size)
    OBVIOUS
  <2>2. PlacedNav(n, view)
    <3>1. n = InitialNavigation \/ (n.position.cursor = None /\ n.previous = <<>>)
      BY <2>1 DEF AtOffset
    <3>2. QED
      BY <3>1, StartPlaced, NoCursorPlaced
  <2>3. QED
    BY <1>7, <2>1, <2>2, ReducePlaced DEF JumpTo
<1>8. ASSUME NEW n \in PageSizes, SetPageSize(n) PROVE PlaceInv'
  BY <1>8, StartPlaced, ReducePlaced DEF SetPageSize
<1>9. QED
  BY <1>2, <1>3, <1>4, <1>5, <1>6, <1>7, <1>8

\* The page that comes lies where its key says.
LEMMA FetchPlaced ==
    ASSUME GridInv, PlaceInv, FetchAnswered
    PROVE  PlaceInv'
<1>1. UNCHANGED <<table, nav, view>>
  BY DEF FetchAnswered, gridState
<1>2. CASE UNCHANGED <<pages, data>>
  BY <1>1, <1>2 DEF PlaceInv
<1>3. ASSUME NEW served \in PagesOf(Key),
             pages' = [k \in DOMAIN pages \cup {Key} |->
                           IF k = Key THEN [page |-> served, stale |-> FALSE] ELSE pages[k]],
             data' = [key |-> Key, page |-> served]
      PROVE  PlaceInv'
  <2> SUFFICES ASSUME table = 1 .. Rows PROVE PlacedCache(pages') /\ PlacedData(data')
    BY <1>1 DEF PlaceInv
  <2> PICK key : key = Key
    OBVIOUS
  <2>1. /\ key.position.offset \in Nat /\ key.size \in Nat
        /\ key.position.cursor \in CursorOf(key.view) /\ seekable \in BOOLEAN
    BY GridAssumption DEF GridInv, GridTypes, NavOK, PositionIn, Key
  <2>2. AtPlace(key.view, key.position)
    BY DEF PlaceInv, PlacedNav, Key
  <2>3. InPlace(key.view, key.position.offset, served)
    BY <1>3, <2>1, <2>2, ServedInPlace
  <2>4. PICK e : e = [page |-> served, stale |-> FALSE]
    OBVIOUS
  <2>5. /\ e.page = served
        /\ \A k \in DOMAIN pages' : (k = key /\ pages'[k] = e) \/ (k \in DOMAIN pages /\ pages'[k] = pages[k])
    BY <1>3, <2>4
  <2>6. PlacedCache(pages')
    BY <2>3, <2>5 DEF PlaceInv, PlacedCache
  <2>7. data'.key = key /\ data'.page = served
    BY <1>3
  <2>8. PlacedData(data')
    BY <2>3, <2>7 DEF PlacedData
  <2>9. QED
    BY <2>6, <2>8
<1>4. QED
  BY <1>2, <1>3 DEF FetchAnswered

\* An answer makes the pages stale and leaves them what they are.
LEMMA AnsweredPlaced ==
    ASSUME GridInv, PlaceInv, MutationAnswered
    PROVE  PlaceInv'
<1>1. /\ UNCHANGED <<table, nav, view, data>>
      /\ pages' = [k \in DOMAIN pages |-> [pages[k] EXCEPT !.stale = TRUE]]
  BY DEF MutationAnswered, gridState
<1>2. \A k \in DOMAIN pages' : k \in DOMAIN pages /\ pages'[k].page = pages[k].page
  <2> TAKE k \in DOMAIN pages'
  <2>1. k \in DOMAIN pages /\ pages'[k] = [pages[k] EXCEPT !.stale = TRUE] /\ pages[k] \in Entry(k.view)
    BY <1>1 DEF GridInv, GridTypes, CacheOK
  <2>2. QED
    BY <2>1 DEF Entry
<1>3. PlacedCache(pages) => PlacedCache(pages')
  BY <1>2 DEF PlacedCache
<1>4. QED
  BY <1>1, <1>3 DEF PlaceInv

\* Every step of the grid keeps everything in its place.
LEMMA PlaceStepOK == GridInv /\ PlaceInv /\ [GridNext]_gridVars => PlaceInv'
<1> SUFFICES ASSUME GridInv, PlaceInv, [GridNext]_gridVars PROVE PlaceInv'
  OBVIOUS
<1>1. ASSUME UNCHANGED <<nav, view, pages, data>>, table' \subseteq table PROVE PlaceInv'
  <2>1. table' = 1 .. Rows => table = 1 .. Rows
    BY <1>1 DEF GridInv, GridTypes
  <2>2. QED
    BY <1>1, <2>1 DEF PlaceInv
<1>2. CASE UNCHANGED gridVars
  BY <1>1, <1>2 DEF gridVars, gridState, queryState
<1>3. CASE \/ \E text \in Searches : TypeSearch(text)
           \/ \E i \in 1 .. Rows : DeleteRow(i)
           \/ Refetch \/ SaveGridEdit \/ DeleteRuns \/ MutationFailed \/ LostDeleteRuns
  <2>1. UNCHANGED <<nav, view, pages, data>> /\ table' \subseteq table
    BY <1>3 DEF TypeSearch, DeleteRow, Refetch, SaveGridEdit, DeleteRuns, MutationFailed, LostDeleteRuns,
                gridState, queryState
  <2>2. QED
    BY <1>1, <2>1
<1>4. CASE HideGrid
  <2>1. UNCHANGED <<table, pages>> /\ nav' = InitialNavigation /\ data' = None
    BY <1>4 DEF HideGrid
  <2>2. QED
    BY <2>1, StartPlaced DEF PlaceInv, PlacedData
<1>5. CASE ShowGrid
  <2>1. UNCHANGED <<table, nav, view, pages>> /\ Observe(Key)
    BY <1>5 DEF ShowGrid, gridState
  <2>2. QED
    BY <2>1, ObservePlaced DEF PlaceInv
<1>6. QED
  BY <1>2, <1>3, <1>4, <1>5, FetchPlaced, AnsweredPlaced, MovePlaced DEF GridNext, GridStep

\* What is on display lies where its label says.
LEMMA PlaceTrue == PlaceInv => PageIsWhereItSays
<1> SUFFICES ASSUME PlaceInv, gridOpen, data # None, ~PendingPage, table = 1 .. Rows
             PROVE  data.page.rows = SubSeq(Full(view), nav.position.offset + 1,
                                            nav.position.offset + Len(data.page.rows))
  BY DEF PageIsWhereItSays, Full
<1>1. data.key.view = view /\ data.key.position = nav.position
  BY DEF PendingPage, Key
<1>2. QED
  BY <1>1 DEF PlaceInv, PlacedData, InPlace

\* At first nothing is on display.
LEMMA InitPlace == GridInit => PlaceInv
<1> SUFFICES ASSUME GridInit PROVE PlaceInv
  OBVIOUS
<1>1. nav = InitialNavigation /\ pages = <<>> /\ data = None
  BY DEF GridInit
<1>2. QED
  BY <1>1, StartPlaced, Nothing DEF PlaceInv, PlacedCache, PlacedData

-----------------------------------------------------------------------------
(* The Redis browser.                                                       *)

\* The lease that a fetch may bring is nobody else's yet.
Unused(id, c, back) == id \notin back /\ \A k \in DOMAIN c : id \notin LeasesOf(c, k)

\* No page depends on a lease that was given back.
Reached(c, back) == \A k \in DOMAIN c : LeasesOf(c, k) \cap back = {}

\* A cursor is of one of two kinds, or there is none; a key is a pattern with a cursor.
Cursor(c) == c = None \/ c.kind \in {"scan", "lease"}
KeyOK(k) == k = [pattern |-> k.pattern, cursor |-> k.cursor] /\ Cursor(k.cursor)
Request(f) == f \in [id : {f.id}, key : {f.key}, aborted : BOOLEAN] /\ KeyOK(f.key)
Stored(c) ==
    /\ c = [k \in DOMAIN c |-> c[k]]
    /\ \A k \in DOMAIN c : c[k] = None \/ Cursor(c[k].next)

\* The fetches under way have numbers of their own, and their leases are not in use.
FetchesDiffer(fs) ==
    /\ \A f \in fs : Request(f)
    /\ \A f \in fs : \A g \in fs : f.id = g.id => f = g
NewLeases(fs, c, back) == \A f \in fs : Unused(f.id, c, back)

\* No number is beyond the count of the fetches started.
Numbered(fs, c, back, n) ==
    /\ n \in Nat
    /\ \A f \in fs : f.id \in 1 .. n
    /\ back \subseteq 1 .. n
    /\ \A k \in DOMAIN c : LeasesOf(c, k) \subseteq 1 .. n

LeasesFit(fs, c, back, n) ==
    /\ Stored(c)
    /\ Reached(c, back)
    /\ FetchesDiffer(fs) /\ NewLeases(fs, c, back) /\ Numbered(fs, c, back, n)

\* What is read and will be kept is the page in view, which is in the cache.
InView(tab, current, fs, c) ==
    /\ tab = "shown" => current \in DOMAIN c
    /\ \A f \in fs : f.aborted \/ (tab = "shown" /\ f.key = current)

BrowseInv ==
    /\ LeasesFit(fetches, cached, released, started)
    /\ touched \in Seq(DOMAIN cached)
    /\ KeyOK(page)
    /\ InView(redisTab, page, fetches, cached)

\* Nothing is cached, no lease is held, and the first page is asked for.
LEMMA InitBrowse == BrowseInit => BrowseInv
<1> SUFFICES ASSUME BrowseInit PROVE BrowseInv
  OBVIOUS
<1>1. page = [pattern |-> "*", cursor |-> None] /\ page.cursor = None
  BY DEF BrowseInit, Start
<1>2. cached = [k \in {page} |-> None] /\ released = {} /\ started = 1
      /\ fetches = {[id |-> 1, key |-> page, aborted |-> FALSE]}
      /\ touched = <<page>>
  BY DEF BrowseInit
<1>3. \A k \in DOMAIN cached : LeasesOf(cached, k) = {}
  BY <1>1, <1>2 DEF LeasesOf, LeaseOf
<1>4. KeyOK(page)
  BY <1>1 DEF KeyOK, Cursor
<1>5. \A f \in fetches : f.id = 1 /\ Request(f)
  <2>1. PICK f : f = [id |-> 1, key |-> page, aborted |-> FALSE]
    OBVIOUS
  <2>2. f \in [id : {1}, key : {page}, aborted : BOOLEAN] /\ f.id = 1 /\ f.key = page
    BY <2>1
  <2>3. Request(f)
    BY <1>4, <2>2 DEF Request
  <2>4. fetches = {f}
    BY <1>2, <2>1
  <2>5. QED
    BY <2>2, <2>3, <2>4
<1>6. FetchesDiffer(fetches)
  BY <1>2, <1>5 DEF FetchesDiffer
<1>7. NewLeases(fetches, cached, released)
  BY <1>2, <1>3, <1>5 DEF NewLeases, Unused
<1>8. Numbered(fetches, cached, released, started)
  BY <1>2, <1>3, <1>5 DEF Numbered
<1>9. Reached(cached, released) /\ Stored(cached)
  BY <1>2 DEF Reached, Stored
<1>10. InView(redisTab, page, fetches, cached)
  BY <1>2 DEF InView, BrowseInit
<1>11. QED
  BY <1>2, <1>4, <1>6, <1>7, <1>8, <1>9, <1>10 DEF BrowseInv, LeasesFit

-----------------------------------------------------------------------------

\* What is picked where no element is to be skipped has none of them.
LEMMA PickedBeside ==
    ASSUME NEW D, NEW t \in Seq(D), NEW S, NEW P, \A i \in P : t[i] \notin S
    PROVE  Picked(t, P) \in Seq(D \ S)
<1>1. /\ Picked(t, P) \in Seq(D)
      /\ \A j \in DOMAIN Picked(t, P) : \E i \in DOMAIN t : i \in P /\ Picked(t, P)[j] = t[i]
  BY PickedFrom
<1> PICK q : q = Picked(t, P)
  OBVIOUS
<1>2. \A j \in 1 .. Len(q) : q[j] \in D \ S
  BY <1>1
<1>3. q \in [1 .. Len(q) -> D \ S] /\ Len(q) \in Nat
  BY <1>1, <1>2
<1>4. QED
  BY <1>3

\* What skipping leaves is a part of the list without the elements skipped.
LEMMA SkippingLeaves ==
    ASSUME NEW D, NEW t \in Seq(D), NEW S
    PROVE  Skipping(t, S) \in Seq(D \ S)
  BY PickedBeside DEF Skipping

\* A key that is touched becomes the last of them.
LEMMA TouchFits ==
    ASSUME NEW D, NEW E, NEW t \in Seq(D), NEW k \in E, D \subseteq E
    PROVE  Touch(t, k) \in Seq(E)
<1>1. PICK q : q = Skipping(t, {k})
  OBVIOUS
<1>2. q \in Seq(D \ {k})
  BY <1>1, SkippingLeaves
<1>3. D \ {k} \subseteq E
  OBVIOUS
<1>4. Len(q) \in Nat /\ q \in [1 .. Len(q) -> D \ {k}]
  BY <1>2
<1>5. q \in [1 .. Len(q) -> E]
  BY <1>3, <1>4
<1>6. q \in Seq(E)
  BY <1>4, <1>5
<1>7. QED
  BY <1>1, <1>6, Appended DEF Touch

\* prune() removes keys of the cache.
LEMMA GoneAreCached ==
    ASSUME NEW c, NEW t \in Seq(DOMAIN c), NEW tab, NEW current, NEW inFlight, NEW more
    PROVE  /\ Obsolete(c, t, tab, current, inFlight, more) \subseteq DOMAIN c
           /\ tab = "shown" => current \notin Obsolete(c, t, tab, current, inFlight, more)
<1> PICK idle : idle = Inactive(t, tab, current, inFlight)
  OBVIOUS
<1>1. idle \in Seq(DOMAIN c) /\ (tab = "shown" => \A j \in DOMAIN idle : idle[j] # current)
  <2>1. PICK P : P = {i \in DOMAIN t : /\ ~(tab = "shown" /\ t[i] = current)
                                      /\ ~\E f \in inFlight : f.key = t[i] /\ ~f.aborted}
    OBVIOUS
  <2>2. /\ Picked(t, P) \in Seq(DOMAIN c)
        /\ \A j \in DOMAIN Picked(t, P) : \E i \in DOMAIN t : i \in P /\ Picked(t, P)[j] = t[i]
    BY PickedFrom
  <2>3. idle = Picked(t, P)
    BY <2>1 DEF Inactive
  <2>4. QED
    BY <2>1, <2>2, <2>3
<1> PICK len \in Nat : len = Len(idle)
  BY <1>1
<1> DEFINE First_(n) == {idle[i] : i \in 1 .. n}
           Fits(n) == Cardinality(Pages(c) \ First_(n)) + more <= CacheBudget \/ n = Len(idle)
           S == {n \in 0 .. len : Fits(n)}
<1>2. \E n \in 0 .. len : Fits(n) /\ \A m \in 0 .. n - 1 : ~Fits(m)
  <2>1. len \in S /\ S \subseteq Nat
    OBVIOUS
  <2> HIDE DEF S
  <2>2. PICK n \in S : \A m \in S : n <= m
    BY <2>1, Least
  <2>3. n \in 0 .. len /\ Fits(n)
    BY <2>2 DEF S
  <2>4. ASSUME NEW m \in 0 .. n - 1 PROVE ~Fits(m)
    <3>1. m \in 0 .. len /\ ~(n <= m)
      BY <2>3
    <3> HIDE DEF Fits
    <3>2. QED
      BY <2>2, <3>1 DEF S
  <2> HIDE DEF Fits
  <2>5. QED
    BY <2>3, <2>4
<1> DEFINE n == CHOOSE n \in 0 .. len : Fits(n) /\ \A m \in 0 .. n - 1 : ~Fits(m)
<1>3. n \in 0 .. len
  <2> HIDE DEF Fits
  <2>1. QED
    BY <1>2
<1>4. Obsolete(c, t, tab, current, inFlight, more) = IF tab = "closed" THEN DOMAIN c ELSE First_(n)
  BY DEF Obsolete
<1> HIDE DEF n
<1>5. First_(n) \subseteq DOMAIN c /\ (tab = "shown" => current \notin First_(n))
  <2>1. \A i \in 1 .. n : i \in DOMAIN idle
    BY <1>1, <1>3
  <2>2. QED
    BY <1>1, <2>1
<1>6. QED
  BY <1>4, <1>5

\* Pruning takes pages away, and gives back only what no page that stays depends on.
LEMMA PruneFits ==
    ASSUME NEW fs, NEW c, NEW n, LeasesFit(fs, c, released, n),
           NEW t \in Seq(DOMAIN c), NEW tab, NEW current, NEW inFlight, NEW more,
           Pruned(c, t, tab, current, inFlight, more)
    PROVE  /\ LeasesFit(fs, cached', released', n) /\ touched' \in Seq(DOMAIN cached')
           /\ tab = "shown" /\ current \in DOMAIN c => current \in DOMAIN cached'
<1>1. PICK gone : gone = Obsolete(c, t, tab, current, inFlight, more)
  OBVIOUS
<1>2. PICK back : back = LeasesToRelease(c, gone)
  OBVIOUS
<1>3. cached' = Without(c, gone) /\ released' = released \cup back /\ touched' = Skipping(t, gone)
  BY <1>1, <1>2 DEF Pruned
<1>4. /\ DOMAIN cached' = DOMAIN c \ gone
      /\ \A k \in DOMAIN cached' : cached'[k] = c[k]
      /\ cached' = [k \in DOMAIN cached' |-> cached'[k]]
  BY <1>3 DEF Without
<1>5. \A k \in DOMAIN cached' : LeasesOf(cached', k) = LeasesOf(c, k)
  BY <1>4 DEF LeasesOf
<1>6. \A l \in back : \E k \in DOMAIN c : l \in LeasesOf(c, k)
  <2>1. gone \subseteq DOMAIN c
    BY <1>1, GoneAreCached
  <2>2. \A l \in back : \E k \in gone : l \in LeasesOf(c, k)
    BY <1>2 DEF LeasesToRelease, LeasesAmong
  <2>3. QED
    BY <2>1, <2>2
<1>7. ASSUME NEW l \in back, NEW k \in DOMAIN c \ gone PROVE l \notin LeasesOf(c, k)
  <2>1. back = LeasesAmong(c, gone) \ LeasesAmong(c, DOMAIN c \ gone)
    BY <1>2 DEF LeasesToRelease
  <2>2. l \notin LeasesAmong(c, DOMAIN c \ gone)
    BY <2>1
  <2>3. QED
    BY <2>2 DEF LeasesAmong
<1>8. Reached(cached', released')
  BY <1>3, <1>4, <1>5, <1>7 DEF LeasesFit, Reached
<1>9. NewLeases(fs, cached', released')
  BY <1>3, <1>4, <1>5, <1>6 DEF LeasesFit, NewLeases, Unused
<1>10. Numbered(fs, cached', released', n)
  <2>1. back \subseteq 1 .. n
    BY <1>6 DEF LeasesFit, Numbered
  <2>2. \A k \in DOMAIN cached' : LeasesOf(cached', k) \subseteq 1 .. n
    BY <1>4, <1>5 DEF LeasesFit, Numbered
  <2>3. QED
    BY <1>3, <2>1, <2>2 DEF LeasesFit, Numbered
<1>11. touched' \in Seq(DOMAIN cached')
  BY <1>3, <1>4, SkippingLeaves
<1>12. Stored(cached')
  BY <1>4 DEF LeasesFit, Stored
<1>13. tab = "shown" /\ current \in DOMAIN c => current \in DOMAIN cached'
  BY <1>1, <1>4, GoneAreCached
<1>14. QED
  BY <1>8, <1>9, <1>10, <1>11, <1>12, <1>13 DEF LeasesFit

\* An abort marks a fetch, and leaves its number and its key.
LEMMA Marked ==
    ASSUME NEW I, NEW K, NEW f \in [id : I, key : K, aborted : BOOLEAN]
    PROVE  /\ [f EXCEPT !.aborted = TRUE] \in [id : I, key : K, aborted : BOOLEAN]
           /\ [f EXCEPT !.aborted = TRUE].aborted
           /\ [f EXCEPT !.aborted = TRUE].id = f.id /\ [f EXCEPT !.aborted = TRUE].key = f.key
  OBVIOUS

\* Every fetch that is aborted was one before, under its number.
LEMMA AllAborted ==
    ASSUME FetchesDiffer(fetches)
    PROVE  \A a \in Aborted : a.aborted /\ Request(a) /\ \E f \in fetches : a = [f EXCEPT !.aborted = TRUE] /\ a.id = f.id
<1> TAKE a \in Aborted
<1>1. PICK f \in fetches : a = [f EXCEPT !.aborted = TRUE]
  BY DEF Aborted
<1>2. f \in [id : {f.id}, key : {f.key}, aborted : BOOLEAN] /\ KeyOK(f.key)
  BY DEF FetchesDiffer, Request
<1>3. /\ a \in [id : {f.id}, key : {f.key}, aborted : BOOLEAN]
      /\ a.aborted /\ a.id = f.id /\ a.key = f.key
  BY <1>1, <1>2, Marked
<1>4. QED
  BY <1>1, <1>2, <1>3 DEF Request

\* Fetches that are aborted keep their numbers.
LEMMA AbortedFit ==
    ASSUME NEW c, NEW n, LeasesFit(fetches, c, released, n)
    PROVE  LeasesFit(Aborted, c, released, n)
<1>1. FetchesDiffer(fetches)
  BY DEF LeasesFit
<1>2. \A a \in Aborted : \E f \in fetches : a = [f EXCEPT !.aborted = TRUE] /\ a.id = f.id /\ Request(a)
  BY <1>1, AllAborted
<1>3. FetchesDiffer(Aborted)
  BY <1>2, ZenonT(60) DEF LeasesFit, FetchesDiffer
<1>4. NewLeases(Aborted, c, released) /\ Numbered(Aborted, c, released, n)
  BY <1>2 DEF LeasesFit, NewLeases, Numbered
<1>5. QED
  BY <1>3, <1>4 DEF LeasesFit

\* One more fetch has a number that nobody had.
LEMMA StartedFit ==
    ASSUME NEW c, LeasesFit(fetches, c, released, started), NEW k, KeyOK(k), StartFetch(k)
    PROVE  LeasesFit(fetches', c, released, started')
<1>1. /\ started' = started + 1
      /\ fetches' = Aborted \cup {[id |-> started', key |-> k, aborted |-> FALSE]}
  BY DEF StartFetch
<1>2. LeasesFit(Aborted, c, released, started)
  BY AbortedFit
<1>3. started \in Nat /\ started' \in Nat /\ started' \notin 1 .. started /\ started' \in 1 .. started'
      /\ 1 .. started \subseteq 1 .. started'
  BY <1>1 DEF LeasesFit, Numbered
<1>4. PICK f : f = [id |-> started', key |-> k, aborted |-> FALSE]
  OBVIOUS
<1>5. f.id = started' /\ Request(f) /\ fetches' = Aborted \cup {f}
  BY <1>1, <1>4 DEF Request
<1>6. \A a \in Aborted : a.id \in 1 .. started
  BY <1>2 DEF LeasesFit, Numbered
<1>7. FetchesDiffer(fetches')
  BY <1>2, <1>3, <1>5, <1>6 DEF LeasesFit, FetchesDiffer
<1>8. Unused(started', c, released)
  BY <1>2, <1>3 DEF LeasesFit, Numbered, Unused
<1>9. NewLeases(fetches', c, released)
  BY <1>2, <1>5, <1>8 DEF LeasesFit, NewLeases
<1>10. Numbered(fetches', c, released, started')
  <2>1. \A a \in fetches' : a.id \in 1 .. started'
    BY <1>3, <1>5, <1>6
  <2>2. released \subseteq 1 .. started' /\ \A x \in DOMAIN c : LeasesOf(c, x) \subseteq 1 .. started'
    BY <1>2, <1>3 DEF LeasesFit, Numbered
  <2>3. QED
    BY <1>3, <2>1, <2>2 DEF Numbered
<1>11. QED
  BY <1>2, <1>7, <1>9, <1>10 DEF LeasesFit

\* The explorer turns to a page whose cursor is good to go on from.
LEMMA ObserveFits ==
    ASSUME BrowseInv, NEW k, KeyOK(k), LeaseOf(k.cursor) \cap released = {},
           LeaseOf(k.cursor) \subseteq 1 .. started, \A f \in fetches : f.id \notin LeaseOf(k.cursor),
           ObservePage("shown", k)
    PROVE  BrowseInv'
<1>1. PICK c : c = [x \in DOMAIN cached \cup {k} |-> IF x \in DOMAIN cached THEN cached[x] ELSE None]
  OBVIOUS
<1>2. /\ DOMAIN c = DOMAIN cached \cup {k} /\ c = [x \in DOMAIN c |-> c[x]]
      /\ \A x \in DOMAIN cached : c[x] = cached[x]
      /\ k \notin DOMAIN cached => c[k] = None
  BY <1>1
<1>3. \A x \in DOMAIN cached : LeasesOf(c, x) = LeasesOf(cached, x)
  BY <1>2 DEF LeasesOf
<1>4. k \notin DOMAIN cached => LeasesOf(c, k) = LeaseOf(k.cursor)
  BY <1>2 DEF LeasesOf
<1>5. \A x \in DOMAIN c : x \in DOMAIN cached \/ (x = k /\ k \notin DOMAIN cached)
  BY <1>2
<1>6. LeasesFit(fetches, c, released, started)
  <2>1. Reached(c, released)
    BY <1>3, <1>4, <1>5 DEF BrowseInv, LeasesFit, Reached
  <2>2. NewLeases(fetches, c, released)
    BY <1>3, <1>4, <1>5 DEF BrowseInv, LeasesFit, NewLeases, Unused
  <2>3. Numbered(fetches, c, released, started)
    BY <1>3, <1>4, <1>5 DEF BrowseInv, LeasesFit, Numbered
  <2>4. Stored(c)
    BY <1>2, <1>5 DEF BrowseInv, LeasesFit, Stored
  <2>5. QED
    BY <2>1, <2>2, <2>3, <2>4 DEF BrowseInv, LeasesFit
<1>7. LeasesFit(fetches', c, released, started')
  <2>1. CASE StartFetch(k)
    BY <1>6, <2>1, StartedFit
  <2>2. CASE fetches' = Aborted /\ started' = started
    BY <1>6, <2>2, AbortedFit
  <2>3. QED
    BY <2>1, <2>2 DEF ObservePage
<1>8. Touch(touched, k) \in Seq(DOMAIN c)
  BY <1>2, TouchFits DEF BrowseInv
<1>9. Pruned(c, Touch(touched, k), "shown", k, fetches', others)
  BY <1>1 DEF ObservePage
<1>10. page' = k /\ redisTab' = "shown"
  BY DEF ObservePage
<1>11. /\ LeasesFit(fetches', cached', released', started') /\ touched' \in Seq(DOMAIN cached')
       /\ k \in DOMAIN cached'
  BY <1>2, <1>7, <1>8, <1>9, PruneFits
<1>12. \A f \in fetches' : f.aborted \/ f.key = k
  <2>1. \A f \in Aborted : f.aborted
    BY AllAborted DEF BrowseInv, LeasesFit
  <2>2. \A f \in fetches' : f \in Aborted \/ f = [id |-> started', key |-> k, aborted |-> FALSE]
    BY DEF ObservePage, StartFetch
  <2>3. QED
    BY <2>1, <2>2
<1>13. QED
  BY <1>10, <1>11, <1>12 DEF BrowseInv, InView

\* The first page of a pattern needs no lease.
LEMMA StartIsGood == \A p : KeyOK(Start(p)) /\ LeaseOf(Start(p).cursor) = {}
  BY DEF KeyOK, Start, LeaseOf, Cursor

\* The continuation of a cached page.
LEMMA NextIsGood ==
    ASSUME BrowseInv, NEW k \in Pages(cached), NEW n, n = [page EXCEPT !.cursor = cached[k].next]
    PROVE  /\ KeyOK(n) /\ LeaseOf(n.cursor) \cap released = {}
           /\ LeaseOf(n.cursor) \subseteq 1 .. started
           /\ \A f \in fetches : f.id \notin LeaseOf(n.cursor)
<1>1. k \in DOMAIN cached /\ cached[k] # None
  BY DEF Pages
<1>2. PICK p, q : page = [pattern |-> p, cursor |-> q]
  BY DEF BrowseInv, KeyOK
<1>3. n = [pattern |-> p, cursor |-> cached[k].next]
  BY <1>2
<1>4. KeyOK(n) /\ n.cursor = cached[k].next
  BY <1>1, <1>3 DEF KeyOK, BrowseInv, LeasesFit, Stored
<1>5. LeaseOf(n.cursor) \subseteq LeasesOf(cached, k)
  BY <1>1, <1>4 DEF LeasesOf
<1>6. QED
  BY <1>1, <1>4, <1>5 DEF BrowseInv, LeasesFit, Reached, NewLeases, Unused, Numbered

\* Without a change of the pages there is nothing to take back: other steps.
LEMMA FetchGone ==
    ASSUME NEW c, NEW n, NEW fs, NEW gs, gs \subseteq fs, LeasesFit(fs, c, released, n)
    PROVE  LeasesFit(gs, c, released, n)
  BY DEF LeasesFit, FetchesDiffer, NewLeases, Numbered

\* What an answer goes on with is the lease of the fetch, or of its key.
LEMMA AnswerLeases ==
    ASSUME NEW f, Cursor(f.key.cursor), NEW a \in Answers(f)
    PROVE  /\ LeaseOf(a.result.next) \subseteq {f.id} \cup LeaseOf(f.key.cursor)
           /\ Cursor(a.result.next)
<1>1. \A p, n : LeaseOf(ScanCursor(p, n)) = {} /\ Cursor(ScanCursor(p, n))
  BY DEF LeaseOf, ScanCursor, Cursor
<1>2. \A p, l, n : LeaseOf(LeaseCursor(p, l, n)) \subseteq {l} /\ Cursor(LeaseCursor(p, l, n))
  BY DEF LeaseOf, LeaseCursor, Cursor
<1>3. \A keys, next, parked : Answer(keys, next, parked).result.next = next
  BY DEF Answer
<1>4. ASSUME NEW p, NEW native, a \in NativeAnswers(f.id, p, native)
      PROVE  LeaseOf(a.result.next) \subseteq {f.id} /\ Cursor(a.result.next)
  <2>1. PICK keys, next, parked, n : /\ a = Answer(keys, next, parked)
                                     /\ \/ next = ScanCursor(p, n)
                                        \/ next = LeaseCursor(p, f.id, n)
    BY <1>4 DEF NativeAnswers
  <2>2. QED
    BY <1>1, <1>2, <1>3, <2>1
<1>5. ASSUME a \in LeaseAnswers(f.key.cursor)
      PROVE  LeaseOf(a.result.next) \subseteq {f.key.cursor.lease} /\ Cursor(a.result.next)
  <2>1. PICK keys, next, parked, n : /\ a = Answer(keys, next, parked)
                                     /\ \/ next = ScanCursor(f.key.cursor.pattern, n)
                                        \/ next = LeaseCursor(f.key.cursor.pattern, f.key.cursor.lease, n)
    BY <1>5 DEF LeaseAnswers
  <2>2. QED
    BY <1>1, <1>2, <1>3, <2>1
<1>6. \/ \E p, native : a \in NativeAnswers(f.id, p, native)
      \/ f.key.cursor # None /\ f.key.cursor.kind # "scan" /\ a \in LeaseAnswers(f.key.cursor)
  BY DEF Answers
<1>7. CASE \E p, native : a \in NativeAnswers(f.id, p, native)
  BY <1>4, <1>7
<1>8. CASE f.key.cursor # None /\ f.key.cursor.kind # "scan" /\ a \in LeaseAnswers(f.key.cursor)
  <2>1. LeaseOf(f.key.cursor) = {f.key.cursor.lease}
    BY <1>8 DEF LeaseOf, Cursor
  <2>2. QED
    BY <1>5, <1>8, <2>1
<1>9. QED
  BY <1>6, <1>7, <1>8

\* The answer of a fetch is stored under its key.
LEMMA ReadFits ==
    ASSUME BrowseInv, NEW f \in fetches, PageRead(f)
    PROVE  BrowseInv'
<1>1. PICK a \in Answers(f) :
          IF f.aborted
          THEN UNCHANGED <<cached, touched, releasing, released>>
          ELSE Pruned([cached EXCEPT ![f.key] = a.result], Touch(touched, f.key),
                      redisTab, page, fetches \ {f}, others)
  BY DEF PageRead
<1>2. fetches' = fetches \ {f} /\ page' = page /\ started' = started
  BY DEF PageRead
<1>3. LeasesFit(fetches', cached, released, started)
  BY <1>2, FetchGone DEF BrowseInv
<1>4. CASE f.aborted
  BY <1>1, <1>2, <1>3, <1>4 DEF BrowseInv, InView, PageRead
<1>5. CASE ~f.aborted
  <2>1. PICK c : c = [cached EXCEPT ![f.key] = a.result]
    OBVIOUS
  <2>2. /\ DOMAIN c = DOMAIN cached /\ c = [x \in DOMAIN c |-> c[x]]
        /\ \A x \in DOMAIN cached : x # f.key => c[x] = cached[x]
        /\ f.key \in DOMAIN cached => c[f.key] = a.result
    BY <2>1 DEF BrowseInv, LeasesFit, Stored
  <2> Cursor(f.key.cursor)
    BY DEF BrowseInv, LeasesFit, FetchesDiffer, Request, KeyOK
  <2>3. \A x \in DOMAIN c : x # f.key => LeasesOf(c, x) = LeasesOf(cached, x)
    BY <2>2 DEF LeasesOf
  <2>4. f.key \in DOMAIN cached => LeasesOf(c, f.key) \subseteq {f.id} \cup LeasesOf(cached, f.key)
    BY <2>2, AnswerLeases DEF LeasesOf
  <2>5. \A x \in DOMAIN c : LeasesOf(c, x) \subseteq {f.id} \cup LeasesOf(cached, x)
    BY <2>2, <2>3, <2>4
  <2>6. f.id \in 1 .. started /\ f.id \notin released
    BY DEF BrowseInv, LeasesFit, Numbered, NewLeases, Unused
  <2>7. \A g \in fetches' : g \in fetches /\ g.id # f.id
    BY <1>2 DEF BrowseInv, LeasesFit, FetchesDiffer
  <2>8. Reached(c, released)
    BY <2>2, <2>5, <2>6 DEF BrowseInv, LeasesFit, Reached
  <2>9. NewLeases(fetches', c, released)
    BY <2>2, <2>5, <2>7 DEF BrowseInv, LeasesFit, NewLeases, Unused
  <2>10. Numbered(fetches', c, released, started)
    <3>1. \A x \in DOMAIN c : LeasesOf(c, x) \subseteq 1 .. started
      BY <2>2, <2>5, <2>6 DEF BrowseInv, LeasesFit, Numbered
    <3>2. QED
      BY <1>3, <3>1 DEF LeasesFit, Numbered
  <2>11. LeasesFit(fetches', c, released, started)
    <3>1. Stored(c)
      BY <2>2, AnswerLeases DEF BrowseInv, LeasesFit, Stored
    <3>2. QED
      BY <1>3, <2>8, <2>9, <2>10, <3>1 DEF LeasesFit
  <2>12. PICK t : t = Touch(touched, f.key)
    OBVIOUS
  <2>13. Pruned(c, t, redisTab, page, fetches \ {f}, others)
    BY <1>1, <1>5, <2>1, <2>12
  <2>14. t \in Seq(DOMAIN c)
    BY <2>2, <2>12, <1>5, TouchFits DEF BrowseInv, InView
  <2>15. redisTab' = redisTab /\ redisTab = "shown" /\ page \in DOMAIN c
    BY <1>5, <2>2 DEF PageRead, BrowseInv, InView
  <2>16. /\ LeasesFit(fetches', cached', released', started) /\ touched' \in Seq(DOMAIN cached')
         /\ page \in DOMAIN cached'
    BY <2>11, <2>13, <2>14, <2>15, PruneFits
  <2>17. QED
    BY <1>2, <2>15, <2>16 DEF BrowseInv, InView
<1>6. QED
  BY <1>4, <1>5

\* Every step keeps what the leases rest on.
LEMMA BrowseStep == BrowseInv /\ [BrowseNext]_browseVars => BrowseInv'
<1> SUFFICES ASSUME BrowseInv, [BrowseNext]_browseVars PROVE BrowseInv'
  OBVIOUS
<1>1. ASSUME NEW f \in fetches, ReadFails(f) PROVE BrowseInv'
  <2>1. LeasesFit(fetches \ {f}, cached, released, started)
    BY FetchGone DEF BrowseInv
  <2>2. QED
    BY <1>1, <2>1 DEF BrowseInv, InView, ReadFails
<1>2. ASSUME NEW k, ObservePage("shown", k), k = Start(k.pattern) PROVE BrowseInv'
  BY <1>2, StartIsGood, ObserveFits
<1>3. CASE Next_
  <2>1. page \in Pages(cached) /\ ObservePage("shown", [page EXCEPT !.cursor = cached[page].next])
    BY <1>3 DEF Next_
  <2>2. QED
    BY <2>1, NextIsGood, ObserveFits
<1>4. CASE Refresh
  <2>1. LeasesFit(fetches', cached, released, started')
    BY <1>4, StartedFit DEF Refresh, BrowseInv
  <2>2. \A f \in fetches' : f.aborted \/ f.key = page
    <3>1. \A f \in fetches' : f \in Aborted \/ f = [id |-> started', key |-> page, aborted |-> FALSE]
      BY <1>4 DEF Refresh, StartFetch
    <3>2. QED
      BY <3>1, AllAborted DEF BrowseInv, LeasesFit
  <2>3. QED
    BY <1>4, <2>1, <2>2 DEF Refresh, BrowseInv, InView
<1>5. ASSUME HideExplorer \/ CloseExplorer PROVE BrowseInv'
  <2>1. PICK tab \in {"hidden", "closed"} :
           /\ redisTab' = tab /\ page' = Start("*") /\ fetches' = Aborted /\ started' = started
           /\ Pruned(cached, touched, tab, page, fetches', others)
    BY <1>5 DEF HideExplorer, CloseExplorer
  <2>2. LeasesFit(fetches', cached, released, started)
    BY <2>1, AbortedFit DEF BrowseInv
  <2>3. LeasesFit(fetches', cached', released', started') /\ touched' \in Seq(DOMAIN cached')
    BY <2>1, <2>2, PruneFits DEF BrowseInv
  <2>4. \A f \in fetches' : f.aborted
    BY <2>1, AllAborted DEF BrowseInv, LeasesFit
  <2>5. QED
    BY <2>1, <2>3, <2>4, StartIsGood DEF BrowseInv, InView
<1>6. ASSUME NEW n, OtherTabsBrowse(n) PROVE BrowseInv'
  <2>1. /\ LeasesFit(fetches, cached', released', started) /\ touched' \in Seq(DOMAIN cached')
        /\ redisTab = "shown" => page \in DOMAIN cached'
    BY <1>6, PruneFits DEF OtherTabsBrowse, BrowseInv, InView
  <2>2. QED
    BY <1>6, <2>1 DEF OtherTabsBrowse, BrowseInv, InView
<1>7. ASSUME NEW k, PageCollected(k) PROVE BrowseInv'
  <2>1. /\ DOMAIN cached' = DOMAIN cached \ {k} /\ cached' = [x \in DOMAIN cached' |-> cached'[x]]
        /\ \A x \in DOMAIN cached' : x \in DOMAIN cached /\ cached'[x] = cached[x]
    BY <1>7 DEF PageCollected, Without
  <2>2. \A x \in DOMAIN cached' : LeasesOf(cached', x) = LeasesOf(cached, x)
    BY <2>1 DEF LeasesOf
  <2>3. Stored(cached')
    BY <2>1 DEF BrowseInv, LeasesFit, Stored
  <2>4. Reached(cached', released) /\ NewLeases(fetches, cached', released)
        /\ Numbered(fetches, cached', released, started)
    BY <2>1, <2>2 DEF BrowseInv, LeasesFit, Reached, NewLeases, Unused, Numbered
  <2>5. touched' \in Seq(DOMAIN cached')
    BY <1>7, <2>1, SkippingLeaves DEF BrowseInv, PageCollected
  <2>6. QED
    BY <1>7, <2>1, <2>3, <2>4, <2>5 DEF BrowseInv, LeasesFit, InView, PageCollected
<1>8. CASE (\E l : ReleaseCursor(l) \/ SessionExpires(l)) \/ UNCHANGED browseVars
  BY <1>8 DEF ReleaseCursor, SessionExpires, browseVars, BrowseInv
<1>9. \A p : Start(p) = Start(Start(p).pattern)
  BY DEF Start
<1>10. QED
  BY <1>1, <1>2, <1>3, <1>4, <1>5, <1>6, <1>7, <1>8, <1>9, ReadFits
     DEF BrowseNext, HandleSearchChange, First, ShowExplorer

\* So no lease that the cache still depends on was handed back.
LEMMA LeasesAreKept == BrowseInv => RetainedLeaseIsKept
  BY DEF BrowseInv, LeasesFit, Reached, RetainedLeaseIsKept

-----------------------------------------------------------------------------
(* No key is skipped: pages, remainders and replies add up to the listing.  *)

\* The native replies from the n-th on, of a scan for p.
Ahead(p, n) ==
    IF n = 0 THEN <<>>
    ELSE FlattenSeq([i \in 1 .. Len(Batches) - n + 1 |-> KeysMatching(p, Batches[n + i - 1])])

\* A sequence flattened part by part.
FlattensTo(g, G, n, T) ==
    /\ g \in [1 .. n -> Seq(T)] /\ g[1] = G[1]
    /\ \A i \in 2 .. n : g[i] = g[i - 1] \o G[i]

\* Flattening takes its parts one by one.
LEMMA FlattenStepwise ==
    ASSUME NEW T, NEW n \in Nat, n >= 1, NEW G \in [1 .. n -> Seq(T)]
    PROVE  \E g : FlattensTo(g, G, n, T) /\ FlattenSeq(G) = g[n]
<1> DEFINE Runs(f) == f = [i \in 1 .. n |-> IF i = 1 THEN G[i] ELSE f[i - 1] \o G[i]]
           step == [i \in 1 .. n |-> [x \in Seq(T) |-> IF i = 1 THEN G[i] ELSE x \o G[i]]]
<1>1. n \in Nat /\ n >= 1 /\ Len(G) = n /\ \A i \in 1 .. n : G[i] \in Seq(T)
  OBVIOUS
<1>2. \E f : Runs(f)
  <2>1. step \in Steps(Seq(T), n)
    <3>1. ASSUME NEW i \in 1 .. n, NEW x \in Seq(T)
          PROVE  (IF i = 1 THEN G[i] ELSE x \o G[i]) \in Seq(T)
      BY <1>1
    <3>2. QED
      BY <3>1 DEF Steps
  <2>2. <<>> \in Seq(T)
    OBVIOUS
  <2>3. PICK st : st = step
    OBVIOUS
  <2>4. PICK f : Follows(f, Seq(T), n, <<>>, st)
    BY <1>1, <2>1, <2>2, <2>3, Recursion
  <2>5. f \in [0 .. n -> Seq(T)] /\ \A i \in 1 .. n : f[i] = st[i][f[i - 1]]
    BY <2>4 DEF Follows
  <2>6. PICK h : h = [i \in 1 .. n |-> f[i]]
    OBVIOUS
  <2>7. ASSUME NEW i \in 1 .. n PROVE h[i] = IF i = 1 THEN G[i] ELSE h[i - 1] \o G[i]
    <3>1. i - 1 \in 0 .. n /\ f[i - 1] \in Seq(T)
      BY <1>1, <2>5
    <3>2. h[i] = st[i][f[i - 1]]
      BY <2>5, <2>6
    <3>3. st[i] = [x \in Seq(T) |-> IF i = 1 THEN G[i] ELSE x \o G[i]]
      BY <2>3
    <3>4. h[i] = IF i = 1 THEN G[i] ELSE f[i - 1] \o G[i]
      BY <3>1, <3>2, <3>3
    <3>5. i # 1 => i - 1 \in 1 .. n
      BY <1>1
    <3>6. QED
      BY <2>6, <3>4, <3>5
  <2>8. h = [i \in 1 .. n |-> IF i = 1 THEN G[i] ELSE h[i - 1] \o G[i]]
    BY <2>6, <2>7
  <2>9. QED
    BY <2>8
<1> DEFINE g == CHOOSE f : Runs(f)
<1>3. Runs(g)
  <2> HIDE DEF Runs
  <2>1. QED
    BY <1>2
<1>4. FlattenSeq(G) = g[n]
  <2>1. Len(G) # 0
    BY <1>1, SMTT(30)
  <2>2. QED
    BY <1>1, <2>1 DEF FlattenSeq
<1>5. g = [i \in 1 .. n |-> IF i = 1 THEN G[i] ELSE g[i - 1] \o G[i]]
  BY <1>3
<1> HIDE DEF g, step
<1>6. \A i \in 1 .. n : g[i] = IF i = 1 THEN G[i] ELSE g[i - 1] \o G[i]
  BY <1>5
<1>7. \A i \in 0 .. n - 1 : g[i + 1] \in Seq(T)
  <2> DEFINE S == {i \in 0 .. n - 1 : g[i + 1] \in Seq(T)}
  <2>1. 0 \in S
    BY <1>1, <1>6
  <2>2. ASSUME NEW i \in 0 .. (n - 1) - 1, i \in S PROVE i + 1 \in S
    <3>1. (i + 1) + 1 \in 1 .. n /\ i + 1 \in 0 .. n - 1 /\ (i + 1) + 1 # 1 /\ ((i + 1) + 1) - 1 = i + 1
      BY <1>1
    <3>2. g[(i + 1) + 1] = g[i + 1] \o G[(i + 1) + 1] /\ g[i + 1] \in Seq(T) /\ G[(i + 1) + 1] \in Seq(T)
      BY <1>1, <1>6, <2>2, <3>1
    <3>3. \A a \in Seq(T), b \in Seq(T) : a \o b \in Seq(T)
      OBVIOUS
    <3>4. QED
      BY <3>1, <3>2, <3>3
  <2>3. n - 1 \in Nat
    BY <1>1
  <2> HIDE DEF S
  <2>4. \A i \in 0 .. n - 1 : i \in S
    BY <2>1, <2>2, <2>3, UpTo
  <2>5. QED
    BY <2>4 DEF S
<1>8. FlattensTo(g, G, n, T)
  <2>1. \A i \in 1 .. n : g[i] \in Seq(T)
    <3> TAKE i \in 1 .. n
    <3>1. i - 1 \in 0 .. n - 1 /\ (i - 1) + 1 = i
      BY <1>1
    <3>2. QED
      BY <1>7, <3>1
  <2>2. g = [i \in 1 .. n |-> g[i]]
    BY <1>5
  <2>3. g \in [1 .. n -> Seq(T)]
    BY <2>1, <2>2
  <2>4. g[1] = G[1]
    BY <1>1, <1>6
  <2>5. ASSUME NEW i \in 2 .. n PROVE g[i] = g[i - 1] \o G[i]
    <3>1. i \in 1 .. n /\ i # 1
      OBVIOUS
    <3>2. g[i] = IF i = 1 THEN G[i] ELSE g[i - 1] \o G[i]
      BY <1>6, <3>1
    <3>3. QED
      BY <3>1, <3>2
  <2>6. QED
    BY <2>3, <2>4, <2>5 DEF FlattensTo
<1>9. QED
  BY <1>4, <1>8

\* What is flattened begins with the first part, and goes on with the others.
LEMMA FlattenHead ==
    ASSUME NEW T, NEW n \in Nat, n >= 1, NEW G \in [1 .. n + 1 -> Seq(T)], NEW H \in [1 .. n -> Seq(T)],
           \A i \in 1 .. n : H[i] = G[i + 1]
    PROVE  /\ FlattenSeq(G) = G[1] \o FlattenSeq(H)
           /\ FlattenSeq(H) \in Seq(T)
<1>1. n + 1 \in Nat /\ n + 1 >= 1 /\ \A i \in 1 .. n + 1 : G[i] \in Seq(T)
  OBVIOUS
<1>2. PICK g : FlattensTo(g, G, n + 1, T) /\ FlattenSeq(G) = g[n + 1]
  BY <1>1, FlattenStepwise
<1>3. PICK h : FlattensTo(h, H, n, T) /\ FlattenSeq(H) = h[n]
  BY FlattenStepwise
<1>4. /\ g[1] = G[1] /\ \A i \in 2 .. n + 1 : g[i] = g[i - 1] \o G[i]
      /\ h[1] = G[2] /\ \A i \in 2 .. n : h[i] = h[i - 1] \o G[i + 1]
      /\ \A i \in 1 .. n : h[i] \in Seq(T)
  <2>1. g[1] = G[1] /\ \A i \in 2 .. n + 1 : g[i] = g[i - 1] \o G[i]
    BY <1>2 DEF FlattensTo
  <2>2. /\ h[1] = H[1] /\ \A i \in 2 .. n : h[i] = h[i - 1] \o H[i]
        /\ \A i \in 1 .. n : h[i] \in Seq(T)
    BY <1>3 DEF FlattensTo
  <2>3. H[1] = G[2] /\ \A i \in 2 .. n : H[i] = G[i + 1]
    <3>1. 1 \in 1 .. n /\ 1 + 1 = 2 /\ \A i \in 2 .. n : i \in 1 .. n
      OBVIOUS
    <3>2. QED
      BY <3>1
  <2>4. QED
    BY <2>1, <2>2, <2>3
<1> DEFINE S == {i \in 0 .. n - 1 : g[i + 2] = G[1] \o h[i + 1]}
<1>5. 0 \in S
  <2>1. 2 \in 2 .. n + 1 /\ 2 - 1 = 1 /\ 0 + 2 = 2 /\ 0 + 1 = 1 /\ 0 \in 0 .. n - 1
    BY <1>1
  <2>2. g[2] = G[1] \o G[2]
    BY <1>4, <2>1
  <2>3. QED
    BY <1>4, <2>1, <2>2
<1>6. ASSUME NEW i \in 0 .. (n - 1) - 1, i \in S PROVE i + 1 \in S
  <2>1. /\ i + 1 \in 0 .. n - 1 /\ i + 1 \in 1 .. n
        /\ (i + 1) + 2 \in 2 .. n + 1 /\ ((i + 1) + 2) - 1 = i + 2
        /\ (i + 1) + 1 \in 2 .. n /\ ((i + 1) + 1) - 1 = i + 1 /\ ((i + 1) + 1) + 1 = (i + 1) + 2
        /\ 1 \in 1 .. n + 1 /\ (i + 1) + 2 \in 1 .. n + 1
    OBVIOUS
  <2>2. PICK a \in Seq(T), b \in Seq(T), c \in Seq(T) : a = G[1] /\ b = h[i + 1] /\ c = G[(i + 1) + 2]
    BY <1>1, <1>4, <2>1
  <2>3. g[(i + 1) + 2] = (a \o b) \o c
    BY <1>4, <1>6, <2>1, <2>2
  <2>4. h[(i + 1) + 1] = b \o c
    BY <1>4, <2>1, <2>2
  <2>5. (a \o b) \o c = a \o (b \o c)
    <3> HIDE DEF S
    <3>1. a \in Seq(T) /\ b \in Seq(T) /\ c \in Seq(T)
      BY <2>2, Zenon
    <3>2. Groups(a, b, c)
      BY <3>1, Regroup
    <3>3. QED
      BY <3>2 DEF Groups
  <2>6. g[(i + 1) + 2] = G[1] \o h[(i + 1) + 1]
    BY <2>2, <2>3, <2>4, <2>5
  <2>7. QED
    BY <2>1, <2>6
<1>7. n - 1 \in S
  <2>1. n - 1 \in Nat
    BY <1>1
  <2> HIDE DEF S
  <2>2. \A i \in 0 .. n - 1 : i \in S
    BY <1>5, <1>6, <2>1, UpTo
  <2>3. QED
    BY <2>1, <2>2
<1>8. (n - 1) + 2 = n + 1 /\ (n - 1) + 1 = n /\ n \in 1 .. n
  BY <1>1
<1>9. QED
  BY <1>2, <1>3, <1>4, <1>7, <1>8

\* There is a native reply, and each is a list of keys.
LEMMA BatchesTyped ==
    /\ Len(Batches) \in Nat /\ Len(Batches) >= 1 /\ DOMAIN Batches = 1 .. Len(Batches)
    /\ \A n \in 1 .. Len(Batches) : Batches[n] \in Seq(Nat)
  BY BrowseAssumption DEF BrowseAssumption

\* What of a reply matches a pattern is a list of keys.
LEMMA MatchingTyped ==
    ASSUME NEW p, NEW n \in 1 .. Len(Batches)
    PROVE  KeysMatching(p, Batches[n]) \in Seq(Nat)
<1>1. PICK b \in Seq(Nat) : b = Batches[n]
  BY BatchesTyped
<1>2. \A P : Picked(b, P) \in Seq(Nat)
  BY PickedFrom
<1>3. QED
  BY <1>1, <1>2 DEF KeysMatching

\* What is ahead begins with the next native reply, and goes on behind it.
LEMMA AheadUnfolds ==
    ASSUME NEW p, NEW n \in 1 .. Len(Batches)
    PROVE  /\ Ahead(p, n) = KeysMatching(p, Batches[n]) \o Ahead(p, NativeAfter(n))
           /\ Ahead(p, n) \in Seq(Nat) /\ Ahead(p, NativeAfter(n)) \in Seq(Nat)
           /\ KeysMatching(p, Batches[n]) \in Seq(Nat)
           /\ NativeAfter(n) \in 0 .. Len(Batches)
<1> PICK len : len = Len(Batches)
  OBVIOUS
<1>1. len \in Nat /\ len >= 1 /\ n \in 1 .. len
  BY BatchesTyped
<1> PICK b : b \in Seq(Nat) /\ b = KeysMatching(p, Batches[n])
  BY MatchingTyped
<1> PICK G : G = [i \in 1 .. len - n + 1 |-> KeysMatching(p, Batches[n + i - 1])]
  OBVIOUS
<1>2. ASSUME NEW i \in 1 .. len - n + 1 PROVE G[i] \in Seq(Nat) /\ n + i - 1 \in 1 .. len
  <2>1. n + i - 1 \in 1 .. len
    BY <1>1
  <2>2. QED
    BY <2>1, MatchingTyped
<1>3. G \in [1 .. len - n + 1 -> Seq(Nat)]
  BY <1>2
<1>4. G[1] = b
  <2>1. 1 \in 1 .. len - n + 1 /\ n + 1 - 1 = n
    BY <1>1
  <2>2. QED
    BY <2>1
<1>5. Ahead(p, n) = FlattenSeq(G)
  BY <1>1 DEF Ahead
<1>6. CASE n = len
  <2>1. 1 \in Nat /\ 1 >= 1 /\ len - n + 1 = 1
    BY <1>1, <1>6
  <2>2. G \in [1 .. 1 -> Seq(Nat)]
    BY <1>3, <2>1
  <2>4. PICK h : FlattensTo(h, G, 1, Nat) /\ FlattenSeq(G) = h[1]
    BY <2>1, <2>2, FlattenStepwise
  <2>5. FlattenSeq(G) = b
    BY <1>4, <2>4 DEF FlattensTo
  <2>6. NativeAfter(n) = 0 /\ Ahead(p, 0) = <<>>
    BY <1>6 DEF NativeAfter, Ahead
  <2>7. b \o <<>> = b /\ <<>> \in Seq(Nat)
    BY ConcatEmptySeq
  <2>8. b = b \o Ahead(p, NativeAfter(n)) /\ Ahead(p, NativeAfter(n)) \in Seq(Nat)
    BY <2>6, <2>7
  <2>9. NativeAfter(n) \in 0 .. Len(Batches)
    BY <1>1, <2>6
  <2>10. QED
    BY <1>5, <2>5, <2>8, <2>9
<1>7. CASE n # len
  <2>1. n + 1 \in 1 .. len /\ n + 1 # 0 /\ len - n \in Nat /\ len - n >= 1 /\ (len - n) + 1 = len - n + 1
        /\ len - (n + 1) + 1 = len - n
    BY <1>1, <1>7
  <2>2. PICK H : H = [i \in 1 .. len - (n + 1) + 1 |-> KeysMatching(p, Batches[(n + 1) + i - 1])]
    OBVIOUS
  <2>3. ASSUME NEW i \in 1 .. len - n PROVE H[i] = G[i + 1] /\ G[i + 1] \in Seq(Nat)
    <3>1. i + 1 \in 1 .. len - n + 1 /\ n + (i + 1) - 1 = (n + 1) + i - 1
      BY <1>1
    <3>2. QED
      BY <1>2, <2>1, <2>2, <3>1
  <2>4. H \in [1 .. len - n -> Seq(Nat)]
    BY <2>1, <2>2, <2>3
  <2>5. G \in [1 .. (len - n) + 1 -> Seq(Nat)]
    BY <1>3, <2>1
  <2>6. \A i \in 1 .. len - n : H[i] = G[i + 1]
    BY <2>3
  <2>7. FlattenSeq(G) = G[1] \o FlattenSeq(H) /\ FlattenSeq(H) \in Seq(Nat)
    BY <2>1, <2>4, <2>5, <2>6, FlattenHead
  <2>8. NativeAfter(n) = n + 1
    BY <1>7 DEF NativeAfter
  <2>9. Ahead(p, n + 1) = FlattenSeq(H)
    BY <2>1, <2>2 DEF Ahead
  <2>10. Ahead(p, n) = b \o Ahead(p, n + 1) /\ Ahead(p, n + 1) \in Seq(Nat)
    BY <1>4, <1>5, <2>7, <2>9
  <2>11. b \o Ahead(p, n + 1) \in Seq(Nat)
    BY <2>10
  <2>12. QED
    BY <2>1, <2>8, <2>10, <2>11
<1>8. QED
  BY <1>6, <1>7

\* What is ahead is a list of keys, also when nothing is.
LEMMA AheadTyped == ASSUME NEW p, NEW n \in 0 .. Len(Batches) PROVE Ahead(p, n) \in Seq(Nat)
<1>1. CASE n = 0
  BY <1>1 DEF Ahead
<1>2. CASE n # 0
  <2>1. n \in 1 .. Len(Batches)
    BY <1>2, BatchesTyped
  <2>2. QED
    BY <2>1, AheadUnfolds
<1>3. QED
  BY <1>1, <1>2

\* A final part of the listing.
Ends(p, s) == s \in Seq(Nat) /\ \E q \in Seq(Nat) : KeysListed(p) = q \o s

\* Before the first reply, the whole listing is ahead.
LEMMA AllAhead == ASSUME NEW p PROVE KeysListed(p) = Ahead(p, 1)
<1> PICK len : len = Len(Batches)
  OBVIOUS
<1>1. len \in Nat /\ len >= 1 /\ DOMAIN Batches = 1 .. len /\ len - 1 + 1 = len
  BY BatchesTyped
<1>2. \A i \in 1 .. len : 1 + i - 1 = i
  BY <1>1
<1>3. [i \in DOMAIN Batches |-> KeysMatching(p, Batches[i])]
        = [i \in 1 .. len - 1 + 1 |-> KeysMatching(p, Batches[1 + i - 1])]
  BY <1>1, <1>2
<1>4. QED
  BY <1>3 DEF KeysListed, Ahead

\* What ends the listing still ends it without its first part.
LEMMA EndsBehind ==
    ASSUME NEW p, NEW a \in Seq(Nat), NEW b \in Seq(Nat), Ends(p, a \o b)
    PROVE  Ends(p, b)
<1>1. PICK q \in Seq(Nat) : KeysListed(p) = q \o (a \o b)
  BY DEF Ends
<1>2. (q \o a) \o b = q \o (a \o b)
  <2>1. Groups(q, a, b)
    BY <1>1, Regroup
  <2>2. QED
    BY <2>1 DEF Groups
<1>3. q \o a \in Seq(Nat)
  OBVIOUS
<1>4. QED
  BY <1>1, <1>2, <1>3 DEF Ends

\* What is ahead of any reply ends the listing.
LEMMA AheadEnds == ASSUME NEW p, NEW n \in 1 .. Len(Batches) PROVE Ends(p, Ahead(p, n))
<1> PICK len : len = Len(Batches)
  OBVIOUS
<1>1. len \in Nat /\ len >= 1 /\ n \in 1 .. len
  BY BatchesTyped
<1> DEFINE S == {i \in 0 .. len - 1 : Ends(p, Ahead(p, i + 1))}
<1>2. 0 \in S
  <2>1. 1 \in 1 .. len /\ 0 + 1 = 1 /\ 0 \in 0 .. len - 1
    BY <1>1
  <2>2. Ahead(p, 1) \in Seq(Nat)
    BY <2>1, AheadUnfolds
  <2>3. <<>> \in Seq(Nat) /\ <<>> \o Ahead(p, 1) = Ahead(p, 1)
    BY <2>2, NothingBefore
  <2>4. Ends(p, Ahead(p, 1))
    BY <2>2, <2>3, AllAhead DEF Ends
  <2>5. QED
    BY <2>1, <2>4
<1>3. ASSUME NEW i \in 0 .. (len - 1) - 1, i \in S PROVE i + 1 \in S
  <2>1. i + 1 \in 1 .. len /\ i + 1 # len /\ i + 1 \in 0 .. len - 1
    BY <1>1
  <2>2. NativeAfter(i + 1) = (i + 1) + 1
    BY <2>1 DEF NativeAfter
  <2>3. PICK m \in 1 .. len : m = i + 1
    BY <2>1
  <2>4. /\ Ahead(p, m) = KeysMatching(p, Batches[m]) \o Ahead(p, NativeAfter(m))
        /\ KeysMatching(p, Batches[m]) \in Seq(Nat) /\ Ahead(p, NativeAfter(m)) \in Seq(Nat)
    BY AheadUnfolds
  <2>5. Ends(p, Ahead(p, m))
    BY <1>3, <2>3
  <2>6. Ends(p, Ahead(p, NativeAfter(m)))
    BY <2>4, <2>5, EndsBehind
  <2>7. QED
    BY <2>1, <2>2, <2>3, <2>6
<1>4. len - 1 \in Nat /\ n - 1 \in 0 .. len - 1 /\ (n - 1) + 1 = n
  BY <1>1
<1> HIDE DEF S
<1>5. \A i \in 0 .. len - 1 : i \in S
  BY <1>2, <1>3, <1>4, UpTo
<1>6. QED
  BY <1>4, <1>5 DEF S

\* Where a cursor of pattern p may point.
CursorFor(p, c) ==
    \/ c = None
    \/ c.kind = "scan" /\ c.pattern = p /\ c.native \in 1 .. Len(Batches)
    \/ c.kind = "lease" /\ c.pattern = p /\ c.pos \in Nat

\* What is left of a remainder behind its m-th key, and what comes behind that.
LeftOf(p, parked, m) ==
    SubSeq(parked.items, m + 1, Len(parked.items)) \o Ahead(p, parked.native)

\* What a cursor leads to, by the remainders that ss parks.
Left(c, ss) ==
    IF c = None THEN <<>>
    ELSE IF c.kind = "scan" THEN Ahead(c.pattern, c.native)
    ELSE LeftOf(c.pattern, ss[c.lease], c.pos)

\* A cursor that is alive: its lease parks a remainder, and what it leads to, behind the keys
\* before it, ends the listing.
Holds(c, ss) == LeaseOf(c) \subseteq DOMAIN ss
Parks(c, ss) ==
    \A l \in LeaseOf(c) : ss[l].items \in Seq(Nat) /\ ss[l].native \in 0 .. Len(Batches)
Leads(p, keys, c, ss) ==
    /\ p \in Patterns /\ keys \in Seq(Nat) /\ CursorFor(p, c)
    /\ Holds(c, ss) => Parks(c, ss) /\ Ends(p, keys \o Left(c, ss))

\* Of a page: its own cursor leads on, and so does the one it goes on with.
PageLeads(k, r, ss) ==
    /\ Leads(k.pattern, <<>>, k.cursor, ss)
    /\ r # None => Leads(k.pattern, r.keys, r.next, ss)

PagesLead(c, ss) == \A k \in DOMAIN c : PageLeads(k, c[k], ss)

SkipInv == PagesLead(cached, sessions)

\* What a cursor leads to is a list of keys.
LEMMA LeftTyped ==
    ASSUME NEW p, NEW c, NEW ss, CursorFor(p, c), Parks(c, ss)
    PROVE  Left(c, ss) \in Seq(Nat)
<1>1. CASE c = None
  BY <1>1 DEF Left
<1>2. CASE c # None /\ c.kind = "scan" /\ c.native \in 1 .. Len(Batches)
  <2>1. Ahead(c.pattern, c.native) \in Seq(Nat)
    BY <1>2, AheadUnfolds
  <2>2. QED
    BY <1>2, <2>1 DEF Left
<1>3. CASE c # None /\ c.kind = "lease" /\ c.pos \in Nat
  <2>1. LeaseOf(c) = {c.lease}
    BY <1>3 DEF LeaseOf
  <2>2. PICK items : items = ss[c.lease].items
    OBVIOUS
  <2>3. PICK n : n = ss[c.lease].native
    OBVIOUS
  <2>4. items \in Seq(Nat) /\ n \in 0 .. Len(Batches)
    BY <2>1, <2>2, <2>3 DEF Parks
  <2>5. Ahead(c.pattern, n) \in Seq(Nat)
    BY <2>4, AheadTyped
  <2>6. SubSeq(items, c.pos + 1, Len(items)) \in Seq(Nat)
    BY <1>3, <2>4, RestTyped
  <2>7. SubSeq(items, c.pos + 1, Len(items)) \o Ahead(c.pattern, n) \in Seq(Nat)
    BY <2>5, <2>6
  <2>8. Left(c, ss) = SubSeq(items, c.pos + 1, Len(items)) \o Ahead(c.pattern, n)
    BY <1>3, <2>2, <2>3 DEF Left, LeftOf
  <2>9. QED
    BY <2>7, <2>8
<1>4. QED
  BY <1>1, <1>2, <1>3 DEF CursorFor

\* What leads on does so wherever the remainder of its lease is the same.
LEMMA LeadsStill ==
    ASSUME NEW p, NEW keys, NEW c, NEW ss, NEW tt, Leads(p, keys, c, ss),
           \A l \in LeaseOf(c) : l \in DOMAIN tt => l \in DOMAIN ss /\ tt[l] = ss[l]
    PROVE  Leads(p, keys, c, tt)
<1> SUFFICES ASSUME Holds(c, tt) PROVE Parks(c, tt) /\ Ends(p, keys \o Left(c, tt))
  BY DEF Leads
<1>1. \A l \in LeaseOf(c) : l \in DOMAIN ss /\ tt[l] = ss[l]
  BY DEF Holds
<1>2. Holds(c, ss)
  BY <1>1 DEF Holds
<1>3. Parks(c, tt)
  BY <1>1, <1>2 DEF Leads, Parks
<1>4. Left(c, tt) = Left(c, ss)
  <2>1. CASE c = None \/ c.kind = "scan"
    BY <2>1 DEF Left
  <2>2. CASE c # None /\ c.kind = "lease"
    BY <1>1, <2>2 DEF Left, LeaseOf
  <2>3. QED
    BY <2>1, <2>2 DEF Leads, CursorFor
<1>5. QED
  BY <1>2, <1>3, <1>4 DEF Leads

\* Without its keys a page's continuation still leads on.
LEMMA LeadsOn ==
    ASSUME NEW p, NEW keys, NEW c, NEW ss, Leads(p, keys, c, ss)
    PROVE  Leads(p, <<>>, c, ss)
<1>1. <<>> \in Seq(Nat)
  OBVIOUS
<1> SUFFICES ASSUME Holds(c, ss) PROVE Ends(p, <<>> \o Left(c, ss))
  BY <1>1 DEF Leads
<1>2. Left(c, ss) \in Seq(Nat)
  BY LeftTyped DEF Leads
<1>3. Ends(p, Left(c, ss))
  BY <1>2, EndsBehind DEF Leads
<1>4. <<>> \o Left(c, ss) = Left(c, ss)
  BY <1>2, NothingBefore
<1>5. QED
  BY <1>3, <1>4

\* A native cursor leads to what is ahead of it.
LEMMA ScanLeft ==
    ASSUME NEW p \in Patterns, NEW n \in 0 .. Len(Batches), NEW ss
    PROVE  /\ CursorFor(p, ScanCursor(p, n)) /\ LeaseOf(ScanCursor(p, n)) = {}
           /\ Left(ScanCursor(p, n), ss) = Ahead(p, n)
<1> PICK c : c = ScanCursor(p, n)
  OBVIOUS
<1>1. CASE n = 0
  <2>1. c = None /\ Ahead(p, n) = <<>>
    BY <1>1 DEF ScanCursor, Ahead
  <2>2. QED
    BY <2>1 DEF CursorFor, LeaseOf, Left
<1>2. CASE n # 0
  <2>1. c = [kind |-> "scan", pattern |-> p, native |-> n]
    BY <1>2 DEF ScanCursor
  <2>2. c # None
    <3>1. c \in [kind : {"scan"}, pattern : Patterns, native : Nat]
      BY <2>1, BatchesTyped
    <3>2. QED
      BY <3>1, BrowseAssumption DEF BrowseAssumption
  <2>3. n \in 1 .. Len(Batches)
    BY <1>2, BatchesTyped
  <2>4. c.kind = "scan" /\ c.pattern = p /\ c.native = n
    BY <2>1
  <2>5. QED
    BY <2>2, <2>3, <2>4 DEF CursorFor, LeaseOf, Left
<1>3. QED
  BY <1>1, <1>2

\* A lease leads to what is left of its remainder, and on natively.
LEMMA ParkedLeft ==
    ASSUME NEW p \in Patterns, NEW l \in Nat, NEW m \in Nat, NEW ss
    PROVE  /\ CursorFor(p, LeaseCursor(p, l, m)) /\ LeaseOf(LeaseCursor(p, l, m)) = {l}
           /\ Left(LeaseCursor(p, l, m), ss) = LeftOf(p, ss[l], m)
<1> PICK c : c = LeaseCursor(p, l, m)
  OBVIOUS
<1>1. c = [kind |-> "lease", pattern |-> p, lease |-> l, pos |-> m]
  BY DEF LeaseCursor
<1>2. c # None
  <2>1. c \in [kind : {"lease"}, pattern : Patterns, lease : Nat, pos : Nat]
    BY <1>1
  <2>2. QED
    BY <2>1, BrowseAssumption DEF BrowseAssumption
<1>3. c.kind = "lease" /\ c.kind # "scan" /\ c.pattern = p /\ c.lease = l /\ c.pos = m
  BY <1>1
<1>4. QED
  BY <1>2, <1>3 DEF CursorFor, LeaseOf, Left

\* How far a page reaches.
LEMMA AdmitsSome == ASSUME NEW s \in Seq(Nat), NEW n \in Admits(s) PROVE n \in 0 .. Len(s)
<1>1. Len(s) \in Nat
  OBVIOUS
<1>2. Len(<<>>) = 0
  OBVIOUS
<1>3. CASE s = <<>>
  BY <1>1, <1>2, <1>3 DEF Admits
<1>4. CASE s # <<>>
  BY <1>1, <1>4 DEF Admits
<1>5. QED
  BY <1>3, <1>4

\* What is read natively leads on from where the cursor stood.
LEMMA NativeLeads ==
    ASSUME NEW p \in Patterns, NEW id \in Nat, NEW n \in 1 .. Len(Batches),
           NEW a \in NativeAnswers(id, p, n)
    PROVE  Leads(p, a.result.keys, a.result.next, a.sessions)
<1> PICK b \in Seq(Nat) : b = KeysMatching(p, Batches[n])
  BY MatchingTyped
<1> PICK n2 : n2 = NativeAfter(n)
  OBVIOUS
<1>1. /\ Ahead(p, n) = b \o Ahead(p, n2)
      /\ Ahead(p, n2) \in Seq(Nat) /\ n2 \in 0 .. Len(Batches) /\ Ends(p, Ahead(p, n))
  BY AheadUnfolds, AheadEnds
<1>2. PICK m, parked :
         /\ m \in Admits(b)
         /\ parked = [l \in DOMAIN sessions \cup {id} |->
                        IF l = id THEN [items |-> SubSeq(b, m + 1, Len(b)), native |-> n2]
                        ELSE sessions[l]]
         /\ a = IF m = Len(b) THEN Answer(b, ScanCursor(p, n2), sessions)
                ELSE Answer(SubSeq(b, 1, m), LeaseCursor(p, id, 0), parked)
  BY DEF NativeAnswers
<1>3. \A keys, next, ss : /\ Answer(keys, next, ss).result.keys = keys
                          /\ Answer(keys, next, ss).result.next = next
                          /\ Answer(keys, next, ss).sessions = ss
  BY DEF Answer
<1>4. CASE m = Len(b)
  <2>1. /\ CursorFor(p, ScanCursor(p, n2)) /\ LeaseOf(ScanCursor(p, n2)) = {}
        /\ Left(ScanCursor(p, n2), sessions) = Ahead(p, n2)
    BY <1>1, ScanLeft
  <2>2. Leads(p, b, ScanCursor(p, n2), sessions)
    BY <1>1, <2>1 DEF Leads, Parks
  <2>3. QED
    BY <1>2, <1>3, <1>4, <2>2
<1>5. CASE m # Len(b)
  <2>1. m \in 0 .. Len(b)
    BY <1>2, AdmitsSome
  <2>2. PICK f \in Seq(Nat), r \in Seq(Nat) : f = SubSeq(b, 1, m) /\ r = SubSeq(b, m + 1, Len(b)) /\ f \o r = b
    <3>1. Splits(Nat, b, m)
      BY <2>1, CutInTwo
    <3>2. QED
      BY <3>1 DEF Splits
  <2>3. parked[id].items = r /\ parked[id].native = n2 /\ id \in DOMAIN parked
    BY <1>2, <2>2
  <2>4. 0 \in Nat /\ 0 + 1 = 1 /\ SubSeq(r, 1, Len(r)) = r
    <3>1. IsWhole(r)
      BY <2>2, AllOfIt
    <3>2. QED
      BY <3>1 DEF IsWhole
  <2>5. PICK c : c = LeaseCursor(p, id, 0)
    OBVIOUS
  <2>6. CursorFor(p, c) /\ LeaseOf(c) = {id} /\ Left(c, parked) = r \o Ahead(p, n2)
    <3>1. Left(c, parked) = LeftOf(p, parked[id], 0)
      BY <2>4, <2>5, ParkedLeft
    <3>2. CursorFor(p, c) /\ LeaseOf(c) = {id}
      BY <2>4, <2>5, ParkedLeft
    <3>3. QED
      BY <2>3, <2>4, <3>1, <3>2 DEF LeftOf
  <2>7. f \o (r \o Ahead(p, n2)) = Ahead(p, n)
    <3>1. Groups(f, r, Ahead(p, n2))
      BY <1>1, <2>2, Regroup
    <3>2. QED
      BY <1>1, <2>2, <3>1 DEF Groups
  <2>8. Parks(c, parked)
    BY <1>1, <2>2, <2>3, <2>6 DEF Parks
  <2>9. Leads(p, f, c, parked)
    BY <1>1, <2>2, <2>6, <2>7, <2>8 DEF Leads
  <2>10. QED
    BY <1>2, <1>3, <1>5, <2>2, <2>5, <2>9
<1>6. QED
  BY <1>4, <1>5

\* What is replayed from a remainder leads on from where the cursor stood.
LEMMA LeaseLeads ==
    ASSUME NEW p, NEW c, c # None, c.kind = "lease", c.lease \in Nat, c.lease \in DOMAIN sessions,
           Leads(p, <<>>, c, sessions), NEW a \in LeaseAnswers(c)
    PROVE  Leads(p, a.result.keys, a.result.next, a.sessions)
<1>1. /\ c.pattern = p /\ c.pos \in Nat /\ LeaseOf(c) = {c.lease} /\ p \in Patterns
      /\ Holds(c, sessions) /\ Parks(c, sessions) /\ Ends(p, <<>> \o Left(c, sessions))
  BY DEF Leads, CursorFor, LeaseOf, Holds
<1> PICK items, n : items = sessions[c.lease].items /\ n = sessions[c.lease].native
  OBVIOUS
<1>2. items \in Seq(Nat) /\ n \in 0 .. Len(Batches) /\ Ahead(p, n) \in Seq(Nat)
  BY <1>1, AheadTyped DEF Parks
<1> PICK rest : rest = SubSeq(items, c.pos + 1, Len(items))
  OBVIOUS
<1>3. rest \in Seq(Nat)
  BY <1>1, <1>2, RestTyped
<1>4. Left(c, sessions) = rest \o Ahead(p, n)
  BY <1>1 DEF Left, LeftOf
<1>5. Ends(p, rest \o Ahead(p, n))
  <2>1. <<>> \o (rest \o Ahead(p, n)) = rest \o Ahead(p, n)
    <3>1. \A x \in Seq(Nat), y \in Seq(Nat) : x \o y \in Seq(Nat)
      OBVIOUS
    <3>2. rest \o Ahead(p, n) \in Seq(Nat)
      BY <1>2, <1>3, <3>1
    <3>3. QED
      BY <3>2, NothingBefore
  <2>2. QED
    BY <1>1, <1>4, <2>1
<1>6. PICK m \in Admits(rest) :
         a = IF m = Len(rest) THEN Answer(rest, ScanCursor(p, n), Without(sessions, {c.lease}))
             ELSE Answer(SubSeq(rest, 1, m), LeaseCursor(p, c.lease, c.pos + m), sessions)
  BY <1>1 DEF LeaseAnswers
<1>7. \A keys, next, ss : /\ Answer(keys, next, ss).result.keys = keys
                          /\ Answer(keys, next, ss).result.next = next
                          /\ Answer(keys, next, ss).sessions = ss
  BY DEF Answer
<1>8. CASE m = Len(rest)
  <2>1. PICK ss : ss = Without(sessions, {c.lease})
    OBVIOUS
  <2>2. /\ CursorFor(p, ScanCursor(p, n)) /\ LeaseOf(ScanCursor(p, n)) = {}
        /\ Left(ScanCursor(p, n), ss) = Ahead(p, n)
    BY <1>1, <1>2, ScanLeft
  <2>3. Leads(p, rest, ScanCursor(p, n), ss)
    BY <1>1, <1>3, <1>5, <2>2 DEF Leads, Parks
  <2>4. QED
    BY <1>6, <1>7, <1>8, <2>1, <2>3
<1>9. CASE m # Len(rest)
  <2>1. m \in 0 .. Len(rest)
    BY <1>3, <1>6, AdmitsSome
  <2> PICK q \in Nat : q = c.pos + m
    <3>1. m \in Nat
      BY <2>1
    <3>2. QED
      BY <1>1, <3>1
  <2>2. PICK f \in Seq(Nat), r \in Seq(Nat) :
           f = SubSeq(rest, 1, m) /\ r = SubSeq(items, c.pos + m + 1, Len(items)) /\ f \o r = rest
    <3>1. SplitsAt(Nat, items, c.pos, rest, m)
      BY <1>1, <1>2, <2>1, RestOfRest
    <3>2. QED
      BY <3>1 DEF SplitsAt
  <2>3. PICK d : d = LeaseCursor(p, c.lease, c.pos + m)
    OBVIOUS
  <2>4. CursorFor(p, d) /\ LeaseOf(d) = {c.lease} /\ Left(d, sessions) = r \o Ahead(p, n)
    <3>1. r = SubSeq(items, q + 1, Len(items))
      BY <2>2
    <3>2. d = LeaseCursor(p, c.lease, q)
      BY <2>3
    <3>3. Left(d, sessions) = LeftOf(p, sessions[c.lease], q)
      BY <1>1, <3>2, ParkedLeft
    <3>4. CursorFor(p, d) /\ LeaseOf(d) = {c.lease}
      BY <1>1, <3>2, ParkedLeft, SMTT(30)
    <3>5. QED
      BY <3>1, <3>3, <3>4 DEF LeftOf
  <2>5. f \o (r \o Ahead(p, n)) = rest \o Ahead(p, n)
    <3>1. Groups(f, r, Ahead(p, n))
      BY <1>2, <2>2, Regroup
    <3>2. QED
      BY <2>2, <3>1 DEF Groups
  <2>6. Parks(d, sessions)
    BY <1>1, <2>4 DEF Parks
  <2>7. Leads(p, f, d, sessions)
    BY <1>1, <1>5, <2>2, <2>4, <2>5, <2>6 DEF Leads
  <2>8. a = Answer(f, d, sessions)
    BY <1>6, <1>9, <2>2, <2>3
  <2>9. QED
    BY <1>7, <2>7, <2>8
<1>10. QED
  BY <1>8, <1>9

\* Whatever a fetch is answered leads on from where its key stood.
LEMMA AnswersLead ==
    ASSUME NEW f, f.id \in Nat, Cursor(f.key.cursor), LeaseOf(f.key.cursor) \subseteq Nat,
           Leads(f.key.pattern, <<>>, f.key.cursor, sessions), NEW a \in Answers(f)
    PROVE  Leads(f.key.pattern, a.result.keys, a.result.next, a.sessions)
<1> PICK p, c : p = f.key.pattern /\ c = f.key.cursor
  OBVIOUS
<1>1. p \in Patterns /\ CursorFor(p, c)
  BY DEF Leads
<1>2. CASE c = None
  <2>1. a \in NativeAnswers(f.id, p, 1) /\ 1 \in 1 .. Len(Batches)
    BY <1>2, BatchesTyped DEF Answers
  <2>2. QED
    BY <1>1, <2>1, NativeLeads
<1>3. CASE c # None /\ c.kind = "scan"
  <2>1. a \in NativeAnswers(f.id, p, c.native) /\ c.native \in 1 .. Len(Batches)
    BY <1>1, <1>3 DEF Answers, CursorFor
  <2>2. QED
    BY <1>1, <2>1, NativeLeads
<1>4. CASE c # None /\ c.kind = "lease"
  <2>1. a \in LeaseAnswers(c) /\ c.lease \in DOMAIN sessions /\ c.lease \in Nat
    BY <1>4 DEF Answers, LeaseOf
  <2>2. QED
    BY <1>4, <2>1, LeaseLeads
<1>5. QED
  BY <1>1, <1>2, <1>3, <1>4 DEF CursorFor

\* An answer leaves every remainder alone but its own, which is new.
LEMMA AnswerParks ==
    ASSUME NEW f, NEW a \in Answers(f), NEW l \in DOMAIN a.sessions, l # f.id
    PROVE  l \in DOMAIN sessions /\ a.sessions[l] = sessions[l]
<1>1. \A keys, next, ss : Answer(keys, next, ss).sessions = ss
  BY DEF Answer
<1>2. ASSUME NEW S PROVE \A x \in DOMAIN Without(sessions, S) :
                            x \in DOMAIN sessions /\ Without(sessions, S)[x] = sessions[x]
  BY DEF Without
<1>3. CASE \E p, n : a \in NativeAnswers(f.id, p, n)
  <2>1. PICK p, n : a \in NativeAnswers(f.id, p, n)
    BY <1>3
  <2>2. PICK b, n2 : b = KeysMatching(p, Batches[n]) /\ n2 = NativeAfter(n)
    OBVIOUS
  <2>3. PICK m, parked, items :
           /\ parked = [x \in DOMAIN sessions \cup {f.id} |->
                          IF x = f.id THEN [items |-> items, native |-> n2] ELSE sessions[x]]
           /\ a = IF m = Len(b) THEN Answer(b, ScanCursor(p, n2), sessions)
                  ELSE Answer(SubSeq(b, 1, m), LeaseCursor(p, f.id, 0), parked)
    BY <2>1, <2>2 DEF NativeAnswers
  <2>4. a.sessions = sessions \/ a.sessions = parked
    BY <1>1, <2>3
  <2>5. QED
    BY <2>3, <2>4
<1>4. CASE a \in LeaseAnswers(f.key.cursor)
  <2>1. PICK c : c = f.key.cursor
    OBVIOUS
  <2>2. PICK keys, next, ss : /\ a = Answer(keys, next, ss)
                              /\ ss = sessions \/ ss = Without(sessions, {c.lease})
    BY <1>4, <2>1 DEF LeaseAnswers
  <2>3. a.sessions = sessions \/ a.sessions = Without(sessions, {c.lease})
    BY <1>1, <2>2
  <2>4. QED
    BY <1>2, <2>3
<1>5. QED
  BY <1>3, <1>4 DEF Answers

\* The pages of which the remainders stay, or go with their leases, still lead on.
LEMMA PagesStill ==
    ASSUME NEW c, NEW ss, NEW tt, PagesLead(c, ss),
           \A k \in DOMAIN c : \A l \in LeasesOf(c, k) : l \in DOMAIN tt => l \in DOMAIN ss /\ tt[l] = ss[l]
    PROVE  PagesLead(c, tt)
<1> SUFFICES ASSUME NEW k \in DOMAIN c PROVE PageLeads(k, c[k], tt)
  BY DEF PagesLead
<1>1. Leads(k.pattern, <<>>, k.cursor, ss) /\ (c[k] # None => Leads(k.pattern, c[k].keys, c[k].next, ss))
  BY DEF PagesLead, PageLeads
<1>2. LeaseOf(k.cursor) \subseteq LeasesOf(c, k) /\ (c[k] # None => LeaseOf(c[k].next) \subseteq LeasesOf(c, k))
  BY DEF LeasesOf
<1>3. Leads(k.pattern, <<>>, k.cursor, tt)
  BY <1>1, <1>2, LeadsStill
<1>4. c[k] # None => Leads(k.pattern, c[k].keys, c[k].next, tt)
  BY <1>1, <1>2, LeadsStill
<1>5. QED
  BY <1>3, <1>4 DEF PageLeads

\* Pages that are dropped take nothing from the others.
LEMMA FewerPages == ASSUME NEW c, NEW ss, PagesLead(c, ss), NEW S PROVE PagesLead(Without(c, S), ss)
  BY DEF PagesLead, Without

\* A remainder that is given up takes its cursors along.
LEMMA FewerParked == ASSUME NEW c, NEW ss, PagesLead(c, ss), NEW S PROVE PagesLead(c, Without(ss, S))
<1>1. \A l \in DOMAIN Without(ss, S) : l \in DOMAIN ss /\ Without(ss, S)[l] = ss[l]
  BY DEF Without
<1>2. PICK tt : tt = Without(ss, S)
  OBVIOUS
<1>3. QED
  BY <1>1, <1>2, PagesStill

\* The first page of a pattern is of the listing.
LEMMA StartLeads == ASSUME NEW p \in Patterns, NEW ss PROVE Leads(Start(p).pattern, <<>>, Start(p).cursor, ss)
<1>1. Start(p).pattern = p /\ Start(p).cursor = None
  BY DEF Start
<1>2. Left(None, ss) = <<>> /\ LeaseOf(None) = {} /\ CursorFor(p, None)
  BY DEF Left, LeaseOf, CursorFor
<1>3. <<>> \in Seq(Nat) /\ <<>> \o <<>> = <<>>
  OBVIOUS
<1>4. Ends(p, <<>>)
  <2>1. 1 \in 1 .. Len(Batches)
    BY BatchesTyped
  <2>2. KeysListed(p) \in Seq(Nat)
    BY <2>1, AheadUnfolds, AllAhead
  <2>3. KeysListed(p) \o <<>> = KeysListed(p)
    BY <2>2, ConcatEmptySeq
  <2>4. QED
    BY <1>3, <2>2, <2>3 DEF Ends
<1>5. QED
  BY <1>1, <1>2, <1>3, <1>4 DEF Leads, Parks

\* At first there is only the first page of all keys, not yet read.
LEMMA InitSkip == BrowseInit => SkipInv
<1> SUFFICES ASSUME BrowseInit PROVE SkipInv
  OBVIOUS
<1>1. page = Start("*") /\ cached = [k \in {page} |-> None] /\ "*" \in Patterns
  BY BrowseAssumption DEF BrowseInit, BrowseAssumption
<1>2. PageLeads(page, None, sessions)
  BY <1>1, StartLeads DEF PageLeads
<1>3. QED
  BY <1>1, <1>2 DEF SkipInv, PagesLead

\* The answer of a fetch goes under its key.
LEMMA ReadLeads ==
    ASSUME SkipInv, BrowseInv, NEW f \in fetches, PageRead(f)
    PROVE  SkipInv'
<1>1. PICK a \in Answers(f) :
          /\ sessions' = a.sessions
          /\ IF f.aborted
             THEN UNCHANGED <<cached, touched, releasing, released>>
             ELSE Pruned([cached EXCEPT ![f.key] = a.result], Touch(touched, f.key),
                         redisTab, page, fetches \ {f}, others)
  BY DEF PageRead
<1>2. \A k \in DOMAIN cached : f.id \notin LeasesOf(cached, k)
  BY DEF BrowseInv, LeasesFit, NewLeases, Unused
<1>3. PagesLead(cached, a.sessions)
  <2>1. \A k \in DOMAIN cached : \A l \in LeasesOf(cached, k) :
            l \in DOMAIN a.sessions => l \in DOMAIN sessions /\ a.sessions[l] = sessions[l]
    BY <1>2, AnswerParks
  <2>2. PICK tt : tt = a.sessions
    OBVIOUS
  <2>3. QED
    BY <2>1, <2>2, PagesStill DEF SkipInv
<1>4. CASE f.aborted
  BY <1>1, <1>3, <1>4 DEF SkipInv
<1>5. CASE ~f.aborted
  <2>1. f.key \in DOMAIN cached
    BY <1>5 DEF BrowseInv, InView
  <2>2. f.id \in Nat /\ Cursor(f.key.cursor) /\ LeaseOf(f.key.cursor) \subseteq Nat
    <3>1. f.id \in 1 .. started /\ LeasesOf(cached, f.key) \subseteq 1 .. started /\ started \in Nat
      BY <2>1 DEF BrowseInv, LeasesFit, Numbered
    <3>2. LeaseOf(f.key.cursor) \subseteq LeasesOf(cached, f.key)
      BY DEF LeasesOf
    <3>3. Cursor(f.key.cursor)
      BY DEF BrowseInv, LeasesFit, FetchesDiffer, Request, KeyOK
    <3>4. QED
      BY <3>1, <3>2, <3>3
  <2>3. Leads(f.key.pattern, <<>>, f.key.cursor, sessions)
    BY <2>1 DEF SkipInv, PagesLead, PageLeads
  <2>4. Leads(f.key.pattern, a.result.keys, a.result.next, a.sessions)
    BY <2>2, <2>3, AnswersLead
  <2>5. PICK c : c = [cached EXCEPT ![f.key] = a.result]
    OBVIOUS
  <2>6. /\ DOMAIN c = DOMAIN cached /\ c[f.key] = a.result
        /\ \A k \in DOMAIN cached : k # f.key => c[k] = cached[k]
    BY <2>1, <2>5 DEF BrowseInv, LeasesFit, Stored
  <2>7. ASSUME NEW k \in DOMAIN c PROVE PageLeads(k, c[k], a.sessions)
    <3>1. PageLeads(k, cached[k], a.sessions)
      BY <1>3, <2>6 DEF PagesLead
    <3>2. QED
      BY <2>4, <2>6, <3>1 DEF PageLeads
  <2>8. PagesLead(c, a.sessions)
    BY <2>7 DEF PagesLead
  <2>9. PICK gone : cached' = Without(c, gone)
    BY <1>1, <1>5, <2>5 DEF Pruned
  <2>10. QED
    BY <1>1, <2>8, <2>9, FewerPages DEF SkipInv
<1>6. QED
  BY <1>4, <1>5

\* A page that is turned to joins the pages when its cursor leads on.
LEMMA ObserveLeads ==
    ASSUME SkipInv, NEW k, Leads(k.pattern, <<>>, k.cursor, sessions), ObservePage("shown", k)
    PROVE  SkipInv'
<1>1. PICK c : c = [x \in DOMAIN cached \cup {k} |-> IF x \in DOMAIN cached THEN cached[x] ELSE None]
  OBVIOUS
<1>2. PagesLead(c, sessions)
  <2>1. ASSUME NEW x \in DOMAIN c PROVE PageLeads(x, c[x], sessions)
    <3>1. CASE x \in DOMAIN cached
      BY <1>1, <3>1 DEF SkipInv, PagesLead
    <3>2. CASE x \notin DOMAIN cached
      BY <1>1, <3>2 DEF PageLeads
    <3>3. QED
      BY <3>1, <3>2
  <2>2. QED
    BY <2>1 DEF PagesLead
<1>3. PICK gone : cached' = Without(c, gone)
  BY <1>1 DEF ObservePage, Pruned
<1>4. sessions' = sessions
  BY DEF ObservePage
<1>5. QED
  BY <1>2, <1>3, <1>4, FewerPages DEF SkipInv

\* Every step keeps the pages leading on.
LEMMA SkipStep == SkipInv /\ BrowseInv /\ [BrowseNext]_browseVars => SkipInv'
<1> SUFFICES ASSUME SkipInv, BrowseInv, [BrowseNext]_browseVars PROVE SkipInv'
  OBVIOUS
<1>1. ASSUME cached' = cached, sessions' = sessions PROVE SkipInv'
  BY <1>1 DEF SkipInv
<1>2. ASSUME NEW S, cached' = Without(cached, S), sessions' = sessions PROVE SkipInv'
  BY <1>2, FewerPages DEF SkipInv
<1>3. ASSUME NEW S, cached' = cached, sessions' = Without(sessions, S) PROVE SkipInv'
  BY <1>3, FewerParked DEF SkipInv
<1>4. "*" \in Patterns
  BY BrowseAssumption DEF BrowseAssumption
<1>5. redisTab = "shown" => page.pattern \in Patterns
  BY DEF BrowseInv, InView, SkipInv, PagesLead, PageLeads, Leads
<1>6. ASSUME NEW p \in Patterns, ObservePage("shown", Start(p)) PROVE SkipInv'
  BY <1>6, StartLeads, ObserveLeads
<1>7. CASE Next_
  <2>1. page \in Pages(cached) /\ ObservePage("shown", [page EXCEPT !.cursor = cached[page].next])
    BY <1>7 DEF Next_
  <2>2. Leads(page.pattern, cached[page].keys, cached[page].next, sessions)
    BY <2>1 DEF Pages, SkipInv, PagesLead, PageLeads
  <2>3. PICK p, q : page = [pattern |-> p, cursor |-> q]
    BY DEF BrowseInv, KeyOK
  <2>4. PICK n : n = [page EXCEPT !.cursor = cached[page].next]
    OBVIOUS
  <2>5. n.pattern = page.pattern /\ n.cursor = cached[page].next
    BY <2>3, <2>4
  <2>6. Leads(n.pattern, <<>>, n.cursor, sessions)
    BY <2>2, <2>5, LeadsOn
  <2>7. QED
    BY <2>1, <2>4, <2>6, ObserveLeads
<1>8. ASSUME HideExplorer \/ CloseExplorer \/ \E n : OtherTabsBrowse(n) PROVE SkipInv'
  <2>1. PICK gone : cached' = Without(cached, gone)
    BY <1>8 DEF HideExplorer, CloseExplorer, OtherTabsBrowse, Pruned
  <2>2. sessions' = sessions
    BY <1>8 DEF HideExplorer, CloseExplorer, OtherTabsBrowse
  <2>3. QED
    BY <1>2, <2>1, <2>2
<1>9. ASSUME NEW k, PageCollected(k) PROVE SkipInv'
  BY <1>2, <1>9 DEF PageCollected
<1>10. ASSUME NEW l, ReleaseCursor(l) \/ SessionExpires(l) PROVE SkipInv'
  BY <1>1, <1>3, <1>10 DEF ReleaseCursor, SessionExpires
<1>11. ASSUME Refresh \/ (\E f : ReadFails(f)) \/ UNCHANGED browseVars PROVE SkipInv'
  BY <1>1, <1>11 DEF Refresh, ReadFails, browseVars
<1>12. QED
  BY <1>4, <1>5, <1>6, <1>7, <1>8, <1>9, <1>10, <1>11, ReadLeads
     DEF BrowseNext, HandleSearchChange, First, ShowExplorer

\* What the property calls remaining is what the cursor leads to.
LEMMA RemainingIsLeft == \A c : Remaining(c) = Left(c, sessions)
  BY DEF Remaining, Left, LeftOf, Ahead

\* So a page with what its continuation leads to is a final part of the listing.
LEMMA SkipTrue == SkipInv => NoKeyIsSkipped
<1> SUFFICES ASSUME SkipInv, NEW k \in Pages(cached), LeaseOf(cached[k].next) \subseteq DOMAIN sessions,
                    NEW shown, shown = cached[k].keys \o Remaining(cached[k].next),
                    NEW all, all = KeysListed(k.pattern)
             PROVE  shown = SubSeq(all, Len(all) - Len(shown) + 1, Len(all))
  BY DEF NoKeyIsSkipped
<1>1. Leads(k.pattern, cached[k].keys, cached[k].next, sessions)
  BY DEF SkipInv, PagesLead, PageLeads, Pages
<1>2. Ends(k.pattern, shown)
  BY <1>1, RemainingIsLeft DEF Leads, Holds
<1>3. PICK q \in Seq(Nat) : all = q \o shown /\ shown \in Seq(Nat)
  BY <1>2 DEF Ends
<1>4. SubSeq(all, Len(q) + 1, Len(all)) = shown
  BY <1>3, BehindFirst
<1>5. Len(all) = Len(q) + Len(shown) /\ Len(q) \in Nat /\ Len(shown) \in Nat
  <2>1. \A x \in Seq(Nat), y \in Seq(Nat) :
            Len(x \o y) = Len(x) + Len(y) /\ Len(x) \in Nat /\ Len(y) \in Nat
    OBVIOUS
  <2>2. QED
    BY <1>3, <2>1
<1>6. Len(all) - Len(shown) + 1 = Len(q) + 1
  BY <1>5
<1>7. QED
  BY <1>4, <1>6

-----------------------------------------------------------------------------
(* The MongoDB collection.                                                  *)

\* How many documents the page at an offset shows.
Shows(q, skip) == Len(Admitted([query |-> q, skip |-> skip]).documents)

\* The offsets of the pages up to the one on display, from the first document on.
OffsetsOK(o, p) == o \in Seq(Nat) /\ p \in Nat /\ p < Len(o) /\ o[1] = 0

\* Each page begins where the one before it ends.
Abut(o, q) == \A i \in 1 .. Len(o) - 1 : o[i + 1] = o[i] + Shows(q, o[i])

PagesAbut == ~guessed => Abut(pageOffsets, mongoQuery)
ShownPage == AtRest /\ ~guessed => mongoPage = Admitted(MongoKey)

MongoInv ==
    /\ OffsetsOK(pageOffsets, pageNo)
    /\ PagesAbut
    /\ ShownPage
    /\ mongoPage # None => Len(mongoPage.documents) \in Nat
    /\ guessed \in BOOLEAN /\ mongoFetching \in BOOLEAN
    /\ CountIsOfTheQuery

\* The first page alone.
LEMMA FirstOffset == OffsetsOK(<<0>>, 0) /\ \A q : Abut(<<0>>, q)
<1>1. <<0>> \in Seq(Nat) /\ Len(<<0>>) = 1 /\ <<0>>[1] = 0
  OBVIOUS
<1>2. QED
  BY <1>1 DEF OffsetsOK, Abut

\* The first page is the only one visited.
LEMMA InitMongo == MongoInit => MongoInv
<1> SUFFICES ASSUME MongoInit PROVE MongoInv
  OBVIOUS
<1>1. OffsetsOK(pageOffsets, pageNo) /\ PagesAbut
  BY FirstOffset DEF MongoInit, PagesAbut
<1>2. QED
  BY <1>1 DEF MongoInit, MongoInv, ShownPage, AtRest, CountIsOfTheQuery

\* What a page takes of the documents that are left.
LEMMA PageLengthOK ==
    ASSUME NEW T, NEW rest \in Seq(T)
    PROVE  PageLength(rest) \in 0 .. Len(rest)
<1> PICK len \in Nat : len = Len(rest)
  OBVIOUS
<1>1. CASE rest = <<>>
  BY <1>1 DEF PageLength
<1>2. CASE rest # <<>>
  <2>1. len > 0 /\ EndsPage(rest, len)
    BY <1>2 DEF EndsPage
  <2> DEFINE S == {i \in 1 .. len : EndsPage(rest, i)}
  <2>2. len \in S /\ S \subseteq Nat
    BY <2>1
  <2> HIDE DEF S
  <2>3. PICK i \in S : \A j \in S : i <= j
    BY <2>2, Least
  <2>4. i \in 1 .. len /\ EndsPage(rest, i)
    BY <2>3 DEF S
  <2>5. ASSUME NEW j \in 1 .. i - 1 PROVE ~EndsPage(rest, j)
    <3>1. j \in 1 .. len /\ ~(i <= j)
      BY <2>4
    <3>2. QED
      BY <2>3, <3>1 DEF S
  <2>6. PageLength(rest) \in 1 .. Len(rest)
    BY <1>2, <2>4, <2>5 DEF PageLength
  <2>7. QED
    BY <2>6
<1>3. QED
  BY <1>1, <1>2

\* So a page shows a number of documents.
LEMMA PageIsPart ==
    ASSUME NEW T, NEW rest \in Seq(T)
    PROVE  Len(SubSeq(rest, 1, PageLength(rest))) \in Nat
<1> PICK n : n = PageLength(rest)
  OBVIOUS
<1>1. n \in 0 .. Len(rest) /\ Len(rest) \in Nat
  BY PageLengthOK
<1>2. 1 \in Int /\ n \in Int /\ \A i \in 1 .. n : rest[i] \in T
  BY <1>1
<1>3. SubSeq(rest, 1, n) \in Seq(T)
  BY <1>2, SubSeqProperties
<1>4. QED
  BY <1>3

\* A page shows a number of documents.
LEMMA PageIsCounted ==
    ASSUME NEW key, key.skip \in Nat
    PROVE  Len(Admitted(key).documents) \in Nat
<1> PICK all : all = Matching(key.query)
  OBVIOUS
<1> PICK skip \in Nat : skip = key.skip
  OBVIOUS
<1> PICK rest : rest = SubSeq(all, skip + 1, Len(all))
  OBVIOUS
<1>1. PICK T : all \in Seq(T)
  <2>1. Documents \in Nat
    BY MongoAssumption
  <2>2. [d \in 1 .. Documents |-> d] \in Seq(1 .. Documents)
    BY <2>1
  <2>3. QED
    BY <2>2, PickedFrom DEF Matching
<1> PICK len \in Nat : len = Len(all)
  BY <1>1
<1>2. rest \in Seq(T)
  <2>1. skip + 1 \in Int /\ Len(all) \in Int /\ \A i \in skip + 1 .. Len(all) : i \in 1 .. len /\ all[i] \in T
    BY <1>1
  <2>2. SubSeq(all, skip + 1, Len(all)) \in Seq(T)
    BY <2>1, SubSeqProperties
  <2>3. QED
    BY <2>2
<1>3. Admitted(key).documents = SubSeq(rest, 1, PageLength(rest))
  BY DEF Admitted
<1>4. QED
  BY <1>2, <1>3, PageIsPart

\* While no document goes, a page shows the same.
LEMMA SamePages ==
    ASSUME UNCHANGED <<docs, large>>
    PROVE  \A key : Admitted(key)' = Admitted(key)
<1>1. docs' = docs /\ large' = large
  OBVIOUS
<1>2. \A q : Matching(q)' = Matching(q)
  BY <1>1 DEF Matching
<1>3. \A rest : PageLength(rest)' = PageLength(rest)
  BY <1>1 DEF PageLength, EndsPage
<1>4. QED
  BY <1>1, <1>2, <1>3 DEF Admitted

\* The offset of a page among those visited.
LEMMA KeyAt ==
    ASSUME OffsetsOK(pageOffsets, pageNo)
    PROVE  /\ MongoKey = [query |-> mongoQuery, skip |-> pageOffsets[pageNo + 1]]
           /\ MongoKey.skip = pageOffsets[pageNo + 1] /\ MongoKey.skip \in Nat
<1>1. Skip(pageOffsets, pageNo) = pageOffsets[pageNo + 1] /\ pageNo + 1 \in 1 .. Len(pageOffsets)
  BY DEF OffsetsOK, Skip
<1>2. pageOffsets[pageNo + 1] \in Nat
  BY <1>1 DEF OffsetsOK
<1>3. QED
  BY <1>1, <1>2 DEF MongoKey

OneMore(q, o, a) ==
    Len(q) = Len(o) + 1 /\ q[Len(o) + 1] = o[Len(o)] + a /\ \A i \in 1 .. Len(o) : q[i] = o[i]

\* A page that is turned to is one visited, or the offsets grow up to it, those after
\* the present last one by what the page being left admitted.
LEMMA Grown ==
    ASSUME NEW o, NEW p \in Nat, OffsetsOK(o, p), NEW t \in Nat, NEW a \in Nat
    PROVE  /\ OffsetsOK(PageOffsetsFor(o, t, p, a), t)
           /\ t < Len(o) => PageOffsetsFor(o, t, p, a) = o
           /\ t = Len(o) /\ p = Len(o) - 1 => OneMore(PageOffsetsFor(o, t, p, a), o, a)
<1> PICK n \in Nat : n = Len(o)
  BY DEF OffsetsOK
<1>1. o \in Seq(Nat) /\ n > 0 /\ p < n /\ o[1] = 0 /\ PageLimit \in Nat
  <2>1. PageLimit \in Nat
    BY MongoAssumption
  <2>2. o \in Seq(Nat) /\ p < Len(o) /\ o[1] = 0
    BY DEF OffsetsOK
  <2>3. QED
    BY <2>1, <2>2
<1>2. CASE t < n
  BY <1>1, <1>2 DEF PageOffsetsFor, OffsetsOK
<1>3. CASE ~(t < n)
  <2> PICK last \in Nat : last = o[n]
    BY <1>1
  <2> PICK step \in Nat : step = IF n - 1 = p THEN a ELSE PageLimit
    BY <1>1
  <2>1. PICK more : more = [i \in 1 .. t + 1 - n |-> last + step + (i - 1) * PageLimit]
    OBVIOUS
  <2>2. t + 1 - n \in Nat /\ t + 1 - n > 0
    BY <1>3
  <2>3. \A i \in 1 .. t + 1 - n : (i - 1) * PageLimit \in Nat
    BY <1>1, <2>2
  <2>4. \A i \in 1 .. t + 1 - n : more[i] = last + step + (i - 1) * PageLimit /\ more[i] \in Nat
    BY <2>1, <2>3, SMTT(30)
  <2>5. more \in Seq(Nat) /\ Len(more) = t + 1 - n
    BY <2>1, <2>2, <2>4
  <2>6. Last(o) = last
    BY DEF Last
  <2>7. PageOffsetsFor(o, t, p, a) = o \o more
    BY <2>1, <1>3, <2>6 DEF PageOffsetsFor
  <2> PICK q : q = o \o more
    OBVIOUS
  <2>8. q \in Seq(Nat) /\ Len(q) = t + 1 /\ (\A i \in 1 .. n : q[i] = o[i])
        /\ \A i \in 1 .. t + 1 - n : q[n + i] = more[i]
    BY <1>1, <2>2, <2>5, ConcatProperties, SMTT(30)
  <2>9. OffsetsOK(q, t)
    <3>1. 1 \in 1 .. n /\ t < Len(q)
      BY <1>1, <2>8
    <3>2. q[1] = 0
      BY <1>1, <2>8, <3>1
    <3>3. QED
      BY <2>8, <3>1, <3>2 DEF OffsetsOK
  <2>10. ASSUME t = n, p = n - 1 PROVE OneMore(q, o, a)
    <3>1. t + 1 - n = 1 /\ step = a /\ 1 \in 1 .. t + 1 - n
      BY <2>10
    <3>2. more[1] = last + step + (1 - 1) * PageLimit
      BY <2>4, <3>1
    <3>3. (1 - 1) * PageLimit = 0
      BY <1>1
    <3>4. more[1] = last + a
      BY <3>1, <3>2, <3>3
    <3>5. Len(q) = n + 1 /\ q[n + 1] = last + a
      BY <2>8, <2>10, <3>1, <3>4
    <3>6. QED
      BY <2>8, <3>5 DEF OneMore
  <2>11. QED
    BY <1>3, <2>7, <2>8, <2>9, <2>10
<1>4. QED
  BY <1>2, <1>3

\* The offsets after the click are the old ones and one more.
LEMMA GrownByOne ==
    ASSUME NEW o, NEW p \in Nat, OffsetsOK(o, p), NEW a \in Nat, Len(o) \in Nat, p = Len(o) - 1,
           NEW q, q = PageOffsetsFor(o, Len(o), p, a)
    PROVE  /\ Len(q) = Len(o) + 1 /\ q[Len(o) + 1] = o[Len(o)] + a
           /\ \A i \in 1 .. Len(o) : q[i] = o[i]
<1> PICK n \in Nat : n = Len(o)
  OBVIOUS
<1>1. OneMore(PageOffsetsFor(o, n, p, a), o, a)
  BY Grown
<1>2. QED
  BY <1>1 DEF OneMore

\* The next page begins where the one that is left ends.
LEMMA NextBegins ==
    ASSUME MongoInv, AtRest, ~guessed, OnPageChange(pageNo + 1)
    PROVE  /\ Abut(pageOffsets', mongoQuery)
           /\ pageOffsets'[pageNo + 2] = pageOffsets[pageNo + 1] + Len(mongoPage.documents)
<1> PICK n \in Nat : n = Len(pageOffsets)
  BY DEF MongoInv, OffsetsOK
<1> PICK p \in Nat : p = pageNo
  BY DEF MongoInv, OffsetsOK
<1> PICK o : o = pageOffsets
  OBVIOUS
<1> PICK q : q = pageOffsets'
  OBVIOUS
<1> PICK a \in Nat : a = Len(mongoPage.documents)
  BY DEF MongoInv, AtRest
<1>1. OffsetsOK(o, p) /\ Abut(o, mongoQuery) /\ p < n
  BY DEF MongoInv, PagesAbut, OffsetsOK
<1>2. q = PageOffsetsFor(o, p + 1, p, a)
  BY DEF OnPageChange
<1>3. a = Shows(mongoQuery, o[p + 1])
  <2>1. mongoPage = Admitted(MongoKey) /\ MongoKey = [query |-> mongoQuery, skip |-> pageOffsets[pageNo + 1]]
    BY KeyAt DEF MongoInv, ShownPage
  <2>2. QED
    BY <2>1 DEF Shows
<1>4. CASE p + 1 < n
  <2>1. q = o
    BY <1>1, <1>2, <1>4, Grown
  <2>2. o[p + 2] = o[p + 1] + a
    <3>1. p + 1 \in 1 .. Len(o) - 1 /\ p + 1 + 1 = p + 2
      BY <1>4
    <3>2. o[p + 1 + 1] = o[p + 1] + Shows(mongoQuery, o[p + 1])
      BY <1>1, <3>1 DEF Abut
    <3>3. QED
      BY <1>3, <3>1, <3>2
  <2>3. QED
    BY <1>1, <2>1, <2>2
<1>5. CASE ~(p + 1 < n)
  <2>1. p + 1 = n /\ p = n - 1 /\ p + 1 \in Nat
    BY <1>1, <1>5
  <2>2. Len(q) = n + 1 /\ q[n + 1] = o[n] + a /\ \A i \in 1 .. n : q[i] = o[i]
    <3>1. q = PageOffsetsFor(o, Len(o), p, a) /\ Len(o) \in Nat /\ p = Len(o) - 1
      BY <1>2, <2>1
    <3>2. QED
      BY <1>1, <3>1, GrownByOne
  <2>3. \A i \in 1 .. n : q[i + 1] = q[i] + Shows(mongoQuery, q[i])
    <3> TAKE i \in 1 .. n
    <3>1. CASE i = n
      BY <1>3, <2>1, <2>2, <3>1
    <3>2. CASE i # n
      <4>1. i \in 1 .. n - 1 /\ i + 1 \in 1 .. n
        BY <3>2
      <4>2. o[i + 1] = o[i] + Shows(mongoQuery, o[i])
        BY <1>1, <4>1 DEF Abut
      <4>3. QED
        BY <2>2, <4>1, <4>2
    <3>3. QED
      BY <3>1, <3>2
  <2>4. Abut(q, mongoQuery)
    BY <2>2, <2>3 DEF Abut
  <2>5. p + 2 = n + 1
    BY <2>1
  <2>6. QED
    BY <2>1, <2>2, <2>4, <2>5
<1>6. QED
  BY <1>4, <1>5

\* While the pages, their query and the collection stay, so does what was said of them.
LEMMA StillMongo ==
    ASSUME MongoInv, UNCHANGED <<docs, large>>,
           UNCHANGED <<mongoQuery, pageNo, pageOffsets, guessed, mongoPage, mongoFetching>>,
           CountIsOfTheQuery'
    PROVE  MongoInv'
<1>1. \A key : Admitted(key)' = Admitted(key)
  BY SamePages
<1>2. MongoKey' = MongoKey
  BY DEF MongoKey
<1>3. ShownPage'
  BY <1>1, <1>2 DEF MongoInv, ShownPage, AtRest
<1>4. PagesAbut'
  BY <1>1 DEF MongoInv, PagesAbut, Abut, Shows
<1>5. QED
  BY <1>3, <1>4 DEF MongoInv

\* Turning a page.
LEMMA TurnMongo ==
    ASSUME MongoInv, AtRest, NEW p \in Nat, OnPageChange(p), guessed' \in BOOLEAN,
           guessed' <=> (guessed \/ p > pageNo + 1)
    PROVE  /\ MongoInv'
           /\ pageNo' = pageNo + 1 /\ ~guessed => MongoKey'.skip = MongoKey.skip + Len(mongoPage.documents)
<1>1. /\ pageOffsets' = PageOffsetsFor(pageOffsets, p, pageNo, Len(mongoPage.documents)) /\ pageNo' = p
      /\ UNCHANGED <<docs, large>> /\ mongoQuery' = mongoQuery /\ countResult' = countResult
      /\ Render(mongoQuery, p, pageOffsets')
  BY DEF OnPageChange
<1>2. OffsetsOK(pageOffsets, pageNo) /\ Len(mongoPage.documents) \in Nat /\ pageNo \in Nat
  BY DEF MongoInv, AtRest, OffsetsOK
<1>3. OffsetsOK(pageOffsets', p) /\ (p < Len(pageOffsets) => pageOffsets' = pageOffsets)
  BY <1>1, <1>2, Grown
<1>4. \A key : Admitted(key)' = Admitted(key)
  BY <1>1, SamePages
<1>5. \A q, skip : Shows(q, skip)' = Shows(q, skip)
  BY <1>4 DEF Shows
<1>6. MongoKey' = [query |-> mongoQuery, skip |-> Skip(pageOffsets', p)]
  BY <1>1 DEF MongoKey
<1>7. \/ MongoKey' = MongoKey /\ mongoPage' = mongoPage /\ mongoFetching' = mongoFetching
      \/ mongoPage' = mongoPage /\ mongoFetching' = TRUE
  BY <1>1, <1>6 DEF Render
<1>8. ShownPage'
  BY <1>4, <1>7 DEF MongoInv, ShownPage, AtRest
<1>9. PagesAbut'
  <2> SUFFICES ASSUME ~guessed' PROVE Abut(pageOffsets, mongoQuery)'
    BY <1>1 DEF PagesAbut
  <2>1. ~guessed /\ p <= pageNo + 1 /\ Abut(pageOffsets, mongoQuery)
    BY <1>2 DEF MongoInv, PagesAbut
  <2>2. Abut(pageOffsets', mongoQuery)
    <3>1. CASE p < Len(pageOffsets)
      BY <1>3, <2>1, <3>1
    <3>2. CASE ~(p < Len(pageOffsets))
      <4>1. p = pageNo + 1
        BY <1>2, <2>1, <3>2 DEF OffsetsOK
      <4>2. QED
        BY <2>1, <4>1, NextBegins
    <3>3. QED
      BY <3>1, <3>2
  <2>3. QED
    BY <1>1, <1>5, <2>2 DEF Abut
<1>10. MongoInv'
  BY <1>1, <1>2, <1>3, <1>7, <1>8, <1>9 DEF MongoInv, CountIsOfTheQuery
<1>11. ASSUME pageNo' = pageNo + 1, ~guessed
       PROVE  MongoKey'.skip = MongoKey.skip + Len(mongoPage.documents)
  <2>1. p = pageNo + 1 /\ OnPageChange(pageNo + 1)
    BY <1>1, <1>11
  <2>2. pageOffsets'[pageNo + 2] = pageOffsets[pageNo + 1] + Len(mongoPage.documents)
    BY <1>11, <2>1, NextBegins
  <2>3. MongoKey.skip = pageOffsets[pageNo + 1]
    BY <1>2, KeyAt
  <2>4. MongoKey'.skip = Skip(pageOffsets', p)
    BY <1>6
  <2>5. p + 1 = pageNo + 2 /\ Skip(pageOffsets', p) = pageOffsets'[p + 1]
    BY <1>2, <1>3, <2>1 DEF Skip, OffsetsOK
  <2>6. QED
    BY <2>2, <2>3, <2>4, <2>5
<1>12. QED
  BY <1>10, <1>11

\* Another query, or the same on its first page.
LEMMA QueryMongo ==
    ASSUME MongoInv, NEW q, ChangeQuery(q)
    PROVE  MongoInv'
<1>1. /\ mongoQuery' = q /\ pageNo' = 0 /\ pageOffsets' = <<0>> /\ countResult' = None
      /\ guessed' = (guessed /\ MongoKey = [query |-> q, skip |-> 0])
      /\ Render(q, 0, <<0>>) /\ UNCHANGED <<docs, large>>
  BY DEF ChangeQuery, ResetPaging
<1>2. \A key : Admitted(key)' = Admitted(key)
  BY <1>1, SamePages
<1>3. Len(<<0>>) = 1 /\ <<0>>[1] = 0
  OBVIOUS
<1>4. Skip(<<0>>, 0) = 0
  BY <1>3 DEF Skip
<1>5. MongoKey' = [query |-> q, skip |-> 0]
  BY <1>1, <1>4 DEF MongoKey
<1>6. \/ MongoKey' = MongoKey /\ mongoPage' = mongoPage /\ mongoFetching' = mongoFetching
      \/ mongoPage' = mongoPage /\ mongoFetching' = TRUE
  BY <1>1, <1>4, <1>5 DEF Render
<1>7. ShownPage'
  <2>1. CASE MongoKey' = MongoKey /\ mongoPage' = mongoPage /\ mongoFetching' = mongoFetching
    <3>1. guessed' = guessed
      BY <1>1, <1>5, <2>1 DEF MongoInv
    <3>2. QED
      BY <1>2, <2>1, <3>1 DEF MongoInv, ShownPage, AtRest
  <2>2. CASE mongoPage' = mongoPage /\ mongoFetching' = TRUE
    BY <2>2 DEF ShownPage, AtRest
  <2>3. QED
    BY <1>6, <2>1, <2>2
<1>8. OffsetsOK(pageOffsets', pageNo')
  BY <1>1, FirstOffset
<1>9. PagesAbut'
  <2>1. \A i \in 1 .. Len(<<0>>) - 1 : FALSE
    BY <1>3
  <2>2. QED
    BY <1>1, <2>1 DEF PagesAbut, Abut
<1>10. guessed' \in BOOLEAN /\ mongoFetching' \in BOOLEAN
  BY <1>1, <1>6 DEF MongoInv
<1>11. QED
  BY <1>1, <1>6, <1>7, <1>8, <1>9, <1>10 DEF MongoInv, CountIsOfTheQuery

\* A deletion that is answered has the collection read anew.
LEMMA DeletedMongo ==
    ASSUME MongoInv, DeleteAnswered
    PROVE  MongoInv'
<1>1. CASE ResetPaging /\ guessed' = FALSE /\ mongoFetching' = TRUE
  <2>1. pageNo' = 0 /\ pageOffsets' = <<0>> /\ countResult' = None /\ mongoPage' = mongoPage
    BY <1>1 DEF ResetPaging, DeleteAnswered
  <2>2. OffsetsOK(pageOffsets', pageNo')
    BY <2>1, FirstOffset
  <2>3. PagesAbut'
    <3>1. Len(<<0>>) = 1
      OBVIOUS
    <3>2. \A i \in 1 .. Len(<<0>>) - 1 : FALSE
      BY <3>1
    <3>3. QED
      BY <2>1, <3>2 DEF PagesAbut, Abut
  <2>4. QED
    BY <1>1, <2>1, <2>2, <2>3 DEF MongoInv, ShownPage, AtRest, CountIsOfTheQuery
<1>2. CASE UNCHANGED <<pageNo, pageOffsets, sawByteLimitedPage, guessed, countResult, mongoFetching>>
  <2>1. UNCHANGED <<docs, large>> /\ UNCHANGED <<mongoQuery, mongoPage>>
    BY DEF DeleteAnswered
  <2>2. QED
    BY <1>2, <2>1, StillMongo DEF MongoInv, CountIsOfTheQuery
<1>3. QED
  BY <1>1, <1>2 DEF DeleteAnswered

\* Every step keeps the invariant, and one to the next page goes on where the page ends.
LEMMA MongoStep ==
    MongoInv /\ [MongoNext]_mongoVars =>
        /\ MongoInv'
        /\ [pageNo' = pageNo + 1 /\ ~guessed =>
               MongoKey'.skip = MongoKey.skip + Len(mongoPage.documents)]_mongoVars
<1> SUFFICES ASSUME MongoInv, [MongoNext]_mongoVars
             PROVE  /\ MongoInv'
                    /\ pageNo' = pageNo + 1 /\ ~guessed =>
                          MongoKey'.skip = MongoKey.skip + Len(mongoPage.documents)
  OBVIOUS
<1>1. pageNo \in Nat /\ 0 # pageNo + 1 /\ pageNo # pageNo + 1
  BY DEF MongoInv, OffsetsOK
<1>2. CASE NextDocuments
  <2>1. AtRest /\ OnPageChange(pageNo + 1) /\ guessed' = guessed /\ pageNo + 1 \in Nat
        /\ ~(pageNo + 1 > pageNo + 1)
    BY <1>1, <1>2 DEF NextDocuments
  <2>2. guessed' \in BOOLEAN /\ (guessed' <=> (guessed \/ pageNo + 1 > pageNo + 1))
    BY <2>1 DEF MongoInv
  <2>3. QED
    BY <2>1, <2>2, TurnMongo
<1>3. CASE PreviousDocuments
  <2>1. AtRest /\ OnPageChange(pageNo - 1) /\ guessed' = guessed /\ pageNo - 1 \in Nat
        /\ ~(pageNo - 1 > pageNo + 1)
    BY <1>1, <1>3 DEF PreviousDocuments
  <2>2. guessed' \in BOOLEAN /\ (guessed' <=> (guessed \/ pageNo - 1 > pageNo + 1))
    BY <2>1 DEF MongoInv
  <2>3. QED
    BY <2>1, <2>2, TurnMongo
<1>4. ASSUME NEW p \in Nat, JumpToPage(p)
      PROVE  /\ MongoInv'
             /\ pageNo' = pageNo + 1 /\ ~guessed =>
                   MongoKey'.skip = MongoKey.skip + Len(mongoPage.documents)
  <2>1. AtRest /\ OnPageChange(p) /\ guessed' = (guessed \/ p > pageNo + 1)
    BY <1>4 DEF JumpToPage
  <2>2. guessed' \in BOOLEAN /\ (guessed' <=> (guessed \/ p > pageNo + 1))
    BY <2>1
  <2>3. QED
    BY <2>1, <2>2, TurnMongo
<1>5. ASSUME NEW q, ChangeQuery(q) PROVE MongoInv' /\ pageNo' # pageNo + 1
  BY <1>1, <1>5, QueryMongo DEF ChangeQuery, ResetPaging
<1>6. CASE DeleteAnswered
  BY <1>1, <1>6, DeletedMongo DEF DeleteAnswered, ResetPaging
<1>7. CASE DocumentsAnswered
  <2>1. mongoPage' = Admitted(MongoKey) /\ UNCHANGED <<docs, large>>
        /\ UNCHANGED <<mongoQuery, pageNo, pageOffsets, guessed, countResult>> /\ mongoFetching' = FALSE
    BY <1>7 DEF DocumentsAnswered
  <2>2. Len(mongoPage'.documents) \in Nat
    BY <2>1, KeyAt, PageIsCounted DEF MongoInv
  <2>3. MongoKey' = MongoKey
    BY <2>1 DEF MongoKey
  <2>4. \A key : Admitted(key)' = Admitted(key)
    BY <2>1, SamePages
  <2>5. ShownPage'
    BY <2>1, <2>3, <2>4 DEF ShownPage
  <2>6. PagesAbut'
    BY <2>1, <2>4 DEF MongoInv, PagesAbut, Abut, Shows
  <2>7. QED
    BY <1>1, <2>1, <2>2, <2>5, <2>6 DEF MongoInv, CountIsOfTheQuery
<1>8. ASSUME NEW i, DeleteDocument(i) PROVE MongoInv' /\ pageNo' = pageNo
  BY <1>8 DEF DeleteDocument, MongoInv, PagesAbut, ShownPage, CountIsOfTheQuery
<1>9. ASSUME UNCHANGED <<docs, large>>,
             UNCHANGED <<mongoQuery, pageNo, pageOffsets, guessed, mongoPage, mongoFetching>>,
             countResult' # None => countResult'.query = mongoQuery'
      PROVE  MongoInv'
  BY <1>9, StillMongo DEF CountIsOfTheQuery
<1>10. ASSUME NEW q, TypeSearchText(q) PROVE MongoInv' /\ pageNo' = pageNo
  BY <1>9, <1>10 DEF TypeSearchText, MongoInv, CountIsOfTheQuery
<1>11. CASE HandleCount
  <2>1. countResult'.query = mongoQuery
    BY <1>11 DEF HandleCount
  <2>2. QED
    BY <1>1, <1>9, <1>11, <2>1 DEF HandleCount
<1>12. ASSUME NEW q, CountAnswered(q) \/ CountFailed(q) PROVE MongoInv' /\ pageNo' = pageNo
  <2>1. countResult' # None => countResult'.query = mongoQuery
    BY <1>12 DEF CountAnswered, CountFailed, MongoInv, CountIsOfTheQuery
  <2>2. QED
    BY <1>9, <1>12, <2>1 DEF CountAnswered, CountFailed
<1>13. CASE UNCHANGED mongoVars
  BY <1>1, <1>9, <1>13 DEF mongoVars, MongoInv, CountIsOfTheQuery
<1>14. \A p \in 0 .. Documents : p \in Nat
  OBVIOUS
<1>15. QED
  BY <1>1, <1>2, <1>3, <1>4, <1>5, <1>6, <1>7, <1>8, <1>10, <1>11, <1>12, <1>13, <1>14
     DEF MongoNext, SortChanges, SearchDebounced

-----------------------------------------------------------------------------
(* The aggregation pipeline.                                                *)

\* The offsets of adjoining pages, from the first document on.
Adjoin(o) ==
    /\ o \in Seq(0 .. Found) /\ Len(o) > 0
    /\ \A i \in 1 .. Len(o) - 1 : o[i + 1] = PageEnd(o[i])

\* Page p is the one at an offset.
PageAt(o, p, skip) == p \in Nat /\ p < Len(o) /\ skip = o[p + 1]

\* Runs are numbered; those of the present owner were started with the inputs on
\* display, and the newest of them asks for a page by its offset.
RunsFit(rs, seq, own, i, o) ==
    /\ seq \in Nat /\ own \in Nat
    /\ \A r \in rs : /\ r.n \in 0 .. seq /\ r.owner \in 0 .. own
                     /\ r.owner = own => r.inputs = i
                     /\ r.owner = own /\ r.n = seq => PageAt(o, r.page, r.skip)

ResultFits(a, p, i, o) ==
    a # None => PageAt(o, p, a.skip) /\ a.end = PageEnd(a.skip) /\ a.inputs = i

RunIsHeard(running, rs, seq, own) == running => \E r \in rs : r.owner = own /\ r.n = seq

PipeInv ==
    /\ Adjoin(visited)
    /\ RunsFit(pipeRuns, sequence, owner, inputs, visited)
    /\ ResultFits(aggregated, pipePage, inputs, visited)
    /\ RunIsHeard(pipeRunning, pipeRuns, sequence, owner)

\* The first page alone.
LEMMA FirstAlone == Adjoin(<<0>>) /\ Len(<<0>>) = 1 /\ <<0>>[1] = 0
<1>1. Found \in Nat
  BY PipelineAssumption
<1>2. <<0>> \in Seq(0 .. Found) /\ Len(<<0>>) = 1 /\ <<0>>[1] = 0
  BY <1>1
<1>3. QED
  BY <1>2 DEF Adjoin

\* A page ends somewhere between its offset and the last document.
LEMMA PageEnds ==
    ASSUME NEW skip \in 0 .. Found
    PROVE  PageEnd(skip) \in 0 .. Found
<1>1. Found \in Nat
  BY PipelineAssumption
<1> PICK S : S = {n \in skip .. Found : Closes(skip, n)}
  OBVIOUS
<1>2. Found \in S /\ S \subseteq Nat
  BY <1>1 DEF Closes
<1>3. PICK n \in S : \A m \in S : n <= m
  BY <1>2, Least
<1>4. n \in skip .. Found /\ Closes(skip, n) /\ \A m \in skip .. n - 1 : ~Closes(skip, m)
  <2>1. n \in skip .. Found /\ Closes(skip, n)
    BY <1>3
  <2>2. ASSUME NEW m \in skip .. n - 1 PROVE ~Closes(skip, m)
    <3>1. m \in skip .. Found /\ ~(n <= m)
      BY <1>1, <2>1
    <3>2. QED
      BY <1>3, <3>1
  <2>3. QED
    BY <2>1, <2>2
<1>5. PageEnd(skip) \in skip .. Found
  BY <1>4 DEF PageEnd
<1>6. QED
  BY <1>1, <1>5

\* No run has been started.
LEMMA InitPipe == PipeInit => PipeInv
<1> SUFFICES ASSUME PipeInit PROVE PipeInv
  OBVIOUS
<1>1. Adjoin(visited)
  BY FirstAlone DEF PipeInit
<1>2. QED
  BY <1>1 DEF PipeInit, PipeInv, RunsFit, ResultFits, RunIsHeard

\* A run that is started asks for a page of adjoining ones, and is the one heard.
LEMMA StartPipe ==
    ASSUME PipeInv, NEW p \in Nat, NEW o, p = 0 \/ (Adjoin(o) /\ p < Len(o)), StartRun(p, o)
    PROVE  PipeInv'
<1>1. PICK at : at = IF p = 0 THEN <<0>> ELSE o
  OBVIOUS
<1>2. Adjoin(at) /\ p < Len(at)
  BY <1>1, FirstAlone
<1>3. PICK run : run = [n |-> sequence', owner |-> owner, inputs |-> inputs, page |-> p, skip |-> at[p + 1]]
  OBVIOUS
<1>4. /\ sequence' = sequence + 1 /\ visited' = at /\ pipeRuns' = pipeRuns \cup {run}
      /\ aggregated' = None /\ owner' = owner /\ inputs' = inputs
  BY <1>1, <1>2, <1>3 DEF StartRun
<1>5. run.n = sequence + 1 /\ run.owner = owner /\ run.inputs = inputs /\ PageAt(at, run.page, run.skip)
  BY <1>2, <1>3, <1>4 DEF PageAt
<1>6. sequence \in Nat /\ owner \in Nat
  BY DEF PipeInv, RunsFit
<1>7. \A r \in pipeRuns : r.n \in 0 .. sequence + 1 /\ r.n # sequence + 1 /\ r.owner \in 0 .. owner
                         /\ (r.owner = owner => r.inputs = inputs)
  BY <1>6 DEF PipeInv, RunsFit
<1>8. RunsFit(pipeRuns', sequence', owner', inputs', visited')
  BY <1>4, <1>5, <1>6, <1>7 DEF RunsFit
<1>9. RunIsHeard(pipeRunning', pipeRuns', sequence', owner')
  BY <1>4, <1>5 DEF RunIsHeard
<1>10. ResultFits(aggregated', pipePage', inputs', visited')
  BY <1>4 DEF ResultFits
<1>11. QED
  BY <1>2, <1>4, <1>8, <1>9, <1>10 DEF PipeInv

\* The page turned to is one visited, or begins where the last of them ends.
LEMMA TurnPipe ==
    ASSUME PipeInv, NEW p \in Nat, aggregated # None, p <= pipePage + 1, TurnTo(p)
    PROVE  PipeInv'
<1> PICK n : n = Len(visited)
  OBVIOUS
<1>1. /\ n \in Nat \ {0} /\ visited \in Seq(0 .. Found) /\ DOMAIN visited = 1 .. n
      /\ pipePage \in Nat /\ pipePage < n
      /\ aggregated.skip = visited[pipePage + 1] /\ aggregated.end = PageEnd(aggregated.skip)
      /\ \A i \in 1 .. n - 1 : visited[i + 1] = PageEnd(visited[i])
  BY DEF PipeInv, Adjoin, ResultFits, PageAt
<1>2. CASE p < n
  <2>1. StartRun(p, visited)
    BY <1>2 DEF TurnTo
  <2>2. QED
    BY <1>2, <2>1, StartPipe DEF PipeInv
<1>3. CASE ~(p < n)
  <2>1. p = n /\ pipePage = n - 1 /\ Len(visited) - 1 = pipePage
    BY <1>1, <1>3
  <2>2. PICK e : e = PageEnd(visited[n])
    OBVIOUS
  <2>3. visited[n] \in 0 .. Found /\ e \in 0 .. Found /\ Found \in Nat
    BY <1>1, <2>2, PageEnds, PipelineAssumption, SMTT(30)
  <2>4. aggregated.end = e /\ aggregated.skip = visited[n]
    BY <1>1, <2>1, <2>2
  <2>5. Last(visited) + (aggregated.end - aggregated.skip) = e
    BY <2>3, <2>4 DEF Last
  <2>6. PICK o : o = Append(visited, e)
    OBVIOUS
  <2>7. StartRun(p, o)
    BY <1>3, <2>1, <2>5, <2>6 DEF TurnTo
  <2>8. o \in Seq(0 .. Found) /\ Len(o) = n + 1 /\ o[n + 1] = e /\ \A i \in 1 .. n : o[i] = visited[i]
    BY <1>1, <2>3, <2>6
  <2>9. \A i \in 1 .. n : o[i + 1] = PageEnd(o[i])
    <3> TAKE i \in 1 .. n
    <3>1. CASE i = n
      BY <1>1, <2>2, <2>8, <3>1
    <3>2. CASE i # n
      <4>1. i \in 1 .. n - 1 /\ i + 1 \in 1 .. n
        BY <1>1, <3>2
      <4>2. QED
        BY <1>1, <2>8, <4>1
    <3>3. QED
      BY <3>1, <3>2
  <2>10. Adjoin(o) /\ p < Len(o)
    BY <1>1, <2>1, <2>8, <2>9 DEF Adjoin
  <2>11. QED
    BY <2>7, <2>10, StartPipe
<1>4. QED
  BY <1>2, <1>3

\* An answer, or none: the run is gone, and only the one that was heard changes the view.
LEMMA AnswerPipe ==
    ASSUME PipeInv, NEW r \in pipeRuns, AggregateAnswers(r) \/ AggregateFails(r)
    PROVE  PipeInv'
<1>1. /\ pipeRuns' = pipeRuns \ {r} /\ inputs' = inputs /\ owner' = owner
      /\ sequence' = sequence /\ visited' = visited
  BY DEF AggregateAnswers, AggregateFails
<1>2. Adjoin(visited') /\ RunsFit(pipeRuns', sequence', owner', inputs', visited')
  BY <1>1 DEF PipeInv, RunsFit
<1>3. CASE Heard(r)
  <2>1. ~pipeRunning'
    BY <1>3 DEF AggregateAnswers, AggregateFails
  <2>2. ResultFits(aggregated', pipePage', inputs', visited')
    <3>1. CASE AggregateAnswers(r)
      <4>1. aggregated' = [inputs |-> r.inputs, skip |-> r.skip, end |-> PageEnd(r.skip)] /\ pipePage' = r.page
        BY <1>3, <3>1 DEF AggregateAnswers
      <4>2. PageAt(visited, r.page, r.skip) /\ r.inputs = inputs
        BY <1>3 DEF PipeInv, RunsFit, Heard
      <4>3. QED
        BY <1>1, <4>1, <4>2 DEF ResultFits
    <3>2. CASE AggregateFails(r)
      BY <1>1, <1>3, <3>2 DEF AggregateFails, PipeInv, ResultFits
    <3>3. QED
      BY <3>1, <3>2
  <2>3. QED
    BY <1>2, <2>1, <2>2 DEF PipeInv, RunIsHeard
<1>4. CASE ~Heard(r)
  <2>1. UNCHANGED pipeView
    BY <1>4 DEF AggregateAnswers, AggregateFails
  <2>2. ResultFits(aggregated', pipePage', inputs', visited')
    BY <1>1, <2>1 DEF pipeView, PipeInv
  <2>3. RunIsHeard(pipeRunning', pipeRuns', sequence', owner')
    BY <1>1, <1>4, <2>1 DEF pipeView, PipeInv, RunIsHeard, Heard
  <2>4. QED
    BY <1>2, <2>2, <2>3 DEF PipeInv
<1>5. QED
  BY <1>3, <1>4

\* What drops the result and renews the owner silences the runs there are.
LEMMA DropPipe ==
    ASSUME PipeInv, ~pipeRunning', aggregated' = None, Adjoin(visited'),
           pipeRuns' = pipeRuns, sequence' = sequence,
           owner' = owner + 1 \/ (UNCHANGED <<owner, inputs, visited>>)
    PROVE  PipeInv'
<1>1. RunsFit(pipeRuns', sequence', owner', inputs', visited')
  <2>1. CASE owner' = owner + 1
    <3>1. \A r \in pipeRuns : r.owner \in 0 .. owner + 1 /\ r.owner # owner + 1
      BY DEF PipeInv, RunsFit
    <3>2. QED
      BY <2>1, <3>1 DEF PipeInv, RunsFit
  <2>2. CASE UNCHANGED <<owner, inputs, visited>>
    BY <2>2 DEF PipeInv, RunsFit
  <2>3. QED
    BY <2>1, <2>2
<1>2. QED
  BY <1>1 DEF PipeInv, ResultFits, RunIsHeard

\* Every step keeps the invariant.
LEMMA PipeStep == PipeInv /\ [PipeNext]_pipeVars => PipeInv'
<1> SUFFICES ASSUME PipeInv, [PipeNext]_pipeVars PROVE PipeInv'
  OBVIOUS
<1>1. CASE RunPipeline
  BY <1>1, StartPipe DEF RunPipeline
<1>2. CASE PipePrevious
  <2>1. pipePage \in Nat /\ pipePage - 1 \in Nat /\ aggregated # None /\ TurnTo(pipePage - 1)
    BY <1>2 DEF PipePrevious, PipePaged, PipeInv, ResultFits, PageAt
  <2>2. QED
    BY <2>1, TurnPipe
<1>3. CASE PipeNextPage
  <2>1. pipePage \in Nat /\ aggregated # None /\ TurnTo(pipePage + 1)
    BY <1>3 DEF PipeNextPage, PipePaged, PipeInv, ResultFits, PageAt
  <2>2. QED
    BY <2>1, TurnPipe
<1>4. ASSUME NEW i, ChangeInputs(i) PROVE PipeInv'
  BY <1>4, FirstAlone, DropPipe DEF ChangeInputs, ContextDropped
<1>5. CASE FormatPipeline
  <2>1. Adjoin(visited')
    BY <1>5 DEF FormatPipeline, PipeInv
  <2>2. QED
    BY <1>5, <2>1, DropPipe DEF FormatPipeline, ContextDropped
<1>6. CASE RemountPipeline
  BY <1>6, FirstAlone, DropPipe DEF RemountPipeline
<1>7. CASE UNCHANGED pipeVars
  BY <1>7 DEF pipeVars, pipeView, PipeInv
<1>8. QED
  BY <1>1, <1>2, <1>3, <1>4, <1>5, <1>6, <1>7, AnswerPipe DEF PipeNext

\* What the invariant says of the properties.
LEMMA PipeTrue == PipeInv => ResultIsOfTheInputs /\ SpinnerHasARun /\ NoDocumentIsSkipped
<1> SUFFICES ASSUME PipeInv PROVE ResultIsOfTheInputs /\ SpinnerHasARun /\ NoDocumentIsSkipped
  OBVIOUS
<1>1. ResultIsOfTheInputs /\ SpinnerHasARun
  BY DEF PipeInv, ResultFits, RunIsHeard, ResultIsOfTheInputs, SpinnerHasARun, Heard
<1>2. ASSUME aggregated # None
      PROVE  aggregated.skip = visited[pipePage + 1] /\ \A i \in 1 .. pipePage : visited[i + 1] = PageEnd(visited[i])
  <2>1. pipePage \in Nat /\ pipePage < Len(visited) /\ Len(visited) \in Nat
        /\ aggregated.skip = visited[pipePage + 1]
    BY <1>2 DEF PipeInv, ResultFits, PageAt, Adjoin
  <2>2. \A i \in 1 .. pipePage : i \in 1 .. Len(visited) - 1
    BY <2>1
  <2>3. QED
    BY <2>1, <2>2 DEF PipeInv, Adjoin
<1>3. QED
  BY <1>1, <1>2 DEF NoDocumentIsSkipped

-----------------------------------------------------------------------------
(* The federated query canvas.                                              *)

\* A run asks some connections, and holds what each of them has answered.
FedRunOK(r) ==
    /\ r \in [n : {r.n}, text : {r.text}, of : {r.of}, reply : {r.reply}]
    /\ r.n \in Nat /\ r.of \in Seq(Source) /\ r.reply \in [Range(r.of) -> Reply]

\* The newest run was not refused, and no run is newer than the last that was started.
FedRunsFit(rs, seq, no) ==
    /\ seq \in Nat
    /\ \A r \in rs : FedRunOK(r) /\ r.n <= seq /\ (r.n = seq => ~no)

\* Every connection asked is among the rows or among the errors, once.
Whole(m, seq, no) ==
    m # None => /\ m.n = seq /\ ~no
                /\ Range(m.rows) \cap Range(m.errors) = {}
                /\ Len(m.rows) + Len(m.errors) = Len(m.of)

IsUnderWay(running, rs, seq) == running => \E r \in rs : r.n = seq

FedInv ==
    /\ selected \in Seq(Source)
    /\ FedRunsFit(fedRuns, fedSequence, refused)
    /\ Whole(merged, fedSequence, refused)
    /\ IsUnderWay(fedRunning, fedRuns, fedSequence)

\* No run has been started.
LEMMA InitFed == FedInit => FedInv
  BY Nothing DEF FedInit, FedInv, FedRunsFit, Whole, IsUnderWay

\* Those that answered with rows and those that failed make up the connections asked.
LEMMA AnswersAreWhole ==
    ASSUME NEW of \in Seq(Source), NEW reply, \A i \in DOMAIN of : reply[of[i]] \in {"rows", "error"}
    PROVE  /\ Range(AnsweredWith("rows", of, reply)) \cap Range(AnsweredWith("error", of, reply)) = {}
           /\ Len(AnsweredWith("rows", of, reply)) + Len(AnsweredWith("error", of, reply)) = Len(of)
<1> PICK A : A = {i \in DOMAIN of : reply[of[i]] = "rows"}
  OBVIOUS
<1> PICK B : B = {i \in DOMAIN of : reply[of[i]] = "error"}
  OBVIOUS
<1>1. AnsweredWith("rows", of, reply) = Picked(of, A) /\ AnsweredWith("error", of, reply) = Picked(of, B)
  BY DEF AnsweredWith
<1>2. \A i \in DOMAIN of : i \in A <=> i \notin B
  OBVIOUS
<1>3. Len(Picked(of, A)) + Len(Picked(of, B)) = Len(of)
  BY <1>2, PickedLengths
<1>4. ASSUME NEW P, NEW a, P = {i \in DOMAIN of : reply[of[i]] = a}, NEW x \in Range(Picked(of, P))
      PROVE  reply[x] = a
  <2>1. \A j \in DOMAIN Picked(of, P) : \E i \in DOMAIN of : i \in P /\ Picked(of, P)[j] = of[i]
    BY PickedFrom
  <2>2. PICK j \in DOMAIN Picked(of, P) : x = Picked(of, P)[j]
    BY <1>4 DEF Range
  <2>3. PICK i \in DOMAIN of : i \in P /\ x = of[i]
    BY <2>1, <2>2
  <2>4. QED
    BY <1>4, <2>3
<1>5. ASSUME NEW x \in Range(Picked(of, A)), x \in Range(Picked(of, B)) PROVE FALSE
  <2>1. reply[x] = "rows" /\ reply[x] = "error"
    BY <1>4, <1>5
  <2>2. QED
    BY <2>1
<1>6. QED
  BY <1>1, <1>3, <1>5

\* Selecting and deselecting.
LEMMA ToggleFed ==
    ASSUME FedInv, NEW c \in Source, ToggleConnection(c)
    PROVE  selected' \in Seq(Source)
<1>1. selected \in Seq(Source)
  BY DEF FedInv
<1>2. Append(selected, c) \in Seq(Source)
  BY <1>1
<1>3. \A P : Picked(selected, P) \in Seq(Source)
  BY <1>1, PickedFrom
<1>4. QED
  BY <1>2, <1>3 DEF ToggleConnection

\* A run is the newest, unless it is refused.
LEMMA RunFed == ASSUME FedInv, RunFederated PROVE FedInv'
<1>1. /\ fedSequence \in Nat /\ fedSequence' = fedSequence + 1 /\ merged' = None
      /\ selected' = selected /\ selected \in Seq(Source) /\ fedRunning' = ~refused'
  BY DEF FedInv, FedRunsFit, RunFederated
<1>2. \A r \in fedRuns : FedRunOK(r) /\ r.n <= fedSequence + 1 /\ r.n # fedSequence + 1
  BY <1>1 DEF FedInv, FedRunsFit, FedRunOK
<1>3. CASE refused'
  <2>1. fedRuns' = fedRuns
    BY <1>3 DEF RunFederated
  <2>2. FedRunsFit(fedRuns', fedSequence', refused')
    BY <1>1, <1>2, <2>1 DEF FedRunsFit
  <2>3. ~fedRunning'
    BY <1>1, <1>3
  <2>4. QED
    BY <1>1, <2>2, <2>3 DEF FedInv, Whole, IsUnderWay
<1>4. CASE ~refused'
  <2>1. PICK reply : reply = [c \in Range(selected) |-> "waiting"]
    OBVIOUS
  <2>2. reply \in [Range(selected) -> Reply]
    BY <2>1 DEF Reply
  <2>3. PICK r : r = [n |-> fedSequence', text |-> fedSql, of |-> selected, reply |-> reply]
    OBVIOUS
  <2>4. fedRuns' = fedRuns \cup {r}
    BY <1>4, <2>1, <2>3 DEF RunFederated
  <2>5. r.n = fedSequence' /\ FedRunOK(r)
    BY <1>1, <2>2, <2>3 DEF FedRunOK
  <2>6. FedRunsFit(fedRuns', fedSequence', refused')
    BY <1>1, <1>2, <1>4, <2>4, <2>5 DEF FedRunsFit
  <2>7. IsUnderWay(fedRunning', fedRuns', fedSequence')
    BY <2>4, <2>5 DEF IsUnderWay
  <2>8. QED
    BY <1>1, <2>6, <2>7 DEF FedInv, Whole
<1>5. QED
  BY <1>3, <1>4

\* Connection c answers a run, which has had these replies then.
Comes(r, c, a, reply) ==
    /\ a \in {"rows", "error"}
    /\ reply = [r.reply EXCEPT ![c] = a]
    /\ IF \A s \in Range(r.of) : reply[s] # "waiting"
       THEN fedRuns' = fedRuns \ {r} /\ Merges(r, reply)
       ELSE /\ fedRuns' = (fedRuns \ {r}) \cup {[r EXCEPT !.reply = reply]}
            /\ UNCHANGED <<merged, fedRunning>>
    /\ UNCHANGED <<fedSql, selected, fedSequence, refused>>

\* An answer: the run goes on waiting, or its answers are merged if it is the newest.
LEMMA AnswerFed ==
    ASSUME FedInv, NEW r \in fedRuns, NEW c \in Range(r.of), SourceAnswers(r, c)
    PROVE  FedInv'
<1>1. FedRunOK(r) /\ r.n <= fedSequence /\ (r.n = fedSequence => ~refused)
  BY DEF FedInv, FedRunsFit
<1>2. PICK a, reply : Comes(r, c, a, reply)
  <2>1. PICK a \in {"rows", "error"} :
          LET reply == [r.reply EXCEPT ![c] = a]
              all == \A s \in Range(r.of) : reply[s] # "waiting"
          IN  /\ fedRuns' = (fedRuns \ {r}) \cup IF all THEN {} ELSE {[r EXCEPT !.reply = reply]}
              /\ IF all THEN Merges(r, reply) ELSE UNCHANGED <<merged, fedRunning>>
              /\ UNCHANGED <<fedSql, selected, fedSequence, refused>>
    BY DEF SourceAnswers
  <2>2. PICK reply : reply = [r.reply EXCEPT ![c] = a] /\ a \in {"rows", "error"}
    OBVIOUS
  <2>3. CASE \A s \in Range(r.of) : reply[s] # "waiting"
    <3>1. fedRuns' = fedRuns \ {r} /\ Merges(r, reply) /\ UNCHANGED <<fedSql, selected, fedSequence, refused>>
      BY <2>1, <2>2, <2>3
    <3>2. Comes(r, c, a, reply)
      BY <2>2, <2>3, <3>1 DEF Comes
    <3>3. QED
      BY <3>2
  <2>4. CASE ~\A s \in Range(r.of) : reply[s] # "waiting"
    <3>1. /\ fedRuns' = (fedRuns \ {r}) \cup {[r EXCEPT !.reply = reply]}
          /\ UNCHANGED <<merged, fedRunning>> /\ UNCHANGED <<fedSql, selected, fedSequence, refused>>
      BY <2>1, <2>2, <2>4
    <3>2. Comes(r, c, a, reply)
      BY <2>2, <2>4, <3>1 DEF Comes
    <3>3. QED
      BY <3>2
  <2>5. QED
    BY <2>3, <2>4
<1>3. /\ a \in {"rows", "error"}
      /\ reply = [r.reply EXCEPT ![c] = a]
      /\ IF \A s \in Range(r.of) : reply[s] # "waiting"
         THEN fedRuns' = fedRuns \ {r} /\ Merges(r, reply)
         ELSE /\ fedRuns' = (fedRuns \ {r}) \cup {[r EXCEPT !.reply = reply]}
              /\ UNCHANGED <<merged, fedRunning>>
      /\ UNCHANGED <<fedSql, selected, fedSequence, refused>>
  BY <1>2 DEF Comes
<1>4. reply \in [Range(r.of) -> Reply]
  BY <1>1, <1>3 DEF FedRunOK, Reply
<1>5. CASE \A s \in Range(r.of) : reply[s] # "waiting"
  <2>1. fedRuns' = fedRuns \ {r}
    BY <1>3, <1>5
  <2>2. FedRunsFit(fedRuns', fedSequence', refused')
    BY <1>3, <2>1 DEF FedInv, FedRunsFit
  <2>3. CASE r.n # fedSequence
    BY <1>3, <1>5, <2>1, <2>2, <2>3 DEF Merges, FedInv, Whole, IsUnderWay
  <2>4. CASE r.n = fedSequence
    <3>1. \A i \in DOMAIN r.of : reply[r.of[i]] \in {"rows", "error"}
      BY <1>3, <1>4, <1>5 DEF Range, Reply
    <3>2. PICK rows, errors : rows = AnsweredWith("rows", r.of, reply) /\ errors = AnsweredWith("error", r.of, reply)
      OBVIOUS
    <3>3. Range(rows) \cap Range(errors) = {} /\ Len(rows) + Len(errors) = Len(r.of)
      BY <1>1, <3>1, <3>2, AnswersAreWhole DEF FedRunOK
    <3>4. merged' = [n |-> r.n, text |-> r.text, of |-> r.of, rows |-> rows, errors |-> errors] /\ fedRunning' = FALSE
      BY <1>3, <1>5, <2>4, <3>2 DEF Merges
    <3>5. merged'.n = r.n /\ merged'.of = r.of /\ merged'.rows = rows /\ merged'.errors = errors
      BY <3>4
    <3>6. Whole(merged', fedSequence', refused')
      BY <1>1, <1>3, <2>4, <3>3, <3>5 DEF Whole
    <3>7. QED
      BY <1>3, <2>2, <3>4, <3>6 DEF FedInv, IsUnderWay
  <2>5. QED
    BY <2>3, <2>4
<1>6. CASE ~\A s \in Range(r.of) : reply[s] # "waiting"
  <2>1. PICK q : q = [r EXCEPT !.reply = reply]
    OBVIOUS
  <2>2. fedRuns' = (fedRuns \ {r}) \cup {q} /\ merged' = merged /\ fedRunning' = fedRunning
    BY <1>3, <1>6, <2>1
  <2>3. q \in [n : {r.n}, text : {r.text}, of : {r.of}, reply : {reply}]
    BY <1>1, <2>1 DEF FedRunOK
  <2>4. q.n = r.n /\ q.of = r.of /\ q.reply = reply /\ q.text = r.text
    BY <2>3
  <2>5. FedRunOK(q)
    BY <1>1, <1>4, <2>3, <2>4 DEF FedRunOK
  <2>6. FedRunsFit(fedRuns', fedSequence', refused')
    BY <1>1, <1>3, <2>2, <2>4, <2>5 DEF FedInv, FedRunsFit
  <2>7. IsUnderWay(fedRunning', fedRuns', fedSequence')
    BY <1>3, <2>2, <2>4 DEF FedInv, IsUnderWay
  <2>8. QED
    BY <1>3, <2>2, <2>6, <2>7 DEF FedInv, Whole
<1>7. QED
  BY <1>5, <1>6

\* Every step keeps the invariant.
LEMMA FedStep == FedInv /\ [FedNext]_fedVars => FedInv'
<1> SUFFICES ASSUME FedInv, [FedNext]_fedVars PROVE FedInv'
  OBVIOUS
<1>1. ASSUME NEW c \in Source, ToggleConnection(c) PROVE FedInv'
  BY <1>1, ToggleFed DEF ToggleConnection, FedInv
<1>2. ASSUME NEW t, EditStatement(t) PROVE FedInv'
  BY <1>2 DEF EditStatement, FedInv
<1>3. CASE RemountCanvas
  BY <1>3 DEF RemountCanvas, FedInv, FedRunsFit, Whole, IsUnderWay
<1>4. CASE UNCHANGED fedVars
  BY <1>4 DEF fedVars, FedInv
<1>5. QED
  BY <1>1, <1>2, <1>3, <1>4, RunFed, AnswerFed DEF FedNext

\* What the invariant says of the properties.
LEMMA FedTrue == FedInv => MergeIsWhole /\ FederatedRunIsUnderWay
  BY DEF FedInv, Whole, IsUnderWay, MergeIsWhole, FederatedRunIsUnderWay

-----------------------------------------------------------------------------
(* The AI chat panel.                                                       *)

ChatEvent == {"content", "done", "error"}
Chat == [connection : Chattable, step : {"starting", "streaming", "over"},
         native : {"none", "running", "stopping", "ended", "refused"},
         cancelled : BOOLEAN, events : Seq(ChatEvent), deltas : Nat]

\* Every message is of one connection.
AllOf(messages, c) == \A m \in DOMAIN messages : messages[m].of = c
Message == [chat : Nat, of : Chattable]

\* The chats that count: the newest one and the one that Stop cancels are among them.
Tells(cs, n, a, loading) ==
    /\ cs \in Seq(Chat)
    /\ n \in {0} \cup DOMAIN cs /\ a \in {None} \cup DOMAIN cs
    /\ loading \in BOOLEAN
    /\ loading <=> n # 0 /\ cs[n].step # "over"

Displays(panel, messages, n) ==
    /\ panel \in Chattable \cup {None}
    /\ messages \in Seq(Message) /\ AllOf(messages, panel)
    /\ panel = None => n = 0

ChatFlags ==
    /\ historyLoaded \in BOOLEAN /\ promptSent \in BOOLEAN /\ cleared \in BOOLEAN
    /\ chatHistory \in [Chattable -> {Unfetched, "empty", "some"}]

ChatInv ==
    /\ Tells(chats, newest, abortRef, chatIsLoading)
    /\ Displays(panelOf, chatMessages, newest)
    /\ ChatFlags

\* No panel is open and no chat has been started.
LEMMA InitChat == ChatInit => ChatInv
  BY Nothing, ChatAssumption
  DEF ChatInit, ChatInv, Tells, Displays, ChatFlags, AllOf, Unfetched

\* To mark a chat as cancelled leaves its step as it is.
LEMMA CancelledKeeps ==
    ASSUME NEW cs \in Seq(Chat), NEW a \in {None} \cup DOMAIN cs
    PROVE  /\ Cancelled(cs, a) \in Seq(Chat) /\ DOMAIN Cancelled(cs, a) = DOMAIN cs
           /\ \A i \in DOMAIN cs : Cancelled(cs, a)[i].step = cs[i].step
<1>1. CASE a = None
  BY <1>1 DEF Cancelled
<1>2. CASE a # None
  <2>1. cs[a] \in Chat /\ a \in DOMAIN cs
    BY <1>2
  <2>2. PICK n : n = IF cs[a].step = "streaming" /\ cs[a].native = "running" THEN "stopping"
                     ELSE cs[a].native
    OBVIOUS
  <2>3. n \in {"none", "running", "stopping", "ended", "refused"}
    BY <2>1, <2>2 DEF Chat
  <2>4. PICK c : c = [cs[a] EXCEPT !.cancelled = TRUE, !.native = n]
    OBVIOUS
  <2>5. c \in Chat /\ c.step = cs[a].step
    BY <2>1, <2>3, <2>4 DEF Chat
  <2>6. Cancelled(cs, a) = [cs EXCEPT ![a] = c]
    BY <1>2, <2>1, <2>2, <2>4 DEF Cancelled, Chat
  <2>7. QED
    BY <2>1, <2>5, <2>6
<1>3. QED
  BY <1>1, <1>2

\* What the effect leaves on display is of the panel's connection.
LEMMA ShowPanelOf ==
    ASSUME NEW c \in Chattable, NEW messages \in Seq(Message), AllOf(messages, c),
           NEW history \in {Unfetched, "empty", "some"}, NEW loaded \in BOOLEAN,
           NEW prompted \in BOOLEAN,
           ShowPanel(c, messages, history, loaded, prompted)
    PROVE  /\ chatMessages' \in Seq(Message) /\ AllOf(chatMessages', c)
           /\ historyLoaded' \in BOOLEAN /\ promptSent' \in BOOLEAN
<1>1. HistoryOf(c) \in Message /\ HistoryOf(c).of = c
  BY DEF HistoryOf, Message
<1>2. <<HistoryOf(c)>> \in Seq(Message) /\ AllOf(<<HistoryOf(c)>>, c)
  BY <1>1 DEF AllOf
<1>3. QED
  BY <1>2 DEF ShowPanel

\* A question is the newest chat, and is loading.
LEMMA AskTells ==
    ASSUME Tells(chats, newest, abortRef, chatIsLoading), ChatFlags,
           NEW c \in Chattable, NEW msgs \in Seq(Message), AllOf(msgs, c),
           NEW loaded \in BOOLEAN, NEW prompted \in BOOLEAN,
           Ask(c, msgs, loaded, prompted)
    PROVE  /\ Tells(chats', newest', abortRef', chatIsLoading')
           /\ chatMessages' \in Seq(Message) /\ AllOf(chatMessages', c)
           /\ historyLoaded' \in BOOLEAN /\ promptSent' \in BOOLEAN /\ cleared' \in BOOLEAN
<1>1. PICK cs : cs = Cancelled(chats, abortRef)
  OBVIOUS
<1>2. cs \in Seq(Chat) /\ DOMAIN cs = DOMAIN chats
  BY <1>1, CancelledKeeps DEF Tells
<1>3. chats \in Seq(Chat) /\ Len(chats) \in Nat /\ Len(cs) = Len(chats)
  BY <1>2 DEF Tells
<1>4. Asked(c) \in Chat /\ Asked(c).step = "starting"
  BY DEF Asked, Chat
<1>5. /\ chats' \in Seq(Chat) /\ DOMAIN chats' = 1 .. Len(chats) + 1
      /\ chats'[Len(chats) + 1] = Asked(c)
  BY <1>1, <1>2, <1>3, <1>4 DEF Ask
<1>6. newest' = Len(chats) + 1 /\ abortRef' = Len(chats) + 1 /\ chatIsLoading' = TRUE
      /\ cleared' = FALSE
  BY DEF Ask
<1>7. Tells(chats', newest', abortRef', chatIsLoading')
  BY <1>3, <1>4, <1>5, <1>6 DEF Tells
<1>8. PICK m : m = [chat |-> Len(chats) + 1, of |-> c]
  OBVIOUS
<1>9. m \in Message /\ m.of = c
  BY <1>3, <1>8 DEF Message
<1>10. Append(msgs, m) \in Seq(Message) /\ AllOf(Append(msgs, m), c)
  BY <1>9, Appended DEF AllOf
<1>11. ShowPanel(c, Append(msgs, m), chatHistory[c], loaded, prompted)
  BY <1>8 DEF Ask
<1>12. chatHistory[c] \in {Unfetched, "empty", "some"}
  BY DEF ChatFlags
<1>13. QED
  BY <1>6, <1>7, <1>10, <1>11, <1>12, ShowPanelOf

\* The ways to ask: typed, asked again, or from the schema tree.
LEMMA ChatAsks ==
    ASSUME ChatInv
    PROVE  /\ SendMessage => ChatInv'
           /\ \A m \in DOMAIN chatMessages : ResendFrom(m) => ChatInv'
           /\ \A c \in Chattable : SendPrompt(c) => ChatInv'
<1>1. ASSUME SendMessage PROVE ChatInv'
  <2>1. panelOf \in Chattable /\ panelOf' = panelOf /\ chatHistory' = chatHistory
    BY <1>1 DEF SendMessage, ChatInv, Displays
  <2>2. Ask(panelOf, chatMessages, historyLoaded, promptSent)
    BY <1>1 DEF SendMessage
  <2>3. QED
    BY <2>1, <2>2, AskTells, ChatAssumption DEF ChatInv, Displays, ChatFlags
<1>2. ASSUME NEW m \in DOMAIN chatMessages, ResendFrom(m) PROVE ChatInv'
  <2>1. panelOf \in Chattable /\ panelOf' = panelOf /\ chatHistory' = chatHistory
    BY <1>2 DEF ResendFrom, ChatInv, Displays
  <2>2. PICK kept \in {m - 1} \cup {k \in {m} : chatMessages[k].chat = 0} :
             Ask(panelOf, SubSeq(chatMessages, 1, kept), historyLoaded, promptSent)
    BY <1>2 DEF ResendFrom
  <2>3. chatMessages \in Seq(Message) /\ m \in 1 .. Len(chatMessages) /\ Len(chatMessages) \in Nat
    BY DEF ChatInv, Displays
  <2>4. kept \in 0 .. Len(chatMessages)
    BY <2>3
  <2>5. PICK s : s = SubSeq(chatMessages, 1, kept)
    OBVIOUS
  <2>6. s \in Seq(Message) /\ Len(s) = kept /\ \A i \in 1 .. kept : s[i] = chatMessages[i]
    BY <2>3, <2>4, <2>5, SubSeqProperties
  <2>7. AllOf(s, panelOf)
    BY <2>3, <2>4, <2>6 DEF AllOf, ChatInv, Displays
  <2>8. QED
    BY <2>1, <2>2, <2>5, <2>6, <2>7, AskTells, ChatAssumption DEF ChatInv, Displays, ChatFlags
<1>3. ASSUME NEW c \in Chattable, SendPrompt(c) PROVE ChatInv'
  <2>1. panelOf' = c /\ chatHistory' = chatHistory /\ c # None
    BY <1>3, ChatAssumption DEF SendPrompt
  <2>2. CASE c = panelOf
    <3>1. Ask(c, chatMessages, historyLoaded, TRUE)
      BY <1>3, <2>2 DEF SendPrompt
    <3>2. chatMessages \in Seq(Message) /\ AllOf(chatMessages, c) /\ historyLoaded \in BOOLEAN
      BY <2>2 DEF ChatInv, Displays, ChatFlags
    <3>3. QED
      BY <2>1, <3>1, <3>2, AskTells DEF ChatInv, Displays, ChatFlags
  <2>3. CASE c # panelOf
    <3>1. Ask(c, <<>>, FALSE, TRUE)
      BY <1>3, <2>3 DEF SendPrompt
    <3>2. <<>> \in Seq(Message) /\ AllOf(<<>>, c)
      BY Nothing DEF AllOf
    <3>3. QED
      BY <2>1, <3>1, <3>2, AskTells DEF ChatInv, Displays, ChatFlags
  <2>4. QED
    BY <2>2, <2>3
<1>4. QED
  BY <1>1, <1>2, <1>3

\* The panel is opened for another connection, closed, stopped, cleared, or gets a history.
LEMMA PanelTurns ==
    ASSUME ChatInv
    PROVE  /\ \A c \in Chattable : OpenPanel(c) => ChatInv'
           /\ ClosePanel => ChatInv'
           /\ StopChat => ChatInv'
           /\ ClearChat => ChatInv'
           /\ HistoryArrives => ChatInv'
<1>1. ASSUME NEW c \in Chattable, OpenPanel(c) PROVE ChatInv'
  <2>1. /\ panelOf' = c /\ c # None /\ chats' = Cancelled(chats, abortRef)
        /\ newest' = 0 /\ chatIsLoading' = FALSE /\ cleared' = FALSE
        /\ abortRef' = abortRef /\ chatHistory' = chatHistory
        /\ ShowPanel(c, <<>>, chatHistory[c], FALSE, FALSE)
    BY <1>1, ChatAssumption DEF OpenPanel
  <2>2. Tells(chats', newest', abortRef', chatIsLoading')
    BY <2>1, CancelledKeeps DEF ChatInv, Tells
  <2>3. chatHistory[c] \in {Unfetched, "empty", "some"}
    BY DEF ChatInv, ChatFlags
  <2>4. <<>> \in Seq(Message) /\ AllOf(<<>>, c)
    BY Nothing DEF AllOf
  <2>5. QED
    BY <2>1, <2>2, <2>3, <2>4, ShowPanelOf DEF ChatInv, Displays, ChatFlags
<1>2. ASSUME ClosePanel PROVE ChatInv'
  <2>1. chats \in Seq(Chat)
    BY DEF ChatInv, Tells
  <2>2. \A i \in DOMAIN chats : chats'[i] \in Chat
    <3> TAKE i \in DOMAIN chats
    <3>1. chats[i] \in Chat /\ <<>> \in Seq(ChatEvent)
      BY <2>1
    <3>2. chats'[i] = [chats[i] EXCEPT !.step = "over", !.events = <<>>]
      BY <1>2 DEF ClosePanel
    <3>3. QED
      BY <3>1, <3>2 DEF Chat
  <2>3. DOMAIN chats' = DOMAIN chats /\ chats' = [i \in DOMAIN chats |-> chats'[i]]
    BY <1>2 DEF ClosePanel
  <2>4. chats' \in Seq(Chat)
    BY <2>1, <2>2, <2>3, Mapped
  <2>5. /\ panelOf' = None /\ newest' = 0 /\ abortRef' = None /\ chatIsLoading' = FALSE
        /\ chatMessages' = <<>> /\ historyLoaded' = FALSE /\ promptSent' = FALSE
        /\ cleared' = FALSE /\ chatHistory' = chatHistory
    BY <1>2 DEF ClosePanel
  <2>6. <<>> \in Seq(Message) /\ AllOf(<<>>, None)
    BY Nothing DEF AllOf
  <2>7. QED
    BY <2>4, <2>5, <2>6 DEF ChatInv, Tells, Displays, ChatFlags
<1>3. ASSUME StopChat PROVE ChatInv'
  <2>1. /\ chats' = Cancelled(chats, abortRef)
        /\ UNCHANGED <<panelVars, chatHistory, cleared>>
    BY <1>3 DEF StopChat
  <2>2. Tells(chats', newest', abortRef', chatIsLoading')
    BY <2>1, CancelledKeeps DEF ChatInv, Tells, panelVars
  <2>3. QED
    BY <2>1, <2>2 DEF ChatInv, Displays, ChatFlags, panelVars
<1>4. ASSUME ClearChat PROVE ChatInv'
  <2>1. /\ panelOf \in Chattable
        /\ ShowPanel(panelOf, <<>>, chatHistory[panelOf], historyLoaded, promptSent)
        /\ cleared' = TRUE
        /\ UNCHANGED <<chats, panelOf, newest, abortRef, chatIsLoading, chatHistory>>
    BY <1>4 DEF ClearChat, ChatInv, Displays
  <2>2. chatHistory[panelOf] \in {Unfetched, "empty", "some"}
    BY <2>1 DEF ChatInv, ChatFlags
  <2>3. <<>> \in Seq(Message) /\ AllOf(<<>>, panelOf)
    BY Nothing DEF AllOf
  <2>4. historyLoaded \in BOOLEAN /\ promptSent \in BOOLEAN
    BY DEF ChatInv, ChatFlags
  <2>5. /\ chatMessages' \in Seq(Message) /\ AllOf(chatMessages', panelOf)
        /\ historyLoaded' \in BOOLEAN /\ promptSent' \in BOOLEAN
    BY <2>1, <2>2, <2>3, <2>4, ShowPanelOf
  <2>6. QED
    BY <2>1, <2>5 DEF ChatInv, Tells, Displays, ChatFlags
<1>5. ASSUME HistoryArrives PROVE ChatInv'
  <2>1. PICK history \in {"empty", "some"} :
            /\ chatHistory' = [chatHistory EXCEPT ![panelOf] = history]
            /\ ShowPanel(panelOf, chatMessages, history, historyLoaded, promptSent)
    BY <1>5 DEF HistoryArrives
  <2>2. /\ panelOf \in Chattable
        /\ UNCHANGED <<chats, panelOf, newest, abortRef, chatIsLoading, cleared>>
    BY <1>5 DEF HistoryArrives, ChatInv, Displays
  <2>3. chatMessages \in Seq(Message) /\ AllOf(chatMessages, panelOf)
        /\ historyLoaded \in BOOLEAN /\ promptSent \in BOOLEAN
    BY DEF ChatInv, ChatFlags, Displays
  <2>4. /\ chatMessages' \in Seq(Message) /\ AllOf(chatMessages', panelOf)
        /\ historyLoaded' \in BOOLEAN /\ promptSent' \in BOOLEAN
    BY <2>1, <2>2, <2>3, ShowPanelOf
  <2>5. QED
    BY <2>1, <2>2, <2>4 DEF ChatInv, Tells, Displays, ChatFlags
<1>6. QED
  BY <1>1, <1>2, <1>3, <1>4, <1>5

\* One chat is replaced by a later state of it.
LEMMA ChatReplaced ==
    ASSUME NEW cs \in Seq(Chat), NEW i \in DOMAIN cs, NEW c \in Chat
    PROVE  /\ [cs EXCEPT ![i] = c] \in Seq(Chat)
           /\ DOMAIN [cs EXCEPT ![i] = c] = DOMAIN cs
           /\ [cs EXCEPT ![i] = c][i] = c
           /\ \A j \in DOMAIN cs : j # i => [cs EXCEPT ![i] = c][j] = cs[j]
  OBVIOUS

\* The panel hears of a chat: it stays as it was, or ends.
Heeds(i, c) ==
    /\ chats' = [chats EXCEPT ![i] = c]
    /\ \/ (c.step = "over") = (chats[i].step = "over") /\ UNCHANGED chatIsLoading
          /\ abortRef' \in {abortRef, i, None}
       \/ c.step = "over" /\ Settled(i)

\* What happens to one chat leaves true what the panel says of the newest, for only the
\* end of that one is heeded.
LEMMA HeedsTells ==
    ASSUME Tells(chats, newest, abortRef, chatIsLoading), NEW i \in DOMAIN chats,
           NEW c \in Chat, Heeds(i, c), newest' = newest
    PROVE  Tells(chats', newest', abortRef', chatIsLoading')
<1>1. /\ chats' \in Seq(Chat) /\ DOMAIN chats' = DOMAIN chats /\ chats'[i] = c
      /\ \A j \in DOMAIN chats : j # i => chats'[j] = chats[j]
  BY ChatReplaced DEF Heeds, Tells
<1>2. 0 \notin DOMAIN chats
  BY DEF Tells
<1>3. abortRef' \in {abortRef, i, None}
  BY DEF Heeds, Settled
<1>4. chatIsLoading' \in BOOLEAN /\ (chatIsLoading' <=> newest # 0 /\ chats'[newest].step # "over")
  <2>1. CASE newest = i
    <3>1. CASE (c.step = "over") = (chats[i].step = "over") /\ UNCHANGED chatIsLoading
      BY <1>1, <2>1, <3>1 DEF Tells
    <3>2. CASE c.step = "over" /\ Settled(i)
      BY <1>1, <2>1, <3>2 DEF Settled
    <3>3. QED
      BY <3>1, <3>2 DEF Heeds
  <2>2. CASE newest # i
    BY <1>1, <1>2, <2>2 DEF Heeds, Settled, Tells
  <2>3. QED
    BY <2>1, <2>2
<1>5. QED
  BY <1>1, <1>3, <1>4 DEF Tells

ChatStream(i) ==
    \/ NativeStarts(i) \/ NativeRefuses(i) \/ Subscribe(i) \/ EmitDelta(i)
    \/ NativeEnds(i, "done") \/ NativeEnds(i, "error") \/ LoseEvent(i) \/ DeliverEvent(i)

\* An event is queued for a chat that somebody listens to, and does not end it.
LEMMA EmittedOK ==
    ASSUME NEW c \in Chat, NEW event \in ChatEvent
    PROVE  Emitted(c, event) \in Chat /\ Emitted(c, event).step = c.step
<1>1. Append(c.events, event) \in Seq(ChatEvent)
  BY Appended DEF Chat
<1>2. QED
  BY <1>1 DEF Emitted, Chat

\* What the native side does to a chat, and what the window hears of it.
LEMMA ChatHeard ==
    ASSUME ChatInv, NEW i \in DOMAIN chats, ChatStream(i)
    PROVE  KeepsPanel /\ \E c \in Chat : Heeds(i, c)
<1>1. chats \in Seq(Chat) /\ chats[i] \in Chat
  BY DEF ChatInv, Tells
<1>2. CASE NativeStarts(i)
  <2>1. PICK c : c = [chats[i] EXCEPT !.native = "running"]
    OBVIOUS
  <2>2. c \in Chat /\ c.step = chats[i].step
    BY <1>1, <2>1 DEF Chat
  <2>3. QED
    BY <1>2, <2>1, <2>2 DEF NativeStarts, Heeds
<1>3. CASE NativeRefuses(i)
  <2>1. PICK c : c = [chats[i] EXCEPT !.native = "refused", !.step = "over"]
    OBVIOUS
  <2>2. c \in Chat /\ c.step = "over"
    BY <1>1, <2>1 DEF Chat
  <2>3. chats' = [chats EXCEPT ![i] = c]
    BY <1>1, <1>3, <2>1 DEF NativeRefuses
  <2>4. QED
    BY <1>3, <2>2, <2>3 DEF NativeRefuses, Heeds
<1>4. CASE Subscribe(i)
  <2>1. PICK c : c = [chats[i] EXCEPT !.step = "streaming"]
    OBVIOUS
  <2>2. c \in Chat /\ c.step # "over" /\ chats[i].step # "over"
    BY <1>1, <1>4, <2>1 DEF Chat, Subscribe
  <2>3. QED
    BY <1>4, <2>1, <2>2 DEF Subscribe, Heeds
<1>5. CASE EmitDelta(i)
  <2>1. PICK e : e = Emitted(chats[i], "content")
    OBVIOUS
  <2>2. e \in Chat /\ e.step = chats[i].step
    BY <1>1, <2>1, EmittedOK DEF ChatEvent
  <2>3. PICK c : c = [e EXCEPT !.deltas = e.deltas + 1]
    OBVIOUS
  <2>4. c \in Chat /\ c.step = chats[i].step
    BY <2>2, <2>3 DEF Chat
  <2>5. chats' = [chats EXCEPT ![i] = c]
    BY <1>5, <2>1, <2>3 DEF EmitDelta
  <2>6. QED
    BY <1>5, <2>4, <2>5 DEF EmitDelta, Heeds
<1>6. ASSUME NEW event \in {"done", "error"}, NativeEnds(i, event)
      PROVE  KeepsPanel /\ \E c \in Chat : Heeds(i, c)
  <2>1. PICK e : e = Emitted(chats[i], event)
    OBVIOUS
  <2>2. e \in Chat /\ e.step = chats[i].step
    BY <1>1, <2>1, EmittedOK DEF ChatEvent
  <2>3. PICK c : c = [e EXCEPT !.native = "ended"]
    OBVIOUS
  <2>4. c \in Chat /\ c.step = chats[i].step
    BY <2>2, <2>3 DEF Chat
  <2>5. chats' = [chats EXCEPT ![i] = c]
    BY <1>6, <2>1, <2>3 DEF NativeEnds
  <2>6. QED
    BY <1>6, <2>4, <2>5 DEF NativeEnds, Heeds
<1>7. CASE LoseEvent(i)
  <2>1. PICK t : t = Tail(chats[i].events)
    OBVIOUS
  <2>2. t \in Seq(ChatEvent)
    BY <1>1, <1>7, <2>1, HeadThenTail DEF LoseEvent, Chat
  <2>3. PICK c : c = [chats[i] EXCEPT !.events = t]
    OBVIOUS
  <2>4. c \in Chat /\ c.step = chats[i].step
    BY <1>1, <2>2, <2>3 DEF Chat
  <2>5. chats' = [chats EXCEPT ![i] = c]
    BY <1>7, <2>1, <2>3 DEF LoseEvent
  <2>6. QED
    BY <1>7, <2>4, <2>5 DEF LoseEvent, Heeds
<1>8. CASE DeliverEvent(i)
  <2>1. PICK ends : ends = (chats[i].cancelled \/ Head(chats[i].events) # "content")
    OBVIOUS
  <2>2. ends \in BOOLEAN
    BY <1>1, <2>1 DEF Chat
  <2>3. PICK t : t = IF ends THEN <<>> ELSE Tail(chats[i].events)
    OBVIOUS
  <2>4. t \in Seq(ChatEvent)
    <3>1. chats[i].events # <<>> /\ chats[i].events \in Seq(ChatEvent)
      BY <1>1, <1>8 DEF DeliverEvent, Chat
    <3>2. QED
      BY <2>3, <3>1, HeadThenTail
  <2>5. PICK c : c = [chats[i] EXCEPT !.events = t, !.step = IF ends THEN "over" ELSE chats[i].step]
    OBVIOUS
  <2>6. c \in Chat /\ c.step = IF ends THEN "over" ELSE chats[i].step
    BY <1>1, <2>2, <2>4, <2>5 DEF Chat
  <2>7. chats' = [chats EXCEPT ![i] = c]
    BY <1>1, <1>8, <2>1, <2>3, <2>5 DEF DeliverEvent
  <2>8. KeepsPanel /\ IF ends THEN Settled(i) ELSE UNCHANGED <<chatIsLoading, abortRef>>
    BY <1>8, <2>1 DEF DeliverEvent
  <2>9. QED
    BY <2>2, <2>6, <2>7, <2>8 DEF Heeds
<1>9. QED
  BY <1>2, <1>3, <1>4, <1>5, <1>6, <1>7, <1>8 DEF ChatStream

\* Every step keeps the panel's invariant.
LEMMA ChatStep == ChatInv /\ [ChatNext]_chatVars => ChatInv'
<1> SUFFICES ASSUME ChatInv, [ChatNext]_chatVars PROVE ChatInv'
  OBVIOUS
<1>1. ASSUME NEW i \in DOMAIN chats, ChatStream(i) PROVE ChatInv'
  <2>1. PICK c \in Chat : Heeds(i, c)
    BY <1>1, ChatHeard
  <2>2. KeepsPanel
    BY <1>1, ChatHeard
  <2>3. Tells(chats', newest', abortRef', chatIsLoading')
    BY <2>1, <2>2, HeedsTells DEF KeepsPanel, ChatInv
  <2>4. QED
    BY <2>2, <2>3 DEF KeepsPanel, ChatInv, Displays, ChatFlags
<1>2. CASE UNCHANGED chatVars
  BY <1>2 DEF chatVars, panelVars, ChatInv, Tells, Displays, ChatFlags
<1>3. QED
  BY <1>1, <1>2, ChatAsks, PanelTurns DEF ChatNext, ChatStream

\* What the invariant says of the property and of the types.
LEMMA PanelTrue == ChatInv => ChatPanelIsTrue /\ ChatTypeOK
<1> SUFFICES ASSUME ChatInv PROVE ChatPanelIsTrue /\ ChatTypeOK
  OBVIOUS
<1>1. ChatPanelIsTrue
  BY DEF ChatInv, Tells, Displays, AllOf, ChatPanelIsTrue, LoadsTheNewest, ShowsItsConnection
<1>2. \A i \in DOMAIN chats : chats[i] \in Chat
  BY DEF ChatInv, Tells
<1>3. ChatTypeOK
  BY <1>2 DEF ChatInv, Tells, Displays, ChatFlags, ChatTypeOK, Chat, ChatEvent
<1>4. QED
  BY <1>1, <1>3

-----------------------------------------------------------------------------
(* The SQL text.  Both lexers look at a position and jump behind what starts *)
(* there, so that what they see is settled from the end of the text.  Here:  *)
(* where a word occurs, ...                                                  *)

\* What IndexOf finds is in the text, from where it was sought on.
LEMMA IndexFound ==
    ASSUME NEW S, NEW s \in Seq(S), NEW i \in Nat, NEW w
    PROVE  \/ IndexOf(s, i, w) = 0
           \/ IndexOf(s, i, w) \in i .. Len(s) /\ At(s, IndexOf(s, i, w), w)
<1> PICK places : places = {j \in i .. Len(s) : At(s, j, w)}
  OBVIOUS
<1>1. IndexOf(s, i, w) = IF places = {} THEN 0 ELSE Min(places)
  BY DEF IndexOf
<1>2. ASSUME places # {} PROVE Min(places) \in places
  <2>1. places \subseteq Nat
    OBVIOUS
  <2>2. \E n \in places : \A m \in places : n <= m
    BY <1>2, <2>1, Least
  <2>3. QED
    BY <2>2 DEF Min
<1>3. QED
  BY <1>1, <1>2

\* A line ends in the text, or at its end.
LEMMA LineEndIn ==
    ASSUME NEW S, NEW s \in Seq(S), NEW i \in 1 .. Len(s)
    PROVE  LineEnd(s, i) \in 1 .. Len(s) + 1
<1>1. PICK e : e = IndexOf(s, i, <<"n">>)
  OBVIOUS
<1>2. e = 0 \/ e \in i .. Len(s)
  BY <1>1, IndexFound
<1>3. LineEnd(s, i) = IF e = 0 THEN Len(s) + 1 ELSE e
  BY <1>1 DEF LineEnd
<1>4. Len(s) \in Nat
  OBVIOUS
<1>5. QED
  BY <1>2, <1>3, <1>4

\* Two characters that occur at a place.
LEMMA AtTwo ==
    ASSUME NEW S, NEW s \in Seq(S), NEW i \in 1 .. Len(s), NEW c, NEW d, At(s, i, <<c, d>>)
    PROVE  s[i] = c /\ i + 1 <= Len(s)
<1>1. Len(<<c, d>>) = 2 /\ <<c, d>>[1] = c
  OBVIOUS
<1>2. i + 2 - 1 <= Len(s) /\ SubSeq(s, i, i + 2 - 1) = <<c, d>>
  BY <1>1 DEF At
<1>3. i + 2 - 1 = i + 1 /\ i + 1 <= Len(s)
  BY <1>2
<1>4. SubSeq(s, i, i + 1)[1] = s[i]
  <2>1. i \in Int /\ i + 1 \in Int /\ \A j \in i .. i + 1 : s[j] \in S
    BY <1>3
  <2>2. \A j \in 1 .. (i + 1) - i + 1 : SubSeq(s, i, i + 1)[j] = s[i + j - 1]
    BY <2>1, SubSeqProperties
  <2>3. 1 \in 1 .. (i + 1) - i + 1 /\ i + 1 - 1 = i
    OBVIOUS
  <2>4. QED
    BY <2>2, <2>3
<1>5. QED
  BY <1>1, <1>2, <1>3, <1>4

\* A dollar tag begins with a dollar sign, and ends inside the text.
LEMMA TagIn ==
    ASSUME NEW S, NEW s \in Seq(S), NEW i \in 1 .. Len(s), TagAt(s, i) # <<>>
    PROVE  /\ s[i] = "$" /\ Len(TagAt(s, i)) \in Nat /\ Len(TagAt(s, i)) >= 1
           /\ i + Len(TagAt(s, i)) <= Len(s) + 1
<1> PICK e : e = IndexOf(s, i + 1, <<"$">>)
  OBVIOUS
<1>1. e = 0 \/ e \in i + 1 .. Len(s)
  BY IndexFound
<1>2. s[i] = "$" /\ e # 0 /\ TagAt(s, i) = SubSeq(s, i, e)
  BY DEF TagAt
<1>3. e \in i + 1 .. Len(s)
  BY <1>1, <1>2
<1>4. Len(SubSeq(s, i, e)) = e - i + 1
  <2>1. i \in Int /\ e \in Int /\ i <= e /\ \A j \in i .. e : s[j] \in S
    BY <1>3
  <2>2. Len(SubSeq(s, i, e)) = IF i <= e THEN e - i + 1 ELSE 0
    BY <2>1, SubSeqProperties
  <2>3. QED
    BY <2>1, <2>2
<1>5. e - i + 1 \in Nat /\ e - i + 1 >= 1 /\ i + (e - i + 1) <= Len(s) + 1
  BY <1>3
<1>6. QED
  BY <1>2, <1>4, <1>5

\* What closes a span is in the text.
LEMMA CloserIn ==
    ASSUME NEW S, NEW s \in Seq(S), NEW i \in 1 .. Len(s), NEW closer
    PROVE  AfterCloser(s, i, closer) \in 0 .. Len(s) + 1
<1> PICK n \in Nat : n = Len(s) /\ i <= n
  OBVIOUS
<1> PICK twice : twice = {j \in i + 1 .. n + 2 : At(s, j, <<closer, closer>>)}
  OBVIOUS
<1> DEFINE Scans(f) == f = [j \in i + 1 .. n + 2 |->
                              IF j > n THEN 0
                              ELSE IF s[j] # closer THEN f[j + 1]
                              ELSE IF j \in twice THEN f[j + 2]
                              ELSE j + 1]
           T == 0 .. n + 1
           go == {j \in i + 1 .. n : s[j] # closer \/ j \in twice}
           leaf == [j \in i + 1 .. n + 2 |-> IF j > n THEN 0 ELSE j + 1]
           jump == [j \in go |-> IF s[j] # closer THEN j + 1 ELSE j + 2]
           op == [j \in go |-> [x \in T |-> x]]
<1>1. \E f \in [i + 1 .. n + 2 -> T] : Scans(f)
  <2>1. go \in SUBSET (i + 1 .. n + 2) /\ i + 1 \in Int /\ n + 2 \in Int /\ i + 1 <= n + 2
    OBVIOUS
  <2>2. leaf \in [i + 1 .. n + 2 -> T]
    OBVIOUS
  <2>3. \A j \in go : jump[j] \in i + 1 .. n + 2 /\ j < jump[j]
    OBVIOUS
  <2>4. op \in [go -> [T -> T]]
    OBVIOUS
  <2> PICK bb, jj, oo, gg : bb = leaf /\ jj = jump /\ oo = op /\ gg = go
    OBVIOUS
  <2>5. PICK f : Jumping(f, T, i + 1, n + 2, gg, bb, jj, oo)
    <3> HIDE DEF leaf, jump, op, T, go
    <3>1. QED
      BY <2>1, <2>2, <2>3, <2>4, JumpRecursion
  <2>6. f \in [i + 1 .. n + 2 -> T]
    BY <2>5 DEF Jumping
  <2>7. ASSUME NEW j \in i + 1 .. n + 2
        PROVE  f[j] = IF j > n THEN 0 ELSE IF s[j] # closer THEN f[j + 1]
                      ELSE IF j \in twice THEN f[j + 2] ELSE j + 1
    <3>1. f[j] = IF j \in gg THEN oo[j][f[jj[j]]] ELSE bb[j]
      BY <2>5 DEF Jumping
    <3>2. CASE j \in go
      <4>1. jump[j] \in i + 1 .. n + 2
        BY <2>3, <3>2
      <4>2. f[jump[j]] \in T
        <5> HIDE DEF jump, T
        <5>1. QED
          BY <2>6, <4>1
      <4>3. f[j] = f[jump[j]]
        BY <3>1, <3>2, <4>2
      <4>4. QED
        BY <3>2, <4>3
    <3>3. CASE j \notin go
      <4>1. f[j] = leaf[j] /\ leaf[j] = IF j > n THEN 0 ELSE j + 1
        BY <3>1, <3>3
      <4>2. j <= n => s[j] = closer /\ j \notin twice
        BY <3>3
      <4> HIDE DEF leaf, jump, op, T, go, Scans
      <4>3. QED
        BY <4>1, <4>2
    <3>4. QED
      BY <3>2, <3>3
  <2>8. Scans(f)
    BY <2>6, <2>7
  <2>9. QED
    BY <2>6, <2>8
<1>2. PICK scan : scan = CHOOSE f : Scans(f)
  OBVIOUS
<1>3. Scans(scan)
  <2> HIDE DEF Scans
  <2>1. QED
    BY <1>1, <1>2
<1>4. \A j \in i + 1 .. n + 2 : scan[j] \in T
  <2>1. PICK fit : fit = {j \in i + 1 .. n + 2 : scan[j] \in T}
    OBVIOUS
  <2>2. ASSUME NEW j \in i + 1 .. n + 2, \A k \in j + 1 .. n + 2 : k \in fit PROVE j \in fit
    <3>1. scan[j] = IF j > n THEN 0 ELSE IF s[j] # closer THEN scan[j + 1]
                    ELSE IF j \in twice THEN scan[j + 2] ELSE j + 1
      BY <1>3
    <3>2. j <= n => j + 1 \in fit /\ j + 2 \in fit
      BY <2>2
    <3>3. j <= n => scan[j + 1] \in T /\ scan[j + 2] \in T /\ j + 1 \in T
      BY <2>1, <3>2
    <3>4. 0 \in T
      OBVIOUS
    <3> HIDE DEF T, Scans
    <3>5. scan[j] \in T
      BY <3>1, <3>3, <3>4
    <3>6. QED
      BY <2>1, <3>5
  <2>3. PICK lo \in Int, hi \in Int : lo = i + 1 /\ hi = n + 2
    OBVIOUS
  <2>4. \A j \in lo .. hi : j \in fit
    <3>1. Inherits(fit, lo, hi)
      BY <2>2, <2>3 DEF Inherits
    <3> HIDE DEF T, Scans, go, leaf, jump, op
    <3>2. QED
      BY <2>3, <3>1, Backwards
  <2>5. QED
    BY <2>1, <2>3, <2>4
<1>5. AfterCloser(s, i, closer) = scan[i + 1]
  <2>1. \A f : Scans(f) <=>
          f = [j \in i + 1 .. Len(s) + 2 |->
                 IF j > Len(s) THEN 0
                 ELSE IF s[j] # closer THEN f[j + 1]
                 ELSE IF At(s, j, <<closer, closer>>) THEN f[j + 2]
                 ELSE j + 1]
    OBVIOUS
  <2>2. QED
    BY <1>2, <2>1 DEF AfterCloser
<1>6. QED
  BY <1>4, <1>5

-----------------------------------------------------------------------------
(* ... what the lexers skip, ...                                            *)

\* Where a comment that starts at i goes on after its end, if it has one.
CommentEnd(s, i) == IndexOf(s, i + 2, <<"*", "/">>)

\* What SkipNoise does at a position, by what stands there: the cases exclude each other.
LEMMA NativeCases ==
    ASSUME NEW S, NEW s \in Seq(S), NEW i \in 1 .. Len(s)
    PROVE  /\ s[i] \in Quote => SkipNoise(s, i) = OrHere(i, AfterCloser(s, i, s[i]))
           /\ s[i] = "$" => SkipNoise(s, i) = DollarQuoteEnd(s, i)
           /\ At(s, i, <<"-", "-">>) => SkipNoise(s, i) = LineEnd(s, i)
           /\ At(s, i, <<"/", "*">>) =>
                SkipNoise(s, i) = IF CommentEnd(s, i) = 0 THEN i ELSE CommentEnd(s, i) + 2
           /\ s[i] \notin Quote \cup {"$"} /\ ~At(s, i, <<"-", "-">>) /\ ~At(s, i, <<"/", "*">>) =>
                SkipNoise(s, i) = i
<1>1. At(s, i, <<"-", "-">>) => s[i] = "-"
  BY AtTwo
<1>2. At(s, i, <<"/", "*">>) => s[i] = "/"
  BY AtTwo
<1>3. QED
  BY <1>1, <1>2 DEF SkipNoise, Quote, CommentEnd

\* Where the editor goes on after the tag at i, which stands for text until it comes again.
AfterTag(s, i) ==
    LET tag == TagAt(s, i)
        e == IndexOf(s, i + Len(tag), tag)
    IN  IF e # 0 THEN e + Len(tag) ELSE Max({i + Len(tag), Len(s) - Len(tag) + 2})

\* A position where nothing starts is left visible by the editor.
LEMMA EditorStops ==
    ASSUME NEW s, NEW i, s[i] \notin Quote, TagAt(s, i) = <<>>,
           ~At(s, i, <<"-", "-">>), ~At(s, i, <<"/", "*">>)
    PROVE  EditorSkip(s, i) = i
  BY DEF EditorSkip, EditorSkipAt

\* The same of the editor.
LEMMA EditorCases ==
    ASSUME NEW S, NEW s \in Seq(S), NEW i \in 1 .. Len(s)
    PROVE  /\ s[i] \in Quote => EditorSkip(s, i) = OrEnd(s, AfterCloser(s, i, s[i]))
           /\ TagAt(s, i) # <<>> => EditorSkip(s, i) = AfterTag(s, i)
           /\ At(s, i, <<"-", "-">>) => EditorSkip(s, i) = LineEnd(s, i)
           /\ At(s, i, <<"/", "*">>) =>
                EditorSkip(s, i) = IF CommentEnd(s, i) = 0 THEN Len(s) + 1 ELSE CommentEnd(s, i) + 2
           /\ (/\ s[i] \notin Quote /\ TagAt(s, i) = <<>>
               /\ ~At(s, i, <<"-", "-">>) /\ ~At(s, i, <<"/", "*">>))
                => EditorSkip(s, i) = i
<1>1. At(s, i, <<"-", "-">>) => s[i] = "-"
  BY AtTwo
<1>2. At(s, i, <<"/", "*">>) => s[i] = "/"
  BY AtTwo
<1>3. TagAt(s, i) # <<>> => s[i] = "$"
  BY TagIn
<1>4. s[i] \in Quote => EditorSkip(s, i) = OrEnd(s, AfterCloser(s, i, s[i]))
  BY <1>1, <1>2, <1>3 DEF EditorSkip, EditorSkipAt, Quote
<1>5. TagAt(s, i) # <<>> => EditorSkip(s, i) = AfterTag(s, i)
  BY <1>1, <1>2, <1>3 DEF EditorSkip, EditorSkipAt, Quote, AfterTag
<1>6. At(s, i, <<"-", "-">>) => EditorSkip(s, i) = LineEnd(s, i)
  BY <1>1, <1>2, <1>3 DEF EditorSkip, EditorSkipAt, Quote
<1>7. At(s, i, <<"/", "*">>) =>
        EditorSkip(s, i) = IF CommentEnd(s, i) = 0 THEN Len(s) + 1 ELSE CommentEnd(s, i) + 2
  BY <1>1, <1>2, <1>3 DEF EditorSkip, EditorSkipAt, Quote, CommentEnd
<1>8. (/\ s[i] \notin Quote /\ TagAt(s, i) = <<>>
       /\ ~At(s, i, <<"-", "-">>) /\ ~At(s, i, <<"/", "*">>))
        => EditorSkip(s, i) = i
  BY EditorStops
<1>9. QED
  BY <1>4, <1>5, <1>6, <1>7, <1>8

\* A comment that is closed ends in the text.
LEMMA CommentIn ==
    ASSUME NEW S, NEW s \in Seq(S), NEW i \in 1 .. Len(s), CommentEnd(s, i) # 0
    PROVE  CommentEnd(s, i) + 2 \in 1 .. Len(s) + 1
<1>1. PICK e : e = CommentEnd(s, i)
  OBVIOUS
<1>2. e \in i + 2 .. Len(s) /\ At(s, e, <<"*", "/">>)
  <2>1. i + 2 \in Nat
    OBVIOUS
  <2>2. QED
    BY <1>1, <2>1, IndexFound DEF CommentEnd
<1>3. e \in 1 .. Len(s)
  BY <1>2
<1>4. e + 1 <= Len(s)
  BY <1>2, <1>3, AtTwo
<1>5. QED
  BY <1>1, <1>3, <1>4

\* The second tag of a pair is in the text.
LEMMA PairIn ==
    ASSUME NEW S, NEW s \in Seq(S), NEW i \in 1 .. Len(s), TagAt(s, i) # <<>>,
           NEW e, e = IndexOf(s, i + Len(TagAt(s, i)), TagAt(s, i)), e # 0
    PROVE  e + Len(TagAt(s, i)) \in 1 .. Len(s) + 1
<1> PICK tag : tag = TagAt(s, i)
  OBVIOUS
<1>1. Len(tag) \in Nat /\ i + Len(tag) \in Nat
  BY TagIn
<1>2. e \in i + Len(tag) .. Len(s) /\ At(s, e, tag)
  BY <1>1, IndexFound
<1>3. e + Len(tag) - 1 <= Len(s)
  BY <1>2 DEF At
<1>4. QED
  BY <1>1, <1>2, <1>3

\* Both lexers go on inside the text, or at its end.
LEMMA SkipsIn ==
    ASSUME NEW S, NEW s \in Seq(S), NEW i \in 1 .. Len(s)
    PROVE  SkipNoise(s, i) \in 1 .. Len(s) + 1 /\ EditorSkip(s, i) \in 1 .. Len(s) + 1
<1>1. i \in 1 .. Len(s) + 1 /\ Len(s) + 1 \in 1 .. Len(s) + 1
  OBVIOUS
<1>2. CASE s[i] \in Quote
  <2>1. PICK c : c = AfterCloser(s, i, s[i])
    OBVIOUS
  <2>2. c \in 0 .. Len(s) + 1
    BY <2>1, CloserIn
  <2>3. OrHere(i, c) \in 1 .. Len(s) + 1 /\ OrEnd(s, c) \in 1 .. Len(s) + 1
    BY <1>1, <2>2 DEF OrHere, OrEnd
  <2>4. QED
    BY <1>2, <2>1, <2>3, NativeCases, EditorCases
<1>3. CASE At(s, i, <<"-", "-">>)
  BY <1>3, LineEndIn, NativeCases, EditorCases
<1>4. CASE At(s, i, <<"/", "*">>)
  BY <1>1, <1>4, CommentIn, NativeCases, EditorCases
<1>5. CASE s[i] = "$" /\ TagAt(s, i) # <<>>
  <2>1. PICK tag, e : tag = TagAt(s, i) /\ e = IndexOf(s, i + Len(tag), tag)
    OBVIOUS
  <2>2. Len(tag) \in Nat /\ Len(tag) >= 1 /\ i + Len(tag) <= Len(s) + 1
    BY <1>5, <2>1, TagIn
  <2>3. e # 0 => e + Len(tag) \in 1 .. Len(s) + 1
    BY <1>5, <2>1, PairIn
  <2>4. DollarQuoteEnd(s, i) \in 1 .. Len(s) + 1
    BY <1>1, <2>1, <2>3 DEF DollarQuoteEnd
  <2>5. AfterTag(s, i) \in 1 .. Len(s) + 1
    <3>1. PICK x, y : x = i + Len(tag) /\ y = Len(s) - Len(tag) + 2
      OBVIOUS
    <3>2. x \in 1 .. Len(s) + 1 /\ y \in 1 .. Len(s) + 1
      BY <2>2, <3>1
    <3>3. Max({x, y}) \in {x, y}
      <4>1. x \in Int /\ y \in Int
        BY <3>2
      <4>2. \E m \in {x, y} : \A k \in {x, y} : m >= k
        BY <4>1
      <4>3. QED
        BY <4>2 DEF Max
    <3>4. QED
      BY <2>1, <2>3, <3>1, <3>2, <3>3 DEF AfterTag
  <2>6. QED
    BY <1>5, <2>4, <2>5, NativeCases, EditorCases
<1>6. CASE s[i] = "$" /\ TagAt(s, i) = <<>>
  <2>1. DollarQuoteEnd(s, i) = i
    BY <1>6 DEF DollarQuoteEnd
  <2>2. ~At(s, i, <<"-", "-">>) /\ ~At(s, i, <<"/", "*">>) /\ s[i] \notin Quote
    BY <1>6, AtTwo DEF Quote
  <2>3. QED
    BY <1>1, <1>6, <2>1, <2>2, NativeCases, EditorCases
<1>7. CASE s[i] \notin Quote \cup {"$"} /\ ~At(s, i, <<"-", "-">>) /\ ~At(s, i, <<"/", "*">>)
  <2>1. TagAt(s, i) = <<>>
    BY <1>7, TagIn
  <2>2. QED
    BY <1>1, <1>7, <2>1, NativeCases, EditorCases
<1>8. QED
  BY <1>2, <1>3, <1>4, <1>5, <1>6, <1>7

\* Where the native lexer sees nothing open, the editor goes on where it does.
LEMMA SameSkip ==
    ASSUME NEW S, NEW s \in Seq(S), NEW i \in 1 .. Len(s), WellFormed(s),
           SkipNoise(s, i) = i => i \in NativeVisible(s)
    PROVE  EditorSkip(s, i) = SkipNoise(s, i)
<1>1. SkipNoise(s, i) = i => s[i] \notin Quote /\ ~At(s, i, <<"/", "*">>) /\ TagAt(s, i) = <<>>
  BY DEF WellFormed
<1>2. CASE s[i] \in Quote
  <2>1. AfterCloser(s, i, s[i]) # 0
    BY <1>1, <1>2, NativeCases DEF OrHere
  <2>2. QED
    BY <1>2, <2>1, NativeCases, EditorCases DEF OrHere, OrEnd
<1>3. CASE At(s, i, <<"-", "-">>)
  BY <1>3, NativeCases, EditorCases
<1>4. CASE At(s, i, <<"/", "*">>)
  <2>1. CommentEnd(s, i) # 0
    BY <1>1, <1>4, NativeCases
  <2>2. QED
    BY <1>4, <2>1, NativeCases, EditorCases
<1>5. CASE s[i] = "$" /\ TagAt(s, i) # <<>>
  <2>1. PICK tag, e : tag = TagAt(s, i) /\ e = IndexOf(s, i + Len(tag), tag)
    OBVIOUS
  <2>2. SkipNoise(s, i) = DollarQuoteEnd(s, i) /\ DollarQuoteEnd(s, i) # i
    BY <1>1, <1>5, NativeCases
  <2>3. e # 0 /\ DollarQuoteEnd(s, i) = e + Len(tag)
    BY <2>1, <2>2 DEF DollarQuoteEnd
  <2>4. EditorSkip(s, i) = e + Len(tag)
    <3>1. EditorSkip(s, i) = AfterTag(s, i)
      BY <1>5, EditorCases
    <3>2. AfterTag(s, i) = e + Len(tag)
      BY <2>1, <2>3 DEF AfterTag
    <3>3. QED
      BY <3>1, <3>2
  <2>5. QED
    BY <2>2, <2>3, <2>4
<1>6. CASE s[i] = "$" /\ TagAt(s, i) = <<>>
  <2>1. DollarQuoteEnd(s, i) = i
    BY <1>6 DEF DollarQuoteEnd
  <2>2. ~At(s, i, <<"-", "-">>) /\ ~At(s, i, <<"/", "*">>) /\ s[i] \notin Quote
    BY <1>6, AtTwo DEF Quote
  <2>3. QED
    BY <1>6, <2>1, <2>2, NativeCases, EditorCases
<1>7. CASE s[i] \notin Quote \cup {"$"} /\ ~At(s, i, <<"-", "-">>) /\ ~At(s, i, <<"/", "*">>)
  <2>1. TagAt(s, i) = <<>>
    BY <1>7, TagIn
  <2>2. QED
    BY <1>7, <2>1, NativeCases, EditorCases
<1>8. QED
  BY <1>2, <1>3, <1>4, <1>5, <1>6, <1>7

-----------------------------------------------------------------------------
(* ... and what they see.                                                   *)

\* The visible positions from each position on.
Sees(f, s, skip) ==
    f = [i \in 1 .. Len(s) + 1 |->
           IF i > Len(s) THEN {}
           ELSE IF skip[i] > i THEN f[skip[i]] ELSE {i} \cup f[i + 1]]

\* A lexer that goes forward inside the text sees something.
LEMMA SeesSome ==
    ASSUME NEW S, NEW s \in Seq(S), NEW skip \in [1 .. Len(s) -> 1 .. Len(s) + 1]
    PROVE  \E f : Sees(f, s, skip) /\ Visible(s, skip) = f[1]
<1> PICK n \in Nat : n = Len(s)
  OBVIOUS
<1> DEFINE T == SUBSET (1 .. n)
           jump == [i \in 1 .. n |-> IF skip[i] > i THEN skip[i] ELSE i + 1]
           op == [i \in 1 .. n |-> [x \in T |-> IF skip[i] > i THEN x ELSE {i} \cup x]]
           leaf == [i \in 1 .. n + 1 |-> {}]
<1>1. \E f : Sees(f, s, skip)
  <2>1. 1 .. n \in SUBSET (1 .. n + 1) /\ 1 \in Int /\ n + 1 \in Int /\ 1 <= n + 1
    OBVIOUS
  <2>2. leaf \in [1 .. n + 1 -> T] /\ op \in [1 .. n -> [T -> T]]
    OBVIOUS
  <2>3. \A i \in 1 .. n : jump[i] \in 1 .. n + 1 /\ i < jump[i]
    OBVIOUS
  <2>4. PICK f : Jumping(f, T, 1, n + 1, 1 .. n, leaf, jump, op)
    <3> HIDE DEF T, jump, op, leaf
    <3>1. QED
      BY <2>1, <2>2, <2>3, JumpRecursion
  <2>5. f \in [1 .. n + 1 -> T]
    BY <2>4 DEF Jumping
  <2>6. ASSUME NEW i \in 1 .. n + 1
        PROVE  f[i] = IF i > n THEN {} ELSE IF skip[i] > i THEN f[skip[i]] ELSE {i} \cup f[i + 1]
    <3>1. f[i] = IF i \in 1 .. n THEN op[i][f[jump[i]]] ELSE leaf[i]
      <4> HIDE DEF op, jump, leaf, T
      <4>1. QED
        BY <2>4 DEF Jumping
    <3>2. CASE i \in 1 .. n
      <4>1. f[jump[i]] \in T
        <5> HIDE DEF jump, T
        <5>1. QED
          BY <2>3, <2>5, <3>2
      <4>2. f[i] = IF skip[i] > i THEN f[jump[i]] ELSE {i} \cup f[jump[i]]
        <5>1. PICK x \in T : x = f[jump[i]]
          BY <4>1
        <5>2. op[i][x] = IF skip[i] > i THEN x ELSE {i} \cup x
          BY <3>2, <5>1
        <5> HIDE DEF op, jump, T
        <5>3. QED
          BY <3>1, <3>2, <5>1, <5>2
      <4>3. jump[i] = IF skip[i] > i THEN skip[i] ELSE i + 1
        BY <3>2
      <4> HIDE DEF op, jump, T
      <4>4. QED
        BY <3>2, <4>2, <4>3
    <3>3. CASE i \notin 1 .. n
      BY <3>1, <3>3
    <3>4. QED
      BY <3>2, <3>3
  <2>7. f = [i \in 1 .. n + 1 |->
               IF i > n THEN {} ELSE IF skip[i] > i THEN f[skip[i]] ELSE {i} \cup f[i + 1]]
    <3> HIDE DEF T, jump, op, leaf
    <3>1. QED
      BY <2>5, <2>6
  <2>8. Sees(f, s, skip)
    BY <2>7 DEF Sees
  <2>9. QED
    BY <2>8
<1>2. PICK from : from = CHOOSE f : Sees(f, s, skip)
  OBVIOUS
<1>3. Sees(from, s, skip)
  BY <1>1, <1>2
<1>4. Visible(s, skip) = from[1]
  BY <1>2 DEF Visible, Sees
<1>5. QED
  BY <1>3, <1>4

\* On a well-formed text the two lexers see the same.
LEMMA SeeAlike ==
    ASSUME NEW S, NEW s \in Seq(S), WellFormed(s)
    PROVE  EditorVisible(s) = NativeVisible(s)
<1> PICK n \in Nat : n = Len(s)
  OBVIOUS
<1> PICK es, ns : es = [i \in 1 .. Len(s) |-> EditorSkip(s, i)] /\ ns = [i \in 1 .. Len(s) |-> SkipNoise(s, i)]
  OBVIOUS
<1>1. /\ es \in [1 .. Len(s) -> 1 .. Len(s) + 1] /\ ns \in [1 .. Len(s) -> 1 .. Len(s) + 1]
      /\ \A i \in 1 .. n : es[i] = EditorSkip(s, i) /\ ns[i] = SkipNoise(s, i)
  BY SkipsIn
<1>2. PICK e : Sees(e, s, es) /\ EditorVisible(s) = e[1]
  <2>1. es \in [1 .. Len(s) -> 1 .. Len(s) + 1]
    BY <1>1
  <2>2. \E e : Sees(e, s, es) /\ Visible(s, es) = e[1]
    BY <2>1, SeesSome
  <2>3. EditorVisible(s) = Visible(s, es)
    BY DEF EditorVisible
  <2>4. QED
    BY <2>2, <2>3
<1>3. PICK v : Sees(v, s, ns) /\ NativeVisible(s) = v[1]
  <2>1. ns \in [1 .. Len(s) -> 1 .. Len(s) + 1]
    BY <1>1
  <2>2. \E v : Sees(v, s, ns) /\ Visible(s, ns) = v[1]
    BY <2>1, SeesSome
  <2>3. NativeVisible(s) = Visible(s, ns)
    BY DEF NativeVisible
  <2>4. QED
    BY <2>2, <2>3
<1> PICK alike : alike = {i \in 1 .. n + 1 : v[i] \subseteq v[1] => e[i] = v[i]}
  OBVIOUS
<1>4. ASSUME NEW i \in 1 .. n + 1, \A j \in i + 1 .. n + 1 : j \in alike PROVE i \in alike
  <2> SUFFICES ASSUME v[i] \subseteq v[1] PROVE e[i] = v[i]
    OBVIOUS
  <2>1. /\ v[i] = IF i > n THEN {} ELSE IF ns[i] > i THEN v[ns[i]] ELSE {i} \cup v[i + 1]
        /\ e[i] = IF i > n THEN {} ELSE IF es[i] > i THEN e[es[i]] ELSE {i} \cup e[i + 1]
    BY <1>2, <1>3 DEF Sees
  <2>2. CASE i > n
    BY <2>1, <2>2
  <2>3. CASE ~(i > n)
    <3>1. i \in 1 .. n /\ ns[i] \in 1 .. n + 1 /\ i + 1 \in i + 1 .. n + 1
      BY <1>1, <2>3
    <3>2. ns[i] = i => i \in NativeVisible(s)
      BY <1>3, <2>1, <3>1
    <3>3. es[i] = ns[i]
      BY <1>1, <3>1, <3>2, SameSkip
    <3>4. CASE ns[i] > i
      <4>1. v[ns[i]] \subseteq v[1] /\ ns[i] \in i + 1 .. n + 1
        BY <2>1, <2>3, <3>1, <3>4
      <4>2. e[ns[i]] = v[ns[i]]
        <5>1. PICK k : k = ns[i]
          OBVIOUS
        <5>2. k \in alike
          BY <1>4, <4>1, <5>1
        <5>3. v[k] \subseteq v[1]
          BY <4>1, <5>1
        <5>4. e[k] = v[k]
          BY <5>2, <5>3
        <5>5. QED
          BY <5>1, <5>4
      <4>3. QED
        BY <2>1, <2>3, <3>3, <3>4, <4>2
    <3>5. CASE ~(ns[i] > i)
      <4>1. i + 1 \in alike /\ v[i + 1] \subseteq v[1]
        BY <1>4, <2>1, <2>3, <3>1, <3>5
      <4>2. QED
        BY <2>1, <2>3, <3>3, <3>5, <4>1
    <3>6. QED
      BY <3>4, <3>5
  <2>4. QED
    BY <2>2, <2>3
<1>5. PICK hi \in Int : hi = n + 1 /\ 1 \in 1 .. hi
  OBVIOUS
<1>6. Inherits(alike, 1, hi)
  BY <1>4, <1>5 DEF Inherits
<1>7. \A i \in 1 .. hi : i \in alike
  BY <1>5, <1>6, Backwards
<1>8. e[1] = v[1]
  BY <1>5, <1>7
<1>9. QED
  BY <1>2, <1>3, <1>8

\* A text is made of the classes.
SqlTextInv == sqlText \in Seq(Char)

\* What is typed is a text of the classes, and of such a text the agreement holds.
LEMMA SqlTextTrue ==
    /\ SqlTextInit => SqlTextInv
    /\ SqlTextInv /\ [SqlTextNext]_sqlText => SqlTextInv'
    /\ SqlTextInv => CutsWhereNativeSees
<1>1. SqlTextInit => SqlTextInv
  BY DEF SqlTextInit, SqlTextInv
<1>2. ASSUME SqlTextInv, [SqlTextNext]_sqlText PROVE SqlTextInv'
  <2>1. CASE sqlText' = sqlText
    BY <1>2, <2>1 DEF SqlTextInv
  <2>2. ASSUME NEW c \in Char, TypeChar(c) PROVE SqlTextInv'
    BY <1>2, <2>2 DEF SqlTextInv, TypeChar
  <2>3. QED
    BY <1>2, <2>1, <2>2 DEF SqlTextNext
<1>3. ASSUME SqlTextInv, WellFormed(sqlText)
      PROVE  EditorCuts(sqlText) = NativeSemicolons(sqlText)
  <2>1. EditorVisible(sqlText) = NativeVisible(sqlText)
    BY <1>3, SeeAlike DEF SqlTextInv
  <2>2. QED
    BY <2>1 DEF EditorCuts, NativeSemicolons
<1>4. QED
  BY <1>1, <1>2, <1>3 DEF CutsWhereNativeSees

-----------------------------------------------------------------------------
(* The tab as a whole.                                                      *)

\* One view is in use, and its steps leave the others alone: so each of them takes its own
\* steps or none.
LEMMA ViewsRun ==
    DataSpec =>
        EditorSpec /\ SqlTextSpec /\ GridSpec /\ BrowseSpec /\ MongoSpec /\ PipeSpec /\ FedSpec
        /\ ChatSpec
<1>1. DataInit =>
        /\ EditorInit /\ SqlTextInit /\ GridInit /\ BrowseInit /\ MongoInit /\ PipeInit
        /\ FedInit /\ ChatInit
  BY DEF DataInit
<1>2. [DataNext]_dataVars =>
        /\ [EditorNext]_editorVars /\ [SqlTextNext]_sqlText
        /\ [GridNext]_gridVars /\ [BrowseNext]_browseVars
        /\ [MongoNext]_mongoVars /\ [PipeNext]_pipeVars /\ [FedNext]_fedVars
        /\ [ChatNext]_chatVars
  BY DEF DataNext, dataVars
<1>3. QED
  BY <1>1, <1>2, PTL
  DEF DataSpec, EditorSpec, SqlTextSpec, GridSpec, BrowseSpec, MongoSpec, PipeSpec, FedSpec, ChatSpec

\* The invariants of the views hold of the tab.
THEOREM DataInvariance ==
    DataSpec =>
        [](/\ EditorInv /\ SqlTextInv /\ GridInv /\ PlaceInv /\ BrowseInv /\ SkipInv
           /\ MongoInv /\ PipeInv /\ FedInv /\ ChatInv)
<1>1. EditorInv /\ [EditorNext]_editorVars => EditorInv'
  BY StepOK
<1>2. EditorSpec => []EditorInv
  BY <1>1, InitEditor, PTL DEF EditorSpec
<1>3. GridSpec => [](GridInv /\ PlaceInv)
  BY InitGrid, GridStepOK, InitPlace, PlaceStepOK, PTL DEF GridSpec
<1>4. BrowseSpec => [](BrowseInv /\ SkipInv)
  BY InitBrowse, BrowseStep, InitSkip, SkipStep, PTL DEF BrowseSpec
<1>5. MongoInv /\ [MongoNext]_mongoVars => MongoInv'
  BY MongoStep
<1>6. MongoSpec => []MongoInv
  BY <1>5, InitMongo, PTL DEF MongoSpec
<1>7. PipeSpec => []PipeInv
  BY InitPipe, PipeStep, PTL DEF PipeSpec
<1>8. FedSpec => []FedInv
  BY InitFed, FedStep, PTL DEF FedSpec
<1>9. ChatSpec => []ChatInv
  BY InitChat, ChatStep, PTL DEF ChatSpec
<1>10. SqlTextSpec => []SqlTextInv
  BY SqlTextTrue, PTL DEF SqlTextSpec
<1>11. QED
  BY <1>2, <1>3, <1>4, <1>6, <1>7, <1>8, <1>9, <1>10, ViewsRun, PTL

\* A run that started under a read-only profile sends only statements that read.
THEOREM ReadOnly == DataSpec => []ReadOnlySendsSelects
  BY EditorTrue, DataInvariance, PTL

\* After Cancel, or after the tab is left, no further statement of the batch is sent.
THEOREM AbortIsFinal == DataSpec => NothingSentAfterAbort
<1>1. EditorInv /\ [EditorNext]_editorVars =>
        [\A r \in Run : runs[r].aborted => runs'[r].sent = runs[r].sent]_editorVars
  BY StepOK
<1>2. QED
  BY <1>1, DataInvariance, ViewsRun, PTL DEF EditorSpec, NothingSentAfterAbort

\* What the grid shows and asks for next is of the table and the view as they are.
THEOREM GridStaysCurrent == DataSpec => []GridIsCurrent
  BY GridTrue, DataInvariance, PTL

\* The server keeps every lease that a cached page goes on with.
THEOREM LeasesKept == DataSpec => []RetainedLeaseIsKept
  BY LeasesAreKept, DataInvariance, PTL

\* The next page of a collection begins where the one on display ends.
THEOREM PagesAbutAlways == DataSpec => PagesAbutWithoutJumps
<1>1. MongoInv /\ [MongoNext]_mongoVars =>
        [pageNo' = pageNo + 1 /\ ~guessed =>
            MongoKey'.skip = MongoKey.skip + Len(mongoPage.documents)]_mongoVars
  BY MongoStep
<1>2. QED
  BY <1>1, DataInvariance, ViewsRun, PTL DEF MongoSpec, PagesAbutWithoutJumps

\* Results and counts on display are of the query on display, the canvas's merge is of its
\* newest run, and a spinner has a request behind it.
THEOREM ViewsFollow == DataSpec => []ViewsFollowTheirRuns
<1>1. EditorInv /\ MongoInv /\ PipeInv /\ FedInv => ViewsFollowTheirRuns
  BY EditorTrue, PipeTrue, FedTrue DEF MongoInv, ViewsFollowTheirRuns
<1>2. QED
  BY <1>1, DataInvariance, PTL

\* The panel shows the conversation it is open for, and whether it is being answered.
THEOREM PanelStaysTrue == DataSpec => []ChatPanelIsTrue
  BY PanelTrue, DataInvariance, PTL

\* Grid pages, keys and documents: what is on display, with what its continuation leads to, is
\* where the listing has it, however pages were cut short, cached, parked or jumped to.
THEOREM NothingSkipped == DataSpec => []NothingIsSkipped
<1>1. PlaceInv /\ SkipInv /\ PipeInv => NothingIsSkipped
  BY PlaceTrue, SkipTrue, PipeTrue DEF NothingIsSkipped
<1>2. QED
  BY <1>1, DataInvariance, PTL

\* On a well-formed text, however long, the editor cuts at exactly the semicolons that the
\* native side counts, so that no request is refused for holding a second statement and no
\* literal or comment is cut in two.
THEOREM CutsAgree == DataSpec => []CutsWhereNativeSees
  BY SqlTextTrue, DataInvariance, PTL
=============================================================================
