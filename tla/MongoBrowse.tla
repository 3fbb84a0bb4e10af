----------------------------- MODULE MongoBrowse -----------------------------
(***************************************************************************)
(* The document view of a MongoDB collection: components/mongo-view.tsx    *)
(* with lib/page-offsets.ts, components/mongo-data-footer.tsx and          *)
(* hooks/use-mongo.ts.  A page asks for PageLimit documents from a skip    *)
(* offset, and the server may admit fewer when they are large; so the view *)
(* keeps the offset of every page it has visited.  Counting is a request   *)
(* of its own, which may be overtaken by a change of the query.            *)
(*                                                                         *)
(* TanStack Query appears as in TableGrid: the page of another key stays   *)
(* on display as a placeholder until the current one is there.             *)
(***************************************************************************)
EXTENDS Absent, Selection, SequencesExt, FiniteSets

CONSTANTS
    Documents,   \* the collection when the view opens: 1 .. Documents
    PageLimit,   \* PAGE_LIMIT
    Queries,     \* search texts and sort orders: "" is every document, the others odd ones
    MaxRemoved,  \* bound: documents deleted from the view
    MaxClicks    \* bound: steps of the user

ASSUME MongoAssumption ==
    /\ Documents \in Nat \ {0} /\ PageLimit \in Nat \ {0} /\ "" \in Queries
    /\ MaxRemoved \in Nat /\ MaxClicks \in Nat /\ None \notin Nat

VARIABLES
    docs,        \* the documents in the collection
    large,       \* those that fill a page's bytes: nothing is admitted after one
    mongoQuery,  \* state.querySearch and state.querySort
    searchText,  \* what the debounced search will set, or None
    pageNo,      \* state.page
    pageOffsets, \* the skip offset of each page, from page 0
    sawByteLimitedPage,
    guessed,     \* a page was jumped over, or a document deleted, since the offsets were
                 \* last reset and their first page fetched (history)
    mongoPage,   \* data: the page on display, the key it answers; None before the first
    mongoFetching, \* isFetching
    countResult, \* None, or what the footer shows: the query counted, or pending
    counts,      \* count requests under way
    removals,    \* deletions that have run and are not answered
    clicks

mongoVars == <<docs, large, mongoQuery, searchText, pageNo, pageOffsets, sawByteLimitedPage,
               guessed, mongoPage, mongoFetching, countResult, counts, removals, clicks>>

\* const skip = pageOffsets[state.page] ?? state.page * PAGE_LIMIT
Skip(offsets, p) == IF p < Len(offsets) THEN offsets[p + 1] ELSE p * PageLimit

MongoKey == [query |-> mongoQuery, skip |-> Skip(pageOffsets, pageNo)]

MongoTypeOK ==
    /\ docs \subseteq 1 .. Documents /\ large \subseteq 1 .. Documents
    /\ mongoQuery \in Queries /\ searchText \in Queries \cup {None}
    /\ pageNo \in Nat /\ pageOffsets \in Seq(Nat) /\ pageOffsets[1] = 0
    /\ {sawByteLimitedPage, guessed, mongoFetching} \subseteq BOOLEAN
    /\ counts \subseteq Queries /\ removals \in Nat

MongoInit ==
    /\ docs = 1 .. Documents /\ large \in SUBSET (1 .. Documents)
    /\ mongoQuery = "" /\ searchText = None
    /\ pageNo = 0 /\ pageOffsets = <<0>> /\ sawByteLimitedPage = FALSE /\ guessed = FALSE
    /\ mongoPage = None /\ mongoFetching = TRUE
    /\ countResult = None /\ counts = {} /\ removals = 0
    /\ clicks = 0

Matching(q) == Picked([d \in 1 .. Documents |-> d], {d \in docs : q = "" \/ d % 2 = 1})

\* A page ends with its limit of documents, or with a large one.
EndsPage(rest, n) == n = Len(rest) \/ n = PageLimit \/ rest[n] \in large
PageLength(rest) ==
    IF rest = <<>> THEN 0
    ELSE CHOOSE n \in 1 .. Len(rest) : EndsPage(rest, n) /\ \A m \in 1 .. n - 1 : ~EndsPage(rest, m)

Admitted(key) ==
    LET rest == SubSeq(Matching(key.query), key.skip + 1, Len(Matching(key.query)))
        n == PageLength(rest)
    IN  [key |-> key, documents |-> SubSeq(rest, 1, n), hasMore |-> n < Len(rest),
         byBytes |-> 0 < n /\ n < PageLimit /\ n < Len(rest)]

-----------------------------------------------------------------------------
(* lib/page-offsets.ts                                                      *)

\* Mutant: every page is taken for a full one.
FullPageOffsets(offsets, target, current, admitted) ==
    IF target < Len(offsets) THEN offsets
    ELSE offsets \o [i \in 1 .. target + 1 - Len(offsets) |-> Last(offsets) + i * PageLimit]

\* The page being left counts what it admitted, those jumped over a full page each.
PageOffsetsFor(offsets, target, current, admitted) ==
    LET n == Len(offsets)
        step == IF n - 1 = current THEN admitted ELSE PageLimit
    IN  IF target < n THEN offsets
        ELSE offsets \o [i \in 1 .. target + 1 - n |-> Last(offsets) + step + (i - 1) * PageLimit]

-----------------------------------------------------------------------------

\* React renders with the new key: another page is fetched, or found in the cache.
Render(q, p, offsets) ==
    LET key == [query |-> q, skip |-> Skip(offsets, p)] IN
    IF key = MongoKey THEN UNCHANGED <<mongoPage, mongoFetching>>
    ELSE mongoFetching' = TRUE /\ UNCHANGED mongoPage

\* The answer, and the effect that notices a page cut short by bytes; a failed
\* fetch replaces the view by its error until it is tried again.
DocumentsAnswered ==
    /\ mongoFetching
    /\ mongoPage' = Admitted(MongoKey) /\ mongoFetching' = FALSE
    /\ sawByteLimitedPage' = (sawByteLimitedPage \/ mongoPage'.byBytes)
    /\ UNCHANGED <<docs, large, mongoQuery, searchText, pageNo, pageOffsets, guessed,
                   countResult, counts, removals, clicks>>

Click == clicks < MaxClicks /\ clicks' = clicks + 1

AtRest == mongoPage # None /\ ~mongoFetching

OnPageChange(p) ==
    /\ pageOffsets' = PageOffsetsFor(pageOffsets, p, pageNo, Len(mongoPage.documents))
    /\ pageNo' = p
    /\ Render(mongoQuery, p, pageOffsets')
    /\ UNCHANGED <<docs, large, mongoQuery, searchText, sawByteLimitedPage, countResult, counts, removals>>

NextDocuments ==
    /\ Click /\ AtRest /\ mongoPage.hasMore
    /\ OnPageChange(pageNo + 1)
    /\ UNCHANGED guessed

PreviousDocuments ==
    /\ Click /\ AtRest /\ pageNo > 0
    /\ OnPageChange(pageNo - 1)
    /\ UNCHANGED guessed

Ceil(n) == (n + PageLimit - 1) \div PageLimit

\* The page field is there once a count is known and no page was cut short.
JumpToPage(p) ==
    /\ Click /\ AtRest
    /\ countResult # None /\ ~countResult.pending /\ ~sawByteLimitedPage
    /\ p # pageNo
    /\ p <= Ceil(countResult.total) - 1 \/ p < pageNo
    /\ OnPageChange(p)
    /\ guessed' = (guessed \/ p > pageNo + 1)

-----------------------------------------------------------------------------
(* resetPaging, and the changes of the query.                               *)

ResetPaging ==
    /\ pageNo' = 0 /\ pageOffsets' = <<0>> /\ sawByteLimitedPage' = FALSE
    /\ countResult' = None

\* The same query on its first page is the same key, which fetches nothing.
ChangeQuery(q) ==
    /\ mongoQuery' = q
    /\ ResetPaging
    /\ guessed' = (guessed /\ MongoKey = [query |-> q, skip |-> 0])
    /\ Render(q, 0, <<0>>)
    /\ UNCHANGED <<docs, large, counts, removals>>

\* A click on a column, or a sort specification typed.
SortChanges(q) ==
    /\ Click /\ mongoPage # None
    /\ ChangeQuery(q)
    /\ UNCHANGED searchText

TypeSearchText(q) ==
    /\ Click /\ mongoPage # None
    /\ searchText' = q
    /\ UNCHANGED <<docs, large, mongoQuery, pageNo, pageOffsets, sawByteLimitedPage, guessed,
                   mongoPage, mongoFetching, countResult, counts, removals>>

SearchDebounced ==
    /\ searchText # None
    /\ searchText' = None
    /\ ChangeQuery(searchText)
    /\ UNCHANGED clicks

\* handleDeleteDocument, once it is confirmed: the call runs, its answer is awaited.
DeleteDocument(i) ==
    /\ Click /\ AtRest /\ i \in DOMAIN mongoPage.documents
    /\ Documents - Cardinality(docs) < MaxRemoved
    /\ docs' = docs \ {mongoPage.documents[i]}
    /\ removals' = removals + 1 /\ guessed' = TRUE
    /\ UNCHANGED <<large, mongoQuery, searchText, pageNo, pageOffsets, sawByteLimitedPage,
                   mongoPage, mongoFetching, countResult, counts>>

\* invalidateDocuments: the view starts over and every page of the collection is
\* fetched again.  An answer that is an error changes nothing.
DeleteAnswered ==
    /\ removals > 0
    /\ removals' = removals - 1
    /\ \/ ResetPaging /\ guessed' = FALSE /\ mongoFetching' = TRUE
       \/ UNCHANGED <<pageNo, pageOffsets, sawByteLimitedPage, guessed, countResult, mongoFetching>>
    /\ UNCHANGED <<docs, large, mongoQuery, searchText, mongoPage, counts, clicks>>

-----------------------------------------------------------------------------
(* Counting.                                                                *)

\* Offered while no total is shown; an answer that comes late belongs to the
\* query it was asked for.
HandleCount ==
    /\ Click /\ mongoPage # None /\ countResult = None
    /\ countResult' = [pending |-> TRUE, query |-> mongoQuery, total |-> 0]
    /\ counts' = counts \cup {mongoQuery}
    /\ UNCHANGED <<docs, large, mongoQuery, searchText, pageNo, pageOffsets, sawByteLimitedPage,
                   guessed, mongoPage, mongoFetching, removals>>

\* Mutant: a late answer is shown whatever was asked since.
LateCountAnswered(q) ==
    /\ counts' = counts \ {q}
    /\ countResult' = [pending |-> FALSE, query |-> q, total |-> Len(Matching(q))]
    /\ UNCHANGED <<docs, large, mongoQuery, searchText, pageNo, pageOffsets, sawByteLimitedPage,
                   guessed, mongoPage, mongoFetching, removals, clicks>>

CountAnswered(q) ==
    /\ counts' = counts \ {q}
    /\ countResult' = IF q = mongoQuery
                      THEN [pending |-> FALSE, query |-> q, total |-> Len(Matching(q))]
                      ELSE countResult
    /\ UNCHANGED <<docs, large, mongoQuery, searchText, pageNo, pageOffsets, sawByteLimitedPage,
                   guessed, mongoPage, mongoFetching, removals, clicks>>

\* A count that fails is shown as its error, beside which counting is offered again.
CountFailed(q) ==
    /\ counts' = counts \ {q}
    /\ countResult' = IF q = mongoQuery THEN None ELSE countResult
    /\ UNCHANGED <<docs, large, mongoQuery, searchText, pageNo, pageOffsets, sawByteLimitedPage,
                   guessed, mongoPage, mongoFetching, removals, clicks>>

MongoNext ==
    \/ DocumentsAnswered
    \/ NextDocuments \/ PreviousDocuments
    \/ \E p \in 0 .. Documents : JumpToPage(p)
    \/ \E q \in Queries : SortChanges(q) \/ TypeSearchText(q)
    \/ SearchDebounced
    \/ \E i \in 1 .. PageLimit : DeleteDocument(i)
    \/ DeleteAnswered \/ HandleCount
    \/ \E q \in counts : CountAnswered(q) \/ CountFailed(q)

MongoSpec == MongoInit /\ [][MongoNext]_mongoVars

-----------------------------------------------------------------------------
(* Properties.                                                              *)

\* "page*PAGE_LIMIT would silently skip documents": going on from a page leads to
\* the document after its last, also when the page was cut short by bytes, as long
\* as no page has been jumped over and no deletion waits for its answer.
PagesAbutWithoutJumps ==
    [][pageNo' = pageNo + 1 /\ ~guessed =>
          MongoKey'.skip = MongoKey.skip + Len(mongoPage.documents)]_mongoVars

\* The total in the footer is a count of the query on display, however late the
\* counts of earlier queries are.
CountIsOfTheQuery ==
    countResult # None => countResult.query = mongoQuery
=============================================================================
