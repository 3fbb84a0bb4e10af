------------------------------ MODULE TableGrid ------------------------------
(***************************************************************************)
(* The table preview of a workspace tab: components/table-view.tsx with    *)
(* lib/preview-navigation.ts and hooks/use-schema.ts.  The grid asks for   *)
(* one page at a time, by a keyset cursor or by an offset as the server    *)
(* chooses, under an order and a search that the user changes at any       *)
(* moment; the pages it has seen stay in the query cache, across the tab   *)
(* being hidden and shown again.                                           *)
(*                                                                         *)
(* TanStack Query appears as the code uses it: the page of the current key *)
(* is fetched when it is not cached, or stale; until it comes the previous *)
(* page stays on display as a placeholder (keepPreviousData); a fetch is   *)
(* cancelled when its key is left; an invalidated page is fetched again.   *)
(***************************************************************************)
EXTENDS Absent, Selection, SequencesExt, FiniteSets

CONSTANTS
    Rows,       \* the rows of the table when the tab opens: 1 .. Rows
    PageSizes,  \* the page sizes offered
    FirstSize,  \* the one the grid opens with
    Searches,   \* the search texts; "" matches every row, the others odd rows
    MaxDeletes, \* bound: rows deleted from the grid
    MaxMoves    \* bound: steps of the user on the controls

ASSUME GridAssumption ==
    /\ Rows \in Nat \ {0} /\ PageSizes \subseteq Nat \ {0} /\ FirstSize \in PageSizes /\ "" \in Searches
    /\ MaxDeletes \in Nat /\ MaxMoves \in Nat
    /\ None \notin Nat \cup [row : 1 .. Rows \cup {None}, ran : BOOLEAN]

VARIABLES
    table,      \* the rows in the database
    seekable,   \* can the server page this table by key?
    nav,        \* state.navigation
    size,       \* state.pageSize
    view,       \* state.sortDirection and state.querySearch: what orders the rows
    typed,      \* state.searchText
    debounce,   \* the pending call of debouncedSearchFn
    pages,      \* the query cache: the result of each key, and whether it is stale
    fetching,   \* isFetching: the page of the current key is on its way
    data,       \* result: the page on display, and the key it answers
    isError,
    mutation,   \* the statement in flight: the row it deletes, or None for a cell edit,
                \* and whether it has run
    lost,       \* rows whose DELETE has run, or may still run, without an answer (history)
    gridOpen,   \* the tab is the one on display
    moves

gridState == <<nav, size, view, typed, debounce>>
queryState == <<pages, fetching, data, isError>>
gridVars == <<table, seekable, gridState, queryState, mutation, lost, gridOpen, moves>>

InitialNavigation ==
    [position |-> [offset |-> 0, mode |-> "auto", cursor |-> None], previous |-> <<>>, pageIndex |-> 0]

View == [order : {"asc", "desc"}, search : Searches]
Key == [view |-> view, size |-> size, position |-> nav.position]

GridTypeOK ==
    /\ table \subseteq 1 .. Rows /\ seekable \in BOOLEAN
    /\ nav.position.offset \in Nat /\ nav.position.mode \in {"auto", "offset"}
    /\ size \in PageSizes /\ view \in View /\ typed \in Searches
    /\ debounce \in Searches \cup {None}
    /\ fetching \in BOOLEAN /\ isError \in BOOLEAN
    /\ lost \subseteq 1 .. Rows

GridInit ==
    /\ table = 1 .. Rows /\ seekable \in BOOLEAN
    /\ nav = InitialNavigation
    /\ size = FirstSize
    /\ view = [order |-> "asc", search |-> ""] /\ typed = "" /\ debounce = None
    /\ pages = <<>>
    /\ fetching = TRUE /\ data = None /\ isError = FALSE
    /\ mutation = None /\ lost = {}
    /\ gridOpen = TRUE
    /\ moves = 0

-----------------------------------------------------------------------------
(* The server's page.                                                       *)

\* Every row, in v's order.
Ordered(v) == [i \in 1 .. Rows |-> IF v.order = "asc" THEN i ELSE Rows + 1 - i]

\* The rows of t under v.
Listing(t, v) ==
    LET rows == Ordered(v)
    IN  Picked(rows, {i \in 1 .. Rows : rows[i] \in t /\ (v.search = "" \/ rows[i] % 2 = 1)})

\* The rows that a request's page starts with: those after its cursor, or its offset.
Rest(key) ==
    LET rows == Listing(table, key.view)
        c == key.position.cursor
        Beyond(r) == IF c.view.order = "asc" THEN r > c.after ELSE r < c.after
    IN  IF c # None THEN Listing({r \in table : Beyond(r)}, key.view)
        ELSE SubSeq(rows, key.position.offset + 1, Len(rows))

\* A page admits up to size rows, fewer when they are long (result-budget.go);
\* a keyset page carries the cursor of the next one.
PagesOf(key) ==
    LET rest == Rest(key)
        keyset == seekable /\ key.position.mode = "auto"
        most == IF Len(rest) < key.size THEN Len(rest) ELSE key.size
        Page(n) == [rows |-> SubSeq(rest, 1, n), hasMore |-> n < Len(rest), keyset |-> keyset,
                    next |-> IF keyset /\ 0 < n /\ n < Len(rest)
                             THEN [view |-> key.view, after |-> rest[n]] ELSE None]
    IN  {Page(n) : n \in (IF most = 0 THEN {0} ELSE 1 .. most)}

-----------------------------------------------------------------------------
(* lib/preview-navigation.ts                                                *)

PendingPage == fetching \/ data.key # Key

CanAdvance == ~PendingPage /\ data.page.rows # <<>> /\ data.page.hasMore
              /\ (data.page.keyset => data.page.next # None)

\* Mutant: the next page starts a whole page further on.
NextNavigationBySize ==
    [position |-> [offset |-> nav.position.offset + size,
                   mode |-> IF data.page.keyset THEN "auto" ELSE "offset",
                   cursor |-> IF data.page.keyset THEN data.page.next ELSE None],
     previous |-> Append(nav.previous, nav.position),
     pageIndex |-> nav.pageIndex + 1]

\* nextPreviewPage, with MAX_PREVIEW_BOOKMARKS out of reach.
NextNavigation ==
    [position |-> [offset |-> nav.position.offset + Len(data.page.rows),
                   mode |-> IF data.page.keyset THEN "auto" ELSE "offset",
                   cursor |-> IF data.page.keyset THEN data.page.next ELSE None],
     previous |-> Append(nav.previous, nav.position),
     pageIndex |-> nav.pageIndex + 1]

CanGoBack == nav.previous # <<>> \/ (nav.position.mode = "offset" /\ nav.position.offset > 0)

AtOffset(n) ==
    IF n = 0 THEN InitialNavigation
    ELSE [position |-> [offset |-> n, mode |-> "offset", cursor |-> None],
          previous |-> <<>>, pageIndex |-> n \div size]

PreviousNavigation ==
    IF nav.previous # <<>>
    THEN [position |-> Last(nav.previous), previous |-> Front(nav.previous),
          pageIndex |-> nav.pageIndex - 1]
    ELSE LET n == IF nav.position.offset > size THEN nav.position.offset - size ELSE 0
         IN  [position |-> [offset |-> n, mode |-> "offset", cursor |-> None],
              previous |-> <<>>, pageIndex |-> n \div size]

-----------------------------------------------------------------------------
(* usePreviewRows.                                                          *)

\* The key is now k: a cached page is shown at once, and fetched again when it
\* is stale, or has become so with time.
Observe(k) ==
    /\ isError' = FALSE
    /\ IF k \in DOMAIN pages
       THEN /\ data' = [key |-> k, page |-> pages[k].page]
            /\ fetching' \in (IF pages[k].stale THEN {TRUE} ELSE BOOLEAN)
       ELSE UNCHANGED data /\ fetching' = TRUE

FetchAnswered ==
    /\ gridOpen /\ fetching
    /\ \/ \E page \in PagesOf(Key) :
            /\ pages' = [k \in DOMAIN pages \cup {Key} |->
                           IF k = Key THEN [page |-> page, stale |-> FALSE] ELSE pages[k]]
            /\ data' = [key |-> Key, page |-> page]
            /\ isError' = FALSE
       \/ isError' = TRUE /\ UNCHANGED <<pages, data>>
    /\ fetching' = FALSE
    /\ UNCHANGED <<table, gridState, mutation, lost, gridOpen, moves>>

\* The window gets the focus, or the tab is opened again after an error.
Refetch ==
    /\ gridOpen /\ ~fetching /\ isError
    /\ fetching' = TRUE
    /\ UNCHANGED <<table, gridState, pages, data, isError, mutation, lost, gridOpen, moves>>

-----------------------------------------------------------------------------
(* The grid's controls; an error takes the place of all of them.            *)

Interactive == gridOpen /\ data # None /\ ~isError /\ moves < MaxMoves

\* dataGridReducer, then the render with the new key.
Reduce(newNav, newSize, newView) ==
    /\ nav' = newNav /\ size' = newSize /\ view' = newView
    /\ IF [view |-> newView, size |-> newSize, position |-> newNav.position] = Key
       THEN UNCHANGED <<data, fetching, isError>>
       ELSE Observe([view |-> newView, size |-> newSize, position |-> newNav.position])
    /\ moves' = moves + 1
    /\ UNCHANGED <<table, pages, mutation, lost, gridOpen>>

NextPage ==
    /\ Interactive /\ CanAdvance
    /\ Reduce(NextNavigation, size, view)
    /\ UNCHANGED <<typed, debounce>>

PreviousPage ==
    /\ Interactive /\ ~PendingPage /\ CanGoBack
    /\ Reduce(PreviousNavigation, size, view)
    /\ UNCHANGED <<typed, debounce>>

\* The first-page button, and the page field of a table without keyset pages.
JumpTo(p) ==
    /\ Interactive /\ ~PendingPage
    /\ p # 0 => ~data.page.keyset
    /\ Reduce(AtOffset(p * size), size, view)
    /\ UNCHANGED <<typed, debounce>>

SetPageSize(n) ==
    /\ Interactive /\ n # size
    /\ Reduce(InitialNavigation, n, view)
    /\ UNCHANGED <<typed, debounce>>

\* Mutant: a new order keeps the bookmarks.
CycleSortInPlace ==
    /\ Interactive
    /\ Reduce(nav, size, [view EXCEPT !.order = IF @ = "asc" THEN "desc" ELSE "asc"])
    /\ UNCHANGED <<typed, debounce>>

\* cycleSort and its kin: the order, and with it every bookmark, is given up.
CycleSort ==
    /\ Interactive
    /\ Reduce(InitialNavigation, size, [view EXCEPT !.order = IF @ = "asc" THEN "desc" ELSE "asc"])
    /\ UNCHANGED <<typed, debounce>>

TypeSearch(text) ==
    /\ Interactive /\ text # typed
    /\ typed' = text /\ debounce' = text
    /\ moves' = moves + 1
    /\ UNCHANGED <<table, nav, size, view, queryState, mutation, lost, gridOpen>>

\* 300 ms after the last key: setQuerySearch.
DebounceFires ==
    /\ gridOpen /\ debounce # None /\ moves < MaxMoves
    /\ Reduce(InitialNavigation, size, [view EXCEPT !.search = debounce])
    /\ debounce' = None
    /\ UNCHANGED typed

\* The button clears both texts and leaves the debounced call pending.
ClearSearch ==
    /\ Interactive /\ typed # ""
    /\ Reduce(InitialNavigation, size, [view EXCEPT !.search = ""])
    /\ typed' = ""
    /\ UNCHANGED debounce

-----------------------------------------------------------------------------
(* Deleting and editing rows: the row is fixed when the dialog opens.       *)

DeleteRow(i) ==
    /\ Interactive /\ mutation = None
    /\ i \in DOMAIN data.page.rows
    /\ Rows - Cardinality(table) < MaxDeletes
    /\ mutation' = [row |-> data.page.rows[i], ran |-> FALSE]
    /\ moves' = moves + 1
    /\ UNCHANGED <<table, gridState, queryState, lost, gridOpen>>

\* saveCellEdit: rows are named by their keys, which an edit leaves alone.
SaveGridEdit ==
    /\ Interactive /\ mutation = None
    /\ data.page.rows # <<>>
    /\ mutation' = [row |-> None, ran |-> TRUE]
    /\ moves' = moves + 1
    /\ UNCHANGED <<table, gridState, queryState, lost, gridOpen>>

DeleteRuns ==
    /\ mutation # None /\ ~mutation.ran
    /\ table' = table \ {mutation.row}
    /\ mutation' = [mutation EXCEPT !.ran = TRUE]
    /\ UNCHANGED <<gridState, queryState, lost, gridOpen, moves>>

\* useRunQuery's onSuccess invalidates every preview of the connection; the preview
\* observed is fetched again, an earlier fetch of it being cancelled.
MutationAnswered ==
    /\ gridOpen /\ mutation # None /\ mutation.ran
    /\ mutation' = None
    /\ pages' = [k \in DOMAIN pages |-> [pages[k] EXCEPT !.stale = TRUE]]
    /\ fetching' = TRUE
    /\ UNCHANGED <<table, gridState, data, isError, lost, gridOpen, moves>>

\* The request fails without having run, or its answer is an error although it has.
\* Nothing is invalidated: what saveCellEdit then invalidates is the key of no query.
MutationFailed ==
    /\ gridOpen /\ mutation # None
    /\ mutation' = None
    /\ lost' = IF mutation.ran THEN lost \cup ({mutation.row} \ {None}) ELSE lost
    /\ UNCHANGED <<table, gridState, queryState, gridOpen, moves>>

-----------------------------------------------------------------------------
(* Only the tab on display is mounted.  Its requests are aborted when it is *)
(* hidden, and its reducer starts afresh when it is shown again; the debounced  *)
(* call of the old mount reaches nothing any more.                          *)

HideGrid ==
    /\ gridOpen
    /\ gridOpen' = FALSE
    /\ fetching' = FALSE /\ data' = None /\ isError' = FALSE
    /\ nav' = InitialNavigation /\ size' = FirstSize
    /\ view' = [order |-> "asc", search |-> ""] /\ typed' = "" /\ debounce' = None
    /\ mutation' = None
    /\ lost' = IF mutation = None THEN lost ELSE lost \cup ({mutation.row} \ {None})
    /\ UNCHANGED <<table, pages, moves>>

ShowGrid ==
    /\ ~gridOpen
    /\ gridOpen' = TRUE
    /\ Observe(Key)
    /\ UNCHANGED <<table, gridState, pages, mutation, lost, moves>>

\* A DELETE that was under way when its request was aborted.
LostDeleteRuns ==
    /\ \E r \in lost : table' = table \ {r}
    /\ UNCHANGED <<gridState, queryState, mutation, lost, gridOpen, moves>>

GridStep ==
    \/ FetchAnswered \/ Refetch
    \/ NextPage \/ PreviousPage \/ CycleSort \/ DebounceFires \/ ClearSearch
    \/ \E p \in 0 .. Rows \div size : JumpTo(p)
    \/ \E n \in PageSizes : SetPageSize(n)
    \/ \E text \in Searches : TypeSearch(text)
    \/ \E i \in 1 .. Rows : DeleteRow(i)
    \/ SaveGridEdit \/ DeleteRuns \/ MutationAnswered \/ MutationFailed
    \/ HideGrid \/ ShowGrid \/ LostDeleteRuns

GridNext == GridStep /\ UNCHANGED seekable

GridSpec == GridInit /\ [][GridNext]_gridVars

-----------------------------------------------------------------------------
(* Properties.                                                              *)

Bookmarks == {nav.position} \cup Range(nav.previous)

\* "Reusing an old key would skip or repeat rows": the request in hand and every
\* bookmark carry cursors of the order and search on display.
CursorsFitTheView ==
    \A p \in Bookmarks : p.cursor # None => p.cursor.view = view

\* While nobody writes to the table, the page on display is the one its label
\* names: no row is skipped or repeated by walking forward and back, by pages
\* cut short, by jumps and by changes of order, search or size.
PageIsWhereItSays ==
    gridOpen /\ data # None /\ ~PendingPage /\ table = 1 .. Rows =>
        LET rows == Listing(table, view) IN
        data.page.rows = SubSeq(rows, nav.position.offset + 1,
                                nav.position.offset + Len(data.page.rows))

\* A page at rest shows no row that the grid itself has deleted, whichever page,
\* order or tab the user went through; except by a mutation whose answer was lost.
SettledPageIsCurrent ==
    gridOpen /\ data # None /\ ~PendingPage /\ ~isError /\ mutation = None =>
        \A i \in DOMAIN data.page.rows : data.page.rows[i] \in table \cup lost

\* What the grid shows and what it asks for next belong to the table and the view as
\* they are now.
GridIsCurrent == CursorsFitTheView /\ SettledPageIsCurrent
=============================================================================
