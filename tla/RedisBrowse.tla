----------------------------- MODULE RedisBrowse -----------------------------
(***************************************************************************)
(* Browsing the keys of a Redis connection, from the explorer's controls   *)
(* (components/redis-explorer.tsx, hooks/use-redis.ts) through the query   *)
(* cache and the owner that prunes it (lib/preview-cache.ts) to the pages  *)
(* and parked remainders of the adapter (dbcore/providers/redis/redis.go). *)
(*                                                                         *)
(* A native SCAN reply may hold more keys than a page admits; the adapter  *)
(* then parks the rest in a session, and the page's continuation is a      *)
(* lease on it.  The cached pages are what keeps a lease referenced, and   *)
(* the cache owner is the one who hands leases back.                       *)
(*                                                                         *)
(* TanStack Query appears as the code uses it: the page of the current key *)
(* is fetched when it is not cached or has become stale; a fetch is        *)
(* aborted when its key is left; a page nobody observes is dropped in the  *)
(* end by the library's own garbage collection.                            *)
(***************************************************************************)
EXTENDS Absent, Selection, SequencesExt, FiniteSets

CONSTANTS
    Batches,      \* the native SCAN replies, in order: sequences of keys
    Patterns,     \* what the user searches for; "*" matches every key, the others odd ones
    CacheBudget,  \* PREVIEW_CACHE_BYTES, a page counting 1
    MaxSessions,  \* scanSessionMaxCount
    MaxFetches    \* bound: fetches started

ASSUME BrowseAssumption ==
    /\ Batches \in Seq(Seq(Nat)) /\ Len(Batches) > 0 /\ "*" \in Patterns
    /\ {CacheBudget, MaxSessions, MaxFetches} \subseteq Nat
    /\ None \notin Nat \cup [kind : {"scan"}, pattern : Patterns, native : Nat]
                     \cup [kind : {"lease"}, pattern : Patterns, lease : Nat, pos : Nat]

VARIABLES
    redisTab,   \* shown, hidden behind another tab, or closed
    page,       \* the current key: the search pattern and the top of cursorStack
    cached,     \* the queries in the cache: key -> its result, None before the first
    touched,    \* the cached keys, least recently used first
    others,     \* bytes that the pages of other tabs hold
    fetches,    \* fetches under way: the key, and whether it was aborted
    sessions,   \* scanSessions.items: lease -> what it parks
    releasing,  \* release calls on their way to the server
    released,   \* leases the owner has released (history)
    started     \* fetches started so far

browseVars == <<redisTab, page, cached, touched, others, fetches,
                sessions, releasing, released, started>>

Start(p) == [pattern |-> p, cursor |-> None]

\* A native cursor: 0 when the scan is over.
ScanCursor(p, native) ==
    IF native = 0 THEN None ELSE [kind |-> "scan", pattern |-> p, native |-> native]
LeaseCursor(p, lease, pos) == [kind |-> "lease", pattern |-> p, lease |-> lease, pos |-> pos]

BrowseTypeOK ==
    /\ redisTab \in {"shown", "hidden", "closed"}
    /\ page.pattern \in Patterns
    /\ DOMAIN cached = Range(touched) /\ others \in Nat
    /\ Cardinality(DOMAIN sessions) <= MaxSessions
    /\ releasing \subseteq released

BrowseInit ==
    /\ redisTab = "shown" /\ page = Start("*")
    /\ cached = [k \in {page} |-> None] /\ touched = <<page>> /\ others = 0
    /\ fetches = {[id |-> 1, key |-> page, aborted |-> FALSE]}
    /\ sessions = <<>> /\ releasing = {} /\ released = {} /\ started = 1

Without(f, S) == [x \in DOMAIN f \ S |-> f[x]]
Skipping(s, S) == Picked(s, {i \in DOMAIN s : s[i] \notin S})

-----------------------------------------------------------------------------
(* The cache owner.                                                         *)

LeaseOf(cursor) == IF cursor # None /\ cursor.kind = "lease" THEN {cursor.lease} ELSE {}

\* A page's input cursor and its stored continuation.
LeasesOf(c, k) ==
    LeaseOf(k.cursor) \cup (IF c[k] = None THEN {} ELSE LeaseOf(c[k].next))

Pages(c) == {k \in DOMAIN c : c[k] # None}

\* Keys without observers and not being fetched, least recently used first.
Inactive(t, tab, current, inFlight) ==
    Picked(t, {i \in DOMAIN t : /\ ~(tab = "shown" /\ t[i] = current)
                                /\ ~\E f \in inFlight : f.key = t[i] /\ ~f.aborted})

\* What prune() removes: everything when no tab owns it, else the fewest of the
\* least recently used that bring the cache back within its budget.
Obsolete(c, t, tab, current, inFlight, more) ==
    LET idle == Inactive(t, tab, current, inFlight)
        First_(n) == {idle[i] : i \in 1 .. n}
        Fits(n) == Cardinality(Pages(c) \ First_(n)) + more <= CacheBudget \/ n = Len(idle)
    IN  IF tab = "closed" THEN DOMAIN c
        ELSE First_(CHOOSE n \in 0 .. Len(idle) : Fits(n) /\ \A m \in 0 .. n - 1 : ~Fits(m))

LeasesAmong(c, keys) == UNION {LeasesOf(c, k) : k \in keys}

\* Mutant: a lease goes back as soon as one page that refers to it goes.
ReleasedWith(c, gone) == LeasesAmong(c, gone)

\* releaseObsoleteLeases: those that no retained page reaches.
LeasesToRelease(c, gone) ==
    LeasesAmong(c, gone) \ LeasesAmong(c, DOMAIN c \ gone)

\* prune(), which runs in the same turn as every change of the cache and of the tabs.
Pruned(c, t, tab, current, inFlight, more) ==
    LET gone == Obsolete(c, t, tab, current, inFlight, more)
        back == LeasesToRelease(c, gone)
    IN  /\ cached' = Without(c, gone)
        /\ touched' = Skipping(t, gone)
        /\ releasing' = releasing \cup back
        /\ released' = released \cup back

Touch(t, k) == Append(Skipping(t, {k}), k)

-----------------------------------------------------------------------------
(* The adapter: pageCollectionScan.                                         *)

KeysMatching(p, batch) == Picked(batch, {i \in DOMAIN batch : p = "*" \/ batch[i] % 2 = 1})

\* continueScan, after the n-th native reply.
NativeAfter(n) == IF n = Len(Batches) THEN 0 ELSE n + 1

\* How many of the items a page admits: one that is not empty gets at least one.
Admits(items) == IF items = <<>> THEN {0} ELSE 1 .. Len(items)

\* What a read may answer, and the sessions it leaves behind.
Answer(keys, next, parked) == [result |-> [keys |-> keys, next |-> next], sessions |-> parked]

\* A lease cursor replays a slice of the remainder without consuming it; the
\* last slice hands the session back and goes on natively.
LeaseAnswers(cursor) ==
    LET s == sessions[cursor.lease]
        rest == SubSeq(s.items, cursor.pos + 1, Len(s.items))
    IN  {IF n = Len(rest)
         THEN Answer(rest, ScanCursor(cursor.pattern, s.native), Without(sessions, {cursor.lease}))
         ELSE Answer(SubSeq(rest, 1, n), LeaseCursor(cursor.pattern, cursor.lease, cursor.pos + n), sessions)
           : n \in Admits(rest)}

\* The tail of a native reply that does not fit is parked, if there is room for it.
NativeAnswers(id, pattern, native) ==
    LET batch == KeysMatching(pattern, Batches[native])
        Parked(n) == [l \in DOMAIN sessions \cup {id} |->
                        IF l = id
                        THEN [items |-> SubSeq(batch, n + 1, Len(batch)), native |-> NativeAfter(native)]
                        ELSE sessions[l]]
        room == Cardinality(DOMAIN sessions) < MaxSessions
    IN  {IF n = Len(batch)
         THEN Answer(batch, ScanCursor(pattern, NativeAfter(native)), sessions)
         ELSE Answer(SubSeq(batch, 1, n), LeaseCursor(pattern, id, 0), Parked(n))
           : n \in {m \in Admits(batch) : room \/ m = Len(batch)}}

\* pageCollectionScan; nothing but an error when a lease is gone or parks nothing more.
Answers(f) ==
    LET cursor == f.key.cursor IN
    IF cursor = None THEN NativeAnswers(f.id, f.key.pattern, 1)
    ELSE IF cursor.kind = "scan" THEN NativeAnswers(f.id, f.key.pattern, cursor.native)
    ELSE IF cursor.lease \in DOMAIN sessions THEN LeaseAnswers(cursor)
    ELSE {}

-----------------------------------------------------------------------------
(* Fetches.                                                                 *)

\* The answer of a fetch that was aborted on the way reaches nobody.
PageRead(f) ==
    /\ \E a \in Answers(f) :
          /\ sessions' = a.sessions
          /\ IF f.aborted
             THEN UNCHANGED <<cached, touched, releasing, released>>
             ELSE Pruned([cached EXCEPT ![f.key] = a.result], Touch(touched, f.key),
                         redisTab, page, fetches \ {f}, others)
    /\ fetches' = fetches \ {f}
    /\ UNCHANGED <<redisTab, page, others, started>>

\* The lease is gone, the parked remainders are at their limit, or Redis fails.
ReadFails(f) ==
    /\ fetches' = fetches \ {f}
    /\ UNCHANGED <<redisTab, page, cached, touched, others, sessions, releasing, released, started>>

Aborted == {[f EXCEPT !.aborted = TRUE] : f \in fetches}

StartFetch(k) ==
    /\ started < MaxFetches
    /\ started' = started + 1
    /\ fetches' = Aborted \cup {[id |-> started', key |-> k, aborted |-> FALSE]}

\* The explorer turns to key k: a cached page is shown, and read again when stale.
ObservePage(tab, k) ==
    /\ redisTab' = tab /\ page' = k
    /\ \/ StartFetch(k)
       \/ k \in Pages(cached) /\ fetches' = Aborted /\ UNCHANGED started
    /\ Pruned([x \in DOMAIN cached \cup {k} |-> IF x \in DOMAIN cached THEN cached[x] ELSE None],
              Touch(touched, k), tab, k, fetches', others)
    /\ UNCHANGED <<others, sessions>>

Fetching == \E f \in fetches : ~f.aborted

-----------------------------------------------------------------------------
(* The explorer's controls.                                                 *)

HandleSearchChange(p) ==
    /\ redisTab = "shown" /\ p # page.pattern
    /\ ObservePage("shown", Start(p))

First ==
    /\ redisTab = "shown" /\ page.cursor # None
    /\ ObservePage("shown", Start(page.pattern))

\* Next is offered on a page that is not being fetched, even beside an error.
Next_ ==
    /\ redisTab = "shown" /\ page \in Pages(cached) /\ ~Fetching
    /\ cached[page].next # None
    /\ ObservePage("shown", [page EXCEPT !.cursor = cached[page].next])

\* The refresh button, or a console command that has settled: the page in view is
\* read again (the others when they are next turned to).
Refresh ==
    /\ redisTab = "shown"
    /\ StartFetch(page)
    /\ UNCHANGED <<redisTab, page, cached, touched, others, sessions, releasing, released>>

HideExplorer ==
    /\ redisTab = "shown"
    /\ redisTab' = "hidden" /\ page' = Start("*")
    /\ fetches' = Aborted
    /\ Pruned(cached, touched, "hidden", page, fetches', others)
    /\ UNCHANGED <<others, sessions, started>>

\* The explorer is mounted afresh, on the first page.
ShowExplorer ==
    /\ redisTab \in {"hidden", "closed"}
    /\ ObservePage("shown", Start("*"))

CloseExplorer ==
    /\ redisTab # "closed"
    /\ redisTab' = "closed" /\ page' = Start("*")
    /\ fetches' = Aborted
    /\ Pruned(cached, touched, "closed", page, fetches', others)
    /\ UNCHANGED <<others, sessions, started>>

-----------------------------------------------------------------------------
(* What happens beside the explorer.                                        *)

OtherTabsBrowse(n) ==
    /\ others' = n
    /\ Pruned(cached, touched, redisTab, page, fetches, n)
    /\ UNCHANGED <<redisTab, page, fetches, sessions, started>>

\* gcTime after its last observer left: the library drops a page by itself, and
\* the owner hears of it too late to look at its leases.
PageCollected(k) ==
    /\ ~(redisTab = "shown" /\ k = page)
    /\ cached' = Without(cached, {k})
    /\ touched' = Skipping(touched, {k})
    /\ UNCHANGED <<redisTab, page, others, fetches, sessions, releasing, released, started>>

\* The release call arrives, or is lost without a second try.
ReleaseCursor(l) ==
    /\ releasing' = releasing \ {l}
    /\ \/ sessions' = Without(sessions, {l})
       \/ UNCHANGED sessions
    /\ UNCHANGED <<redisTab, page, cached, touched, others, fetches, released, started>>

\* Five minutes pass, or the profile's adapter is replaced.
SessionExpires(l) ==
    /\ sessions' = Without(sessions, {l})
    /\ UNCHANGED <<redisTab, page, cached, touched, others, fetches, releasing, released, started>>

BrowseNext ==
    \/ \E f \in fetches : PageRead(f) \/ ReadFails(f)
    \/ \E p \in Patterns : HandleSearchChange(p)
    \/ First \/ Next_ \/ Refresh \/ HideExplorer \/ ShowExplorer \/ CloseExplorer
    \/ \E n \in {0, CacheBudget} : OtherTabsBrowse(n)
    \/ \E k \in DOMAIN cached : PageCollected(k)
    \/ \E l \in releasing : ReleaseCursor(l)
    \/ \E l \in DOMAIN sessions : SessionExpires(l)

BrowseSpec == BrowseInit /\ [][BrowseNext]_browseVars

-----------------------------------------------------------------------------
(* Properties.                                                              *)

\* "Release only leases no retained query still reaches": no page that the user
\* can still go on from, and no fetch under way, depends on a lease that the owner
\* has given back.
RetainedLeaseIsKept ==
    \A k \in DOMAIN cached : LeasesOf(cached, k) \cap released = {}

\* Every key that matches, in the order of the native replies.
KeysListed(p) == FlattenSeq([i \in DOMAIN Batches |-> KeysMatching(p, Batches[i])])

\* The keys a page's continuation still leads to, while its lease is alive.
Remaining(cursor) ==
    LET From(n) == IF n = 0 THEN <<>>
                   ELSE FlattenSeq([i \in 1 .. Len(Batches) - n + 1 |->
                                      KeysMatching(cursor.pattern, Batches[n + i - 1])])
    IN  IF cursor = None THEN <<>>
        ELSE IF cursor.kind = "scan" THEN From(cursor.native)
        ELSE SubSeq(sessions[cursor.lease].items, cursor.pos + 1, Len(sessions[cursor.lease].items))
               \o From(sessions[cursor.lease].native)

\* A page with everything its continuation still leads to is a final part of the
\* listing: "park the unreturned tail so the next page replays it instead of
\* skipping items", however pages were cut, shared, evicted and read again.
NoKeyIsSkipped ==
    \A k \in Pages(cached) :
        LeaseOf(cached[k].next) \subseteq DOMAIN sessions =>
            LET shown == cached[k].keys \o Remaining(cached[k].next)
                all == KeysListed(k.pattern)
            IN  shown = SubSeq(all, Len(all) - Len(shown) + 1, Len(all))
=============================================================================
