# Formal models of KamehaDB

KamehaDB is a desktop database client: a Go process (Wails) that owns every database
connection, and a React front end that calls it and hears its events. This directory
models the parts of both where goroutines, callbacks, late answers, failures and
restarts meet. The modules are checked with TLC on small instances; all but a few of the
safety properties are proved with TLAPS for every value of the constants (section 4).

`PROJECT.json` lists, machine-readably, the components, the runs, the map from each
definition to the source lines it models, the hazards, the findings and the theorems.

To run a check or a proof, for instance:
`tlc -workers 2 -config MCGuiRequests.cfg MCGuiRequests` and
`tlapm GuiRequestsProofs.tla`.

## 1. The system

### Inventory: the native side

| Component | State it keeps | Operations | What is hard | What must hold |
|---|---|---|---|---|
| **Provider manager** `dbcore/manager.go` | one entry per connection id (configuration, provider, waiters, retired, channels), the closes in flight, unreported close failures | Get, GetFor, GetWithGuard; Invalidate, InvalidateAndWait, InvalidateAndWaitWhere, Close; loader, construction and close goroutines | many callers share one construction, any of them may give up; retirement, construction and close run in separate goroutines with two mutexes and four channels | no provider is lost or closed unnoticed; nothing open after Close; errors surface; nobody hangs |
| **Database facade** `internal/database/database.go` | a table of reference-counted reader/writer locks, one per database file | Get (lock in the guard), WithMaintenance, Open | locks created and pruned on demand; lock order between the table, the file lock and the manager; two profiles on one file | mutual exclusion per file; no managed handle during a file operation; no deadlock |
| **GUI request jobs, SQL service, cache** `internal/api/{request-jobs,sql,cache}.go` | active jobs, tombstones of early cancellations, the query slot per connection, a TTL cache of metadata | begin, finish, cancel, cancelConnection, close; RunQuery, CancelQuery, ListTables... | cancel may overtake the call; the policy is read before the statement runs; shutdown | a cancelled query stops; policy changes bind; no job after close |
| **Streaming exports** `internal/api/export.go` | running exports, tombstones, a temporary file each | register, cancel, commit, finish, close | cancellation against the rename, the registration and shutdown | no partial destination; the answer is true; leaving the view stops the export |
| **Connections service, health loop** `internal/api/connections.go` | single-flight table of health checks, the profile rows | create, update, delete, test, health, backup, restore, MCP switch | an update disturbs every other component, in an order | caches and connections of the old profile go |
| **MCP adapter manager** `internal/mcp/manager.go` | one entry per profile with an adapter, in-flight count, credentials | WithConnection, Invalidate, SetCredential, ClearCredential, CloseAll | slow connects outside the state lock; entries replaced under calls | one adapter per entry, none leaked, retirement returns also when a connect does not, none stale |
| **MCP managed accounts** `internal/api/mcp.go`, `internal/mcp/provisioner.go`, `internal/store/{mcp,migrate}.go` | the account row, its credential, the database principal | prepare, provision, revoke, discard; recovery at start | the database and the row cannot change together; crashes; failed clean-ups | no principal without a record; a prepared account has none; none changes while it is served |
| **Schema watcher** `internal/schema/watcher.go` | cadence stop channels, LISTEN connections, reconnect timers | start/stop cadence and notify, ResumeAll, StopAll | calls that no lock holds apart, timers that fired before they were stopped, captures that outlive a stop | a cadence that is on goes on ticking; notifications that are on are tried again |
| **Terminals** `internal/terminal/terminal.go` | PTY sessions with a buffer and a streaming flag | spawn, attach, write, kill, pump, reap, sweep | order of buffered and streamed output, exits | no session out of reach, no output lost |
| **PostgreSQL tool jobs** `internal/maintenance/postgres.go` | the running pg_dump and pg_restore jobs | start, cancel, run | events before the answer that names the job | the dialog tells its own job's story |
| **MCP listener and tools**, **store and vault**, **DuckDB helper**, **AI providers and index**, **engines**, **SQL safety**, **log** | see `PROJECT.json` | | request/response code, I/O or pure functions | — |

### Inventory: the front end

| Component | State it keeps | What is hard | What must hold |
|---|---|---|---|
| **SQL editor** `components/sql-editor.tsx` | text, run in flight, results, offset, batch | runs overlap; a batch goes on between answers; abort and unmount; read-only profiles | nothing is sent after an abort; a read-only run only reads |
| **Statement splitter** same file, and `dbcore/sqlsafety` | none | two lexers must agree on where a statement ends | the editor cuts where the native check sees a semicolon |
| **Table grid** `components/table-view.tsx`, `lib/preview-navigation.ts` | order, search, size, position, cursors, the query cache | cursors of another view, placeholders, stale pages, mutations | no row skipped, the page is of the view |
| **Redis browser** `components/redis-explorer.tsx`, `lib/preview-cache.ts` | pages of a SCAN, leases on parked remainders, cached pages | leases shared by pages, aborted fetches, retries | a retained page keeps its lease; no key skipped |
| **MongoDB browser, pipeline** `components/mongo-view.tsx`, `components/mongo-query.tsx` | offsets of visited pages, count, run owner | pages cut by bytes, late counts, superseded runs | pages abut; results are of their inputs |
| **Federated canvas** `components/federated-query-canvas.tsx` | selected connections, one run's answers | overtaken runs, one failing of several | the merge is of one run, and whole |
| **AI chat** `components/ai-chat-panel.tsx`, `hooks/use-chat.ts` | messages, stream in flight, stored history | superseded streams, late history, change of connection | the panel shows its connection's newest chat |
| **Terminal tabs** `hooks/use-terminal-session.ts`, `components/mongo-shell.tsx` | status, session, queued events, subscription | answers after unmount, events before the answer, reloads | every session can be stopped |
| **Backup dialogs, export button** `hooks/use-postgres-tool-job.ts`, `components/native-csv-export-button.tsx` | job, phase, buffered events | as above | what is said is what was done |
| **Workspace tabs** `store/workspace-tabs.ts`, `components/workspace-tab-bar.tsx` | tabs, active tab, active connection | tabs of a connection that is being deleted; components that write the store themselves | bar, toolbar and profiles agree |
| **Schema timeline** `components/schema-timeline.tsx` | the watcher's switches | a status up to ten seconds old, calls of an unmounted timeline still under way | see the watcher |
| **Settings, dialogs, charts, shared UI, generated bindings, landing site** | form fields | — | — |

### How they interact

```
editor, grid, browsers ──► requestJobs.begin ─┐        shells, tool jobs, chat, watcher
        ▲ late, lost or      │                 │ cancelConnection        │ events (may overtake
        │ failed answers     ▼                 │                         ▼  the call's answer)
        └──── DB.get ──► Manager.GetWithGuard ──► guard: file lock     tabs, dialogs, panels
                             ▲                 │
ConnectionsService.UpdateConnection: store ► cancel jobs ► clear cache ► MCP Invalidate ► Manager.Invalidate
DB.WithMaintenance: file write lock ► Manager.InvalidateAndWaitWhere ► file operation ► ...Where again
main.go OnShutdown: requestJobs.close ► exports ► MCP CloseAll ► ... ► Manager.Close
MCP client ──► AdapterManager.WithConnection (its own adapters, its own entries)
```

A profile update is the event the native side has to survive: it is stored first and
then announced component by component, and each announcement races calls that read the
profile before. What the front end has to survive is its user: between a call and its
answer the view it was made for may show something else, be hidden, or be gone; and a
reload of the window takes the front end's state and leaves the native side's.

## 2. The modules

`KeyedLock` and `ProviderPool` are abstract specifications; the others are detailed
models, one per component, parameterised by CONSTANTS with named assumptions. An `MC*` module gives TLC
instances, a `*Proofs` module holds the theorems of the modules it extends. `Absent`
declares the value of what is not there, `Selection` is JavaScript's `filter`. An operator under a comment that begins with
"Mutant" is a plausible bug in the operation that follows it; no specification uses it,
it only shows that a property can fail.

| Module | Code |
|---|---|
| `ProviderPool`, `ProviderManager` | `dbcore/manager.go` |
| `KeyedLock`, `MaintenanceLock` | the lock table of `internal/database/database.go` |
| `FileMaintenance` | `DB.get`, `DB.WithMaintenance`, `DB.Open` on `ProviderManager` and `KeyedLock` |
| `FileLocks` | `MaintenanceLock` and `FileMaintenance` in one run |
| `GuiRequests` | `internal/api/{request-jobs,sql,cache}.go`, the update in `connections.go` |
| `McpAdapters`, `McpAccounts` | `internal/mcp/manager.go`; `internal/api/mcp.go` and what it calls |
| `McpProfile` | the two sides of one MCP profile in one run |
| `SqlEditor`, `SqlStatements`, `TableGrid`, `RedisBrowse`, `MongoBrowse`, `MongoPipeline`, `FederatedQuery`, `AiChat` | the view each is named for, down to the call that leaves the window (for `RedisBrowse` and `AiChat`, the native side as well) |
| `DataTabs` | a window with one of those views in use |
| `PsqlTerminal`, `MongoShell`, `ToolJobs`, `Exports`, `SchemaWatcher`, `WorkspaceTabs` | a part of the window and the native side behind it |
| `SessionTabs` | a window with one of those parts in use |

`FileLocks`, `McpProfile`, `DataTabs` and `SessionTabs` are sums: a variable says which
part acts, and the others stand still. The parts of a sum share no state — their code
meets only in what a part already contains (the keyed lock, the profile's switch, the
answers of calls) — so an interleaving of two of them shows nothing that each alone does
not, and one run explores all of them. A property of one part is a property of the sum.

### ProviderPool and ProviderManager — `dbcore/manager.go`

A step is one critical section of `m.mu`/`e.mu`, one receive from a channel, or one
call of a callback outside the locks. A receive from a channel that is already closed
is one step with the section that follows it.

* `ent[e]` is the `*entry`: `load` (the loader goroutine, `e.loaded`), `build`
  (`e.started`, the factory, `e.done`), `life` (`e.retired`, `e.cancel`, `e.closeCh`),
  `prov` (the provider, open, closed or failed to close), `waiters`, `cfg`. Entry
  identities are allocated once; `Entry` bounds how many.
* `entries`, `pending`, `retireErrs`, `closing`, `closeErr` are the manager's fields.
  `profile` is the store. `FileOf` says which file a version of a profile points at.
* `Get(c)` is `get`: join or create, wait for the configuration (`CheckEntry`), the
  guard, `StartOrJoin`, wait, `ReadResult`; `ContextDone` and `Leave` are giving up.
* `Administer(p)` and `Retirement(p)` are the retiring operations; `Background(e)` the
  loader, construction and close goroutines.
* `call[c].floor` and `call[p].seen` are history: what had settled, and which entries
  existed, when the call began.

`ProviderPool` is what those who ask for providers see of it: each connection has a
succession of generations, one current at a time; a generation opens its provider at most
once, gives it away only while it is current, and closes it after it was replaced; when
shutdown has ended, all are gone. `ImplementsPool` states the refinement. A generation is
an entry: absent before it is allocated, current until it is retired, leaving until its
close is finished (`Stage`). Waiters, loads, cancellations, the pending table and the
sweeps are below this level: the steps that touch only them map to stutters.

### KeyedLock and MaintenanceLock — `acquireMaintenanceLock`

`KeyedLock` is what the callers rely on: a reader/writer lock per key.
`MaintenanceLock` is the code: a table from keys to mutexes with reference counts
under `maintMu`, and Go's `sync.RWMutex` (external: a writer takes its turn and then
waits for the readers, later readers queue behind it and are let in together by its
unlock). `ImplementsKeyedLock` states the refinement with `KL == INSTANCE KeyedLock
WITH lock <- AbstractLock`.

### FileMaintenance — `DB.get`, `DB.WithMaintenance`, `DB.Open`

The composition. It EXTENDS `ProviderManager`, takes the file lock as an instance of
`KeyedLock` (which `MaintenanceLock` is shown to implement), and adds the two stages
around the manager's steps: a lookup asks for the read side inside its guard and
releases it when it returns; a maintainer resolves the file, takes the write side, runs
`InvalidateAndWaitWhere`, the file operation, `InvalidateAndWaitWhere` again. A prober
is `DB.Open` with its unmanaged provider. Every process runs one call.

### GuiRequests — `request-jobs.go`, `sql.go`, `cache.go`

The registry with its two limits, `RunQuery` step by step, `ListTables` over the
cache, and the four steps of `UpdateConnection`. The provider manager appears as two
atomic operations, Get and Invalidate. Tombstones are young (`early`) or past their
lifetime and not yet pruned (`expired`); no clock is modelled, expiry may happen at
any time.

### McpAdapters and McpAccounts — `internal/mcp`, `internal/api/mcp.go`

`WithConnection` reads the profile, then the credential, takes the entry, counts
itself, creates the adapter under `createMu` or reuses it, serves, leaves. One profile
suffices: both maps are keyed by profile. An adapter is named by the call that made
it. A connect need not end: a driver may never answer. `CloseAdapter` is the end of a
closing, which in a pool may take as long as the calls that use its connections; so
`RetireReturns` promises no immediate return, only that no retirement is held up by a
connect or by a call that waits for one.

`McpAccounts` is one profile's account row, the enable switch, the principals that exist
in the database, and the credential in memory. Every store write and database statement
may fail, a failed database statement may have taken effect, and `Restart` may happen
between any two steps; it runs the recovery of `migrate.go` and `NewRuntime`.
`ProbesFirst` selects the clean-up that looks whether the principal exists before it
drops it.

### The data views — `DataTabs`

* `SqlEditor`: `runs` are the calls of `executeQuery`; a run sends its next statement in
  the step that hears the answer to the one before. `Sendable` is the screening of the
  editor and of the native side. The profile's read-only flag may change at any time.
* `SqlStatements`: a text grows one character class at a time; `EditorCuts` and
  `NativeSemicolons` are the two lexers, as functions of the text.
* `TableGrid`, `MongoBrowse`: rows and documents are numbers in their order, a page is
  what the server admits from an offset or a cursor. TanStack Query appears as the code
  uses it: keys, placeholders, cancellation when a key is left, staleness, invalidation.
  A cell edit that fails invalidates nothing: the grid's own calls name the key
  `previewRows` (`table-view.tsx:280`, `:284`, `:317`), which no query has
  (`query-keys.ts:9`); after a success `useRunQuery` invalidates the right ones.
* `RedisBrowse`: pages carry leases on the remainder of a native SCAN reply; the cache's
  owner hands leases back when no page it retains refers to them. The native sessions,
  their budget and their expiry are part of it.
* `MongoPipeline`, `FederatedQuery`: a run belongs to the inputs it was started with, and
  answers in any order.
* `AiChat`: a chat is one question and its stream; the goroutine that serves it, the
  subscription, the abort and the stored history are modelled, its text is not.

### The session parts — `SessionTabs`

* `PsqlTerminal`, `MongoShell`: a session is numbered by the mount that started it. The
  goroutines that read a PTY and wait for its process, the manager's lock, and the queue
  of events and answers to the window are steps of their own. Psql is stopped with its
  display; mongosh is left running, rejoined, and killed with its tab.
* `ToolJobs`: the start call and `run` on one side, the hook with its buffer of events
  that come before the answer on the other.
* `Exports`: the export up to the rename and its deferred calls, `CancelExport` with the
  cancellations that come before their export, `closeExports`, and the button that
  starts an export, cancels it, and cancels it when its view is left. `promised` and
  `excused` are history: a cancellation was accepted in time; nobody was left to cancel,
  or the native side declined.
* `SchemaWatcher`: cadence loops, listeners and reconnects are kept as sequences, so that
  one that was stopped and still runs stays visible beside its successor. `doing` is how
  far each call has come with the row of the store, which it reads and writes in separate
  statements: a toggle goes by a status that may be old, so any call may come at any time,
  beside others and beside `ResumeAll`. Captures at ticks go by the in-flight flag, those
  at notifications do not. `StopAll` ends nothing that is under way; `Restart` keeps the
  row only. `wanted` is history: a StartNotify has succeeded and no call that switches
  notifications has begun since.
* `WorkspaceTabs`: the tab store's operations on tab, connection and pin, the sidebar's
  deletion of a profile in its steps, and what a reload restores. `apart` is history: the
  tab shown and the toolbar's connection were last set one without the other, which the
  choice of a connection, a start, the search's open tabs (`global-search.tsx:313`) and
  the MongoDB explorer (`mongo-explorer.tsx:161`) do.


## 3. The runs

| Run | Question | Bounds, and why they are enough |
|---|---|---|
| `provider_sweep` | no orphan, no work without a waiter, no waiter without work, nothing stale, Close final, a sweep closes and reports everything | 2 cancellable callers, 2 administrators (update or Close; where or Close), 1 connection, 2 entries, 1 update. Two callers give join, last waiter and leave-while-joining; two entries give one generation being closed while the next is built; a second administrator gives racing retirements and two concurrent Closes |
| `provider_live` | the manager is a pool; GetFor gets its configuration; closes and returns happen | 1 Get and 1 GetFor, 1 administrator with any of the four operations |
| `provider_await` *(violation)* | InvalidateAndWait waits for every provider of its connection | 2 updates and 1 InvalidateAndWait: two generations are needed |
| `file_maintenance` | the file is the maintainer's | 2 profiles on one file, 2 lookups, 1 maintainer, 1 prober, 2 entries |
| `file_locks` | the counted table is a keyed lock, prunes, and serves; lock and manager do not wait for each other for ever | lock table: 3 processes, 2 keys, 2 mutex identities (one per key is in use at a time, and a pruned one is used again), that is a writer, a reader and one that prunes or arrives; facade: 1 lookup, 1 maintainer, 1 administrator whose update may move a profile to another file |
| `gui_requests` | cancellation, policy, slot, shutdown | 3 queries against limits of 2 jobs and 1 tombstone, so that both limits are hit; 1 listing; 1 update that makes the connection read-only |
| `stale_metadata` *(violation)* | a profile edit invalidates dependent caches | 1 listing, 1 update |
| `mcp_profile` | adapters are owned and retirement returns; principals are recorded, prepared means unused, no serving while changing | adapters: 2 calls, so that one connects or waits while the other one is served, 1 update, 1 rotation, 1 CloseAll, 2 entries (one per call: an entry can be retired under each); the cap of 2 calls is not reached here, `SlotsReturned` proves its count for every number; accounts: 1 set-up flow that may run again after a restart, 2 revokes, 1 switch, 2 references |
| `mcp_stale_adapter` *(violation)* | no adapter older than the last Invalidate | 1 call, 1 update, 2 entries |
| `mcp_accounts_probe` *(violation)* | a prepared account has no principal, with PostgreSQL's probing clean-up | as the accounts of `mcp_profile` |
| `data_tabs` | no view shows or sends what its user has moved on from, no paging loses rows | editor: 3 runs of a single statement or a batch (a third run can overtake the second after the first was aborted); splitter: all texts of up to 6 of 8 character classes; grid: 3 rows with pages of 1 and 2, 1 delete; Redis: 5 keys in two native replies, 1 session, 4 fetches, a cache of one page; MongoDB: 4 documents, pages of 2, one of them too large to share a page, 6 clicks (enough for a deletion and the jumps and returns around it); pipeline: 2 inputs, 4 runs; canvas: 2 sources, 3 runs; chat: 2 connections, 2 chats |
| `session_tabs` | no native session out of reach, no output lost, no cancelled export replaces its file, the window agrees with what runs | psql: 2 mounts; mongosh: 2 mounts, 2 lines of output; tabs: 2 connections, 3 tabs; tool jobs: 2 with 1 line each; exports: 2 against limits of 1 job and 1 tombstone; watcher: 2 callers, 2 loops of either half and 3 starts, the reconnects included, in one life of the process (an old loop and its successor, a reconnect and the next), any number of restarts |

Symmetry is used in runs of invariants and action properties only, over values the
specification does not distinguish; `mcp_profile` checks liveness and has none. Deadlock is checked in every run of the native core:
where everything has returned a named stuttering step (`Halted`, `Returned`,
`AllReturned`) says so. In `data_tabs` and `session_tabs` it is not, because a window
whose user has used up the bounded number of clicks, runs or mounts really may stop.

All passing runs are exhaustive. The largest are `provider_sweep` (5.8 million distinct
states up to symmetry), `session_tabs` (5.2 million), `file_maintenance` (3.3 million),
`data_tabs` (3.2 million), `gui_requests` (1.6 million) and `mcp_profile` (0.8 million);
each takes less than four minutes with two workers.

Every property of a passing run has a mutant in `PROJECT.json`: a variant of one
operation that TLC finds to violate it under the same configuration. Properties that
belong to one question are conjoined under one name (`TabsAgree`, `JobsKeepTheirWord`,
`ViewsFollowTheirRuns`, ...); the conjuncts keep their names and comments in the module.

### What the runs show

The properties of the passing runs hold. Four statements of the repository's own
comments and documentation do not:

1. `provider_await` — `InvalidateAndWait` waits for the mapped entry or for *one*
   pending close. After two updates in a row two closes of the connection can be in
   flight, and it returns with one provider open. `InvalidateAndWaitWhere`, which file
   maintenance calls, waits for all of them.
2. `stale_metadata` — a metadata listing that began before a profile edit stores its
   result after the edit cleared the cache.
3. `mcp_stale_adapter` — a tool call that read the profile before an update and takes
   the entry after the Invalidate caches an adapter of the old profile in a fresh entry.
4. `mcp_accounts_probe` — when PostgreSQL provisioning fails and the clean-up's
   existence probe fails as well, the account is filed as `prepared` although its role
   may exist, and a revoke then deletes the row without contacting the database.

Further sentences of the documentation are stated as definitions of the modules, and
do not hold either. They have no run of their own; giving the name as an INVARIANT of
`MCDataTabs.cfg` or `MCSessionTabs.cfg` shows the counterexample.

| Module, definition | The sentence | What happens instead |
|---|---|---|
| `AiChat`, `FinishesOnDone` | `ai-assistant.md:59`, the desktop finishes on `done` | the end may be announced before the panel has subscribed |
| `AiChat`, `StopsTheNewest` | `ai-assistant.md:90`, `CancelChat` aborts the active stream | an older chat whose request becomes known later takes the newer one's place in what Stop cancels |
| `AiChat`, `ClearedStaysCleared` | `ai-assistant.md:61`, history loads and clears | a history that arrives after the panel was cleared is shown |
| `MongoPipeline`, `RowNumbersAreTrue` | `mongo-query.tsx:40`, the actual offset of the page | formatting an already formatted pipeline resets the offset while a page is on its way, and does not make its run late |
| `MongoShell`, `NoShellAfterClose` | `connections-and-workspace.md:178`, closing a shell's tab stops its session | of two starts of a remounted tab, only the one the tab keeps is stopped with it |
| `MongoShell`, `NoLeakedSubscription` | `mongo-shell.tsx:175`, the clean-up unsubscribes | a start that is answered after the clean-up subscribes |
| `PsqlTerminal`, `ExitIsReported` | `diagnostics-and-maintenance.md:80`, the exit is reported | psql exits before its start was announced: the replay (`use-terminal-session.ts:131`) queues the event again |
| `SchemaWatcher`, `NoOverlappingCaptures` | `schema-lifecycle.md:34`, the watcher prevents overlapping automatic captures for one profile (`watcher.go:66` too) | a notification starts a capture beside the cadence's (`:201` asks no flag); stopping the cadence during a capture deletes the flag (`:120`), so the next loop captures beside it; two starts at once leave two loops, one of which nothing can stop |
| `SchemaWatcher`, `NotifyStaysOff` | `watcher.go:276`, StopNotify cancels the listener | a listener that was just losing its connection schedules its reconnect after the stop, and a reconnect whose timer had fired connects after it; when the profile is gone it is scheduled again for ever |
| `SqlEditor`, `PagesTheShownQuery` | `sql-editor.tsx:839`, paginate keeping the query | the base is what was executed last, also while or although another query's result is shown |
| `SqlStatements`, `StatementsStartOutside` | `sql-editor.tsx:66`, literals are respected | a keyword after a blank line inside a literal starts a statement |
| `ToolJobs`, `CancelledDidNotComplete` | what a cancelled job is taken to say, that it did not complete | a cancel between the program's successful end and the last step of `run` is reported as cancelled |
| `WorkspaceTabs`, `PinnedFirst` | `workspace-tabs.ts:278`, pinned tabs sort to the front | a drag ignores pins |

### Fairness

* `ProviderManager`, and the facade in `FileLocks`: weak fairness of each goroutine (a caller's
  `Get`, an administrator, the retirement steps it runs, an entry's loader, construction
  and close, a maintainer, a prober). Loader, factory and close are assumed to return,
  with an error or not; the code bounds them by the entry's context and the drivers'
  timeouts. Ending a caller's context is never assumed.
* `MaintenanceLock` and the maintainers of `FileLocks`: weak fairness of each goroutine,
  and strong fairness of taking the writer's turn (`Lock`, `AcquireWrite`): Go's
  `sync.Mutex`, which serialises writers inside `RWMutex`, hands over to a waiter after
  a millisecond of starvation.
* `GuiRequests`: a call that has begun and can go on does, and a statement returns once
  its context is cancelled. A statement that is not cancelled need not return.
* `McpAdapters` (`RetireFairness`): a retirement that has begun takes its next step, and
  a call on an adapter ends, which `QueryTimeoutMs` sees to (`manager.go:20`, `:339`); a
  closing is owed its end only when no call uses the adapter. Nothing is owed to a
  connect, nor to a call on its way to one.
* Everywhere else no fairness is stated and only safety is claimed: the front end cannot
  count on an answer.

## 4. The proofs

Eight modules hold theorems. Each proves that an inductive invariant holds initially, is
kept by every action (one lemma per action, or per group of actions that touch the same
fields), and implies the properties. `PROJECT.json` lists the theorems, each with the
property of a run that it states.

`FileLocksProofs` extends `ProviderManagerProofs`, and `SessionTabsProofs` extends
`MongoShellProofs`; these and `DataTabsProofs` use `SequenceFacts`.

### ProviderManagerProofs

Assumptions: `ProcessAssumption`, `CallerFinite`, `DataAssumption`. The inductive
invariant `IInv` conjoins

* `TypeOK`, which `TypeCorrect` proves and no run repeats;
* `EntryInv` — the fields of an entry fit together (an open provider was built, a
  finished close was built first, an entry that never started was never closed);
* `ControlInv` — a goroutine works on an entry in use, and at most one takes an entry
  through `finishRetire`;
* `MapHoldsLiveEntries` — the map holds exactly the entries nothing has retired;
* `PendingTracksCloses` — `m.pending` holds exactly the retired, started entries whose
  close is not finished;
* `WaitersInv` — `waiters` is the number of callers that have not left;
* `NoAbandonedWork`;
* `CloserInv` — how far the goroutine that runs Close has got: what the map still holds
  is on its list, then what is pending is, then everything is closed.

`NoOrphanProvider` follows from the two table conjuncts and `EntryInv`; it is not
inductive alone because a step that retires an entry must know that it was in the map.
`NoAbandonedWork` needs `WaitersInv`: `leave` decides by the count. `CloseIsFinal` needs
`CloserInv`, and that no entry is created once `closing` has begun.

A second invariant, `Promises`, is relative to the first: what a loaded entry was loaded
from (`Loads`), what a GetFor supplied (`Supplied`), how far a sweep has come with the
entries it saw when it began (`Sweeps`), and where an unreported close failure is
(`Reported`). `SuppliedAlways`, `WhereCloses` and `FailuresSurface` follow. `NeverStale`
has the hypothesis that every lookup is a Get (`OnlyGets`), the condition under which
`NoStaleProvider` is checked: a GetFor may by design put an older configuration into the
map.

Two theorems stand on both. `PoolRefinement` maps every step of the manager to a step or
a stutter of `ProviderPool`. Most of it is that only two kinds of step move an entry
between the stages of a generation, a retirement and the end of a close; it needs one
more invariant, `Serving`: what the state of a provider is at each stage of its
construction and close, and that a caller works on an entry of the connection it asked
for.

`WorkMeetsWaiters` is the part of the liveness properties that is safety: nobody waits
without somebody at work who will end the wait. The invariant `Wakers` says who that is
for each channel the code receives from: an entry's construction for `e.done`; for a
close, the goroutine that set `e.retired` and has not handed the close on, which is the
only one in `finishRetire` for that entry; for `closeDone`, the first Close, which never
queues behind itself. That the one at work goes on is fairness, and TLC's part.

### FileLocksProofs

Assumptions: `ProcFinite`, `NoneIsNothing`, and those of the manager.

*The lock table.* The invariant says that the reference count of a key is the number of
processes on it, that all of them use the mutex in the table, that a mutex in use belongs
to one key, and that a mutex's turn, readers and queue agree with the control state of
the processes. It needs one conjunct the checked properties do not mention, that a
mutex's readers and its queue are disjoint; without it an unlock could admit a process
twice. From it follow `LockTypeCorrect`, `Pruning`, and `Refinement`: each step of the
code maps to a `Request`, `Acquire`, `Release` or a stutter. `Exclusion` is then the
mutual exclusion of the abstract lock, read off the code's state.

`QueuesEmpty` is what fairness may count on when it lets every waiter be served: a queued
reader that no unlock has admitted yet stands behind a writer on the same key that holds
the mutex or waits only for readers already let in. It needs a second invariant,
`QueueInv`, that a mutex has a queue only while a writer has its turn. Nobody waits at a
mutex that was pruned, since whoever it waits for is on its own key.

*The facade.* The manager's invariants carry over to the composition, whose only new
calls of the manager's operations are a maintainer's sweeps. `FileInv` adds which side of
the keyed lock each goroutine has where it relies on it: a lookup starts a construction
under the read side of the file its entry is on, a maintainer sweeps and works under the
write side. So between a maintainer's `Acquire` and its `Release` no construction can
start on the file, and the sweep has closed what was there before
(`FileIsTheMaintainers`).

`FailureStopsFn`, that the file operation does not run after a close the maintainer asked
for has failed, has a hypothesis: the administrators beside the maintainers only update
profiles (`UpdatesBeside`). The hypothesis is needed. A Close or an InvalidateAndWait that
runs at the same time may take the failure for itself, since each failure is reported
once; TLC finds this when `MCFileMaintenance` gives its administrator these operations.
`file_maintenance` has the hypothesis by its constants.

The manager's own promises survive the composition. `FacadeIsAPool` maps every step of a
lookup, a maintainer and a prober to a step of `ProviderPool` or a stutter: a maintainer
only picks which entries to sweep, and a lookup only delays the manager's answer.
`LockOrderIsKept` is about the two kinds of waiting, for a file's lock and for the
manager's constructions and closes, which the code nests in one order only. Whoever has a
file's lock waits in the manager, if at all, for a construction that has begun, or for a
close in the hands of a goroutine that does not itself wait for a file. The invariant adds
where each goroutine may be while it waits for a lock (`AskersInv`): a lookup in its
guard, before it has an entry to start; a maintainer before its first sweep, with no close
in its hands; nobody else ever.

`LocksKeepTheirWord` puts the halves together: `FileMaintenance` relies on a keyed lock,
the code's table is one, and on it the facade keeps the file, the pool and the order.

### GuiRequestsProofs

Assumption: `GuiAssumption`. The invariant ties the registry to the calls (a query has a
job exactly while it is between `begin` and `finish`), follows an accepted cancellation
from the tombstone into the context of the query it came before, and says for each step
of an update which policies may still run. `PolicyIsRespected` rests on its order: the
profile is stored before the jobs are cancelled, so a query that read the old policy was
either registered in time to be cancelled or reads the new one.

`CloseDrains` is what is safety in `CloseTerminates`. Once `close` has begun, every call
it waits for is cancelled (`NothingHoldsUpClose`), no call joins them, and each step one
of them takes lowers the number of steps it has left (`ClosingDrains`). What remains to
liveness is that those steps are taken: the runtime's fairness, and drivers that return
when their context is cancelled.

### McpProfileProofs

*Adapters.* Assumption: `AdapterAssumption`, of which the proof uses that there are at
least as many entries as calls. The invariant says where a call stands (`Places`), what
an entry's fields may be (`Entries`), that only the holder of `createMu` connects for an
entry (`Creating`), and who owns each open adapter (`Owned`). `OwnedAlways` is the last.
`SlotsReturned` adds the count of `MaxConcurrentCallsPerProfile`: `inflight` is the number
of calls between the guard and the deferred decrement, on the entry each one joined, also
when that entry has been retired and another one is mapped. With `Creating` it also shows
that a call waiting for `createMu` waits for one that connects, stores or discards, and so
waits for no other call.

*Accounts.* Assumption: `AccountAssumption`, and the hypothesis `OneSetup`: the clean-up
always drops (`~ProbesFirst`; with the probing one the property is false, see
`mcp_accounts_probe`), and at most one set-up flow. The invariant rests on the claim: an
operation that changes the row holds it, and a restart, which releases it, runs the
recovery first. What an operation knows of the principals at each of its steps then gives
`Recorded`, `Prepared` and `Unserved`.

### SequenceFacts

Facts about appending, removing, replacing and picking that the front end's lists share.
The library's induction theorems take an operator as a parameter, which the provers
cannot instantiate. Over the positions of a sequence none is needed: `UpTo` takes the
*set* of the positions for which a claim holds, and `Backwards` takes it from the last
position to the first. `Recursion` says that the recursive function that folds a sequence
exists, `JumpRecursion` that one that jumps ahead does. With them the lemmas on `Picked`
say what `filter` returns: which elements, in which order, how many. The rest is about
cutting and joining: `RestOfRest` (a final part of a final part is one), `CutInTwo`,
`Regroup`.

### MongoShellProofs

The output of a session reaches a terminal by two ways, the text that the attach took
from the buffer and the stream of events after it, and the first events may overtake the
answer with the text. The invariant names the number k of pieces at which the one ends
and the other begins: `Streamed` says that what was heard, what is queued and what is
about to be sent lies after k, in order and without a repetition; `NothingIsLost`, that
together they are all that was written after k; `Joining`, where the first k pieces are
between the attach and the screen. `OutputIsKept` and `OrphansAreReplaced` follow.

### SessionTabsProofs

Assumptions: those the parts declare. Each part has its own invariant, and `PartsRun`
shows that the window's specification is one of each part.

* *Timeline*: the loop whose stop channel is in the map was not told to stop, since only
  what takes the channel out closes it; the in-flight flag has a capture behind it, for a
  stop deletes it and a capture's end resets it; and from each listener that is on, the
  way leads over its break, the timer and the attempt to the next one
  (`WatcherKeepsGoing`). That callers overlap costs nothing here: no step looks at the row
  to decide which loops run. What it does cost is not among the properties: a cadence
  toggle and a notification toggle may each write back what the other one has just
  changed in the row, and a resume whose LISTEN fails leaves the row disabled, so that
  "enabled watchers resume" (`schema-lifecycle.md:12`) ends with it.
* *Exports*: a promised cancellation is the export's flag or one of the native side's
  early cancellations, whose number is bounded; an export whose view was left has its
  cancellation under way, or was excused (`JobsKept`). That cancellation may still come
  after the rename.
* *Tool jobs*: what the dialog keeps and what the channel holds is one stream of the
  job's events, with one final event at its end that says what the job came to.
* *psql*: an exit that names a session comes after its process was reaped, so replaying
  the events kept before the start's answer ends no session that lives (`NoOrphans`).
* *Tabs*: a table tab's identity tells its connection, and no two tabs have one. What the
  store's filters and moves do is said as what they pick of the old list. The toolbar
  agrees with the tab unless `apart` (`TabsAlwaysAgree`).

### DataTabsProofs

Assumptions: those the views declare. Again one invariant per view; `ViewsRun` shows that
the tab's specification is one of each.

* *SQL editor*: everything a run has sent was accepted under the policy the run began
  with (`ReadOnly`); `AbortIsFinal` is an action property from the same invariant.
* *Table grid*: a page that is cached and fresh, or on display and at rest, has no rows
  but those of the table, those being deleted, and those whose deletion was not answered.
  Each step of a deletion keeps this set from shrinking, until the answer makes every page
  stale. A cursor, in a bookmark or in a cached page, is of the view of its key
  (`GridStaysCurrent`). `PlaceInv` says where, while no row
  has been deleted: a cursor of the paging or of a page leads to the same rows as the
  offset beside it, and a page's rows are those at its offset in the listing.
* *Redis browser*: fetches have numbers of their own, a fetch that was not aborted goes on
  with the lease of a cached page or with none, and pruning hands back the leases of the
  pages it takes out that no page left in refers to (`LeasesKept`). `SkipInv` follows the
  listing: the keys of a page, what the parked remainder still holds behind its cursor,
  and the replies the server has not given yet are together a final part of it, as long as
  the cursor's lease is alive. For this `BrowseAssumption` tells `None` from keys and
  cursors, as the code's `undefined` is.
* *MongoDB collection and pipeline*: the offsets visited adjoin, each being the one before
  and the documents its page admitted. For the collection this holds while no offset was
  guessed (`PagesAbutAlways`): `guessed` is history, set when a page number was jumped to
  or when a deletion moved the documents. An earlier version of the model forgot it too
  soon, when the paging was reset, although the key, and with it the page on display, may
  stay the same; no run was long enough to notice, and the proof did not go through.
* *SQL text*: both lexers settle what they see from the end of the text, so the proof goes
  by `Backwards`. Where the native lexer is at a visible position of a well-formed text,
  nothing is open, and there the editor goes on where it does (`SameSkip`); so from each
  position that the native lexer reaches, both see the same (`CutsAgree`).
* *Federated canvas*: those that answered and those that failed are the sources asked, and
  only the newest run merges.
* *Chat panel*: it loads while the chat that its sequence number stands for is not over.

`ViewsFollow`, `PanelStaysTrue` and `NothingSkipped` collect what these say of the
properties of `data_tabs`; the last joins the grid's, the Redis browser's and MongoDB's
parts of `NothingIsSkipped`.

### Only model-checked

* Liveness under fairness is outside the prover's reach: `RetiredIsClosed`,
  `EverybodyReturns`, `EverybodyServed`, `FileWorkEnds`, `CloseTerminates`,
  `RetireReturns`.

Every other property of a passing run is the statement of a theorem.
No module uses a RECURSIVE operator.

## 5. What is abstracted, and what is not modelled

* Configurations, profiles and credentials are version numbers; an error is a failure
  without its text. Errors that the code deduplicates with `errors.Is` are named by
  the entry they are about. Rows, documents and keys are numbers in their order; a
  statement is its kind; a text of the splitter is made of character classes.
* `McpAccounts` is checked and proved with one set-up flow at a time. With two of them
  and a revoke in between, the later flow's credential can end up under the earlier
  one's row (`api/mcp.go:205`); the desktop disables its button while a set-up runs. The
  ignored failure of the last state change (`api/mcp.go:276`) is part of the model.
* The cap of calls (`mcp/manager.go:475`) is per entry, and an Invalidate replaces the
  entry: no bound across entries is claimed.
* `NoManagedProviderDuringFn` speaks of managed providers: a connection test's provider
  outlives the read lock (`database.go:216`), as
  `docs/llm/architecture/engine-support.md` explains.
* `connections.go:234` (update and delete check for a managed account and act later) and
  `:256` (jobs are cancelled before the provider is retired): the second is part of
  `GuiRequests`; the first relates two modules that share no state here.
* Of the provisioners PostgreSQL's is the model; of the statements of a provisioner only
  their effect on the principal's existence.
* `Exports`: the policy check, the lookup and the driver's rows are one step that
  succeeds or fails; the rename is atomic, as the file system's is.
* `WorkspaceTabs`: what the sidebar, the search and the MongoDB explorer offer is of the
  connections the cached list shows; the search's own results may be older by its delay
  and a fetch (`global-search.tsx:69`).
* `SchemaWatcher`: the store answers; the watcher ignores its errors.
* The sum modules explore one part at a time; section 2 says why that is enough.

Not modelled, each with its reason in `PROJECT.json`: the health checks' single-flight
table and loop (`connections.go:436`, listed as a hazard); the MCP listener and its
JSON-RPC; schema snapshots, diff and migration; encryption and SQLite transactions of
the store; the DuckDB helper process; AI providers and the embedding index; result
budgets and CSV formatting; the engine adapters; the log. Of the front end: markup,
forms, charts, statistics pages, autocompletion, settings — components whose only state
is a form's or one query's — and the bindings generated from the Go types and the
landing site, which have no protocol at all. These account for most of the lines that no
definition is mapped to.

## 6. Plan

Done: the native core in the order lock table, provider manager, file maintenance, GUI
requests, MCP adapters and accounts; the data views and the session parts with the
native sides of terminals, tool jobs, exports, chat and watcher; the proofs of section 4.

What would come next:

1. The health checks' single-flight table beside the update in `GuiRequests`.
2. Shutdown as one protocol: the order of the calls in `main.go`, composing request
   jobs, exports, adapters and the manager.
3. Abstract specifications of the front end's lists, as `ProviderPool` is of the manager.
