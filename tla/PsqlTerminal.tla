----------------------------- MODULE PsqlTerminal -----------------------------
(***************************************************************************)
(* The embedded psql of a workspace tab, from the hook of the tab          *)
(* (hooks/use-terminal-session.ts, lib/terminal-session-state.ts,          *)
(* components/postgres-psql-tab.tsx) to the service that starts it         *)
(* (internal/api/terminal.go) and the goroutines that read its PTY and     *)
(* wait for its process (internal/terminal/terminal.go).                   *)
(*                                                                         *)
(* Only the tab on display is mounted: hiding or closing it stops its      *)
(* session, and every mount starts a session of its own, so a mount's      *)
(* number names its session.  Events of every session and the answers of   *)
(* calls come to the window through one queue.                             *)
(***************************************************************************)
EXTENDS Absent, Integers, Sequences, SequencesExt

CONSTANTS
    MaxMounts,  \* bound: times the tab is shown
    MaxChunks,  \* bound: pieces of output a process writes
    Unnamed     \* the session id before StartPostgresPsqlSession assigns it

ASSUME PsqlAssumption ==
    /\ MaxMounts \in Nat \ {0} /\ MaxChunks \in Nat
    /\ Unnamed \notin Nat /\ None \notin Nat /\ Unnamed # None

VARIABLES
    mountNo,    \* the current or last mount, 0 before the first
    mounted,    \* isMountedRef
    hook,       \* the hook's state and refs
    spinning,   \* the window's thread is in a loop that never ends
    calls,      \* mount -> how far StartPostgresPsqlSession has come
    process,    \* mount -> its psql: none, running, exited, or reaped (exit emitted)
    output,     \* mount -> pieces of output that the pump has not read
    toWindow,   \* events and answers on their way to the window
    stops,      \* StopTerminalSession calls under way
    forgotten   \* sessions whose window was reloaded (history)

psqlVars == <<mountNo, mounted, hook, spinning, calls, process, output, toWindow, stops, forgotten>>

Mount == 1 .. MaxMounts

Event(type, id) == [type |-> type, id |-> id]

FreshHook == [status |-> "idle", session |-> None, pending |-> <<>>, listening |-> FALSE]

PsqlTypeOK ==
    /\ mountNo \in 0 .. MaxMounts /\ {mounted, spinning} \subseteq BOOLEAN
    /\ hook.status \in {"idle", "starting", "running", "exited", "error"}
    /\ hook.session \in Mount \cup {None}
    /\ calls \in [Mount -> {"none", "sent", "spawned", "named", "announced", "returned"}]
    /\ process \in [Mount -> {"none", "running", "exited", "reaped"}]
    /\ output \in [Mount -> 0 .. MaxChunks]
    /\ stops \subseteq Mount /\ forgotten \subseteq Mount

PsqlInit ==
    /\ mountNo = 0 /\ mounted = FALSE /\ hook = FreshHook /\ spinning = FALSE
    /\ calls = [m \in Mount |-> "none"] /\ process = [m \in Mount |-> "none"]
    /\ output = [m \in Mount |-> 0]
    /\ toWindow = <<>> /\ stops = {} /\ forgotten = {}

-----------------------------------------------------------------------------
(* The service and the terminal manager.                                    *)

Emit(e) == toWindow' = Append(toWindow, e)

\* The sink reads sessionID, which the caller assigns when SpawnWithSink is back.
NameOf(m) == IF calls[m] = "spawned" THEN Unnamed ELSE m

SpawnPsql(m) ==
    /\ calls[m] = "sent"
    /\ calls' = [calls EXCEPT ![m] = "spawned"]
    /\ process' = [process EXCEPT ![m] = "running"]
    /\ output' = [output EXCEPT ![m] = MaxChunks]
    /\ UNCHANGED <<mountNo, mounted, hook, spinning, toWindow, stops, forgotten>>

\* psql is not there, or the profile is gone.
SpawnFails(m) ==
    /\ calls[m] = "sent"
    /\ calls' = [calls EXCEPT ![m] = "returned"]
    /\ Emit(Event("failed", m))
    /\ UNCHANGED <<mountNo, mounted, hook, spinning, process, output, stops, forgotten>>

AssignSessionId(m) ==
    /\ calls[m] = "spawned"
    /\ calls' = [calls EXCEPT ![m] = "named"]
    /\ UNCHANGED <<mountNo, mounted, hook, spinning, process, output, toWindow, stops, forgotten>>

EmitStarted(m) ==
    /\ calls[m] = "named"
    /\ calls' = [calls EXCEPT ![m] = "announced"]
    /\ Emit(Event("started", m))
    /\ UNCHANGED <<mountNo, mounted, hook, spinning, process, output, stops, forgotten>>

ReturnSession(m) ==
    /\ calls[m] = "announced"
    /\ calls' = [calls EXCEPT ![m] = "returned"]
    /\ Emit(Event("answer", m))
    /\ UNCHANGED <<mountNo, mounted, hook, spinning, process, output, stops, forgotten>>

\* pump: what is left in the PTY is read even after the process has exited.
Pump(m) ==
    /\ output[m] > 0
    /\ output' = [output EXCEPT ![m] = @ - 1]
    /\ Emit(Event("data", NameOf(m)))
    /\ UNCHANGED <<mountNo, mounted, hook, spinning, calls, process, stops, forgotten>>

PsqlExits(m) ==
    /\ process[m] = "running"
    /\ process' = [process EXCEPT ![m] = "exited"]
    /\ UNCHANGED <<mountNo, mounted, hook, spinning, calls, output, toWindow, stops, forgotten>>

Reap(m) ==
    /\ process[m] = "exited"
    /\ process' = [process EXCEPT ![m] = "reaped"]
    /\ Emit(Event("exit", NameOf(m)))
    /\ UNCHANGED <<mountNo, mounted, hook, spinning, calls, output, stops, forgotten>>

\* Kill closes the PTY, so that the pump ends, and kills the process.
Killed(m) ==
    /\ process' = [process EXCEPT ![m] = IF @ = "running" THEN "exited" ELSE @]
    /\ output' = [output EXCEPT ![m] = 0]

StopSession(m) ==
    /\ stops' = stops \ {m}
    /\ Killed(m)
    /\ UNCHANGED <<mountNo, mounted, hook, spinning, calls, toWindow, forgotten>>

\* sweep: a session that is SessionTimeout old, whoever still uses it.
Sweep(m) ==
    /\ process[m] = "running"
    /\ Killed(m)
    /\ UNCHANGED <<mountNo, mounted, hook, spinning, calls, toWindow, stops, forgotten>>

-----------------------------------------------------------------------------
(* The hook.                                                                *)

\* The tab is shown and its terminal is ready: start().
ShowPsql ==
    /\ ~mounted /\ ~spinning /\ mountNo < MaxMounts
    /\ mountNo' = mountNo + 1 /\ mounted' = TRUE
    /\ hook' = [FreshHook EXCEPT !.status = "starting", !.listening = TRUE]
    /\ calls' = [calls EXCEPT ![mountNo + 1] = "sent"]
    /\ UNCHANGED <<spinning, process, output, toWindow, stops, forgotten>>

\* stop(), when the tab is hidden or closed.
HidePsql ==
    /\ mounted /\ ~spinning
    /\ mounted' = FALSE /\ hook' = FreshHook
    /\ stops' = IF hook.session = None THEN stops ELSE stops \cup {hook.session}
    /\ UNCHANGED <<mountNo, spinning, calls, process, output, toWindow, forgotten>>

\* The window is reloaded: what was on its way to it is lost, and so are the
\* sessions it held.
Reload ==
    /\ forgotten' = {m \in Mount : calls[m] # "none"} /\ forgotten' # forgotten
    /\ mounted' = FALSE /\ hook' = FreshHook /\ spinning' = FALSE
    /\ toWindow' = <<>>
    /\ UNCHANGED <<mountNo, calls, process, output, stops>>

\* applyEvent and reduceTerminalSessionEvent, for an event of the hook's session.
Applied(h, e) ==
    CASE e.type = "data" -> h
      [] e.type = "started" -> [h EXCEPT !.status = "running"]
      [] e.type = "exit" -> [h EXCEPT !.status = "exited", !.session = None, !.listening = FALSE]

ApplyEvent(h, e) ==
    IF h.session = None THEN [h EXCEPT !.pending = Append(@, e)]
    ELSE IF e.id = h.session THEN Applied(h, e) ELSE h

\* The pending events are applied in turn, over the very array that applyEvent
\* appends to once an exit among them has ended the session: it never runs out.
RanOut(h, m) ==
    \A i \in DOMAIN h.pending :
        h.pending[i] = Event("exit", m) => i = Len(h.pending)

Replayed(h, m) ==
    LET after[n \in 0 .. Len(h.pending)] ==
            IF n = 0 THEN [h EXCEPT !.session = m] ELSE ApplyEvent(after[n - 1], h.pending[n])
    IN  [after[Len(h.pending)] EXCEPT !.pending = <<>>]

Take(e) == toWindow # <<>> /\ Head(toWindow) = e /\ toWindow' = Tail(toWindow) /\ ~spinning

ReceiveEvent ==
    \E m \in Mount \cup {Unnamed}, type \in {"data", "started", "exit"} :
        /\ Take(Event(type, m))
        /\ hook' = IF hook.listening THEN ApplyEvent(hook, Event(type, m)) ELSE hook
        /\ UNCHANGED <<mountNo, mounted, spinning, calls, process, output, stops, forgotten>>

\* Mutant: a late answer is dropped without stopping what was started.
LateAnswerDropped(m) ==
    /\ Take(Event("answer", m))
    /\ IF mounted /\ m = mountNo
       THEN /\ hook' = Replayed(hook, m)
            /\ spinning' = ~RanOut(hook, m)
            /\ UNCHANGED stops
       ELSE UNCHANGED <<hook, spinning, stops>>
    /\ UNCHANGED <<mountNo, mounted, calls, process, output, forgotten>>

\* The answer of startSession; if the mount that asked is gone, what it started
\* is stopped.
ReceiveAnswer(m) ==
    /\ Take(Event("answer", m))
    /\ IF mounted /\ m = mountNo
       THEN /\ hook' = Replayed(hook, m)
            /\ spinning' = ~RanOut(hook, m)
            /\ UNCHANGED stops
       ELSE /\ stops' = stops \cup {m}
            /\ UNCHANGED <<hook, spinning>>
    /\ UNCHANGED <<mountNo, mounted, calls, process, output, forgotten>>

ReceiveFailure(m) ==
    /\ Take(Event("failed", m))
    /\ hook' = IF mounted /\ m = mountNo THEN [FreshHook EXCEPT !.status = "error"] ELSE hook
    /\ UNCHANGED <<mountNo, mounted, spinning, calls, process, output, stops, forgotten>>

PsqlNext ==
    \/ ShowPsql \/ HidePsql \/ Reload \/ ReceiveEvent
    \/ \E m \in Mount :
          \/ SpawnPsql(m) \/ SpawnFails(m) \/ AssignSessionId(m) \/ EmitStarted(m) \/ ReturnSession(m)
          \/ Pump(m) \/ PsqlExits(m) \/ Reap(m) \/ Sweep(m)
          \/ ReceiveAnswer(m) \/ ReceiveFailure(m)
    \/ \E m \in stops : StopSession(m)

PsqlSpec == PsqlInit /\ [][PsqlNext]_psqlVars

-----------------------------------------------------------------------------
(* Properties.                                                              *)

\* No psql outlives its tab unnoticed: one that runs is still being started, is
\* the session of the tab on display, is being stopped, or belonged to a window
\* that was reloaded and is left to the sweep.
NoOrphanPsql ==
    \A m \in Mount : process[m] = "running" =>
        \/ calls[m] # "returned"
        \/ Event("answer", m) \in Range(toWindow)
        \/ mounted /\ hook.session = m
        \/ m \in stops
        \/ m \in forgotten

\* "Start failures, exit, and exit-code conditions are reported through
\* terminal-session events": when nothing is on its way to the window any more,
\* a tab whose psql has exited does not show it as running, and the window is
\* not caught in replaying its events.  Violated when psql exits before its start
\* has been announced.
ExitIsReported ==
    /\ ~spinning
    /\ mounted /\ toWindow = <<>> /\ hook.session # None => process[hook.session] # "reaped"
=============================================================================
