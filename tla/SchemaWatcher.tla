---------------------------- MODULE SchemaWatcher ----------------------------
(***************************************************************************)
(* The schema watcher of one PostgreSQL connection                         *)
(* (internal/schema/watcher.go): the cadence, a loop that captures a       *)
(* snapshot at every tick, and the notify listener, a loop on a LISTEN     *)
(* connection of its own that captures one at every notification and       *)
(* schedules a reconnect when the connection breaks.  A row of the store   *)
(* says what to resume at the next start.                                  *)
(*                                                                         *)
(* The calls come from the timeline, whose buttons go by a status that is  *)
(* up to ten seconds old, or not yet there, and are disabled by their own  *)
(* component only (schema-timeline.tsx); so any call may come at any time, *)
(* beside others and beside ResumeAll of the start.  StopAll belongs to    *)
(* the shutdown.                                                           *)
(*                                                                         *)
(* Time is not modelled: a tick, a notification, the expiry of the         *)
(* reconnect timer and a broken connection may come at any moment.  The    *)
(* store answers: its errors, which the watcher ignores, are left out.     *)
(***************************************************************************)
EXTENDS Absent, Integers, Sequences, FiniteSets

CONSTANTS
    Caller,   \* the goroutines that call the watcher
    MaxLoops, \* bound: loops of either half started in one life of the process
    MaxStarts \* bound: these loops and the reconnects scheduled, together

ASSUME WatcherAssumption ==
    {MaxLoops, MaxStarts} \subseteq Nat /\ None \notin Nat

VARIABLES
    row,         \* the schema_watchers row: what is enabled
    profileKept, \* does the connection's profile still exist?
    doing,       \* what each caller is doing
    closing,     \* StopAll has run
    cadences,    \* the cadence loops, in the order of their start
    cadenceStop, \* the map's entry: the loop to be stopped, or None
    inFlight,    \* cadenceInFlight
    listeners,   \* the notify loops, in the order of their start
    listener,    \* notifyListeners' entry
    timer,       \* reconnectTimers' entry: a scheduled reconnect, or None
    reconnects,  \* every reconnect scheduled, and how far it has come
    wanted       \* a StartNotify has succeeded, and since then neither a StartNotify nor
                 \* a StopNotify has begun, nor StopAll run (history)

cadenceVars == <<cadences, cadenceStop, inFlight>>
notifyVars == <<listeners, listener, timer, reconnects, wanted>>
watcherVars == <<row, profileKept, doing, closing, cadenceVars, notifyVars>>

\* A call is "of" the cadence or of the notifications and turns it on or off; ResumeAll
\* is a caller too, and goes on to the notifications after the cadence when both were enabled.
Idle == [of |-> "none", step |-> "idle", on |-> FALSE, seen |-> None, after |-> FALSE]
Called(half, on, after) == [of |-> half, step |-> "told", on |-> on, seen |-> None, after |-> after]
ToResume(step, after) == [Idle EXCEPT !.of = "resume", !.step = step, !.after = after]

WatcherTypeOK ==
    /\ row \in [exists : BOOLEAN, cadence : BOOLEAN, notify : BOOLEAN]
    /\ \A c \in Caller :
          /\ doing[c].of \in {"none", "resume", "cadence", "notify"}
          /\ doing[c].step \in {"idle", "list", "cadence", "notify", "told", "read", "cleared",
                                "reread", "done"}
    /\ \A i \in DOMAIN cadences :
          cadences[i].loop \in {"running", "told", "ended"} /\ cadences[i].capturing \in BOOLEAN
    /\ cadenceStop \in DOMAIN cadences \cup {None}
    /\ {inFlight, profileKept, closing, wanted} \subseteq BOOLEAN
    /\ \A l \in DOMAIN listeners :
          /\ listeners[l].loop \in {"running", "told", "rescheduling", "ended"}
          /\ listeners[l].capturing \in BOOLEAN
    /\ listener \in DOMAIN listeners \cup {None} /\ timer \in DOMAIN reconnects \cup {None}
    /\ \A i \in DOMAIN reconnects :
          reconnects[i] \in {"pending", "fired", "connecting", "failed", "over"}

WatcherInit ==
    /\ row = [exists |-> FALSE, cadence |-> FALSE, notify |-> FALSE] /\ profileKept = TRUE
    /\ doing = [c \in Caller |-> Idle] /\ closing = FALSE
    /\ cadences = <<>> /\ cadenceStop = None /\ inFlight = FALSE
    /\ listeners = <<>> /\ listener = None /\ timer = None /\ reconnects = <<>>
    /\ wanted = FALSE

Started == Len(cadences) + Len(listeners) + Len(reconnects)
MayStartLoop == Len(cadences) + Len(listeners) < MaxLoops /\ Started < MaxStarts

-----------------------------------------------------------------------------
(* The row, which both halves read by one statement and write by another.   *)

\* A caller takes a step of its call, or is through with it.
Proceeds(c, step, seen) == doing' = [doing EXCEPT ![c].step = step, ![c].seen = seen]

Finished(c) ==
    doing' = [doing EXCEPT ![c] = IF @.after THEN ToResume("notify", FALSE) ELSE Idle]

OnlyTheRow == UNCHANGED <<profileKept, closing, cadenceVars, notifyVars>>

\* StopCadence and StopNotify read the row, and StartCadence and StartNotify once more;
\* StartNotify has loaded the profile before.
ReadRow(c) ==
    /\ \/ doing[c].step = "told" /\ Proceeds(c, "read", row)
       \/ /\ doing[c].step = "cleared"
          /\ doing[c].of = "notify" => profileKept
          /\ Proceeds(c, "reread", row)
    /\ UNCHANGED row /\ OnlyTheRow

Off(seen, half) ==
    IF half = "cadence" THEN [seen EXCEPT !.cadence = FALSE] ELSE [seen EXCEPT !.notify = FALSE]

ClearRow(c) ==
    /\ doing[c].step = "read"
    /\ row' = IF doing[c].seen.exists THEN Off(doing[c].seen, doing[c].of) ELSE row
    /\ IF doing[c].on THEN Proceeds(c, "cleared", None) ELSE Finished(c)
    /\ OnlyTheRow

-----------------------------------------------------------------------------
(* The cadence: StartCadence and StopCadence.                               *)

\* The loop of the map's entry is told to stop.
CadenceTold ==
    /\ cadences' = [i \in DOMAIN cadences |->
                      IF i = cadenceStop THEN [cadences[i] EXCEPT !.loop = "told"] ELSE cadences[i]]
    /\ cadenceStop' = None

\* What StopCadence does under the lock; starting begins with it.
StopCadence(c, on, after) ==
    /\ CadenceTold /\ inFlight' = FALSE
    /\ doing' = [doing EXCEPT ![c] = Called("cadence", on, after)]
    /\ UNCHANGED <<row, profileKept, closing, notifyVars>>

ToggleCadence(c, on) ==
    /\ doing[c] = Idle /\ ~closing
    /\ StopCadence(c, on, FALSE)

WriteCadence(c) ==
    /\ doing[c].of = "cadence" /\ doing[c].step = "reread"
    /\ row' = [exists |-> TRUE, cadence |-> TRUE, notify |-> doing[c].seen.notify]
    /\ Proceeds(c, "done", None)
    /\ OnlyTheRow

\* The entry takes the place of whatever a call beside this one has put there.
CadenceStarts(c) ==
    /\ doing[c].of = "cadence" /\ doing[c].step = "done"
    /\ MayStartLoop
    /\ cadences' = Append(cadences, [loop |-> "running", capturing |-> FALSE])
    /\ cadenceStop' = Len(cadences) + 1
    /\ Finished(c)
    /\ UNCHANGED <<row, profileKept, closing, inFlight, notifyVars>>

\* A tick is skipped while the flag says that a capture is in flight.  A loop that is
\* told to stop may find a tick as well, and takes either.
Tick(i) ==
    /\ ~cadences[i].capturing /\ cadences[i].loop # "ended"
    /\ ~inFlight
    /\ inFlight' = TRUE
    /\ cadences' = [cadences EXCEPT ![i].capturing = TRUE]
    /\ UNCHANGED <<row, profileKept, doing, closing, cadenceStop, notifyVars>>

CaptureEnds(i) ==
    /\ cadences[i].capturing
    /\ inFlight' = FALSE
    /\ cadences' = [cadences EXCEPT ![i].capturing = FALSE]
    /\ UNCHANGED <<row, profileKept, doing, closing, cadenceStop, notifyVars>>

CadenceEnds(i) ==
    /\ cadences[i].loop = "told" /\ ~cadences[i].capturing
    /\ cadences' = [cadences EXCEPT ![i].loop = "ended"]
    /\ UNCHANGED <<row, profileKept, doing, closing, cadenceStop, inFlight, notifyVars>>

-----------------------------------------------------------------------------
(* The listener: StartNotify and StopNotify.                                *)

\* The listener of the map's entry is told to stop.
ListenerTold ==
    /\ listeners' = [l \in DOMAIN listeners |->
                       IF l = listener /\ listeners[l].loop = "running"
                       THEN [listeners[l] EXCEPT !.loop = "told"] ELSE listeners[l]]
    /\ listener' = None

\* A timer that has fired is not stopped.
WithoutTimer(r) ==
    [i \in DOMAIN r |-> IF i = timer /\ r[i] = "pending" THEN "over" ELSE r[i]]

NotifyTold ==
    /\ reconnects' = WithoutTimer(reconnects) /\ timer' = None
    /\ ListenerTold
    /\ wanted' = FALSE

\* What StopNotify does under the lock; starting begins with it.
StopNotify(c, on) ==
    /\ NotifyTold
    /\ doing' = [doing EXCEPT ![c] = Called("notify", on, FALSE)]
    /\ UNCHANGED <<row, profileKept, closing, cadenceVars>>

ToggleNotify(c, on) ==
    /\ doing[c] = Idle /\ ~closing
    /\ StopNotify(c, on)

\* connectNotify takes the place of whatever listener is in the map.
Listening ==
    /\ MayStartLoop
    /\ listeners' = Append(listeners, [loop |-> "running", capturing |-> FALSE])
    /\ listener' = Len(listeners) + 1

NotifyConnected(c) ==
    /\ doing[c].of = "notify" /\ doing[c].step = "reread"
    /\ Listening
    /\ wanted' = TRUE
    /\ Proceeds(c, "done", doing[c].seen)
    /\ UNCHANGED <<row, profileKept, closing, timer, reconnects, cadenceVars>>

\* The profile is gone or cannot be read, or the server refuses.
NotifyRefused(c) ==
    /\ doing[c].of = "notify" /\ doing[c].step \in {"cleared", "reread"}
    /\ Finished(c)
    /\ UNCHANGED row /\ OnlyTheRow

NotifyEnabled(c) ==
    /\ doing[c].of = "notify" /\ doing[c].step = "done"
    /\ row' = [exists |-> TRUE, cadence |-> doing[c].seen.cadence, notify |-> TRUE]
    /\ Finished(c)
    /\ OnlyTheRow

-----------------------------------------------------------------------------
(* notifyLoop and the reconnects.                                           *)

\* A notification starts a capture, whatever captures are in flight.  A listener that is
\* told to stop may have received one before.
NotificationArrives(l) ==
    /\ listeners[l].loop \in {"running", "told"} /\ ~listeners[l].capturing
    /\ listeners' = [listeners EXCEPT ![l].capturing = TRUE]
    /\ UNCHANGED <<row, profileKept, doing, closing, listener, timer, reconnects, wanted, cadenceVars>>

NotifyCaptureEnds(l) ==
    /\ listeners[l].capturing
    /\ listeners' = [listeners EXCEPT ![l].capturing = FALSE]
    /\ UNCHANGED <<row, profileKept, doing, closing, listener, timer, reconnects, wanted, cadenceVars>>

\* Waiting again, the loop finds the connection broken, and that it was not told to stop.
ListenerBreaks(l) ==
    /\ listeners[l].loop = "running" /\ ~listeners[l].capturing
    /\ listeners' = [listeners EXCEPT ![l].loop = "rescheduling"]
    /\ UNCHANGED <<row, profileKept, doing, closing, listener, timer, reconnects, wanted, cadenceVars>>

ListenerEnds(l) ==
    /\ listeners[l].loop = "told" /\ ~listeners[l].capturing
    /\ listeners' = [listeners EXCEPT ![l].loop = "ended"]
    /\ UNCHANGED <<row, profileKept, doing, closing, listener, timer, reconnects, wanted, cadenceVars>>

\* scheduleReconnect.
Scheduled(r) ==
    /\ Started < MaxStarts
    /\ timer' = Len(r) + 1
    /\ reconnects' = Append(WithoutTimer(r), "pending")

ListenerReschedules(l) ==
    /\ listeners[l].loop = "rescheduling"
    /\ listeners' = [listeners EXCEPT ![l].loop = "ended"]
    /\ Scheduled(reconnects)
    /\ UNCHANGED <<row, profileKept, doing, closing, listener, wanted, cadenceVars>>

TimerFires(i) ==
    /\ reconnects[i] = "pending"
    /\ reconnects' = [reconnects EXCEPT ![i] = "fired"]
    /\ UNCHANGED <<row, profileKept, doing, closing, listeners, listener, timer, wanted, cadenceVars>>

\* reconnectNotify: the listener of the map, if there is one, is told to stop.
ReconnectBegins(i) ==
    /\ reconnects[i] = "fired" /\ profileKept
    /\ timer' = None
    /\ reconnects' = [reconnects EXCEPT ![i] = "connecting"]
    /\ ListenerTold
    /\ UNCHANGED <<row, profileKept, doing, closing, wanted, cadenceVars>>

\* The profile is gone or cannot be read: the reconnect calls StopNotify, all of whose
\* steps are taken at once here, and fails.
ReconnectFindsNoProfile(i) ==
    /\ reconnects[i] = "fired"
    /\ reconnects' = [WithoutTimer(reconnects) EXCEPT ![i] = "failed"]
    /\ timer' = None
    /\ ListenerTold
    /\ row' = IF row.exists THEN Off(row, "notify") ELSE row
    /\ UNCHANGED <<profileKept, doing, closing, wanted, cadenceVars>>

Reconnected(i) ==
    /\ reconnects[i] = "connecting"
    /\ Listening
    /\ reconnects' = [reconnects EXCEPT ![i] = "over"]
    /\ UNCHANGED <<row, profileKept, doing, closing, timer, wanted, cadenceVars>>

ReconnectFails(i) ==
    /\ reconnects[i] = "connecting"
    /\ reconnects' = [reconnects EXCEPT ![i] = "failed"]
    /\ UNCHANGED <<row, profileKept, doing, closing, listeners, listener, timer, wanted, cadenceVars>>

\* Mutant: a failed attempt is the last one.
GivesUp(i) ==
    /\ reconnects[i] = "failed"
    /\ reconnects' = [reconnects EXCEPT ![i] = "over"]
    /\ UNCHANGED <<row, profileKept, doing, closing, listeners, listener, timer, wanted, cadenceVars>>

\* Whatever the failure, the next reconnect is scheduled.
ReconnectAgain(i) ==
    /\ reconnects[i] = "failed"
    /\ Scheduled([reconnects EXCEPT ![i] = "over"])
    /\ UNCHANGED <<row, profileKept, doing, closing, listeners, listener, wanted, cadenceVars>>

-----------------------------------------------------------------------------
(* The profile's end, and the process's.                                    *)

\* The profile is deleted; nobody deletes its row or stops its loops.
ProfileDeleted ==
    /\ profileKept
    /\ profileKept' = FALSE
    /\ UNCHANGED <<row, doing, closing, cadenceVars, notifyVars>>

\* Calls and reconnects that are under way go on after it.
StopAll ==
    /\ ~closing /\ closing' = TRUE
    /\ CadenceTold /\ NotifyTold
    /\ UNCHANGED <<row, profileKept, doing, inFlight>>

\* The process ends, after StopAll or by a crash, and the next one keeps the row only.
\* OnStartup's goroutine is one of the callers.
Restart(c) ==
    /\ doing' = [b \in Caller |-> IF b = c THEN ToResume("list", FALSE) ELSE Idle]
    /\ closing' = FALSE
    /\ cadences' = <<>> /\ cadenceStop' = None /\ inFlight' = FALSE
    /\ listeners' = <<>> /\ listener' = None /\ timer' = None /\ reconnects' = <<>>
    /\ wanted' = FALSE
    /\ UNCHANGED <<row, profileKept>>

\* ResumeAll: what the row enables at this moment is started, the cadence first.
ResumeLists(c) ==
    /\ doing[c].of = "resume" /\ doing[c].step = "list"
    /\ doing' = [doing EXCEPT ![c] = IF row.cadence THEN ToResume("cadence", row.notify)
                                     ELSE IF row.notify THEN ToResume("notify", FALSE) ELSE Idle]
    /\ UNCHANGED row /\ OnlyTheRow

ResumeCadence(c) ==
    /\ doing[c].of = "resume" /\ doing[c].step = "cadence"
    /\ StopCadence(c, TRUE, doing[c].after)

ResumeNotify(c) ==
    /\ doing[c].of = "resume" /\ doing[c].step = "notify"
    /\ StopNotify(c, TRUE)

WatcherNext ==
    \/ \E c \in Caller :
          \/ \E on \in BOOLEAN : ToggleCadence(c, on) \/ ToggleNotify(c, on)
          \/ ReadRow(c) \/ ClearRow(c) \/ WriteCadence(c) \/ CadenceStarts(c)
          \/ NotifyConnected(c) \/ NotifyRefused(c) \/ NotifyEnabled(c)
          \/ Restart(c) \/ ResumeLists(c) \/ ResumeCadence(c) \/ ResumeNotify(c)
    \/ \E i \in DOMAIN cadences : Tick(i) \/ CaptureEnds(i) \/ CadenceEnds(i)
    \/ \E l \in DOMAIN listeners :
          \/ NotificationArrives(l) \/ NotifyCaptureEnds(l)
          \/ ListenerBreaks(l) \/ ListenerEnds(l) \/ ListenerReschedules(l)
    \/ \E i \in DOMAIN reconnects :
          \/ TimerFires(i) \/ ReconnectBegins(i) \/ ReconnectFindsNoProfile(i)
          \/ Reconnected(i) \/ ReconnectFails(i) \/ ReconnectAgain(i)
    \/ ProfileDeleted \/ StopAll

WatcherSpec == WatcherInit /\ [][WatcherNext]_watcherVars

-----------------------------------------------------------------------------
(* Properties.                                                              *)

\* A cadence whose status is running has a loop that is not told to stop, and its ticks
\* are skipped only while some capture really is under way: a flag that a stopped loop
\* has left behind holds up no other.
CadenceKeepsTicking ==
    /\ cadenceStop # None => cadences[cadenceStop].loop = "running"
    /\ inFlight => \E i \in DOMAIN cadences : cadences[i].capturing

\* "A connection error or close (unless stopped) schedules a linear-backoff
\* reconnect": once switched on, notifications have a listener, or something under way
\* that will try again, until the next call that switches them.
NotifyKeepsTrying ==
    wanted =>
        \/ \E l \in DOMAIN listeners : listeners[l].loop \in {"running", "rescheduling"}
        \/ \E i \in DOMAIN reconnects : reconnects[i] \in {"pending", "fired", "connecting", "failed"}

\* Whatever doing, breaks and reconnects overlap, no half of the watcher stops by itself.
WatcherGoesOn == CadenceKeepsTicking /\ NotifyKeepsTrying

\* "The watcher prevents overlapping automatic captures for one profile": violated by a
\* notification, by a cadence switched off and on during a capture, and by two calls
\* that start the cadence at once and leave two loops.
NoOverlappingCaptures ==
    Cardinality({i \in DOMAIN cadences : cadences[i].capturing})
        + Cardinality({l \in DOMAIN listeners : listeners[l].capturing}) <= 1

\* "stopNotify - cancels the listener, persists disabled": no listener is in the map
\* and no reconnect is due once notifications are switched off and no call is under way.
\* Violated by a reconnect whose timer had fired, and for ever when the profile is gone.
NotifyStaysOff ==
    ~wanted /\ ~closing /\ (\A c \in Caller : doing[c] = Idle) => listener = None /\ timer = None
=============================================================================
