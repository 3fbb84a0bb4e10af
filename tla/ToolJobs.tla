------------------------------ MODULE ToolJobs ------------------------------
(***************************************************************************)
(* The backup and restore jobs of a PostgreSQL connection: the job manager *)
(* that runs pg_dump and pg_restore (internal/maintenance/postgres.go) and *)
(* the hook by which the dialogs follow the job they started               *)
(* (hooks/use-postgres-tool-job.ts, postgres-backup-dialog.tsx).           *)
(*                                                                         *)
(* All jobs announce themselves on one channel, and the answer that names  *)
(* the job travels apart from it: the hook buffers what it hears until it  *)
(* knows whom to listen to.  A dialog cannot be closed while its job runs, *)
(* but the window can be reloaded; the job goes on.                        *)
(***************************************************************************)
EXTENDS Absent, Integers, Sequences

CONSTANTS
    MaxJobs,      \* bound: jobs started
    MaxToolLines  \* bound: lines a program writes

ASSUME ToolAssumption == {MaxJobs, MaxToolLines} \subseteq Nat /\ None \notin Nat

VARIABLES
    jobs,       \* the start calls and the jobs they became, in order
    toolEvents, \* events on the channel
    cancelling, \* jobs with a cancel call under way
    toolHook    \* the state of the dialog's hook

toolVars == <<jobs, toolEvents, cancelling, toolHook>>

Outcomes == {"finished", "failed", "cancelled"}
ToolEvent(type, j) == [type |-> type, job |-> j]

\* INITIAL_STATE; awaits is the start call whose answer is due.
IdleHook == [status |-> "idle", jobId |-> None, awaits |-> None, pending |-> <<>>,
             logs |-> <<>>, listening |-> FALSE, busy |-> FALSE]

ToolTypeOK ==
    /\ \A j \in DOMAIN jobs :
          /\ jobs[j].stage \in {"called", "refused", "alive", "exited", "over"}
          /\ jobs[j].outcome \in Outcomes \cup {None}
          /\ jobs[j].lines \in 0 .. MaxToolLines
          /\ {jobs[j].announced, jobs[j].cancelled, jobs[j].succeeds} \subseteq BOOLEAN
    /\ cancelling \subseteq DOMAIN jobs
    /\ toolHook.status \in Outcomes \cup {"idle", "running"}
    /\ {toolHook.jobId, toolHook.awaits} \subseteq DOMAIN jobs \cup {None}

ToolInit == jobs = <<>> /\ toolEvents = <<>> /\ cancelling = {} /\ toolHook = IdleHook

-----------------------------------------------------------------------------
(* The job manager.                                                         *)

\* JobManager.start; a program that is missing, or a file that is, refuses the call.
StartTool(j) ==
    /\ jobs[j].stage = "called"
    /\ \E stage \in {"alive", "refused"} : jobs' = [jobs EXCEPT ![j].stage = stage]
    /\ UNCHANGED <<toolEvents, cancelling, toolHook>>

\* run: "started" comes from the goroutine, before or after the answer of the call.
AnnounceStarted(j) ==
    /\ jobs[j].stage \in {"alive", "exited"} /\ ~jobs[j].announced
    /\ jobs' = [jobs EXCEPT ![j].announced = TRUE]
    /\ toolEvents' = Append(toolEvents, ToolEvent("started", j))
    /\ UNCHANGED <<cancelling, toolHook>>

AnnounceLine(j) ==
    /\ jobs[j].stage \in {"alive", "exited"} /\ jobs[j].announced
    /\ jobs[j].lines < MaxToolLines
    /\ jobs' = [jobs EXCEPT ![j].lines = @ + 1]
    /\ toolEvents' = Append(toolEvents, ToolEvent("log", j))
    /\ UNCHANGED <<cancelling, toolHook>>

\* The program ends by itself; or at once, when it has been killed.
ToolExits(j) ==
    /\ jobs[j].stage = "alive"
    /\ \E ok \in BOOLEAN :
          /\ jobs[j].cancelled => ~ok
          /\ jobs' = [jobs EXCEPT ![j].stage = "exited", ![j].succeeds = ok]
    /\ UNCHANGED <<toolEvents, cancelling, toolHook>>

\* The end of run: out of the map, and the final event.  A line that the readers had
\* not read when Wait closed their pipes is lost.
AnnounceEnd(j) ==
    LET outcome == IF jobs[j].cancelled THEN "cancelled"
                   ELSE IF jobs[j].succeeds THEN "finished" ELSE "failed"
    IN  /\ jobs[j].stage = "exited" /\ jobs[j].announced
        /\ jobs' = [jobs EXCEPT ![j].stage = "over", ![j].outcome = outcome]
        /\ toolEvents' = Append(toolEvents, ToolEvent(outcome, j))
        /\ UNCHANGED <<cancelling, toolHook>>

\* Cancel: a job that has exited but is still in the map is marked too.
CancelTool(j) ==
    /\ cancelling' = cancelling \ {j}
    /\ jobs' = [jobs EXCEPT ![j].cancelled = @ \/ jobs[j].stage \in {"alive", "exited"}]
    /\ UNCHANGED <<toolEvents, toolHook>>

-----------------------------------------------------------------------------
(* The hook and its dialog.                                                 *)

\* start
StartJob ==
    /\ ~toolHook.busy /\ Len(jobs) < MaxJobs
    /\ jobs' = Append(jobs, [stage |-> "called", announced |-> FALSE, lines |-> 0,
                             cancelled |-> FALSE, succeeds |-> FALSE, outcome |-> None])
    /\ toolHook' = [IdleHook EXCEPT !.status = "running", !.awaits = Len(jobs'),
                                    !.listening = TRUE, !.busy = TRUE]
    /\ UNCHANGED <<toolEvents, cancelling>>

\* handleEvent, once the job's name is known.
ToolApplied(h, e) ==
    IF e.job # h.jobId THEN h
    ELSE IF e.type = "log" THEN [h EXCEPT !.logs = Append(@, e.job)]
    ELSE IF e.type = "started" THEN [h EXCEPT !.status = "running"]
    ELSE [h EXCEPT !.status = e.type, !.busy = FALSE, !.listening = FALSE]

\* handleEvent: what comes before the answer is kept for later.
ToolHeard(h, e) ==
    IF ~h.listening THEN h
    ELSE IF h.jobId = None THEN [h EXCEPT !.pending = Append(@, e)]
    ELSE ToolApplied(h, e)

HearTool ==
    /\ toolEvents # <<>>
    /\ toolEvents' = Tail(toolEvents)
    /\ toolHook' = ToolHeard(toolHook, Head(toolEvents))
    /\ UNCHANGED <<jobs, cancelling>>

\* The events that were kept, one after the other.
PendingApplied(h) ==
    LET after[n \in 0 .. Len(h.pending)] ==
            IF n = 0 THEN h ELSE ToolApplied(after[n - 1], h.pending[n])
    IN  [after[Len(h.pending)] EXCEPT !.pending = <<>>]

\* The answer of the start call.
HearName(j) ==
    /\ toolHook.awaits = j /\ jobs[j].stage \in {"alive", "exited", "over"}
    /\ toolHook' = PendingApplied([toolHook EXCEPT !.jobId = j, !.awaits = None])
    /\ UNCHANGED <<jobs, toolEvents, cancelling>>

HearRefusal(j) ==
    /\ toolHook.awaits = j /\ jobs[j].stage = "refused"
    /\ toolHook' = [IdleHook EXCEPT !.status = "failed"]
    /\ UNCHANGED <<jobs, toolEvents, cancelling>>

\* cancel: nothing to name while the answer is due.
AskToCancel ==
    /\ toolHook.jobId # None /\ toolHook.status = "running"
    /\ cancelling' = cancelling \cup {toolHook.jobId}
    /\ UNCHANGED <<jobs, toolEvents, toolHook>>

\* handleOpenChange and reset.
CloseDialog ==
    /\ toolHook.status # "running"
    /\ toolHook' = IdleHook
    /\ UNCHANGED <<jobs, toolEvents, cancelling>>

\* The window is reloaded: events on their way reach nobody.
ReloadDialog ==
    /\ toolHook # IdleHook
    /\ toolHook' = IdleHook /\ toolEvents' = <<>>
    /\ UNCHANGED <<jobs, cancelling>>

ToolNext ==
    \/ \E j \in DOMAIN jobs :
          \/ StartTool(j) \/ AnnounceStarted(j) \/ AnnounceLine(j) \/ ToolExits(j)
          \/ AnnounceEnd(j) \/ HearName(j) \/ HearRefusal(j)
    \/ \E j \in cancelling : CancelTool(j)
    \/ StartJob \/ HearTool \/ AskToCancel \/ CloseDialog \/ ReloadDialog

ToolSpec == ToolInit /\ [][ToolNext]_toolVars

-----------------------------------------------------------------------------
(* Properties.                                                              *)

\* "Only one tracked job at a time": what the dialog says of its job is what that job
\* announced, with the events of jobs from before a reload on the same channel.
StatusIsOfItsJob ==
    /\ toolHook.status \in Outcomes /\ toolHook.jobId # None =>
          toolHook.status = jobs[toolHook.jobId].outcome
    /\ \A i \in DOMAIN toolHook.logs : toolHook.logs[i] = toolHook.jobId

\* A dialog that says "running" and so cannot be closed will hear of an end: its job
\* is under way, or the job's final event is on the channel or in the buffer.
RunningDialogHearsTheEnd ==
    toolHook.status = "running" =>
        LET j == IF toolHook.jobId = None THEN toolHook.awaits ELSE toolHook.jobId
        IN  /\ j # None /\ toolHook.listening
            /\ jobs[j].stage = "over" =>
                  \E i \in DOMAIN (toolHook.pending \o toolEvents) :
                      (toolHook.pending \o toolEvents)[i] = ToolEvent(jobs[j].outcome, j)

\* The dialog tells its own job's story to the end.
ToolDialogIsTrue == StatusIsOfItsJob /\ RunningDialogHearsTheEnd

\* What a cancelled job says: it did not complete.  (A cancel that comes after the
\* program's successful end and before run's last step is reported all the same.)
CancelledDidNotComplete ==
    \A j \in DOMAIN jobs : jobs[j].outcome = "cancelled" => ~jobs[j].succeeds
=============================================================================
