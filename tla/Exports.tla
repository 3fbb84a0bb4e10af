------------------------------- MODULE Exports -------------------------------
(***************************************************************************)
(* The streaming CSV exports: the native side that writes a file beside    *)
(* the destination and renames it into place (internal/api/export.go), and *)
(* the button that starts an export, cancels it, and cancels it when its   *)
(* view is left (components/native-csv-export-button.tsx).                 *)
(*                                                                         *)
(* Calls of the button run in goroutines of their own, so a cancellation   *)
(* may overtake the export it is about; it is then kept for a minute.  An  *)
(* export's identifier is fresh (crypto.randomUUID): here its number.      *)
(***************************************************************************)
EXTENDS Absent, Integers, Sequences, FiniteSets

CONSTANTS
    MaxExports,     \* bound: exports started
    MaxExportJobs,  \* maxExportJobs
    MaxPending      \* maxPendingExportCancellations

ASSUME ExportAssumption ==
    /\ {MaxExports, MaxPending} \subseteq Nat /\ MaxExportJobs \in Nat \ {0}
    /\ None \notin Nat \cup {"cancelled", "failed", "done"}

VARIABLES
    exports,        \* the exports, in the order they were started
    early,          \* cancelledExports that are younger than the time they are kept
    aged,           \* those that are older
    cancelCalls,    \* exports that a CancelExport call is under way for
    service,        \* exportsClosed, and whether closeExports has returned
    button          \* the job and the phase of NativeCSVExportButton

exportVars == <<exports, early, aged, cancelCalls, service, button>>

Export == DOMAIN exports

\* s.exports: from registerExport to finishExport.
Registered(x) == exports[x].stage \in {"registered", "admitted", "writing", "written", "leaving"}

\* promised and excused are history: a cancellation of it was accepted in time; nobody
\* is left who could cancel it, or the native side declined to.
NewExport == [stage |-> "choosing", cancelled |-> FALSE, temporary |-> FALSE,
              committed |-> FALSE, result |-> None, promised |-> FALSE, excused |-> FALSE]

IdleButton == [job |-> None, phase |-> "idle"]

ExportTypeOK ==
    /\ \A x \in Export :
          /\ exports[x].stage \in {"choosing", "called", "registered", "admitted", "writing",
                                   "written", "leaving", "answered", "over"}
          /\ exports[x].result \in {None, "cancelled", "failed", "done"}
    /\ early \cap aged = {} /\ Cardinality(early \cup aged) <= MaxPending
    /\ early \cup aged \cup cancelCalls \subseteq Export
    /\ service \in {"open", "closing", "closed"}
    /\ button.job \in Export \cup {None} /\ button.phase \in {"idle", "selecting", "exporting"}

ExportInit ==
    /\ exports = <<>> /\ early = {} /\ aged = {} /\ cancelCalls = {}
    /\ service = "open" /\ button = IdleButton

-----------------------------------------------------------------------------
(* SqlService.ExportQueryCSV.                                               *)

\* Its deferred calls: the temporary file is removed before the job is finished.
Leaves(x, result) == exports' = [exports EXCEPT ![x].stage = "leaving", ![x].result = result]

RegisterExport(x) ==
    /\ exports[x].stage = "called"
    /\ service = "open" /\ Cardinality({y \in Export : Registered(y)}) < MaxExportJobs
    /\ exports' = [exports EXCEPT ![x].stage = "registered", ![x].cancelled = x \in early]
    /\ early' = early \ {x} /\ aged' = aged \ {x}
    /\ UNCHANGED <<cancelCalls, service, button>>

RefuseExport(x) ==
    /\ exports[x].stage = "called"
    /\ service # "open" \/ Cardinality({y \in Export : Registered(y)}) >= MaxExportJobs
    /\ exports' = [exports EXCEPT ![x].stage = "answered", ![x].result = "failed"]
    /\ UNCHANGED <<early, aged, cancelCalls, service, button>>

AdmitExport(x) ==
    /\ exports[x].stage = "registered"
    /\ IF exports[x].cancelled THEN Leaves(x, "cancelled")
       ELSE exports' = [exports EXCEPT ![x].stage = "admitted"]
    /\ UNCHANGED <<early, aged, cancelCalls, service, button>>

\* The path, the policy, the provider and the temporary file, any of which may fail.
OpenTemporary(x) ==
    /\ exports[x].stage = "admitted"
    /\ \/ Leaves(x, "failed")
       \/ exports' = [exports EXCEPT ![x].stage = "writing", ![x].temporary = TRUE]
    /\ UNCHANGED <<early, aged, cancelCalls, service, button>>

\* The driver's rows.  It may notice the cancellation or be done before it does, and an
\* error of its own that says "cancelled" is taken for one.
WriteRows(x) ==
    /\ exports[x].stage = "writing"
    /\ \/ Leaves(x, "failed") \/ Leaves(x, "cancelled")
       \/ exports' = [exports EXCEPT ![x].stage = "written"]
    /\ UNCHANGED <<early, aged, cancelCalls, service, button>>

\* Mutant: the context is not looked at again before the rename.
CommitUnchecked(x) ==
    /\ exports[x].stage = "written"
    /\ \/ Leaves(x, "failed")
       \/ exports' = [exports EXCEPT ![x].stage = "leaving", ![x].result = "done",
                                     ![x].committed = TRUE, ![x].temporary = FALSE]
    /\ UNCHANGED <<early, aged, cancelCalls, service, button>>

\* Under the lock that CancelExport takes.
CommitExport(x) ==
    /\ exports[x].stage = "written"
    /\ \/ exports[x].cancelled /\ Leaves(x, "cancelled")
       \/ ~exports[x].cancelled /\ Leaves(x, "failed")
       \/ /\ ~exports[x].cancelled
          /\ exports' = [exports EXCEPT ![x].stage = "leaving", ![x].result = "done",
                                        ![x].committed = TRUE, ![x].temporary = FALSE]
    /\ UNCHANGED <<early, aged, cancelCalls, service, button>>

RemoveTemporary(x) ==
    /\ exports[x].stage = "leaving" /\ exports[x].temporary
    /\ exports' = [exports EXCEPT ![x].temporary = FALSE]
    /\ UNCHANGED <<early, aged, cancelCalls, service, button>>

FinishExport(x) ==
    /\ exports[x].stage = "leaving" /\ ~exports[x].temporary
    /\ exports' = [exports EXCEPT ![x].stage = "answered"]
    /\ UNCHANGED <<early, aged, cancelCalls, service, button>>

-----------------------------------------------------------------------------
(* SqlService.CancelExport and closeExports.                                *)

CancelRunning(x) ==
    /\ service = "open" /\ Registered(x)
    /\ exports' = [exports EXCEPT ![x].cancelled = TRUE,
                                  ![x].promised = @ \/ ~exports[x].committed]
    /\ UNCHANGED <<early, aged>>

\* An export that is not registered: not yet, or not any more.
CancelEarly(x) ==
    /\ service = "open" /\ ~Registered(x) /\ Cardinality(early) < MaxPending
    /\ early' = early \cup {x} /\ aged' = {}
    /\ exports' = [exports EXCEPT ![x].promised = @ \/ ~exports[x].committed]

CancelDeclined(x) ==
    /\ \/ service # "open" /\ UNCHANGED aged
       \/ ~Registered(x) /\ Cardinality(early) >= MaxPending /\ service = "open" /\ aged' = {}
    /\ exports' = [exports EXCEPT ![x].excused = TRUE]
    /\ UNCHANGED early

CancelExport(x) ==
    /\ CancelRunning(x) \/ CancelEarly(x) \/ CancelDeclined(x)
    /\ cancelCalls' = cancelCalls \ {x}
    /\ UNCHANGED <<service, button>>

\* pendingExportCancellationTTL: nothing is promised any longer.
AgeCancellation(x) ==
    /\ x \in early
    /\ early' = early \ {x} /\ aged' = aged \cup {x}
    /\ exports' = [exports EXCEPT ![x].promised = FALSE, ![x].excused = TRUE]
    /\ UNCHANGED <<cancelCalls, service, button>>

\* closeExports up to its wait: the root context ends, and every export's with it.
CloseExports ==
    /\ service = "open" /\ service' = "closing"
    /\ exports' = [x \in Export |->
          IF ~Registered(x) THEN exports[x]
          ELSE [exports[x] EXCEPT !.cancelled = TRUE, !.promised = @ \/ ~exports[x].committed]]
    /\ UNCHANGED <<early, aged, cancelCalls, button>>

CloseExportsReturns ==
    /\ service = "closing" /\ \A x \in Export : ~Registered(x)
    /\ service' = "closed"
    /\ UNCHANGED <<exports, early, aged, cancelCalls, button>>

-----------------------------------------------------------------------------
(* The button.                                                              *)

\* start, as far as the dialog that asks for the destination.
PressExport ==
    /\ button = IdleButton /\ Len(exports) < MaxExports
    /\ exports' = Append(exports, NewExport)
    /\ button' = [job |-> Len(exports'), phase |-> "selecting"]
    /\ UNCHANGED <<early, aged, cancelCalls, service>>

\* exportQueryCSV: the dialog is answered, and the view is still the export's.
ChooseDestination(x) ==
    /\ exports[x].stage = "choosing" /\ button.job = x
    /\ exports' = [exports EXCEPT ![x].stage = "called"]
    /\ button' = [button EXCEPT !.phase = "exporting"]
    /\ UNCHANGED <<early, aged, cancelCalls, service>>

\* The dialog is closed without an answer, or has outlived its view.
NoDestination(x) ==
    /\ exports[x].stage = "choosing"
    /\ exports' = [exports EXCEPT ![x].stage = "over"]
    /\ button' = IF button.job = x THEN IdleButton ELSE button
    /\ UNCHANGED <<early, aged, cancelCalls, service>>

\* The end of start: an export that is not the view's any more touches nothing.
HearExport(x) ==
    /\ exports[x].stage = "answered"
    /\ exports' = [exports EXCEPT ![x].stage = "over"]
    /\ button' = IF button.job = x THEN IdleButton ELSE button
    /\ UNCHANGED <<early, aged, cancelCalls, service>>

PressCancel ==
    /\ button.phase = "exporting"
    /\ cancelCalls' = cancelCalls \cup {button.job}
    /\ UNCHANGED <<exports, early, aged, service, button>>

\* The effect's clean-up, and the fresh button of the view that comes next.
LeaveView ==
    /\ button.job # None
    /\ cancelCalls' = cancelCalls \cup {button.job} /\ button' = IdleButton
    /\ UNCHANGED <<exports, early, aged, service>>

\* No clean-up runs, and whoever waited for an answer is gone.
ReloadView ==
    /\ button' = IdleButton
    /\ exports' = [x \in Export |->
          [exports[x] EXCEPT !.stage = IF @ = "choosing" THEN "over" ELSE @, !.excused = TRUE]]
    /\ UNCHANGED <<early, aged, cancelCalls, service>>

ExportNext ==
    \/ \E x \in Export :
          \/ RegisterExport(x) \/ RefuseExport(x) \/ AdmitExport(x) \/ OpenTemporary(x)
          \/ WriteRows(x) \/ CommitExport(x) \/ RemoveTemporary(x) \/ FinishExport(x)
          \/ AgeCancellation(x) \/ ChooseDestination(x) \/ NoDestination(x) \/ HearExport(x)
    \/ \E x \in cancelCalls : CancelExport(x)
    \/ CloseExports \/ CloseExportsReturns
    \/ PressExport \/ PressCancel \/ LeaveView \/ ReloadView

ExportSpec == ExportInit /\ [][ExportNext]_exportVars

-----------------------------------------------------------------------------
(* Properties.                                                              *)

\* "Cancellation winning this lock keeps the old file": an export whose cancellation was
\* accepted before its rename, even before its registration, never renames.
CancelledKeepsFile == \A x \in Export : exports[x].promised => ~exports[x].committed

\* "No failed or cancelled job can leave a partial destination", or a temporary file;
\* and it says so exactly when it has kept the old one.
AnswerIsTrue ==
    \A x \in Export : exports[x].stage \in {"answered", "over"} =>
        /\ ~exports[x].temporary
        /\ exports[x].committed <=> exports[x].result = "done"

\* "Closing its view cancels that job": an export that still works towards its rename
\* is its button's, or has been cancelled, or will be, unless nobody could.
ClosingStopsExport ==
    \A x \in Export :
        exports[x].stage \in {"called", "registered", "admitted", "writing", "written"} =>
            \/ button.job = x /\ button.phase = "exporting"
            \/ x \in cancelCalls \/ exports[x].promised \/ exports[x].excused

\* When closeExports has returned nothing writes, and nothing will.
ClosedIsQuiet ==
    service = "closed" =>
        \A x \in Export : ~Registered(x) /\ ~exports[x].temporary

\* What an export promises to those who cancel it, leave it or wait for its answer.
ExportsKeepTheirWord ==
    CancelledKeepsFile /\ AnswerIsTrue /\ ClosingStopsExport /\ ClosedIsQuiet
=============================================================================
