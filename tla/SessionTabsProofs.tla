-------------------------- MODULE SessionTabsProofs --------------------------
(***************************************************************************)
(* Theorems about SessionTabs, for any number of tabs, mounts, jobs,       *)
(* exports, cadences and connections: what the window says of its          *)
(* terminals, its tabs and its jobs is so. The parts share no state, so    *)
(* each has an invariant of its own, and at the end the window's           *)
(* specification is shown to be one of each part.                          *)
(*                                                                         *)
(* Schema timeline. The invariant is the property and the types: each      *)
(* half's map entry and flag are kept by every step of either half, so     *)
(* that no order of the callers' steps has to be excluded. The types need  *)
(* that a call which is to write the row has read it.                      *)
(*                                                                         *)
(* Exports. A promise made to cancel an export lies with the export, as    *)
(* its flag, or with the native side's early cancellations, and an export  *)
(* that nobody may cancel any more has its button or has been excused.     *)
(*                                                                         *)
(* Maintenance tools. The dialog has still to be told the events it keeps  *)
(* and then those of the channel; in this stream a final event is what the *)
(* job came to and the last of its job, and the one that the dialog        *)
(* follows is in it when the job is over.                                  *)
(*                                                                         *)
(* psql. An exit that names a session, queued or kept by the hook, comes   *)
(* after its process was reaped; so replaying what was kept ends no        *)
(* session that lives.                                                     *)
(*                                                                         *)
(* Tabs. A table tab's identity names its connection and the others are    *)
(* numbers given out; so no two tabs are alike, and the tab that is shown  *)
(* is in the bar. What the store's filters, moves and insertions do to the *)
(* list is said once, as which tabs of the old list the new one picks.     *)
(***************************************************************************)
EXTENDS SessionTabs, MongoShellProofs, FiniteSetTheorems

-----------------------------------------------------------------------------
(* The schema timeline.                                                     *)

RowRecord == [exists : BOOLEAN, cadence : BOOLEAN, notify : BOOLEAN]
CallStep == {"idle", "list", "cadence", "notify", "told", "read", "cleared", "reread", "done"}
CallRecord ==
    [of : {"none", "resume", "cadence", "notify"}, step : CallStep, on : BOOLEAN,
     seen : RowRecord \cup {None}, after : BOOLEAN]
CadenceLoop == [loop : {"running", "told", "ended"}, capturing : BOOLEAN]
NotifyLoop == [loop : {"running", "told", "rescheduling", "ended"}, capturing : BOOLEAN]
ReconnectState == {"pending", "fired", "connecting", "failed", "over"}

\* A call that will write the row has read it.
HasTheRow(d) ==
    d.step \in {"read", "reread"} \/ (d.of = "notify" /\ d.step = "done") => d.seen \in RowRecord
GoodCall == {d \in CallRecord : HasTheRow(d)}

RowTypes == row \in RowRecord /\ {profileKept, closing} \subseteq BOOLEAN
CallTypes == doing \in [Caller -> GoodCall]

CadenceTypes ==
    /\ cadences \in Seq(CadenceLoop)
    /\ cadenceStop \in DOMAIN cadences \cup {None}
    /\ inFlight \in BOOLEAN

NotifyTypes ==
    /\ listeners \in Seq(NotifyLoop)
    /\ listener \in DOMAIN listeners \cup {None}
    /\ reconnects \in Seq(ReconnectState)
    /\ timer \in DOMAIN reconnects \cup {None}
    /\ wanted \in BOOLEAN

CadenceInv == CadenceTypes /\ CadenceKeepsTicking
NotifyInv == NotifyTypes /\ NotifyKeepsTrying
WatcherInv == RowTypes /\ CallTypes /\ CadenceInv /\ NotifyInv

-----------------------------------------------------------------------------
(* The calls and the row.                                                   *)

\* What a caller may be doing when it begins, resumes or is through with a call.
LEMMA CallsOK ==
    /\ Idle \in GoodCall
    /\ \A half \in {"cadence", "notify"}, on \in BOOLEAN, after \in BOOLEAN :
          Called(half, on, after) \in GoodCall
    /\ \A step \in {"list", "cadence", "notify"}, after \in BOOLEAN :
          ToResume(step, after) \in GoodCall
<1>1. Idle \in GoodCall
  BY DEF Idle, GoodCall, CallRecord, CallStep, HasTheRow
<1>2. ASSUME NEW half \in {"cadence", "notify"}, NEW on \in BOOLEAN, NEW after \in BOOLEAN
      PROVE  Called(half, on, after) \in GoodCall
  BY DEF Called, GoodCall, CallRecord, CallStep, HasTheRow
<1>3. ASSUME NEW step \in {"list", "cadence", "notify"}, NEW after \in BOOLEAN
      PROVE  ToResume(step, after) \in GoodCall
  BY DEF Idle, ToResume, GoodCall, CallRecord, CallStep, HasTheRow
<1>4. QED
  BY <1>1, <1>2, <1>3

\* A caller that goes on to a step for which it has what it takes.
LEMMA StepsOK ==
    ASSUME CallTypes, NEW c \in Caller, NEW s \in CallStep, NEW r \in RowRecord \cup {None},
           \/ r \in RowRecord
           \/ s \notin {"read", "reread"} /\ (s = "done" => doing[c].of # "notify"),
           Proceeds(c, s, r)
    PROVE  CallTypes'
<1> DEFINE d == [doing[c] EXCEPT !.step = s, !.seen = r]
<1>1. doing' = [doing EXCEPT ![c] = d]
  BY DEF Proceeds, CallTypes
<1>2. doing[c] \in CallRecord
  BY DEF CallTypes, GoodCall
<1>3. d \in CallRecord /\ d.step = s /\ d.seen = r /\ d.of = doing[c].of
  BY <1>2 DEF CallRecord
<1>4. d \in GoodCall
  BY <1>3 DEF GoodCall, HasTheRow
<1> HIDE DEF d
<1>5. QED
  BY <1>1, <1>4 DEF CallTypes

\* A caller that is through with its call.
LEMMA FinishedOK ==
    ASSUME CallTypes, NEW c \in Caller, Finished(c)
    PROVE  CallTypes'
<1>1. \E d \in GoodCall : doing' = [doing EXCEPT ![c] = d]
  <2>1. CASE doing[c].after
    <3>1. doing' = [doing EXCEPT ![c] = ToResume("notify", FALSE)]
      BY <2>1 DEF Finished, CallTypes
    <3>2. QED
      BY <3>1, CallsOK
  <2>2. CASE ~doing[c].after
    <3>1. doing' = [doing EXCEPT ![c] = Idle]
      BY <2>2 DEF Finished, CallTypes
    <3>2. QED
      BY <3>1, CallsOK
  <2>3. QED
    BY <2>1, <2>2
<1>2. QED
  BY <1>1 DEF CallTypes

\* The row that a call writes is one that it has read, with its half's field set.
LEMMA RowStepsOK ==
    ASSUME WatcherInv, NEW c \in Caller,
           ReadRow(c) \/ ClearRow(c) \/ WriteCadence(c) \/ NotifyRefused(c) \/ NotifyEnabled(c)
    PROVE  RowTypes' /\ CallTypes'
<1>1. /\ RowTypes /\ CallTypes /\ row \in RowRecord
      /\ doing[c] \in CallRecord /\ HasTheRow(doing[c])
      /\ \A step \in CallStep : step \in CallStep
  BY DEF WatcherInv, RowTypes, CallTypes, GoodCall
<1>2. profileKept' = profileKept /\ closing' = closing
  BY DEF ReadRow, ClearRow, WriteCadence, NotifyRefused, NotifyEnabled, OnlyTheRow
<1>3. row' \in RowRecord => RowTypes'
  BY <1>1, <1>2 DEF RowTypes
<1>4. CASE ReadRow(c)
  <2>1. row' = row /\ \E step \in {"read", "reread"} : Proceeds(c, step, row)
    BY <1>4 DEF ReadRow
  <2>2. QED
    BY <1>1, <1>3, <2>1, StepsOK DEF CallStep
<1>5. CASE ClearRow(c)
  <2>1. doing[c].seen \in RowRecord
    BY <1>1, <1>5 DEF ClearRow, HasTheRow
  <2>2. row' \in RowRecord
    BY <1>1, <1>5, <2>1 DEF ClearRow, Off, RowRecord
  <2>3. Proceeds(c, "cleared", None) \/ Finished(c)
    BY <1>5 DEF ClearRow
  <2>4. QED
    BY <1>1, <1>3, <2>2, <2>3, StepsOK, FinishedOK DEF CallStep
<1>6. CASE WriteCadence(c)
  <2>1. doing[c].of = "cadence" /\ doing[c].seen \in RowRecord /\ Proceeds(c, "done", None)
    BY <1>1, <1>6 DEF WriteCadence, HasTheRow
  <2>2. row' \in RowRecord
    BY <1>6, <2>1 DEF WriteCadence, RowRecord
  <2>3. QED
    BY <1>1, <1>3, <2>1, <2>2, StepsOK DEF CallStep
<1>7. CASE NotifyRefused(c)
  BY <1>1, <1>3, <1>7, FinishedOK DEF NotifyRefused
<1>8. CASE NotifyEnabled(c)
  <2>1. doing[c].seen \in RowRecord /\ Finished(c)
    BY <1>1, <1>8 DEF NotifyEnabled, HasTheRow
  <2>2. row' \in RowRecord
    BY <1>8, <2>1 DEF NotifyEnabled, RowRecord
  <2>3. QED
    BY <1>1, <1>3, <2>1, <2>2, FinishedOK
<1>9. QED
  BY <1>4, <1>5, <1>6, <1>7, <1>8

-----------------------------------------------------------------------------
(* The cadence.                                                             *)

\* One loop of a sequence is changed, and no running one but by the change.
LEMMA LoopChanged ==
    ASSUME CadenceTypes, NEW i \in DOMAIN cadences, NEW d \in CadenceLoop,
           cadences' = [cadences EXCEPT ![i] = d]
    PROVE  /\ cadences' \in Seq(CadenceLoop) /\ DOMAIN cadences' = DOMAIN cadences
           /\ cadences'[i] = d
           /\ \A j \in DOMAIN cadences : j # i => cadences'[j] = cadences[j]
  BY DEF CadenceTypes

\* Stopping tells the loop of the entry and empties the entry; captures go on.
LEMMA CadenceToldOK ==
    ASSUME CadenceInv, CadenceTold, inFlight' = FALSE \/ inFlight' = inFlight
    PROVE  CadenceInv'
<1>1. \A i \in DOMAIN cadences : cadences[i] \in CadenceLoop
  BY DEF CadenceInv, CadenceTypes
<1>2. /\ cadences' = [i \in DOMAIN cadences |->
                        IF i = cadenceStop THEN [cadences[i] EXCEPT !.loop = "told"]
                        ELSE cadences[i]]
      /\ cadenceStop' = None
  BY DEF CadenceTold
<1>3. \A i \in DOMAIN cadences :
         cadences'[i] \in CadenceLoop /\ cadences'[i].capturing = cadences[i].capturing
  BY <1>1, <1>2 DEF CadenceLoop
<1>4. cadences' \in Seq(CadenceLoop) /\ DOMAIN cadences' = DOMAIN cadences
  BY <1>2, <1>3, Mapped DEF CadenceInv, CadenceTypes
<1>5. inFlight' \in BOOLEAN /\ (inFlight' => inFlight)
  <2>1. inFlight \in BOOLEAN
    BY DEF CadenceInv, CadenceTypes
  <2>2. CASE inFlight' = FALSE
    BY <2>2
  <2>3. CASE inFlight' = inFlight
    BY <2>1, <2>3
  <2>4. QED
    BY <2>2, <2>3
<1>6. CadenceTypes'
  BY <1>2, <1>4, <1>5 DEF CadenceTypes
<1>7. inFlight' => \E i \in DOMAIN cadences' : cadences'[i].capturing
  <2>1. inFlight => \E i \in DOMAIN cadences : cadences[i].capturing
    BY DEF CadenceInv, CadenceKeepsTicking
  <2>2. QED
    BY <1>3, <1>4, <1>5, <2>1
<1>8. CadenceKeepsTicking'
  BY <1>2, <1>7 DEF CadenceKeepsTicking
<1>9. QED
  BY <1>6, <1>8 DEF CadenceInv

\* A started loop runs and takes the entry.
LEMMA CadenceStartsOK ==
    ASSUME WatcherInv, NEW c \in Caller, CadenceStarts(c)
    PROVE  CadenceInv' /\ CallTypes'
<1> DEFINE new == [loop |-> "running", capturing |-> FALSE]
<1>1. /\ cadences' = Append(cadences, new) /\ cadenceStop' = Len(cadences) + 1
      /\ inFlight' = inFlight /\ Finished(c) /\ CallTypes
  BY DEF CadenceStarts, WatcherInv
<1>2. new \in CadenceLoop /\ new.loop = "running"
  BY DEF CadenceLoop
<1>3. cadences \in Seq(CadenceLoop) /\ inFlight \in BOOLEAN
  BY DEF WatcherInv, CadenceInv, CadenceTypes
<1> HIDE DEF new
<1>4. /\ cadences' \in Seq(CadenceLoop) /\ DOMAIN cadences' = 1 .. Len(cadences) + 1
      /\ DOMAIN cadences = 1 .. Len(cadences) /\ Len(cadences) \in Nat
      /\ cadences'[Len(cadences) + 1] = new
      /\ \A i \in DOMAIN cadences : cadences'[i] = cadences[i]
  BY <1>1, <1>2, <1>3, Appended
<1>5. cadenceStop' \in DOMAIN cadences' /\ cadences'[cadenceStop'].loop = "running"
  BY <1>1, <1>2, <1>4
<1>6. inFlight' => \E i \in DOMAIN cadences' : cadences'[i].capturing
  BY <1>1, <1>4 DEF WatcherInv, CadenceInv, CadenceKeepsTicking
<1>7. CadenceInv'
  BY <1>1, <1>3, <1>4, <1>5, <1>6 DEF CadenceInv, CadenceTypes, CadenceKeepsTicking
<1>8. QED
  BY <1>1, <1>7, FinishedOK

\* A tick raises the flag and the end of a capture lowers it; a loop that ends was told.
LEMMA CaptureOK ==
    ASSUME CadenceInv, NEW i \in DOMAIN cadences, Tick(i) \/ CaptureEnds(i) \/ CadenceEnds(i)
    PROVE  CadenceInv'
<1>1. CadenceTypes /\ CadenceKeepsTicking /\ cadences[i] \in CadenceLoop
  BY DEF CadenceInv, CadenceTypes
<1>2. cadenceStop' = cadenceStop
  BY DEF Tick, CaptureEnds, CadenceEnds
<1>3. CASE Tick(i)
  <2> DEFINE d == [cadences[i] EXCEPT !.capturing = TRUE]
  <2>1. cadences' = [cadences EXCEPT ![i] = d] /\ inFlight' = TRUE
    BY <1>1, <1>3 DEF Tick, CadenceTypes
  <2>2. d \in CadenceLoop /\ d.loop = cadences[i].loop /\ d.capturing
    BY <1>1 DEF CadenceLoop
  <2> HIDE DEF d
  <2>3. QED
    BY <1>1, <1>2, <2>1, <2>2, LoopChanged DEF CadenceInv, CadenceTypes, CadenceKeepsTicking
<1>4. CASE CaptureEnds(i)
  <2> DEFINE d == [cadences[i] EXCEPT !.capturing = FALSE]
  <2>1. cadences' = [cadences EXCEPT ![i] = d] /\ inFlight' = FALSE
    BY <1>1, <1>4 DEF CaptureEnds, CadenceTypes
  <2>2. d \in CadenceLoop /\ d.loop = cadences[i].loop
    BY <1>1 DEF CadenceLoop
  <2> HIDE DEF d
  <2>3. QED
    BY <1>1, <1>2, <2>1, <2>2, LoopChanged DEF CadenceInv, CadenceTypes, CadenceKeepsTicking
<1>5. CASE CadenceEnds(i)
  <2> DEFINE d == [cadences[i] EXCEPT !.loop = "ended"]
  <2>1. cadences' = [cadences EXCEPT ![i] = d] /\ inFlight' = inFlight
    BY <1>1, <1>5 DEF CadenceEnds, CadenceTypes
  <2>2. d \in CadenceLoop /\ cadences[i].loop = "told" /\ ~cadences[i].capturing
    BY <1>1, <1>5 DEF CadenceLoop, CadenceEnds
  <2> HIDE DEF d
  <2>3. QED
    BY <1>1, <1>2, <2>1, <2>2, LoopChanged DEF CadenceInv, CadenceTypes, CadenceKeepsTicking
<1>6. QED
  BY <1>3, <1>4, <1>5

-----------------------------------------------------------------------------
(* The listener.                                                            *)

\* The listener of the entry is told; one that reschedules is not disturbed.
LEMMA ListenerToldOK ==
    ASSUME NotifyTypes, ListenerTold
    PROVE  listeners' \in Seq(NotifyLoop) /\ listener' = None
<1>1. listeners' = [l \in DOMAIN listeners |->
                      IF l = listener /\ listeners[l].loop = "running"
                      THEN [listeners[l] EXCEPT !.loop = "told"] ELSE listeners[l]]
  BY DEF ListenerTold
<1>2. \A l \in DOMAIN listeners : listeners[l] \in NotifyLoop
  BY DEF NotifyTypes
<1>3. \A l \in DOMAIN listeners : listeners'[l] \in NotifyLoop
  BY <1>1, <1>2 DEF NotifyLoop
<1>4. QED
  BY <1>1, <1>3, Mapped DEF NotifyTypes, ListenerTold

\* Stopping the timer of the map stops no reconnect that has come further.
LEMMA WithoutTimerOK ==
    ASSUME NEW r \in Seq(ReconnectState)
    PROVE  /\ WithoutTimer(r) \in Seq(ReconnectState)
           /\ Len(WithoutTimer(r)) = Len(r) /\ DOMAIN WithoutTimer(r) = DOMAIN r
<1>1. \A i \in DOMAIN r : WithoutTimer(r)[i] \in ReconnectState
  BY DEF WithoutTimer, ReconnectState
<1>2. QED
  BY <1>1, Mapped DEF WithoutTimer

\* A scheduled reconnect is pending, and is the map's.
LEMMA ScheduledOK ==
    ASSUME NEW r \in Seq(ReconnectState), Scheduled(r)
    PROVE  /\ reconnects' \in Seq(ReconnectState) /\ timer' \in DOMAIN reconnects'
           /\ reconnects'[timer'] = "pending"
<1>1. reconnects' = Append(WithoutTimer(r), "pending") /\ timer' = Len(r) + 1
  BY DEF Scheduled
<1>2. "pending" \in ReconnectState
  BY DEF ReconnectState
<1>3. QED
  BY <1>1, <1>2, WithoutTimerOK, Appended

\* A new listener runs, and is the map's.
LEMMA ListeningOK ==
    ASSUME NotifyTypes, Listening
    PROVE  /\ listeners' \in Seq(NotifyLoop) /\ listener' \in DOMAIN listeners'
           /\ listeners'[listener'].loop = "running"
<1> DEFINE new == [loop |-> "running", capturing |-> FALSE]
<1>1. new \in NotifyLoop /\ new.loop = "running"
  BY DEF NotifyLoop
<1>2. listeners' = Append(listeners, new) /\ listener' = Len(listeners) + 1
  BY DEF Listening
<1> HIDE DEF new
<1>3. QED
  BY <1>1, <1>2, Appended DEF NotifyTypes

\* Stopping leaves nothing wanted.
LEMMA NotifyToldOK ==
    ASSUME NotifyInv, NotifyTold
    PROVE  NotifyInv'
  BY ListenerToldOK, WithoutTimerOK DEF NotifyTold, NotifyInv, NotifyTypes, NotifyKeepsTrying

\* One listener is changed, which runs or reschedules after the change as it did before,
\* or was told.
LEMMA ListenerOK ==
    ASSUME NotifyInv, NEW l \in DOMAIN listeners,
           \/ NotificationArrives(l) \/ NotifyCaptureEnds(l)
           \/ ListenerBreaks(l) \/ ListenerEnds(l) \/ ListenerReschedules(l)
    PROVE  NotifyInv'
<1>1. /\ NotifyTypes /\ NotifyKeepsTrying /\ listeners[l] \in NotifyLoop
      /\ listeners \in Seq(NotifyLoop) /\ reconnects \in Seq(ReconnectState)
  BY DEF NotifyInv, NotifyTypes
<1>2. \E d \in NotifyLoop :
         /\ listeners' = [listeners EXCEPT ![l] = d]
         /\ \/ listeners[l].loop \in {"running", "rescheduling"} => d.loop \in {"running", "rescheduling"}
            \/ ListenerReschedules(l)
  <2>1. CASE NotificationArrives(l)
    <3>1. [listeners[l] EXCEPT !.capturing = TRUE] \in NotifyLoop
      BY <1>1 DEF NotifyLoop
    <3>2. [listeners[l] EXCEPT !.capturing = TRUE].loop = listeners[l].loop
      BY <1>1 DEF NotifyLoop
    <3>3. QED
      BY <1>1, <2>1, <3>1, <3>2 DEF NotificationArrives
  <2>2. CASE NotifyCaptureEnds(l)
    <3>1. [listeners[l] EXCEPT !.capturing = FALSE] \in NotifyLoop
      BY <1>1 DEF NotifyLoop
    <3>2. [listeners[l] EXCEPT !.capturing = FALSE].loop = listeners[l].loop
      BY <1>1 DEF NotifyLoop
    <3>3. QED
      BY <1>1, <2>2, <3>1, <3>2 DEF NotifyCaptureEnds
  <2>3. CASE ListenerBreaks(l)
    <3>1. [listeners[l] EXCEPT !.loop = "rescheduling"] \in NotifyLoop
      BY <1>1 DEF NotifyLoop
    <3>2. [listeners[l] EXCEPT !.loop = "rescheduling"].loop = "rescheduling"
      BY <1>1 DEF NotifyLoop
    <3>3. QED
      BY <1>1, <2>3, <3>1, <3>2 DEF ListenerBreaks
  <2>4. CASE ListenerEnds(l)
    <3>1. [listeners[l] EXCEPT !.loop = "ended"] \in NotifyLoop
      BY <1>1 DEF NotifyLoop
    <3>2. QED
      BY <1>1, <2>4, <3>1 DEF ListenerEnds
  <2>5. CASE ListenerReschedules(l)
    <3>1. [listeners[l] EXCEPT !.loop = "ended"] \in NotifyLoop
      BY <1>1 DEF NotifyLoop
    <3>2. QED
      BY <1>1, <2>5, <3>1 DEF ListenerReschedules
  <2>6. QED
    BY <2>1, <2>2, <2>3, <2>4, <2>5
<1>3. /\ listeners' \in Seq(NotifyLoop) /\ DOMAIN listeners' = DOMAIN listeners
      /\ \/ \A k \in DOMAIN listeners :
               listeners[k].loop \in {"running", "rescheduling"}
               => listeners'[k].loop \in {"running", "rescheduling"}
         \/ ListenerReschedules(l)
  BY <1>1, <1>2
<1>4. listener' = listener /\ wanted' = wanted
  BY DEF NotificationArrives, NotifyCaptureEnds, ListenerBreaks, ListenerEnds, ListenerReschedules
<1>5. CASE ListenerReschedules(l)
  BY <1>1, <1>3, <1>4, <1>5, ScheduledOK
  DEF ListenerReschedules, NotifyInv, NotifyTypes, NotifyKeepsTrying
<1>6. CASE ~ListenerReschedules(l)
  <2>1. reconnects' = reconnects /\ timer' = timer
    BY <1>6 DEF NotificationArrives, NotifyCaptureEnds, ListenerBreaks, ListenerEnds
  <2>2. QED
    BY <1>1, <1>3, <1>4, <1>6, <2>1 DEF NotifyInv, NotifyTypes, NotifyKeepsTrying
<1>7. QED
  BY <1>5, <1>6

\* A reconnect that goes from one state in which it will try again to another.
LEMMA StillTrying ==
    ASSUME NEW r \in Seq(ReconnectState), NEW i \in DOMAIN r,
           NEW s \in {"fired", "connecting", "failed"},
           reconnects' = [r EXCEPT ![i] = s]
    PROVE  /\ reconnects' \in Seq(ReconnectState) /\ DOMAIN reconnects' = DOMAIN r
           /\ reconnects'[i] = s
  BY DEF ReconnectState

\* A reconnect ends with a new listener, with another try, or because it was called off.
LEMMA ReconnectOK ==
    ASSUME NotifyInv, NEW i \in DOMAIN reconnects,
           \/ TimerFires(i) \/ ReconnectBegins(i) \/ ReconnectFindsNoProfile(i)
           \/ Reconnected(i) \/ ReconnectFails(i) \/ ReconnectAgain(i)
    PROVE  NotifyInv'
<1>1. /\ NotifyTypes /\ NotifyKeepsTrying /\ reconnects \in Seq(ReconnectState)
      /\ wanted' = wanted /\ wanted \in BOOLEAN
  BY DEF NotifyInv, NotifyTypes, TimerFires, ReconnectBegins, ReconnectFindsNoProfile, Reconnected,
         ReconnectFails, ReconnectAgain
<1>2. CASE TimerFires(i)
  BY <1>1, <1>2, StillTrying DEF TimerFires, NotifyInv, NotifyTypes, NotifyKeepsTrying
<1>3. CASE ReconnectBegins(i)
  BY <1>1, <1>3, StillTrying, ListenerToldOK
  DEF ReconnectBegins, NotifyInv, NotifyTypes, NotifyKeepsTrying
<1>4. CASE ReconnectFindsNoProfile(i)
  <2>1. PICK r \in Seq(ReconnectState) : r = WithoutTimer(reconnects) /\ DOMAIN r = DOMAIN reconnects
    BY <1>1, WithoutTimerOK
  <2>2. reconnects' = [r EXCEPT ![i] = "failed"] /\ timer' = None
    BY <1>4, <2>1 DEF ReconnectFindsNoProfile
  <2>3. /\ reconnects' \in Seq(ReconnectState) /\ i \in DOMAIN reconnects'
        /\ reconnects'[i] = "failed"
    BY <2>1, <2>2, StillTrying
  <2>4. listeners' \in Seq(NotifyLoop) /\ listener' = None
    BY <1>1, <1>4, ListenerToldOK DEF ReconnectFindsNoProfile
  <2>5. QED
    BY <1>1, <2>2, <2>3, <2>4 DEF NotifyInv, NotifyTypes, NotifyKeepsTrying
<1>5. CASE Reconnected(i)
  <2>1. reconnects' \in Seq(ReconnectState) /\ DOMAIN reconnects' = DOMAIN reconnects
    BY <1>1, <1>5 DEF Reconnected, ReconnectState
  <2>2. timer' = timer
    BY <1>5 DEF Reconnected
  <2>3. QED
    BY <1>1, <1>5, <2>1, <2>2, ListeningOK DEF Reconnected, NotifyInv, NotifyTypes, NotifyKeepsTrying
<1>6. CASE ReconnectFails(i)
  BY <1>1, <1>6, StillTrying DEF ReconnectFails, NotifyInv, NotifyTypes, NotifyKeepsTrying
<1>7. CASE ReconnectAgain(i)
  <2>1. [reconnects EXCEPT ![i] = "over"] \in Seq(ReconnectState)
    BY <1>1 DEF ReconnectState
  <2>2. QED
    BY <1>1, <1>7, <2>1, ScheduledOK DEF ReconnectAgain, NotifyInv, NotifyTypes, NotifyKeepsTrying
<1>8. QED
  BY <1>2, <1>3, <1>4, <1>5, <1>6, <1>7

\* A call that has connected leaves a listener that runs.
LEMMA NotifyConnectedOK ==
    ASSUME WatcherInv, NEW c \in Caller, NotifyConnected(c)
    PROVE  NotifyInv' /\ CallTypes'
<1>1. /\ NotifyTypes /\ CallTypes /\ Listening /\ wanted' = TRUE
      /\ timer' = timer /\ reconnects' = reconnects /\ Proceeds(c, "done", doing[c].seen)
  BY DEF WatcherInv, NotifyInv, NotifyConnected
<1>2. doing[c].seen \in RowRecord
  BY DEF WatcherInv, CallTypes, GoodCall, HasTheRow, NotifyConnected
<1>3. NotifyInv'
  BY <1>1, ListeningOK DEF NotifyInv, NotifyTypes, NotifyKeepsTrying
<1>4. QED
  BY <1>1, <1>2, <1>3, StepsOK DEF CallStep

-----------------------------------------------------------------------------
(* The invariant.                                                           *)

\* A process that begins has no loop, and nothing to try.
LEMMA FreshWatcher ==
    ASSUME cadences' = <<>>, cadenceStop' = None, inFlight' = FALSE,
           listeners' = <<>>, listener' = None, timer' = None, reconnects' = <<>>, wanted' = FALSE
    PROVE  CadenceInv' /\ NotifyInv'
<1>1. /\ cadences' \in Seq(CadenceLoop) /\ listeners' \in Seq(NotifyLoop)
      /\ reconnects' \in Seq(ReconnectState)
  BY Nothing
<1>2. QED
  BY <1>1 DEF CadenceInv, CadenceTypes, CadenceKeepsTicking, NotifyInv, NotifyTypes, NotifyKeepsTrying

\* The watcher begins without a row, a call or a loop.
LEMMA InitWatcher == WatcherInit => WatcherInv
<1> SUFFICES ASSUME WatcherInit PROVE WatcherInv
  OBVIOUS
<1>1. RowTypes
  BY DEF WatcherInit, RowTypes, RowRecord
<1>2. CallTypes
  BY CallsOK DEF WatcherInit, CallTypes
<1>3. /\ cadences \in Seq(CadenceLoop) /\ listeners \in Seq(NotifyLoop)
      /\ reconnects \in Seq(ReconnectState)
  BY Nothing DEF WatcherInit
<1>4. CadenceInv /\ NotifyInv
  BY <1>3 DEF WatcherInit, CadenceInv, CadenceTypes, CadenceKeepsTicking, NotifyInv, NotifyTypes,
              NotifyKeepsTrying
<1>5. QED
  BY <1>1, <1>2, <1>4 DEF WatcherInv

\* A step of the cadence alone, of the listener alone, or of the row alone.
LEMMA OthersKept ==
    ASSUME WatcherInv
    PROVE  /\ UNCHANGED cadenceVars => CadenceInv'
           /\ UNCHANGED notifyVars => NotifyInv'
           /\ UNCHANGED <<row, profileKept, closing>> => RowTypes'
           /\ UNCHANGED doing => CallTypes'
<1>1. UNCHANGED cadenceVars => CadenceInv'
  BY DEF WatcherInv, cadenceVars, CadenceInv, CadenceTypes, CadenceKeepsTicking
<1>2. UNCHANGED notifyVars => NotifyInv'
  BY DEF WatcherInv, notifyVars, NotifyInv, NotifyTypes, NotifyKeepsTrying
<1>3. QED
  BY <1>1, <1>2 DEF WatcherInv, RowTypes, CallTypes

\* A call begins by stopping its half.
LEMMA StoppingOK ==
    ASSUME WatcherInv, NEW c \in Caller, NEW on \in BOOLEAN, NEW after \in BOOLEAN,
           StopCadence(c, on, after) \/ StopNotify(c, on)
    PROVE  WatcherInv'
<1>1. CASE StopCadence(c, on, after)
  <2>1. CadenceInv'
    BY <1>1, CadenceToldOK DEF StopCadence, WatcherInv
  <2>2. CallTypes'
    BY <1>1, CallsOK DEF StopCadence, WatcherInv, CallTypes
  <2>3. UNCHANGED <<row, profileKept, closing>> /\ UNCHANGED notifyVars
    BY <1>1 DEF StopCadence
  <2>4. QED
    BY <2>1, <2>2, <2>3, OthersKept DEF WatcherInv
<1>2. CASE StopNotify(c, on)
  <2>1. NotifyInv'
    BY <1>2, NotifyToldOK DEF StopNotify, WatcherInv
  <2>2. CallTypes'
    BY <1>2, CallsOK DEF StopNotify, WatcherInv, CallTypes
  <2>3. UNCHANGED <<row, profileKept, closing>> /\ UNCHANGED cadenceVars
    BY <1>2 DEF StopNotify
  <2>4. QED
    BY <2>1, <2>2, <2>3, OthersKept DEF WatcherInv
<1>3. QED
  BY <1>1, <1>2

\* Every step of a call keeps the invariant.
LEMMA CallStepOK ==
    ASSUME WatcherInv, NEW c \in Caller,
           \/ \E on \in BOOLEAN : ToggleCadence(c, on) \/ ToggleNotify(c, on)
           \/ ReadRow(c) \/ ClearRow(c) \/ WriteCadence(c) \/ CadenceStarts(c)
           \/ NotifyConnected(c) \/ NotifyRefused(c) \/ NotifyEnabled(c)
           \/ Restart(c) \/ ResumeLists(c) \/ ResumeCadence(c) \/ ResumeNotify(c)
    PROVE  WatcherInv'
<1>1. CASE \E on \in BOOLEAN : ToggleCadence(c, on) \/ ToggleNotify(c, on)
  BY <1>1, StoppingOK DEF ToggleCadence, ToggleNotify
<1>2. CASE ReadRow(c) \/ ClearRow(c) \/ WriteCadence(c) \/ NotifyRefused(c) \/ NotifyEnabled(c)
  <2>1. UNCHANGED cadenceVars /\ UNCHANGED notifyVars
    BY <1>2 DEF ReadRow, ClearRow, WriteCadence, NotifyRefused, NotifyEnabled, OnlyTheRow
  <2>2. QED
    BY <1>2, <2>1, RowStepsOK, OthersKept DEF WatcherInv
<1>3. CASE CadenceStarts(c)
  <2>1. UNCHANGED <<row, profileKept, closing>> /\ UNCHANGED notifyVars
    BY <1>3 DEF CadenceStarts
  <2>2. QED
    BY <1>3, <2>1, CadenceStartsOK, OthersKept DEF WatcherInv
<1>4. CASE NotifyConnected(c)
  <2>1. UNCHANGED <<row, profileKept, closing>> /\ UNCHANGED cadenceVars
    BY <1>4 DEF NotifyConnected
  <2>2. QED
    BY <1>4, <2>1, NotifyConnectedOK, OthersKept DEF WatcherInv
<1>5. CASE Restart(c)
  <2>1. RowTypes'
    BY <1>5 DEF Restart, WatcherInv, RowTypes
  <2>2. CallTypes'
    BY <1>5, CallsOK DEF Restart, CallTypes
  <2>3. CadenceInv' /\ NotifyInv'
    BY <1>5, FreshWatcher DEF Restart
  <2>4. QED
    BY <2>1, <2>2, <2>3 DEF WatcherInv
<1>6. CASE ResumeLists(c)
  <2>1. \E d \in GoodCall : doing' = [doing EXCEPT ![c] = d]
    <3>1. row.notify \in BOOLEAN
      BY DEF WatcherInv, RowTypes, RowRecord
    <3>2. QED
      BY <1>6, <3>1, CallsOK DEF ResumeLists
  <2>2. CallTypes'
    BY <2>1 DEF WatcherInv, CallTypes
  <2>3. UNCHANGED <<row, profileKept, closing>> /\ UNCHANGED cadenceVars /\ UNCHANGED notifyVars
    BY <1>6 DEF ResumeLists, OnlyTheRow
  <2>4. QED
    BY <2>2, <2>3, OthersKept DEF WatcherInv
<1>7. CASE ResumeCadence(c)
  <2>1. doing[c].after \in BOOLEAN
    BY DEF WatcherInv, CallTypes, GoodCall, CallRecord
  <2>2. QED
    BY <1>7, <2>1, StoppingOK DEF ResumeCadence
<1>8. CASE ResumeNotify(c)
  BY <1>8, StoppingOK DEF ResumeNotify
<1>9. QED
  BY <1>1, <1>2, <1>3, <1>4, <1>5, <1>6, <1>7, <1>8

\* Every step of the watcher keeps the invariant.
LEMMA WatcherStep == WatcherInv /\ [WatcherNext]_watcherVars => WatcherInv'
<1> SUFFICES ASSUME WatcherInv, [WatcherNext]_watcherVars PROVE WatcherInv'
  OBVIOUS
<1>1. CadenceInv /\ NotifyInv /\ RowTypes /\ CallTypes
  BY DEF WatcherInv
<1>2. ASSUME NEW c \in Caller,
             \/ \E on \in BOOLEAN : ToggleCadence(c, on) \/ ToggleNotify(c, on)
             \/ ReadRow(c) \/ ClearRow(c) \/ WriteCadence(c) \/ CadenceStarts(c)
             \/ NotifyConnected(c) \/ NotifyRefused(c) \/ NotifyEnabled(c)
             \/ Restart(c) \/ ResumeLists(c) \/ ResumeCadence(c) \/ ResumeNotify(c)
      PROVE  WatcherInv'
  BY <1>2, CallStepOK
<1>3. ASSUME NEW i \in DOMAIN cadences, Tick(i) \/ CaptureEnds(i) \/ CadenceEnds(i)
      PROVE  WatcherInv'
  <2>1. UNCHANGED <<row, profileKept, closing>> /\ UNCHANGED doing /\ UNCHANGED notifyVars
    BY <1>3 DEF Tick, CaptureEnds, CadenceEnds
  <2>2. QED
    BY <1>1, <1>3, <2>1, CaptureOK, OthersKept DEF WatcherInv
<1>4. ASSUME NEW l \in DOMAIN listeners,
             \/ NotificationArrives(l) \/ NotifyCaptureEnds(l)
             \/ ListenerBreaks(l) \/ ListenerEnds(l) \/ ListenerReschedules(l)
      PROVE  WatcherInv'
  <2>1. UNCHANGED <<row, profileKept, closing>> /\ UNCHANGED doing /\ UNCHANGED cadenceVars
    BY <1>4 DEF NotificationArrives, NotifyCaptureEnds, ListenerBreaks, ListenerEnds,
                ListenerReschedules
  <2>2. QED
    BY <1>1, <1>4, <2>1, ListenerOK, OthersKept DEF WatcherInv
<1>5. ASSUME NEW i \in DOMAIN reconnects,
             \/ TimerFires(i) \/ ReconnectBegins(i) \/ ReconnectFindsNoProfile(i)
             \/ Reconnected(i) \/ ReconnectFails(i) \/ ReconnectAgain(i)
      PROVE  WatcherInv'
  <2>1. UNCHANGED <<profileKept, closing>> /\ UNCHANGED doing /\ UNCHANGED cadenceVars
    BY <1>5 DEF TimerFires, ReconnectBegins, ReconnectFindsNoProfile, Reconnected, ReconnectFails,
                ReconnectAgain
  <2>2. row' = row \/ row' = Off(row, "notify")
    BY <1>5 DEF TimerFires, ReconnectBegins, ReconnectFindsNoProfile, Reconnected, ReconnectFails,
                ReconnectAgain
  <2>3. RowTypes'
    BY <1>1, <2>1, <2>2 DEF RowTypes, RowRecord, Off
  <2>4. QED
    BY <1>1, <1>5, <2>1, <2>3, ReconnectOK, OthersKept DEF WatcherInv
<1>6. CASE ProfileDeleted
  <2>1. UNCHANGED doing /\ UNCHANGED cadenceVars /\ UNCHANGED notifyVars
    BY <1>6 DEF ProfileDeleted
  <2>2. RowTypes'
    BY <1>1, <1>6 DEF ProfileDeleted, RowTypes
  <2>3. QED
    BY <2>1, <2>2, OthersKept DEF WatcherInv
<1>7. CASE StopAll
  <2>1. CadenceInv' /\ NotifyInv'
    BY <1>1, <1>7, CadenceToldOK, NotifyToldOK DEF StopAll
  <2>2. RowTypes' /\ UNCHANGED doing
    BY <1>1, <1>7 DEF StopAll, RowTypes
  <2>3. QED
    BY <2>1, <2>2, OthersKept DEF WatcherInv
<1>8. CASE UNCHANGED watcherVars
  BY <1>8, OthersKept DEF watcherVars, WatcherInv
<1>9. QED
  BY <1>2, <1>3, <1>4, <1>5, <1>6, <1>7, <1>8 DEF WatcherNext

\* Whatever the number of callers, loops and reconnects, what the map names runs, what the
\* flag says is so, and what is wanted is tried.
THEOREM WatcherInvariance == WatcherSpec => []WatcherInv
  BY InitWatcher, WatcherStep, PTL DEF WatcherSpec

\* The watcher's state is always of its type.
THEOREM WatcherTyped == WatcherSpec => []WatcherTypeOK
<1>1. WatcherInv => WatcherTypeOK
  <2> SUFFICES ASSUME WatcherInv PROVE WatcherTypeOK
    OBVIOUS
  <2>1. \A i \in DOMAIN cadences : cadences[i] \in CadenceLoop
    BY DEF WatcherInv, CadenceInv, CadenceTypes
  <2>2. \A l \in DOMAIN listeners : listeners[l] \in NotifyLoop
    BY DEF WatcherInv, NotifyInv, NotifyTypes
  <2>3. \A i \in DOMAIN reconnects : reconnects[i] \in ReconnectState
    BY DEF WatcherInv, NotifyInv, NotifyTypes
  <2>4. \A c \in Caller : doing[c] \in CallRecord
    BY DEF WatcherInv, CallTypes, GoodCall
  <2>5. /\ row \in RowRecord /\ {inFlight, profileKept, closing, wanted} \subseteq BOOLEAN
        /\ cadenceStop \in DOMAIN cadences \cup {None}
        /\ listener \in DOMAIN listeners \cup {None} /\ timer \in DOMAIN reconnects \cup {None}
    BY DEF WatcherInv, RowTypes, CadenceInv, CadenceTypes, NotifyInv, NotifyTypes
  <2>6. QED
    BY <2>1, <2>2, <2>3, <2>4, <2>5
    DEF WatcherTypeOK, CadenceLoop, NotifyLoop, ReconnectState, RowRecord, CallRecord, CallStep
<1>2. QED
  BY <1>1, WatcherInvariance, PTL

\* However the calls of any number of callers overlap with each other, with breaks and
\* with reconnects, an enabled cadence has a loop whose ticks are skipped during captures
\* only, and notifications that were switched on are listened for or tried again.
THEOREM GoesOn == WatcherSpec => []WatcherGoesOn
<1>1. WatcherInv => WatcherGoesOn
  BY DEF WatcherInv, CadenceInv, NotifyInv, WatcherGoesOn
<1>2. QED
  BY <1>1, WatcherInvariance, PTL

-----------------------------------------------------------------------------
(* The exports.                                                             *)

\* From the call to the rename, and from the registration to the end.
Working == {"called", "registered", "admitted", "writing", "written"}
InFlight == {"registered", "admitted", "writing", "written", "leaving"}

ExportRecord ==
    [stage : {"choosing", "answered", "over"} \cup Working \cup InFlight,
     cancelled : BOOLEAN, temporary : BOOLEAN, committed : BOOLEAN,
     result : {None, "cancelled", "failed", "done"}, promised : BOOLEAN, excused : BOOLEAN]

\* The button of an export that works names it.
Buttons ==
    {b \in [job : Export \cup {None}, phase : {"idle", "selecting", "exporting"}] :
        b.phase = "exporting" => b.job # None}

ExportTypes ==
    /\ exports \in Seq(ExportRecord)
    /\ early \subseteq Export /\ aged \subseteq Export /\ early \cap aged = {}
    /\ Cardinality(early \cup aged) <= MaxPending
    /\ cancelCalls \subseteq Export
    /\ service \in {"open", "closing", "closed"}
    /\ button \in Buttons

\* What is true of one export, given who may still cancel it: the rename comes after the
\* work, and a promise made to cancel it lies with the export or with the native side.
ExportSound(x, e, soon, asked, serving, shown) ==
    /\ e.committed => e.stage \in {"leaving", "answered", "over"} /\ ~e.promised
    /\ e.committed <=> e.result = "done"
    /\ e.temporary => e.stage \in {"writing", "written", "leaving"}
    /\ e.promised /\ ~e.committed /\ e.stage \in InFlight => e.cancelled
    /\ e.promised /\ e.stage \in {"choosing", "called"} => x \in soon
    /\ e.stage \in Working =>
          \/ shown.job = x /\ shown.phase = "exporting"
          \/ x \in asked \/ e.promised \/ e.excused
    /\ serving = "closed" => e.stage \notin InFlight

ExportInv ==
    /\ ExportTypes
    /\ \A x \in Export : ExportSound(x, exports[x], early, cancelCalls, service, button)

\* There are finitely many exports.
LEMMA FiniteExports ==
    ASSUME exports \in Seq(ExportRecord)
    PROVE  \A S \in SUBSET Export : IsFiniteSet(S)
<1>1. Export = 1 .. Len(exports) /\ Len(exports) \in Nat
  BY DEF Export
<1>2. IsFiniteSet(Export)
  BY <1>1, FS_Interval
<1>3. QED
  BY <1>2, FS_Subset

\* An export that changes, with the rest of the state that speaks of it.
LEMMA ExportMoved ==
    ASSUME ExportInv, NEW x \in Export, NEW e \in ExportRecord,
           exports' = [exports EXCEPT ![x] = e],
           ExportSound(x, e, early', cancelCalls', service', button'),
           \A y \in Export \ {x} :
              ExportSound(y, exports[y], early', cancelCalls', service', button'),
           early' \subseteq Export, aged' \subseteq Export, early' \cap aged' = {},
           Cardinality(early' \cup aged') <= MaxPending, cancelCalls' \subseteq Export,
           service' \in {"open", "closing", "closed"},
           button' \in Buttons
    PROVE  ExportInv'
<1>1. exports' \in Seq(ExportRecord) /\ DOMAIN exports' = DOMAIN exports
  <2>1. exports \in Seq(ExportRecord)
    BY DEF ExportInv, ExportTypes
  <2>2. QED
    BY <2>1 DEF Export
<1>2. exports'[x] = e /\ \A y \in Export \ {x} : exports'[y] = exports[y]
  BY DEF Export
<1>3. \A y \in Export : ExportSound(y, exports'[y], early', cancelCalls', service', button')
  BY <1>2
<1>4. Export' = Export
  BY <1>1 DEF Export
<1>5. ExportTypes'
  <2>1. Buttons' = Buttons
    BY <1>4 DEF Buttons
  <2>2. Cardinality(early' \cup aged') <= MaxPending
    OBVIOUS
  <2>3. QED
    BY <1>1, <1>4, <2>1, <2>2 DEF ExportTypes
<1>6. QED
  BY <1>3, <1>4, <1>5 DEF ExportInv

\* The steps of the native side that concern one export and nothing else of the state.
LEMMA ExportWorks ==
    ASSUME ExportInv, NEW x \in Export,
           \/ AdmitExport(x) \/ OpenTemporary(x) \/ WriteRows(x)
           \/ CommitExport(x) \/ RemoveTemporary(x) \/ FinishExport(x)
    PROVE  ExportInv'
<1>1. /\ exports \in Seq(ExportRecord) /\ exports[x] \in ExportRecord /\ x \in DOMAIN exports
      /\ ExportSound(x, exports[x], early, cancelCalls, service, button)
  BY DEF ExportInv, ExportTypes, Export
<1>2. UNCHANGED <<early, aged, cancelCalls, service, button>>
  BY DEF AdmitExport, OpenTemporary, WriteRows, CommitExport, RemoveTemporary, FinishExport
<1>3. \E e \in ExportRecord :
         /\ exports' = [exports EXCEPT ![x] = e]
         /\ ExportSound(x, e, early, cancelCalls, service, button)
  <2> DEFINE OK(e) == /\ e \in ExportRecord /\ exports' = [exports EXCEPT ![x] = e]
                      /\ ExportSound(x, e, early, cancelCalls, service, button)
             leave(r) == [exports[x] EXCEPT !.stage = "leaving", !.result = r]
  <2> USE <1>1 DEF ExportRecord, ExportSound, Working, InFlight
  <2>1. ASSUME exports[x].stage \in {"registered", "admitted", "writing", "written"},
               NEW r \in {"cancelled", "failed"}, Leaves(x, r)
        PROVE  OK(leave(r))
    BY <2>1, ExportAssumption DEF Leaves
  <2>2. CASE AdmitExport(x)
    <3>1. CASE exports[x].cancelled
      BY <2>1, <2>2, <3>1 DEF AdmitExport
    <3>2. CASE ~exports[x].cancelled
      <4>1. OK([exports[x] EXCEPT !.stage = "admitted"])
        BY <2>2, <3>2 DEF AdmitExport
      <4>2. QED
        BY <4>1
    <3>3. QED
      BY <3>1, <3>2
  <2>3. CASE OpenTemporary(x)
    <3>1. CASE Leaves(x, "failed")
      BY <2>1, <2>3, <3>1 DEF OpenTemporary
    <3>2. CASE exports' = [exports EXCEPT ![x].stage = "writing", ![x].temporary = TRUE]
      <4>1. OK([exports[x] EXCEPT !.stage = "writing", !.temporary = TRUE])
        BY <2>3, <3>2 DEF OpenTemporary
      <4>2. QED
        BY <4>1
    <3>3. QED
      BY <2>3, <3>1, <3>2 DEF OpenTemporary
  <2>4. CASE WriteRows(x)
    <3>1. CASE Leaves(x, "failed") \/ Leaves(x, "cancelled")
      BY <2>1, <2>4, <3>1 DEF WriteRows
    <3>2. CASE exports' = [exports EXCEPT ![x].stage = "written"]
      <4>1. OK([exports[x] EXCEPT !.stage = "written"])
        BY <2>4, <3>2 DEF WriteRows
      <4>2. QED
        BY <4>1
    <3>3. QED
      BY <2>4, <3>1, <3>2 DEF WriteRows
  <2>5. CASE CommitExport(x)
    <3>1. CASE Leaves(x, "failed") \/ Leaves(x, "cancelled")
      BY <2>1, <2>5, <3>1 DEF CommitExport
    <3> DEFINE done == [exports[x] EXCEPT !.stage = "leaving", !.result = "done",
                                          !.committed = TRUE, !.temporary = FALSE]
    <3>2. CASE /\ ~exports[x].cancelled
               /\ exports' = [exports EXCEPT ![x].stage = "leaving", ![x].result = "done",
                                             ![x].committed = TRUE, ![x].temporary = FALSE]
      <4>1. done \in ExportRecord /\ exports' = [exports EXCEPT ![x] = done]
        BY <3>2
      <4>2. ~exports[x].promised /\ service # "closed"
        BY <2>5, <3>2 DEF CommitExport
      <4>3. ExportSound(x, done, early, cancelCalls, service, button)
        BY <4>2
      <4>4. QED
        BY <4>1, <4>3
    <3>3. QED
      BY <2>5, <3>1, <3>2 DEF CommitExport
  <2>6. CASE RemoveTemporary(x)
    <3>1. OK([exports[x] EXCEPT !.temporary = FALSE])
      BY <2>6 DEF RemoveTemporary
    <3>2. QED
      BY <3>1
  <2>7. CASE FinishExport(x)
    <3>1. OK([exports[x] EXCEPT !.stage = "answered"])
      BY <2>7 DEF FinishExport
    <3>2. QED
      BY <3>1
  <2>8. QED
    BY <2>2, <2>3, <2>4, <2>5, <2>6, <2>7
<1>4. QED
  BY <1>2, <1>3, ExportMoved DEF ExportInv, ExportTypes

\* Whom a promise of one export does not concern keeps what was true of it.
LEMMA ExportRegistration ==
    ASSUME ExportInv, NEW x \in Export, RegisterExport(x) \/ RefuseExport(x)
    PROVE  ExportInv'
<1>1. /\ exports \in Seq(ExportRecord) /\ exports[x] \in ExportRecord /\ x \in DOMAIN exports
      /\ ExportSound(x, exports[x], early, cancelCalls, service, button)
  BY DEF ExportInv, ExportTypes, Export
<1>2. ExportTypes
  BY DEF ExportInv
<1> DEFINE named == [exports[x] EXCEPT !.stage = "registered", !.cancelled = x \in early]
           refused == [exports[x] EXCEPT !.stage = "answered", !.result = "failed"]
<1>3. named \in ExportRecord /\ refused \in ExportRecord
  <2>1. (x \in early) \in BOOLEAN
    OBVIOUS
  <2>2. named \in ExportRecord
    BY <1>1, <2>1 DEF ExportRecord, InFlight
  <2>3. refused \in ExportRecord
    BY <1>1 DEF ExportRecord
  <2>4. QED
    BY <2>2, <2>3
<1>4. IsFiniteSet(early \cup aged)
  BY <1>2, FiniteExports DEF ExportTypes
<1>5. CASE RegisterExport(x)
  <2>1. exports' = [exports EXCEPT ![x] = named]
    BY <1>1, <1>5 DEF RegisterExport
  <2>2. ExportSound(x, named, early', cancelCalls', service', button')
    BY <1>1, <1>5 DEF RegisterExport, ExportSound, Working, InFlight, ExportRecord
  <2>3. \A y \in Export \ {x} :
           ExportSound(y, exports[y], early', cancelCalls', service', button')
    BY <1>5 DEF RegisterExport, ExportInv, ExportSound
  <2>4. Cardinality(early' \cup aged') <= MaxPending
    <3>1. early' \cup aged' \subseteq early \cup aged
      BY <1>5 DEF RegisterExport
    <3>2. IsFiniteSet(early \cup aged)
      BY <1>4
    <3>3. QED
      BY <3>1, <1>4, <1>2, FS_Subset, FS_CardinalityType, ExportAssumption DEF ExportTypes
  <2>5. QED
    BY <1>2, <1>3, <1>5, <2>1, <2>2, <2>3, <2>4, ExportMoved DEF RegisterExport, ExportTypes
<1>6. CASE RefuseExport(x)
  <2>1. exports' = [exports EXCEPT ![x] = refused]
    BY <1>1, <1>6 DEF RefuseExport
  <2>2. ExportSound(x, refused, early', cancelCalls', service', button')
    BY <1>1, <1>6, ExportAssumption DEF RefuseExport, ExportSound, Working, InFlight, ExportRecord
  <2>3. QED
    BY <1>2, <1>3, <1>6, <2>1, <2>2, ExportMoved DEF RefuseExport, ExportTypes, ExportInv
<1>7. QED
  BY <1>5, <1>6

\* CancelExport, and the end of the time its early cancellations are kept.
LEMMA ExportCancelled ==
    ASSUME ExportInv, NEW x \in Export, CancelExport(x) \/ AgeCancellation(x)
    PROVE  ExportInv'
<1>1. /\ exports \in Seq(ExportRecord) /\ exports[x] \in ExportRecord /\ x \in DOMAIN exports
      /\ ExportSound(x, exports[x], early, cancelCalls, service, button)
  BY DEF ExportInv, ExportTypes, Export
<1>2. ExportTypes
  BY DEF ExportInv
<1> DEFINE kept == ~exports[x].committed
           told == [exports[x] EXCEPT !.cancelled = TRUE, !.promised = @ \/ kept]
           noted == [exports[x] EXCEPT !.promised = @ \/ kept]
           excused == [exports[x] EXCEPT !.excused = TRUE]
           aged1 == [exports[x] EXCEPT !.promised = FALSE, !.excused = TRUE]
<1>3. {told, noted, excused, aged1} \subseteq ExportRecord
  <2>1. (exports[x].promised \/ kept) \in BOOLEAN
    OBVIOUS
  <2>2. QED
    BY <1>1, <2>1, ZenonT(60) DEF ExportRecord
<1>4. CASE CancelExport(x)
  <2>1. /\ service' = service /\ button' = button /\ cancelCalls' = cancelCalls \ {x}
        /\ CancelRunning(x) \/ CancelEarly(x) \/ CancelDeclined(x)
    BY <1>4 DEF CancelExport
  <2>2. ASSUME early \subseteq early'
        PROVE  \A y \in Export \ {x} :
                  ExportSound(y, exports[y], early', cancelCalls', service', button')
    BY <2>1, <2>2 DEF ExportInv, ExportSound
  <2>3. CASE CancelRunning(x)
    <3>1. exports' = [exports EXCEPT ![x] = told] /\ early' = early /\ aged' = aged
      BY <1>1, <2>3 DEF CancelRunning
    <3>2. ExportSound(x, told, early', cancelCalls', service', button')
      BY <1>1, <2>1, <2>3, <3>1 DEF CancelRunning, Registered, ExportSound, Working, InFlight, ExportRecord
    <3>3. QED
      BY <1>2, <1>3, <2>1, <2>2, <3>1, <3>2, ExportMoved DEF ExportTypes
  <2>4. CASE CancelEarly(x)
    <3>1. exports' = [exports EXCEPT ![x] = noted] /\ early' = early \cup {x} /\ aged' = {}
      BY <1>1, <2>4 DEF CancelEarly
    <3>2. ExportSound(x, noted, early', cancelCalls', service', button')
      BY <1>1, <2>1, <2>4, <3>1 DEF CancelEarly, Registered, ExportSound, Working, InFlight, ExportRecord
    <3>3. Cardinality(early' \cup aged') <= MaxPending
      <4>1. IsFiniteSet(early) /\ Cardinality(early) \in Nat
        BY <1>2, FiniteExports, FS_CardinalityType DEF ExportTypes
      <4>2. Cardinality(early \cup {x}) =
               IF x \in early THEN Cardinality(early) ELSE Cardinality(early) + 1
        BY <4>1, FS_AddElement
      <4>3. early' \cup aged' = early \cup {x} /\ Cardinality(early) < MaxPending
        BY <2>4, <3>1 DEF CancelEarly
      <4>4. Cardinality(early \cup {x}) <= MaxPending
        BY <4>1, <4>2, <4>3, ExportAssumption
      <4>5. QED
        BY <4>3, <4>4
    <3>4. QED
      BY <1>2, <1>3, <2>1, <2>2, <3>1, <3>2, <3>3, ExportMoved DEF ExportTypes
  <2>5. CASE CancelDeclined(x)
    <3>1. exports' = [exports EXCEPT ![x] = excused] /\ early' = early /\ aged' \in {aged, {}}
      BY <1>1, <2>5 DEF CancelDeclined
    <3>2. ExportSound(x, excused, early', cancelCalls', service', button')
      BY <1>1, <2>1, <3>1 DEF ExportSound, Working, InFlight, ExportRecord
    <3>3. Cardinality(early' \cup aged') <= MaxPending
      <4>1. IsFiniteSet(early \cup aged)
        BY <1>2, FiniteExports DEF ExportTypes
      <4>2. early' \cup aged' \subseteq early \cup aged
        BY <3>1
      <4>3. QED
        BY <1>2, <4>1, <4>2, FS_Subset, FS_CardinalityType, ExportAssumption DEF ExportTypes
    <3>4. QED
      BY <1>2, <1>3, <2>1, <2>2, <3>1, <3>2, <3>3, ExportMoved DEF ExportTypes
  <2>6. QED
    BY <2>1, <2>3, <2>4, <2>5
<1>5. CASE AgeCancellation(x)
  <2>1. /\ exports' = [exports EXCEPT ![x] = aged1] /\ early' = early \ {x} /\ aged' = aged \cup {x}
        /\ x \in early /\ UNCHANGED <<cancelCalls, service, button>>
    BY <1>1, <1>5 DEF AgeCancellation
  <2>2. ExportSound(x, aged1, early', cancelCalls', service', button')
    BY <1>1, <2>1 DEF ExportSound, Working, InFlight, ExportRecord
  <2>3. \A y \in Export \ {x} :
           ExportSound(y, exports[y], early', cancelCalls', service', button')
    BY <2>1 DEF ExportInv, ExportSound
  <2>4. early' \cup aged' = early \cup aged
    BY <2>1
  <2>5. QED
    BY <1>2, <1>3, <2>1, <2>2, <2>3, <2>4, ExportMoved DEF ExportTypes
<1>6. QED
  BY <1>4, <1>5

\* A step that changes every export at once.
LEMMA ExportsMapped ==
    ASSUME ExportInv, DOMAIN exports' = DOMAIN exports,
           exports' = [x \in Export |-> exports'[x]],
           \A x \in Export :
              /\ exports'[x] \in ExportRecord
              /\ ExportSound(x, exports'[x], early', cancelCalls', service', button'),
           UNCHANGED <<early, aged, cancelCalls>>, service' \in {"open", "closing", "closed"},
           button' \in Buttons
    PROVE  ExportInv'
<1>1. ExportTypes
  BY DEF ExportInv
<1>2. exports' \in Seq(ExportRecord)
  <2>1. exports \in Seq(ExportRecord)
    BY <1>1 DEF ExportTypes
  <2>2. QED
    BY <2>1, Mapped DEF Export
<1>3. Export' = Export
  BY DEF Export
<1>4. ExportTypes'
  <2>1. Cardinality(early' \cup aged') <= MaxPending
    BY <1>1 DEF ExportTypes
  <2>2. Buttons' = Buttons
    BY <1>3 DEF Buttons
  <2>3. QED
    BY <1>1, <1>2, <1>3, <2>1, <2>2 DEF ExportTypes
<1>5. QED
  BY <1>3, <1>4 DEF ExportInv

\* The service closes under the exports, and the window is reloaded over them.
LEMMA ExportsClose ==
    ASSUME ExportInv, CloseExports \/ CloseExportsReturns \/ ReloadView
    PROVE  ExportInv'
<1>1. /\ ExportTypes /\ exports \in Seq(ExportRecord)
      /\ \A x \in Export : exports[x] \in ExportRecord
  BY DEF ExportInv, ExportTypes, Export
<1>2. \A x \in Export : ExportSound(x, exports[x], early, cancelCalls, service, button)
  BY DEF ExportInv
<1>3. CASE CloseExports
  <2> DEFINE told(x) == [exports[x] EXCEPT !.cancelled = TRUE,
                                           !.promised = @ \/ ~exports[x].committed]
  <2>1. /\ exports' = [x \in Export |-> IF ~Registered(x) THEN exports[x] ELSE told(x)]
        /\ service' = "closing" /\ UNCHANGED <<early, aged, cancelCalls, button>>
    BY <1>3 DEF CloseExports
  <2>2. ASSUME NEW x \in Export
        PROVE  /\ exports'[x] \in ExportRecord
               /\ ExportSound(x, exports'[x], early', cancelCalls', service', button')
    <3>1. exports'[x] = IF ~Registered(x) THEN exports[x] ELSE told(x)
      BY <2>1
    <3>2. (exports[x].promised \/ ~exports[x].committed) \in BOOLEAN
      OBVIOUS
    <3>3. told(x) \in ExportRecord
      BY <1>1, <3>2 DEF ExportRecord
    <3>4. Registered(x) =>
             ExportSound(x, told(x), early, cancelCalls, "closing", button)
      BY <1>1, <1>2, <3>2 DEF Registered, ExportSound, ExportRecord, Working, InFlight
    <3>5. ExportSound(x, exports[x], early, cancelCalls, "closing", button)
      BY <1>2 DEF ExportSound
    <3> HIDE DEF told
    <3>6. QED
      BY <1>1, <2>1, <3>1, <3>3, <3>4, <3>5
  <2>3. DOMAIN exports' = DOMAIN exports /\ exports' = [x \in Export |-> exports'[x]]
    BY <2>1 DEF Export
  <2> HIDE DEF told
  <2>4. service' \in {"open", "closing", "closed"}
    BY <2>1
  <2>5. UNCHANGED <<early, aged, cancelCalls>>
    BY <2>1
  <2>6. button' \in Buttons
    BY <1>1, <2>1 DEF ExportTypes
  <2>7. QED
    BY <2>2, <2>3, <2>4, <2>5, <2>6, ExportsMapped
<1>4. CASE CloseExportsReturns
  <2>1. /\ UNCHANGED <<exports, early, aged, cancelCalls, button>> /\ service' = "closed"
        /\ \A x \in Export : exports[x].stage \notin InFlight
    BY <1>4 DEF CloseExportsReturns, Registered, InFlight
  <2>2. \A x \in Export : ExportSound(x, exports[x], early, cancelCalls, "closed", button)
    BY <1>2, <2>1 DEF ExportSound
  <2>3. Export' = Export
    BY <2>1 DEF Export
  <2>4. ExportTypes'
    <3>1. Cardinality(early' \cup aged') <= MaxPending
      BY <1>1, <2>1 DEF ExportTypes
    <3>2. Buttons' = Buttons
      BY <2>3 DEF Buttons
    <3>3. QED
      BY <1>1, <2>1, <2>3, <3>1, <3>2 DEF ExportTypes
  <2>5. QED
    BY <2>1, <2>2, <2>3, <2>4 DEF ExportInv
<1>5. CASE ReloadView
  <2> DEFINE left(x) == [exports[x] EXCEPT !.stage = IF @ = "choosing" THEN "over" ELSE @,
                                           !.excused = TRUE]
  <2>1. /\ exports' = [x \in Export |-> left(x)] /\ button' = IdleButton
        /\ UNCHANGED <<early, aged, cancelCalls, service>>
    BY <1>5 DEF ReloadView
  <2>2. ASSUME NEW x \in Export
        PROVE  /\ left(x) \in ExportRecord
               /\ ExportSound(x, left(x), early, cancelCalls, service, IdleButton)
    <3>1. left(x) \in ExportRecord
      BY <1>1 DEF ExportRecord
    <3>2. ExportSound(x, left(x), early, cancelCalls, service, IdleButton)
      BY <1>1, <1>2 DEF ExportSound, ExportRecord, Working, InFlight
    <3>3. QED
      BY <3>1, <3>2
  <2> HIDE DEF left
  <2>3. DOMAIN exports' = DOMAIN exports /\ exports' = [x \in Export |-> exports'[x]]
    BY <2>1 DEF Export
  <2>4. \A x \in Export : exports'[x] = left(x)
    BY <2>1
  <2>5. button' \in Buttons
    BY <2>1 DEF IdleButton, Buttons
  <2>6. \A x \in Export :
           /\ exports'[x] \in ExportRecord
           /\ ExportSound(x, exports'[x], early', cancelCalls', service', button')
    BY <2>1, <2>2, <2>4
  <2>7. service' \in {"open", "closing", "closed"} /\ UNCHANGED <<early, aged, cancelCalls>>
    BY <1>1, <2>1 DEF ExportTypes
  <2>8. QED
    BY <2>3, <2>5, <2>6, <2>7, ExportsMapped
<1>6. QED
  BY <1>3, <1>4, <1>5

\* The button: an export it starts, the answers it hears, and the view it is part of.
LEMMA ExportButton ==
    ASSUME ExportInv,
           \/ PressExport \/ PressCancel \/ LeaveView
           \/ \E x \in Export : ChooseDestination(x) \/ NoDestination(x) \/ HearExport(x)
    PROVE  ExportInv'
<1>1. /\ ExportTypes /\ exports \in Seq(ExportRecord)
      /\ \A x \in Export : exports[x] \in ExportRecord /\ x \in Nat /\ x # None
  BY ExportAssumption DEF ExportInv, ExportTypes, Export
<1>2. \A x \in Export : ExportSound(x, exports[x], early, cancelCalls, service, button)
  BY DEF ExportInv
<1>3. CASE PressExport
  <2>1. /\ exports' = Append(exports, NewExport) /\ button = IdleButton
        /\ UNCHANGED <<early, aged, cancelCalls, service>>
    BY <1>3 DEF PressExport
  <2>2. NewExport \in ExportRecord
    BY DEF NewExport, ExportRecord
  <2>3. /\ exports' \in Seq(ExportRecord) /\ Export' = 1 .. Len(exports) + 1
        /\ Export = 1 .. Len(exports) /\ Len(exports) \in Nat
        /\ exports'[Len(exports) + 1] = NewExport
        /\ \A x \in Export : exports'[x] = exports[x]
    BY <1>1, <2>1, <2>2, Appended DEF Export
  <2>4. button' = [job |-> Len(exports) + 1, phase |-> "selecting"]
    BY <1>1, <1>3, <2>1, <2>3 DEF PressExport
  <2>5. ExportTypes'
    <3>1. Cardinality(early' \cup aged') <= MaxPending
      BY <1>1, <2>1 DEF ExportTypes
    <3>2. early' \subseteq Export' /\ aged' \subseteq Export' /\ cancelCalls' \subseteq Export'
      BY <1>1, <2>1, <2>3 DEF ExportTypes
    <3>3. button' \in Buttons'
      BY <2>3, <2>4 DEF Buttons
    <3>4. QED
      BY <1>1, <2>1, <2>3, <3>1, <3>2, <3>3 DEF ExportTypes
  <2>6. \A x \in Export : ExportSound(x, exports[x], early', cancelCalls', service', button')
    <3>1. \A x \in Export : ~(button.job = x)
      BY <1>1, <2>1 DEF IdleButton
    <3>2. QED
      BY <1>2, <2>1, <3>1 DEF ExportSound
  <2>7. \A x : ExportSound(x, NewExport, early', cancelCalls', service', button')
    BY ExportAssumption DEF ExportSound, NewExport, Working, InFlight
  <2>8. QED
    BY <2>3, <2>5, <2>6, <2>7 DEF ExportInv
<1>4. CASE PressCancel \/ LeaveView
  <2>1. /\ UNCHANGED <<exports, early, aged, service>> /\ button.job \in Export
        /\ cancelCalls' = cancelCalls \cup {button.job} /\ button' \in {button, IdleButton}
    BY <1>1, <1>4 DEF PressCancel, LeaveView, ExportTypes, Buttons
  <2>2. Export' = Export /\ Buttons' = Buttons
    BY <2>1 DEF Export, Buttons
  <2>3. ExportTypes'
    <3>1. Cardinality(early' \cup aged') <= MaxPending
      BY <1>1, <2>1 DEF ExportTypes
    <3>2. button' \in Buttons
      BY <1>1, <2>1 DEF ExportTypes, Buttons, IdleButton
    <3>3. QED
      BY <1>1, <2>1, <2>2, <3>1, <3>2 DEF ExportTypes
  <2>4. \A x \in Export : ExportSound(x, exports[x], early', cancelCalls', service', button')
    BY <1>2, <2>1 DEF ExportSound
  <2>5. QED
    BY <2>1, <2>2, <2>3, <2>4 DEF ExportInv
<1>5. ASSUME NEW x \in Export, ChooseDestination(x) \/ NoDestination(x) \/ HearExport(x)
      PROVE  ExportInv'
  <2> DEFINE called == [exports[x] EXCEPT !.stage = "called"]
             over == [exports[x] EXCEPT !.stage = "over"]
  <2>1. UNCHANGED <<early, aged, cancelCalls, service>>
    BY <1>5 DEF ChooseDestination, NoDestination, HearExport
  <2>2. called \in ExportRecord /\ over \in ExportRecord /\ x \in DOMAIN exports
    BY <1>1 DEF ExportRecord, Working, Export
  <2>3. CASE ChooseDestination(x)
    <3>1. /\ exports' = [exports EXCEPT ![x] = called] /\ exports[x].stage = "choosing"
          /\ button.job = x /\ button' = [button EXCEPT !.phase = "exporting"]
      BY <1>1, <2>2, <2>3 DEF ChooseDestination
    <3>2. button' \in Buttons /\ button'.job = x /\ button'.phase = "exporting"
      BY <1>1, <3>1 DEF ExportTypes, Buttons
    <3>3. ExportSound(x, called, early', cancelCalls', service', button')
      BY <1>1, <1>2, <2>1, <3>1, <3>2 DEF ExportSound, ExportRecord, Working, InFlight
    <3>4. \A y \in Export \ {x} :
             ExportSound(y, exports[y], early', cancelCalls', service', button')
      BY <1>2, <2>1, <3>1, <3>2 DEF ExportSound
    <3>5. QED
      BY <1>1, <2>1, <2>2, <3>1, <3>2, <3>3, <3>4, ExportMoved DEF ExportTypes
  <2>4. CASE NoDestination(x) \/ HearExport(x)
    <3>1. /\ exports' = [exports EXCEPT ![x] = over] /\ exports[x].stage \in {"choosing", "answered"}
          /\ button' = IF button.job = x THEN IdleButton ELSE button
      BY <1>1, <2>2, <2>4 DEF NoDestination, HearExport
    <3>2. button' \in Buttons
      BY <1>1, <3>1 DEF ExportTypes, Buttons, IdleButton
    <3>3. ExportSound(x, over, early', cancelCalls', service', button')
      BY <1>1, <1>2, <2>1, <3>1 DEF ExportSound, ExportRecord, Working, InFlight
    <3>4. \A y \in Export \ {x} :
             ExportSound(y, exports[y], early', cancelCalls', service', button')
      BY <1>2, <2>1, <3>1 DEF ExportSound
    <3>5. QED
      BY <1>1, <2>1, <2>2, <3>1, <3>2, <3>3, <3>4, ExportMoved DEF ExportTypes
  <2>5. QED
    BY <1>5, <2>3, <2>4
<1>6. QED
  BY <1>3, <1>4, <1>5

\* Before any export.
LEMMA InitExports == ExportInit => ExportInv
<1> SUFFICES ASSUME ExportInit PROVE ExportInv
  OBVIOUS
<1>1. exports \in Seq(ExportRecord) /\ Export = {}
  BY DEF ExportInit, Export
<1>2. early \cup aged = {} /\ Cardinality({}) = 0
  BY FS_EmptySet DEF ExportInit
<1>3. Cardinality(early \cup aged) <= MaxPending
  BY <1>2, ExportAssumption
<1>4. QED
  BY <1>1, <1>3 DEF ExportInit, ExportInv, ExportTypes, Buttons, IdleButton

\* Every step keeps the invariant.
LEMMA ExportStep == ExportInv /\ [ExportNext]_exportVars => ExportInv'
<1> SUFFICES ASSUME ExportInv, [ExportNext]_exportVars PROVE ExportInv'
  OBVIOUS
<1>1. cancelCalls \subseteq Export
  BY DEF ExportInv, ExportTypes
<1>2. CASE UNCHANGED exportVars
  <2>1. UNCHANGED <<exports, early, aged, cancelCalls, service, button>>
    BY <1>2 DEF exportVars
  <2>2. Export' = Export /\ Buttons' = Buttons
    BY <2>1 DEF Export, Buttons
  <2>3. QED
    BY <2>1, <2>2 DEF ExportInv, ExportTypes
<1>3. CASE ExportNext
  BY <1>1, <1>3, ExportRegistration, ExportWorks, ExportCancelled, ExportsClose, ExportButton
  DEF ExportNext
<1>4. QED
  BY <1>2, <1>3

\* The invariant says what the button and the files promise.
LEMMA ExportsKept == ExportInv => ExportsKeepTheirWord
<1> SUFFICES ASSUME ExportInv PROVE ExportsKeepTheirWord
  OBVIOUS
<1>1. \A x \in Export : /\ exports[x] \in ExportRecord
                        /\ ExportSound(x, exports[x], early, cancelCalls, service, button)
  BY DEF ExportInv, ExportTypes, Export
<1>2. CancelledKeepsFile
  BY <1>1 DEF CancelledKeepsFile, ExportSound
<1>3. AnswerIsTrue
  BY <1>1 DEF AnswerIsTrue, ExportSound
<1>4. ClosingStopsExport
  BY <1>1 DEF ClosingStopsExport, ExportSound, Working
<1>5. ClosedIsQuiet
  BY <1>1 DEF ClosedIsQuiet, ExportSound, Registered, InFlight
<1>6. QED
  BY <1>2, <1>3, <1>4, <1>5 DEF ExportsKeepTheirWord

\* And that the state is of its type.
LEMMA ExportsTyped == ExportInv => ExportTypeOK
<1> SUFFICES ASSUME ExportInv PROVE ExportTypeOK
  OBVIOUS
<1>1. \A x \in Export : exports[x] \in ExportRecord
  BY DEF ExportInv, ExportTypes, Export
<1>2. Cardinality(early \cup aged) <= MaxPending
  BY DEF ExportInv, ExportTypes
<1>3. QED
  BY <1>1, <1>2
  DEF ExportInv, ExportTypes, ExportTypeOK, ExportRecord, Buttons, Working, InFlight

-----------------------------------------------------------------------------
(* The maintenance tools.                                                   *)

JobRecord ==
    [stage : {"called", "refused", "alive", "exited", "over"}, announced : BOOLEAN, lines : Nat,
     cancelled : BOOLEAN, succeeds : BOOLEAN, outcome : Outcomes \cup {None}]

ChannelEvent == [type : {"started", "log"} \cup Outcomes, job : Nat]

HookRecord ==
    [status : {"idle", "running"} \cup Outcomes, jobId : Nat \cup {None}, awaits : Nat \cup {None},
     pending : Seq(ChannelEvent), logs : Seq(Nat), listening : BOOLEAN, busy : BOOLEAN]

\* What the dialog has still to be told: the events that it keeps, then the channel's.
Stream == toolHook.pending \o toolEvents

\* A final event says what its job has come to, and is the last of its job.
StreamTold(s, js) ==
    /\ \A i \in DOMAIN s :
          /\ s[i].job \in DOMAIN js
          /\ s[i].type \in Outcomes =>
                js[s[i].job].stage = "over" /\ js[s[i].job].outcome = s[i].type
    /\ \A i, k \in DOMAIN s : i < k /\ s[i].type \in Outcomes => s[k].job # s[i].job

\* The hook listens exactly while its dialog says "running", and keeps events only as
\* long as it has no name for its job.
HookShape ==
    /\ toolHook.listening <=> toolHook.status = "running"
    /\ toolHook.awaits # None =>
          /\ toolHook.awaits \in DOMAIN jobs /\ toolHook.status = "running"
          /\ toolHook.jobId = None /\ toolHook.logs = <<>>
    /\ toolHook.jobId # None =>
          /\ toolHook.jobId \in DOMAIN jobs /\ toolHook.awaits = None /\ toolHook.pending = <<>>
          /\ toolHook.status # "running" => jobs[toolHook.jobId].stage = "over"
    /\ toolHook.status = "running" => toolHook.jobId # None \/ toolHook.awaits # None
    /\ toolHook.status # "running" => toolHook.pending = <<>>

\* The job that the dialog follows, and its final event among those still to be told.
Followed == IF toolHook.jobId = None THEN toolHook.awaits ELSE toolHook.jobId
EndIn(s, j, js) == \E i \in DOMAIN s : s[i] = ToolEvent(js[j].outcome, j)
HearsTheEnd ==
    toolHook.status = "running" =>
        /\ Followed # None /\ toolHook.listening
        /\ jobs[Followed].stage = "over" => EndIn(Stream, Followed, jobs)

ToolInv ==
    /\ jobs \in Seq(JobRecord) /\ toolEvents \in Seq(ChannelEvent)
    /\ cancelling \subseteq DOMAIN jobs /\ toolHook \in HookRecord
    /\ \A j \in DOMAIN jobs : jobs[j].stage = "over" => jobs[j].outcome \in Outcomes
    /\ StreamTold(Stream, jobs) /\ HookShape
    /\ StatusIsOfItsJob /\ HearsTheEnd

-----------------------------------------------------------------------------
(* Events that were kept, and are then applied in their order.              *)

\* One event leaves a hook a hook, and its name and its kept events alone.
LEMMA OneApplied ==
    ASSUME NEW h \in HookRecord, NEW e \in ChannelEvent
    PROVE  /\ ToolApplied(h, e) \in HookRecord
           /\ ToolApplied(h, e).jobId = h.jobId /\ ToolApplied(h, e).awaits = h.awaits
           /\ ToolApplied(h, e).pending = h.pending
           /\ e.job # h.jobId => ToolApplied(h, e) = h
           /\ e.job = h.jobId /\ e.type = "log" =>
                 ToolApplied(h, e) = [h EXCEPT !.logs = Append(h.logs, e.job)]
           /\ e.job = h.jobId /\ e.type = "started" =>
                 ToolApplied(h, e) = [h EXCEPT !.status = "running"]
           /\ e.job = h.jobId /\ e.type \in Outcomes =>
                 ToolApplied(h, e) = [h EXCEPT !.status = e.type, !.busy = FALSE, !.listening = FALSE]
<1>1. /\ [h EXCEPT !.logs = Append(h.logs, e.job)] \in HookRecord
      /\ [h EXCEPT !.status = "running"] \in HookRecord
  <2>1. Append(h.logs, e.job) \in Seq(Nat)
    BY DEF HookRecord, ChannelEvent
  <2>2. QED
    BY <2>1 DEF HookRecord
<1>2. e.type \in Outcomes =>
         [h EXCEPT !.status = e.type, !.busy = FALSE, !.listening = FALSE] \in HookRecord
  BY DEF HookRecord
<1>3. e.type \in {"started", "log"} \cup Outcomes /\ "log" \notin Outcomes /\ "started" \notin Outcomes
  BY DEF ChannelEvent, Outcomes
<1>4. QED
  BY <1>1, <1>2, <1>3 DEF ToolApplied, HookRecord

\* The kept events, one after the other, are what PendingApplied applies.
LEMMA PendingIsApplied ==
    ASSUME NEW h \in HookRecord
    PROVE  \E f \in [0 .. Len(h.pending) -> HookRecord] :
              /\ f[0] = h
              /\ \A i \in 1 .. Len(h.pending) : f[i] = ToolApplied(f[i - 1], h.pending[i])
              /\ PendingApplied(h) = [f[Len(h.pending)] EXCEPT !.pending = <<>>]
<1> DEFINE n == Len(h.pending)
           step == [i \in 1 .. n |-> [x \in HookRecord |-> ToolApplied(x, h.pending[i])]]
           Runs(f) == f = [i \in 0 .. n |-> IF i = 0 THEN h ELSE ToolApplied(f[i - 1], h.pending[i])]
<1>1. n \in Nat /\ \A i \in 1 .. n : h.pending[i] \in ChannelEvent
  BY DEF HookRecord
<1>2. step \in Steps(HookRecord, n)
  BY <1>1, OneApplied DEF Steps
<1>3. \A i \in 1 .. n, x \in HookRecord : step[i][x] = ToolApplied(x, h.pending[i])
  OBVIOUS
<1>4. PICK f \in [0 .. n -> HookRecord] :
         f[0] = h /\ \A i \in 1 .. n : f[i] = step[i][f[i - 1]]
  <2> HIDE DEF step, n
  <2>1. \E f : Follows(f, HookRecord, n, h, step)
    BY <1>1, <1>2, Recursion
  <2>2. QED
    BY <2>1 DEF Follows
<1>5. \A i \in 1 .. n : f[i] = ToolApplied(f[i - 1], h.pending[i])
  <2> HIDE DEF step, n
  <2>1. \A i \in 1 .. n : i - 1 \in 0 .. n
    BY <1>1
  <2>2. QED
    BY <1>1, <1>3, <1>4, <2>1
<1>6. \A i \in 0 .. n : f[i] = IF i = 0 THEN h ELSE ToolApplied(f[i - 1], h.pending[i])
  <2> HIDE DEF step, n
  <2>1. QED
    BY <1>1, <1>4, <1>5
<1>7. Runs(f)
  BY <1>6
<1> DEFINE g == CHOOSE x : Runs(x)
<1>8. Runs(g)
  BY <1>7
<1>9. g = [i \in 0 .. n |-> IF i = 0 THEN h ELSE ToolApplied(g[i - 1], h.pending[i])]
  BY <1>8
<1>10. PendingApplied(h) = [g[n] EXCEPT !.pending = <<>>]
  BY DEF PendingApplied
<1> HIDE DEF g
<1>11. \A i \in 0 .. n : g[i] = f[i]
  <2> DEFINE S == {i \in 0 .. n : g[i] = f[i]}
  <2>1. 0 \in S
    BY <1>1, <1>6, <1>8
  <2>2. ASSUME NEW i \in 0 .. n - 1, i \in S PROVE i + 1 \in S
    <3>1. i \in 0 .. n /\ i + 1 \in 1 .. n /\ (i + 1) - 1 = i
      BY <1>1
    <3>2. f[i + 1] = ToolApplied(f[(i + 1) - 1], h.pending[i + 1])
      BY <1>5, <3>1
    <3>3. g[i + 1] = ToolApplied(g[(i + 1) - 1], h.pending[i + 1])
      BY <1>9, <3>1
    <3>4. QED
      BY <2>2, <3>1, <3>2, <3>3
  <2> HIDE DEF S
  <2>3. \A i \in 0 .. n : i \in S
    BY <1>1, <2>1, <2>2, UpTo
  <2>4. QED
    BY <2>3 DEF S
<1>12. QED
  <2> HIDE DEF g, n
  <2>1. PendingApplied(h) = [f[n] EXCEPT !.pending = <<>>]
    BY <1>1, <1>11, <1>10
  <2>2. f[0] = h /\ \A i \in 1 .. n : f[i] = ToolApplied(f[i - 1], h.pending[i])
    BY <1>1, <1>6
  <2>3. QED
    BY <1>1, <2>1, <2>2 DEF n

\* A hook that has applied the first n of its kept events: it runs on if none of them was
\* final for its job, and has come to what the final one said if there was one.
ToldSoFar(h, k, n) ==
    /\ k.jobId = h.jobId /\ k.awaits = h.awaits
    /\ \A i \in DOMAIN k.logs : k.logs[i] = h.jobId
    /\ \/ /\ k.status = "running" /\ k.listening
          /\ \A i \in 1 .. n : h.pending[i].job = h.jobId => h.pending[i].type \notin Outcomes
       \/ /\ k.status \in Outcomes /\ ~k.listening
          /\ \E i \in 1 .. n : h.pending[i].job = h.jobId /\ h.pending[i].type = k.status

\* What one event leaves of a stream that is told, and of the job's story in it.
LEMMA OneTold ==
    ASSUME NEW h \in HookRecord, NEW k \in HookRecord, NEW n \in Nat, h.jobId \in Nat,
           ToldSoFar(h, k, n), n + 1 \in DOMAIN h.pending,
           \A i \in 1 .. n :
              h.pending[i].type \in Outcomes => h.pending[n + 1].job # h.pending[i].job
    PROVE  ToldSoFar(h, ToolApplied(k, h.pending[n + 1]), n + 1)
<1> PICK e : e = h.pending[n + 1]
  OBVIOUS
<1> PICK after : after = ToolApplied(k, e)
  OBVIOUS
<1>1. e \in ChannelEvent
  BY SMTT(30) DEF HookRecord
<1>2. /\ e.job # k.jobId => after = k
      /\ e.job = k.jobId /\ e.type = "log" => after = [k EXCEPT !.logs = Append(k.logs, e.job)]
      /\ e.job = k.jobId /\ e.type = "started" => after = [k EXCEPT !.status = "running"]
      /\ e.job = k.jobId /\ e.type \in Outcomes =>
            after = [k EXCEPT !.status = e.type, !.busy = FALSE, !.listening = FALSE]
  BY <1>1, OneApplied
<1> SUFFICES ToldSoFar(h, after, n + 1)
  OBVIOUS
<1>3. k.jobId = h.jobId /\ k.awaits = h.awaits /\ \A i \in DOMAIN k.logs : k.logs[i] = h.jobId
  BY DEF ToldSoFar
<1>4. \A j \in 1 .. n + 1 : j \in 1 .. n \/ j = n + 1
  OBVIOUS
<1>5. /\ e.type \in {"started", "log"} \cup Outcomes /\ "log" \notin Outcomes
      /\ "started" \notin Outcomes /\ "running" \notin Outcomes
  BY <1>1 DEF ChannelEvent, Outcomes
<1>6. n + 1 \in 1 .. n + 1 /\ \A j \in 1 .. n : j \in 1 .. n + 1
  OBVIOUS
<1>7. CASE e.job # h.jobId
  <2>1. after = k
    BY <1>2, <1>3, <1>7
  <2>2. QED
    BY <1>4, <1>6, <1>7, <2>1 DEF ToldSoFar
<1>8. CASE e.job = h.jobId /\ e.type \in Outcomes
  <2>1. after = [k EXCEPT !.status = e.type, !.busy = FALSE, !.listening = FALSE]
    BY <1>2, <1>3, <1>8
  <2>2. /\ after.status = e.type /\ ~after.listening /\ after.jobId = h.jobId
        /\ after.awaits = h.awaits /\ after.logs = k.logs
    BY <1>3, <2>1 DEF HookRecord
  <2>3. QED
    BY <1>3, <1>6, <1>8, <2>2 DEF ToldSoFar
<1>9. CASE e.job = h.jobId /\ e.type \notin Outcomes
  <2>1. \A j \in 1 .. n : h.pending[j].job = h.jobId => h.pending[j].type \notin Outcomes
    BY <1>9
  <2>2. k.status = "running" /\ k.listening
    BY <2>1 DEF ToldSoFar
  <2>3. \/ after = [k EXCEPT !.logs = Append(k.logs, e.job)]
        \/ after = [k EXCEPT !.status = "running"]
    BY <1>2, <1>3, <1>5, <1>9
  <2>4. k.logs \in Seq(Nat) /\ e.job \in Nat
    BY <1>1 DEF HookRecord, ChannelEvent
  <2>5. \A j \in DOMAIN Append(k.logs, e.job) : Append(k.logs, e.job)[j] = h.jobId
    BY <1>3, <1>9, <2>4
  <2>6. /\ after.status = "running" /\ after.listening /\ after.jobId = h.jobId
        /\ after.awaits = h.awaits /\ after.logs \in {k.logs, Append(k.logs, e.job)}
    BY <1>3, <2>2, <2>3 DEF HookRecord
  <2>7. \A j \in 1 .. n + 1 : h.pending[j].job = h.jobId => h.pending[j].type \notin Outcomes
    BY <1>4, <1>9, <2>1
  <2>8. QED
    BY <1>3, <2>5, <2>6, <2>7, SMTT(30) DEF ToldSoFar
<1>10. QED
  BY <1>7, <1>8, <1>9

\* What all of a hook's kept events leave.
LEMMA PendingTold ==
    ASSUME NEW h \in HookRecord, h.status = "running", h.listening, h.logs = <<>>,
           h.jobId \in Nat,
           \A i, k \in DOMAIN h.pending :
              i < k /\ h.pending[i].type \in Outcomes => h.pending[k].job # h.pending[i].job
    PROVE  /\ PendingApplied(h) \in HookRecord /\ PendingApplied(h).pending = <<>>
           /\ ToldSoFar(h, PendingApplied(h), Len(h.pending))
<1> DEFINE n == Len(h.pending)
<1>1. PICK f \in [0 .. n -> HookRecord] :
         /\ f[0] = h /\ \A i \in 1 .. n : f[i] = ToolApplied(f[i - 1], h.pending[i])
         /\ PendingApplied(h) = [f[n] EXCEPT !.pending = <<>>]
  BY PendingIsApplied
<1>2. n \in Nat /\ DOMAIN h.pending = 1 .. n /\ \A i \in 1 .. n : h.pending[i] \in ChannelEvent
  BY DEF HookRecord
<1> DEFINE S == {i \in 0 .. n : ToldSoFar(h, f[i], i)}
<1>3. 0 \in S
  BY <1>1, <1>2 DEF ToldSoFar
<1>4. ASSUME NEW i \in 0 .. n - 1, i \in S PROVE i + 1 \in S
  <2> DEFINE e == h.pending[i + 1]
  <2>1. i \in 0 .. n /\ i + 1 \in 1 .. n /\ (i + 1) - 1 = i
    BY <1>2
  <2>2. f[i + 1] = ToolApplied(f[i], e) /\ f[i] \in HookRecord /\ e \in ChannelEvent
    BY <1>1, <1>2, <2>1
  <2>3. ToldSoFar(h, f[i], i)
    BY <1>4
  <2>4. \A j \in 1 .. i : h.pending[j].type \in Outcomes => e.job # h.pending[j].job
    BY <1>2, <2>1, SMTT(30)
  <2>5. ToldSoFar(h, f[i + 1], i + 1)
    BY <1>2, <2>1, <2>2, <2>3, <2>4, OneTold
  <2>6. QED
    BY <1>2, <2>1, <2>5
<1> HIDE DEF n
<1>5. ToldSoFar(h, f[n], n)
  <2> HIDE DEF S
  <2>1. \A i \in 0 .. n : i \in S
    BY <1>2, <1>3, <1>4, UpTo
  <2>2. QED
    BY <1>2, <2>1 DEF S
<1>6. f[n] \in HookRecord /\ <<>> \in Seq(ChannelEvent)
  BY <1>2
<1>7. PendingApplied(h) \in HookRecord /\ PendingApplied(h).pending = <<>>
  BY <1>1, <1>6, ZenonT(60) DEF HookRecord
<1>8. ToldSoFar(h, PendingApplied(h), n)
  BY <1>1, <1>5, <1>6 DEF ToldSoFar, HookRecord
<1>9. QED
  BY <1>7, <1>8 DEF n

-----------------------------------------------------------------------------
(* The stream of events.                                                    *)

\* Both parts of a stream are told as the whole is.
LEMMA PartsAreTold ==
    ASSUME NEW js, NEW p \in Seq(ChannelEvent), NEW t \in Seq(ChannelEvent), StreamTold(p \o t, js)
    PROVE  StreamTold(p, js) /\ StreamTold(t, js)
<1> DEFINE s == p \o t
<1>1. /\ Len(p) \in Nat /\ Len(t) \in Nat /\ DOMAIN p = 1 .. Len(p) /\ DOMAIN t = 1 .. Len(t)
      /\ DOMAIN s = 1 .. Len(p) + Len(t)
      /\ \A i \in DOMAIN p : s[i] = p[i]
      /\ \A i \in DOMAIN t : s[Len(p) + i] = t[i]
  OBVIOUS
<1> HIDE DEF s
<1>2. StreamTold(s, js)
  BY DEF s
<1>3. StreamTold(p, js)
  <2>1. \A i \in DOMAIN p : i \in DOMAIN s /\ s[i] = p[i]
    BY <1>1
  <2>2. QED
    BY <1>2, <2>1 DEF StreamTold
<1>4. StreamTold(t, js)
  <2>1. \A i \in DOMAIN t : Len(p) + i \in DOMAIN s /\ s[Len(p) + i] = t[i]
    BY <1>1
  <2>2. \A i, k \in DOMAIN t : i < k => Len(p) + i < Len(p) + k
    BY <1>1
  <2>3. \A i \in DOMAIN t :
           /\ t[i].job \in DOMAIN js
           /\ t[i].type \in Outcomes =>
                 js[t[i].job].stage = "over" /\ js[t[i].job].outcome = t[i].type
    BY <1>2, <2>1 DEF StreamTold
  <2>4. ASSUME NEW i \in DOMAIN t, NEW k \in DOMAIN t, i < k, t[i].type \in Outcomes
        PROVE  t[k].job # t[i].job
    BY <1>2, <2>1, <2>2, <2>4 DEF StreamTold
  <2>5. QED
    BY <2>3, <2>4 DEF StreamTold
<1>5. QED
  BY <1>3, <1>4

\* An event that joins the stream, with the job as the event leaves it.
LEMMA EventTold ==
    ASSUME NEW js, NEW s \in Seq(ChannelEvent), StreamTold(s, jobs), NEW j \in DOMAIN jobs, NEW e \in ChannelEvent,
           e.job = j, jobs[j].stage # "over", DOMAIN js = DOMAIN jobs,
           \A k \in DOMAIN jobs \ {j} : js[k] = jobs[k],
           e.type \in Outcomes => js[j].stage = "over" /\ js[j].outcome = e.type
    PROVE  StreamTold(Append(s, e), js)
<1> DEFINE n == Len(s) + 1
           a == Append(s, e)
<1>1. /\ DOMAIN a = 1 .. n /\ DOMAIN s = 1 .. Len(s) /\ Len(s) \in Nat /\ a[n] = e
      /\ \A i \in DOMAIN s : a[i] = s[i]
  OBVIOUS
<1>2. \A i \in DOMAIN s : /\ s[i].job \in DOMAIN jobs
                          /\ s[i].type \in Outcomes => s[i].job # j
  BY DEF StreamTold
<1> HIDE DEF a
<1>3. \A i \in DOMAIN a : (i \in DOMAIN s /\ a[i] = s[i]) \/ (i = n /\ a[i] = e)
  BY <1>1
<1>4. \A i \in DOMAIN a :
         /\ a[i].job \in DOMAIN js
         /\ a[i].type \in Outcomes =>
               js[a[i].job].stage = "over" /\ js[a[i].job].outcome = a[i].type
  BY <1>2, <1>3 DEF StreamTold
<1>5. ASSUME NEW i \in DOMAIN a, NEW k \in DOMAIN a, i < k, a[i].type \in Outcomes
      PROVE  a[k].job # a[i].job
  <2>1. i \in DOMAIN s /\ a[i] = s[i]
    BY <1>1, <1>5
  <2>2. QED
    BY <1>2, <1>3, <1>5, <2>1 DEF StreamTold
<1>6. QED
  BY <1>4, <1>5 DEF StreamTold, a

\* Every event and every job that the stream or the dialog speaks of exists.
LEMMA StreamTyped ==
    ASSUME ToolInv
    PROVE  /\ Stream \in Seq(ChannelEvent) /\ toolHook.pending \in Seq(ChannelEvent)
           /\ toolEvents \in Seq(ChannelEvent) /\ DOMAIN jobs = 1 .. Len(jobs) /\ Len(jobs) \in Nat
           /\ \A j \in DOMAIN jobs : j \in Nat /\ j # None /\ jobs[j] \in JobRecord
           /\ toolHook.status = "running" => Followed \in DOMAIN jobs
<1>1. toolHook.pending \in Seq(ChannelEvent) /\ toolEvents \in Seq(ChannelEvent)
  BY DEF ToolInv, HookRecord
<1>2. /\ DOMAIN jobs = 1 .. Len(jobs) /\ Len(jobs) \in Nat
      /\ \A j \in DOMAIN jobs : jobs[j] \in JobRecord
  BY DEF ToolInv
<1>3. \A j \in DOMAIN jobs : j \in Nat /\ j # None
  BY <1>2, ToolAssumption
<1>4. toolHook.status = "running" => Followed \in DOMAIN jobs
  BY DEF ToolInv, HookShape, Followed
<1>5. QED
  BY <1>1, <1>2, <1>3, <1>4 DEF Stream

\* A job that changes without an event.
LEMMA JobMoves ==
    ASSUME ToolInv, NEW j \in DOMAIN jobs, NEW r \in JobRecord,
           jobs' = [jobs EXCEPT ![j] = r], r.outcome = jobs[j].outcome,
           r.stage = "over" <=> jobs[j].stage = "over",
           toolHook' = toolHook, cancelling' \subseteq cancelling, toolEvents' = toolEvents
    PROVE  ToolInv'
<1>1. /\ jobs' \in Seq(JobRecord) /\ DOMAIN jobs' = DOMAIN jobs
      /\ \A k \in DOMAIN jobs : /\ jobs'[k].outcome = jobs[k].outcome
                                /\ jobs'[k].stage = "over" <=> jobs[k].stage = "over"
  BY DEF ToolInv
<1>2. Stream' = Stream /\ Followed' = Followed
  BY DEF Stream, Followed
<1>3. StreamTold(Stream, jobs)'
  BY <1>1, <1>2 DEF ToolInv, StreamTold
<1>4. HookShape'
  BY <1>1 DEF ToolInv, HookShape
<1>5. StatusIsOfItsJob'
  BY <1>1 DEF ToolInv, HookShape, StatusIsOfItsJob
<1>6. HearsTheEnd'
  BY <1>1, <1>2, StreamTyped DEF ToolInv, HearsTheEnd, EndIn
<1>7. \A k \in DOMAIN jobs' : jobs'[k].stage = "over" => jobs'[k].outcome \in Outcomes
  BY <1>1 DEF ToolInv
<1>8. QED
  BY <1>1, <1>3, <1>4, <1>5, <1>6, <1>7 DEF ToolInv

\* A job that announces something of itself.
LEMMA JobAnnounces ==
    ASSUME ToolInv, NEW j \in DOMAIN jobs, NEW r \in JobRecord, NEW e \in ChannelEvent,
           jobs' = [jobs EXCEPT ![j] = r], jobs[j].stage # "over", e.job = j,
           e.type \in Outcomes => r.stage = "over" /\ r.outcome = e.type,
           e.type \notin Outcomes => r.stage # "over" /\ r.outcome = jobs[j].outcome,
           toolHook' = toolHook, cancelling' = cancelling, toolEvents' = Append(toolEvents, e)
    PROVE  ToolInv'
<1>1. /\ jobs' \in Seq(JobRecord) /\ DOMAIN jobs' = DOMAIN jobs /\ jobs'[j] = r
      /\ \A k \in DOMAIN jobs \ {j} : jobs'[k] = jobs[k]
  BY DEF ToolInv
<1>2. Stream' = Append(Stream, e) /\ toolEvents' \in Seq(ChannelEvent) /\ Followed' = Followed
  <2>1. Stream' = Append(Stream, e)
    <3>1. PICK p \in Seq(ChannelEvent), t \in Seq(ChannelEvent) :
             p = toolHook.pending /\ t = toolEvents
      BY StreamTyped
    <3>2. p \o Append(t, e) = Append(p \o t, e)
      BY JoinedAppend
    <3>3. QED
      BY <3>1, <3>2 DEF Stream
  <2>2. toolEvents' \in Seq(ChannelEvent) /\ Followed' = Followed
    BY StreamTyped DEF Followed
  <2>3. QED
    BY <2>1, <2>2
<1>3. StreamTold(Stream, jobs)'
  BY <1>1, <1>2, StreamTyped, EventTold DEF ToolInv
<1>4. HookShape'
  BY <1>1 DEF ToolInv, HookShape
<1>5. StatusIsOfItsJob'
  BY <1>1 DEF ToolInv, HookShape, StatusIsOfItsJob, Outcomes
<1>6. HearsTheEnd'
  <2>1. SUFFICES ASSUME toolHook.status = "running", jobs'[Followed].stage = "over"
                 PROVE  EndIn(Append(Stream, e), Followed, jobs')
    BY <1>2, StreamTyped DEF ToolInv, HearsTheEnd
  <2>2. Followed \in DOMAIN jobs
    BY <2>1, StreamTyped
  <2>3. /\ DOMAIN Append(Stream, e) = 1 .. Len(Stream) + 1 /\ DOMAIN Stream = 1 .. Len(Stream)
        /\ Len(Stream) \in Nat /\ Append(Stream, e)[Len(Stream) + 1] = e
        /\ \A i \in DOMAIN Stream : Append(Stream, e)[i] = Stream[i]
    BY StreamTyped, Appended
  <2>4. CASE Followed = j
    <3>1. e.type \in Outcomes /\ jobs'[j].outcome = e.type
      BY <1>1, <2>1, <2>4
    <3>2. e = ToolEvent(jobs'[j].outcome, j)
      BY <3>1 DEF ChannelEvent, ToolEvent
    <3>3. QED
      BY <2>3, <2>4, <3>2 DEF EndIn
  <2>5. CASE Followed # j
    <3>1. EndIn(Stream, Followed, jobs) /\ jobs'[Followed] = jobs[Followed]
      BY <1>1, <2>1, <2>2, <2>5 DEF ToolInv, HearsTheEnd
    <3>2. QED
      BY <2>3, <3>1 DEF EndIn
  <2>6. QED
    BY <2>4, <2>5
<1>7. \A k \in DOMAIN jobs' : jobs'[k].stage = "over" => jobs'[k].outcome \in Outcomes
  BY <1>1 DEF ToolInv
<1>8. QED
  BY <1>1, <1>2, <1>3, <1>4, <1>5, <1>6, <1>7 DEF ToolInv

-----------------------------------------------------------------------------
(* The steps.                                                               *)

\* What the job manager does to a job.
LEMMA JobSteps ==
    ASSUME ToolInv, NEW j \in DOMAIN jobs,
           StartTool(j) \/ AnnounceStarted(j) \/ AnnounceLine(j) \/ ToolExits(j)
              \/ AnnounceEnd(j) \/ CancelTool(j)
    PROVE  ToolInv'
<1>1. jobs[j] \in JobRecord /\ j \in Nat /\ DOMAIN jobs = 1 .. Len(jobs)
  BY StreamTyped
<1>2. CASE StartTool(j)
  <2>1. PICK stage \in {"alive", "refused"} : jobs' = [jobs EXCEPT ![j].stage = stage]
    BY <1>2 DEF StartTool
  <2>2. PICK r : r = [jobs[j] EXCEPT !.stage = stage]
    OBVIOUS
  <2>3. r \in JobRecord /\ r.outcome = jobs[j].outcome /\ r.stage # "over" /\ jobs[j].stage # "over"
    BY <1>1, <1>2, <2>2 DEF JobRecord, StartTool
  <2>4. jobs' = [jobs EXCEPT ![j] = r]
    BY <2>1, <2>2
  <2>5. QED
    BY <1>2, <2>3, <2>4, JobMoves DEF StartTool
<1>3. CASE AnnounceStarted(j)
  <2>1. PICK r : r = [jobs[j] EXCEPT !.announced = TRUE]
    OBVIOUS
  <2>2. PICK e : e = ToolEvent("started", j)
    OBVIOUS
  <2>3. r \in JobRecord /\ r.outcome = jobs[j].outcome /\ r.stage # "over" /\ jobs[j].stage # "over"
    BY <1>1, <1>3, <2>1 DEF JobRecord, AnnounceStarted
  <2>4. e \in ChannelEvent /\ e.type \notin Outcomes /\ e.job = j
    BY <1>1, <2>2 DEF ChannelEvent, ToolEvent, Outcomes
  <2>5. jobs' = [jobs EXCEPT ![j] = r]
    BY <1>3, <2>1 DEF AnnounceStarted
  <2>6. QED
    BY <1>3, <2>2, <2>3, <2>4, <2>5, JobAnnounces DEF AnnounceStarted
<1>4. CASE AnnounceLine(j)
  <2>1. PICK r : r = [jobs[j] EXCEPT !.lines = jobs[j].lines + 1]
    OBVIOUS
  <2>2. PICK e : e = ToolEvent("log", j)
    OBVIOUS
  <2>3. r \in JobRecord /\ r.outcome = jobs[j].outcome /\ r.stage # "over" /\ jobs[j].stage # "over"
    BY <1>1, <1>4, <2>1, SMTT(30) DEF JobRecord, AnnounceLine
  <2>4. e \in ChannelEvent /\ e.type \notin Outcomes /\ e.job = j
    BY <1>1, <2>2 DEF ChannelEvent, ToolEvent, Outcomes
  <2>5. jobs' = [jobs EXCEPT ![j] = r]
    BY <1>4, <2>1 DEF AnnounceLine
  <2>6. QED
    BY <1>4, <2>2, <2>3, <2>4, <2>5, JobAnnounces DEF AnnounceLine
<1>5. CASE ToolExits(j)
  <2>1. PICK ok \in BOOLEAN : jobs' = [jobs EXCEPT ![j].stage = "exited", ![j].succeeds = ok]
    BY <1>5 DEF ToolExits
  <2>2. PICK r : r = [jobs[j] EXCEPT !.stage = "exited", !.succeeds = ok]
    OBVIOUS
  <2>3. r \in JobRecord /\ r.outcome = jobs[j].outcome /\ r.stage # "over" /\ jobs[j].stage # "over"
    BY <1>1, <1>5, <2>2 DEF JobRecord, ToolExits
  <2>4. jobs' = [jobs EXCEPT ![j] = r]
    BY <2>1, <2>2 DEF ToolInv
  <2>5. QED
    BY <1>5, <2>3, <2>4, JobMoves DEF ToolExits
<1>6. CASE AnnounceEnd(j)
  <2>1. PICK outcome \in Outcomes :
           /\ jobs' = [jobs EXCEPT ![j].stage = "over", ![j].outcome = outcome]
           /\ toolEvents' = Append(toolEvents, ToolEvent(outcome, j))
    BY <1>6 DEF AnnounceEnd, Outcomes
  <2>2. PICK r : r = [jobs[j] EXCEPT !.stage = "over", !.outcome = outcome]
    OBVIOUS
  <2>3. PICK e : e = ToolEvent(outcome, j)
    OBVIOUS
  <2>4. r \in JobRecord /\ r.outcome = outcome /\ r.stage = "over" /\ jobs[j].stage # "over"
    BY <1>1, <1>6, <2>2 DEF JobRecord, AnnounceEnd
  <2>5. e \in ChannelEvent /\ e.type = outcome /\ e.job = j
    BY <1>1, <2>3 DEF ChannelEvent, ToolEvent
  <2>6. jobs' = [jobs EXCEPT ![j] = r]
    BY <2>1, <2>2 DEF ToolInv
  <2>7. toolEvents' = Append(toolEvents, e) /\ toolHook' = toolHook /\ cancelling' = cancelling
    BY <1>6, <2>1, <2>3 DEF AnnounceEnd
  <2>8. QED
    BY <2>4, <2>5, <2>6, <2>7, JobAnnounces
<1>7. CASE CancelTool(j)
  <2>1. PICK b \in BOOLEAN : jobs' = [jobs EXCEPT ![j].cancelled = b]
    <3>1. (jobs[j].cancelled \/ jobs[j].stage \in {"alive", "exited"}) \in BOOLEAN
      OBVIOUS
    <3>2. QED
      BY <1>7, <3>1 DEF CancelTool
  <2>2. PICK r : r = [jobs[j] EXCEPT !.cancelled = b]
    OBVIOUS
  <2>3. r \in JobRecord /\ r.outcome = jobs[j].outcome /\ r.stage = jobs[j].stage
    BY <1>1, <2>2 DEF JobRecord
  <2>4. jobs' = [jobs EXCEPT ![j] = r]
    BY <2>1, <2>2
  <2>5. QED
    BY <1>7, <2>3, <2>4, JobMoves, ZenonT(60) DEF CancelTool
<1>8. QED
  BY <1>2, <1>3, <1>4, <1>5, <1>6, <1>7

\* A hook that follows nothing, on a channel that is told.
LEMMA HookRests ==
    ASSUME ToolInv, toolHook' \in HookRecord, toolHook'.jobId = None, toolHook'.awaits = None,
           toolHook'.status # "running", ~toolHook'.listening, toolHook'.pending = <<>>,
           toolHook'.logs = <<>>, toolEvents' \in {toolEvents, <<>>},
           jobs' = jobs, cancelling' = cancelling
    PROVE  ToolInv'
<1>1. StreamTold(toolEvents, jobs) /\ StreamTold(<<>>, jobs)
  <2>1. StreamTold(toolEvents, jobs)
    BY StreamTyped, PartsAreTold DEF ToolInv, Stream
  <2>2. StreamTold(<<>>, jobs)
    BY DEF StreamTold
  <2>3. QED
    BY <2>1, <2>2
<1>2. toolEvents' \in Seq(ChannelEvent) /\ <<>> \o toolEvents' = toolEvents'
  <2>1. toolEvents \in Seq(ChannelEvent) /\ <<>> \in Seq(ChannelEvent)
    BY StreamTyped
  <2>2. toolEvents' \in Seq(ChannelEvent)
    BY <2>1
  <2>3. QED
    BY <2>2, NothingBefore
<1>3. StreamTold(Stream, jobs)'
  BY <1>1, <1>2 DEF Stream
<1>4. HookShape'
  BY DEF HookShape
<1>5. StatusIsOfItsJob'
  BY Nothing DEF StatusIsOfItsJob
<1>6. HearsTheEnd'
  BY DEF HearsTheEnd
<1>7. QED
  BY <1>2, <1>3, <1>4, <1>5, <1>6 DEF ToolInv

\* A hook that hears nothing: it is one.
LEMMA IdleIsAHook == IdleHook \in HookRecord
  BY Nothing DEF IdleHook, HookRecord

\* A job is started: the dialog waits for its name.
LEMMA JobStarts == ASSUME ToolInv, StartJob PROVE ToolInv'
<1> PICK r : r = [stage |-> "called", announced |-> FALSE, lines |-> 0,
                  cancelled |-> FALSE, succeeds |-> FALSE, outcome |-> None]
  OBVIOUS
<1>1. r \in JobRecord /\ r.stage = "called"
  BY DEF JobRecord
<1>2. jobs' = Append(jobs, r) /\ UNCHANGED <<toolEvents, cancelling>>
  BY DEF StartJob
<1>3. PICK n \in Nat : n = Len(jobs) + 1
  BY StreamTyped
<1>4. /\ jobs' \in Seq(JobRecord) /\ DOMAIN jobs' = 1 .. n /\ DOMAIN jobs = 1 .. Len(jobs)
      /\ Len(jobs') = n /\ jobs'[n] = r /\ n \in DOMAIN jobs' /\ Len(jobs) \in Nat
      /\ \A k \in DOMAIN jobs : k \in DOMAIN jobs' /\ jobs'[k] = jobs[k]
      /\ \A k \in DOMAIN jobs' : k \in DOMAIN jobs \/ k = n
  BY <1>1, <1>2, <1>3 DEF ToolInv
<1>5. /\ toolHook' = [IdleHook EXCEPT !.status = "running", !.awaits = n,
                                      !.listening = TRUE, !.busy = TRUE]
  BY <1>4 DEF StartJob
<1>6. /\ toolHook' \in HookRecord /\ toolHook'.status = "running" /\ toolHook'.awaits = n
      /\ toolHook'.listening /\ toolHook'.jobId = None /\ toolHook'.logs = <<>>
      /\ toolHook'.pending = <<>>
  BY <1>5, IdleIsAHook DEF IdleHook, HookRecord
<1>7. StreamTold(Stream, jobs)'
  <2>1. StreamTold(toolEvents, jobs) /\ <<>> \o toolEvents = toolEvents
    <3>1. toolHook.pending \in Seq(ChannelEvent) /\ toolEvents \in Seq(ChannelEvent)
      BY StreamTyped
    <3>2. StreamTold(toolHook.pending \o toolEvents, jobs)
      BY DEF ToolInv, Stream
    <3>3. StreamTold(toolEvents, jobs)
      BY <3>1, <3>2, PartsAreTold
    <3>4. QED
      BY <3>1, <3>3, NothingBefore
  <2>2. StreamTold(toolEvents, jobs')
    BY <1>4, <2>1 DEF StreamTold
  <2>3. QED
    BY <1>2, <1>6, <2>1, <2>2 DEF Stream
<1>8. n # None /\ HookShape'
  BY <1>3, <1>4, <1>6, ToolAssumption DEF HookShape
<1>9. StatusIsOfItsJob'
  BY <1>6, Nothing DEF StatusIsOfItsJob, Outcomes
<1>10. HearsTheEnd'
  BY <1>1, <1>4, <1>6, <1>8 DEF HearsTheEnd, Followed
<1>11. \A k \in DOMAIN jobs' : jobs'[k].stage = "over" => jobs'[k].outcome \in Outcomes
  BY <1>1, <1>4 DEF ToolInv
<1>12. cancelling' \subseteq DOMAIN jobs' /\ toolEvents' \in Seq(ChannelEvent)
  BY <1>2, <1>4 DEF ToolInv
<1>13. QED
  BY <1>4, <1>6, <1>7, <1>8, <1>9, <1>10, <1>11, <1>12 DEF ToolInv

\* The dialog hears an event before it knows whom it follows: the event is kept.
LEMMA EventKept ==
    ASSUME ToolInv, HearTool, toolHook.listening, toolHook.jobId = None
    PROVE  ToolInv'
<1>1. PICK p \in Seq(ChannelEvent), t \in Seq(ChannelEvent) :
         p = toolHook.pending /\ t = toolEvents
  BY StreamTyped
<1>2. t # <<>> /\ Head(t) \in ChannelEvent /\ Tail(t) \in Seq(ChannelEvent)
  BY <1>1, HeadThenTail DEF HearTool
<1>3. Append(p, Head(t)) \in Seq(ChannelEvent) /\ Append(p, Head(t)) \o Tail(t) = p \o t
  BY <1>1, <1>2, HeadMoved
<1>4. /\ toolHook' = [toolHook EXCEPT !.pending = Append(p, Head(t))] /\ toolEvents' = Tail(t)
      /\ UNCHANGED <<jobs, cancelling>>
  BY <1>1 DEF HearTool, ToolHeard
<1>5. /\ toolHook' \in HookRecord /\ toolHook'.pending = Append(p, Head(t))
      /\ toolHook'.status = toolHook.status /\ toolHook'.jobId = toolHook.jobId
      /\ toolHook'.awaits = toolHook.awaits /\ toolHook'.listening = toolHook.listening
      /\ toolHook'.logs = toolHook.logs
  BY <1>3, <1>4 DEF ToolInv, HookRecord
<1>6. Stream' = Stream /\ Followed' = Followed
  BY <1>1, <1>3, <1>4, <1>5 DEF Stream, Followed
<1>7. StreamTold(Stream, jobs)'
  BY <1>4, <1>6 DEF ToolInv
<1>8. HookShape'
  BY <1>4, <1>5 DEF ToolInv, HookShape
<1>9. StatusIsOfItsJob'
  BY <1>4, <1>5 DEF ToolInv, StatusIsOfItsJob
<1>10. HearsTheEnd'
  BY <1>4, <1>5, <1>6 DEF ToolInv, HearsTheEnd
<1>11. QED
  BY <1>2, <1>4, <1>5, <1>7, <1>8, <1>9, <1>10 DEF ToolInv

\* The dialog hears an event and follows its job: it says what the event says.
LEMMA EventApplied ==
    ASSUME ToolInv, HearTool, toolHook.listening, toolHook.jobId # None
    PROVE  ToolInv'
<1>1. PICK t \in Seq(ChannelEvent) : t = toolEvents
  BY StreamTyped
<1>2. PICK e : e = Head(t)
  OBVIOUS
<1>3. PICK h : h = toolHook
  OBVIOUS
<1>4. PICK j : j = toolHook.jobId
  OBVIOUS
<1>5. /\ t # <<>> /\ e \in ChannelEvent /\ Tail(t) \in Seq(ChannelEvent) /\ e = t[1]
      /\ t = <<e>> \o Tail(t) /\ <<e>> \in Seq(ChannelEvent)
      /\ \A i \in DOMAIN t : i = 1 \/ (i - 1 \in DOMAIN Tail(t) /\ Tail(t)[i - 1] = t[i])
      /\ 1 \in DOMAIN t
  <2>1. t # <<>>
    BY <1>1 DEF HearTool
  <2>2. /\ e \in ChannelEvent /\ Tail(t) \in Seq(ChannelEvent) /\ e = t[1] /\ t = <<e>> \o Tail(t)
        /\ \A i \in DOMAIN t : i = 1 \/ (i - 1 \in DOMAIN Tail(t) /\ Tail(t)[i - 1] = t[i])
    BY <1>2, <2>1, HeadThenTail
  <2>3. <<e>> \in Seq(ChannelEvent) /\ 1 \in DOMAIN t
    BY <2>1, <2>2
  <2>4. QED
    BY <2>1, <2>2, <2>3
<1>6. /\ toolHook' = ToolApplied(h, e) /\ toolEvents' = Tail(t) /\ UNCHANGED <<jobs, cancelling>>
  BY <1>1, <1>2, <1>3 DEF HearTool, ToolHeard
<1>7. /\ h \in HookRecord /\ h.status = "running" /\ h.pending = <<>> /\ h.awaits = None /\ h.listening
      /\ h.jobId = j /\ j \in DOMAIN jobs /\ j # None
      /\ \A i \in DOMAIN h.logs : h.logs[i] = j
  BY <1>3, <1>4 DEF ToolInv, HookShape, StatusIsOfItsJob
<1>8. Stream = t /\ StreamTold(t, jobs) /\ StreamTold(Tail(t), jobs)
  <2>1. Stream = t
    BY <1>1, <1>3, <1>7, NothingBefore DEF Stream
  <2>2. StreamTold(t, jobs)
    BY <2>1 DEF ToolInv
  <2>3. StreamTold(<<e>> \o Tail(t), jobs)
    BY <1>5, <2>2
  <2>4. QED
    BY <1>5, <2>1, <2>2, <2>3, PartsAreTold
<1>9. /\ toolHook' \in HookRecord /\ toolHook'.jobId = j /\ toolHook'.awaits = None
      /\ toolHook'.pending = <<>>
  BY <1>5, <1>6, <1>7, OneApplied
<1>10. StreamTold(Stream, jobs)'
  <2>1. <<>> \o Tail(t) = Tail(t)
    BY <1>5, NothingBefore
  <2>2. QED
    BY <1>6, <1>8, <1>9, <2>1 DEF Stream
<1>11. /\ e.job # j => toolHook' = h
       /\ e.job = j /\ e.type = "log" => toolHook' = [h EXCEPT !.logs = Append(h.logs, e.job)]
       /\ e.job = j /\ e.type = "started" => toolHook' = [h EXCEPT !.status = "running"]
       /\ e.job = j /\ e.type \in Outcomes =>
             toolHook' = [h EXCEPT !.status = e.type, !.busy = FALSE, !.listening = FALSE]
  <2>1. e \in ChannelEvent /\ h \in HookRecord /\ toolHook' = ToolApplied(h, e) /\ h.jobId = j
    BY <1>5, <1>6, <1>7
  <2>2. QED
    BY <2>1, OneApplied
<1>12. /\ e.job # j \/ e.type \notin Outcomes =>
             toolHook'.status = "running" /\ toolHook'.listening
       /\ e.job = j /\ e.type \in Outcomes => toolHook'.status = e.type /\ ~toolHook'.listening
       /\ \A i \in DOMAIN toolHook'.logs : toolHook'.logs[i] = j
  <2>1. /\ e.type \in {"started", "log"} \cup Outcomes /\ e.job \in Nat
        /\ "log" \notin Outcomes /\ "started" \notin Outcomes
    BY <1>5 DEF ChannelEvent, Outcomes
  <2>2. CASE e.job # j
    BY <1>7, <1>11, <2>2
  <2>3. CASE e.job = j /\ e.type = "log"
    <3>1. toolHook' = [h EXCEPT !.logs = Append(h.logs, e.job)]
      BY <2>3, <1>11
    <3>2. h.logs \in Seq(Nat)
      BY <1>7 DEF HookRecord
    <3>3. \A i \in DOMAIN Append(h.logs, e.job) : Append(h.logs, e.job)[i] = j
      BY <1>7, <2>1, <2>3, <3>2
    <3>4. toolHook'.logs = Append(h.logs, e.job) /\ toolHook'.status = h.status
             /\ toolHook'.listening = h.listening
      BY <1>7, <3>1 DEF HookRecord
    <3>5. QED
      BY <1>7, <2>1, <2>3, <3>3, <3>4
  <2>4. CASE e.job = j /\ e.type = "started"
    <3>1. toolHook' = [h EXCEPT !.status = "running"]
      BY <2>4, <1>11
    <3>2. toolHook'.logs = h.logs /\ toolHook'.status = "running" /\ toolHook'.listening = h.listening
      BY <1>7, <3>1 DEF HookRecord
    <3>3. QED
      BY <1>7, <2>1, <2>4, <3>2
  <2>5. CASE e.job = j /\ e.type \in Outcomes
    <3>1. toolHook' = [h EXCEPT !.status = e.type, !.busy = FALSE, !.listening = FALSE]
      BY <2>5, <1>11
    <3>2. toolHook'.logs = h.logs /\ toolHook'.status = e.type /\ ~toolHook'.listening
      BY <1>7, <3>1 DEF HookRecord
    <3>3. QED
      BY <1>7, <2>5, <3>2
  <2>6. QED
    BY <2>1, <2>2, <2>3, <2>4, <2>5
<1>13. e.job = j /\ e.type \in Outcomes => jobs[j].stage = "over" /\ jobs[j].outcome = e.type
  BY <1>5, <1>8 DEF StreamTold
<1>14. "running" \notin Outcomes
  BY DEF Outcomes
<1>15. HookShape'
  BY <1>6, <1>7, <1>9, <1>12, <1>13, <1>14 DEF HookShape
<1>16. StatusIsOfItsJob'
  BY <1>6, <1>9, <1>12, <1>13, <1>14 DEF StatusIsOfItsJob
<1>17. HearsTheEnd'
  <2>1. SUFFICES ASSUME toolHook'.status = "running", jobs[j].stage = "over"
                 PROVE  EndIn(Tail(t), j, jobs)
    <3>1. Followed' = j /\ Stream' = Tail(t)
      BY <1>5, <1>6, <1>7, <1>9, NothingBefore DEF Followed, Stream
    <3>2. QED
      BY <1>6, <1>7, <1>12, <1>14, <3>1 DEF HearsTheEnd, EndIn
  <2>2. EndIn(t, j, jobs)
    BY <1>3, <1>4, <1>7, <1>8, <2>1 DEF ToolInv, HearsTheEnd, Followed
  <2>3. PICK i \in DOMAIN t : t[i] = ToolEvent(jobs[j].outcome, j)
    BY <2>2 DEF EndIn
  <2>4. t[i].job = j /\ t[i].type \in Outcomes
    BY <1>7, <2>1, <2>3 DEF ToolInv, ToolEvent
  <2>5. i # 1
    BY <1>5, <1>12, <1>14, <2>1, <2>4
  <2>6. QED
    BY <1>5, <2>3, <2>5 DEF EndIn
<1>18. QED
  BY <1>5, <1>6, <1>9, <1>10, <1>15, <1>16, <1>17 DEF ToolInv

\* An event that nobody listens for.
LEMMA EventUnheard ==
    ASSUME ToolInv, HearTool, ~toolHook.listening
    PROVE  ToolInv'
<1>1. PICK t \in Seq(ChannelEvent) : t = toolEvents
  BY StreamTyped
<1>2. t # <<>> /\ toolHook' = toolHook /\ toolEvents' = Tail(t) /\ UNCHANGED <<jobs, cancelling>>
  BY <1>1 DEF HearTool, ToolHeard
<1>3. Head(t) \in ChannelEvent /\ Tail(t) \in Seq(ChannelEvent) /\ t = <<Head(t)>> \o Tail(t)
  BY <1>2, HeadThenTail
<1>4. toolHook.status # "running" /\ toolHook.pending = <<>>
  BY DEF ToolInv, HookShape
<1>5. Stream = t /\ Stream' = Tail(t)
  BY <1>1, <1>2, <1>3, <1>4, NothingBefore DEF Stream
<1>6. StreamTold(Stream, jobs)'
  <2>1. StreamTold(<<Head(t)>> \o Tail(t), jobs) /\ <<Head(t)>> \in Seq(ChannelEvent)
    <3>1. StreamTold(t, jobs)
      BY <1>5 DEF ToolInv
    <3>2. <<Head(t)>> \in Seq(ChannelEvent)
      BY <1>3
    <3>3. QED
      BY <1>3, <3>1, <3>2
  <2>2. StreamTold(Tail(t), jobs)
    BY <1>3, <2>1, PartsAreTold
  <2>3. QED
    BY <1>2, <1>5, <2>2
<1>7. HookShape'
  BY <1>2 DEF ToolInv, HookShape
<1>8. StatusIsOfItsJob'
  BY <1>2 DEF ToolInv, StatusIsOfItsJob
<1>9. HearsTheEnd'
  BY <1>2, <1>4 DEF HearsTheEnd
<1>10. QED
  BY <1>2, <1>3, <1>6, <1>7, <1>8, <1>9 DEF ToolInv

\* The dialog learns whom it follows: it has then been told what was kept.
LEMMA JobNamed ==
    ASSUME ToolInv, NEW j \in DOMAIN jobs, HearName(j)
    PROVE  ToolInv'
<1>1. PICK h : h = [toolHook EXCEPT !.jobId = j, !.awaits = None]
  OBVIOUS
<1>2. PICK k : k = PendingApplied(h)
  OBVIOUS
<1>3. toolHook' = k /\ toolHook.awaits = j /\ UNCHANGED <<jobs, toolEvents, cancelling>>
  BY <1>1, <1>2 DEF HearName
<1>4. j \in Nat /\ j # None /\ "running" \notin Outcomes
  BY StreamTyped DEF Outcomes
<1>5. PICK p \in Seq(ChannelEvent), t \in Seq(ChannelEvent) :
         p = toolHook.pending /\ t = toolEvents
  BY StreamTyped
<1>6. StreamTold(p, jobs) /\ StreamTold(t, jobs)
  <2>1. StreamTold(p \o t, jobs)
    BY <1>5 DEF ToolInv, Stream
  <2>2. QED
    BY <2>1, PartsAreTold
<1>7. toolHook.status = "running" /\ toolHook.listening /\ toolHook.logs = <<>> /\ toolHook.jobId = None
  BY <1>3, <1>4 DEF ToolInv, HookShape
<1>8. /\ h \in HookRecord /\ h.status = "running" /\ h.listening /\ h.logs = <<>> /\ h.jobId = j
      /\ h.awaits = None /\ h.pending = p
  BY <1>1, <1>4, <1>5, <1>7 DEF ToolInv, HookRecord
<1>9. k \in HookRecord /\ k.pending = <<>> /\ ToldSoFar(h, k, Len(p))
  <2>1. \A i, l \in DOMAIN p : i < l /\ p[i].type \in Outcomes => p[l].job # p[i].job
    BY <1>6 DEF StreamTold
  <2>2. h.jobId \in Nat
    BY <1>4, <1>8
  <2>3. QED
    BY <1>2, <1>8, <2>1, <2>2, PendingTold
<1>10. k.jobId = j /\ k.awaits = None /\ \A i \in DOMAIN k.logs : k.logs[i] = j
  BY <1>8, <1>9 DEF ToldSoFar
<1>11. DOMAIN p = 1 .. Len(p) /\ \A i \in DOMAIN p : p[i] \in ChannelEvent
  OBVIOUS
<1>12. \/ /\ k.status = "running" /\ k.listening
          /\ \A i \in DOMAIN p : p[i].job = j => p[i].type \notin Outcomes
       \/ /\ k.status \in Outcomes /\ ~k.listening
          /\ jobs[j].stage = "over" /\ jobs[j].outcome = k.status
  <2>1. \/ /\ k.status = "running" /\ k.listening
           /\ \A i \in DOMAIN p : p[i].job = j => p[i].type \notin Outcomes
        \/ /\ k.status \in Outcomes /\ ~k.listening
           /\ \E i \in DOMAIN p : p[i].job = j /\ p[i].type = k.status
    BY <1>8, <1>9, <1>11 DEF ToldSoFar
  <2>2. \A i \in DOMAIN p : p[i].type \in Outcomes =>
           jobs[p[i].job].stage = "over" /\ jobs[p[i].job].outcome = p[i].type
    BY <1>6 DEF StreamTold
  <2>3. QED
    BY <2>1, <2>2
<1>13. Stream = p \o t /\ Stream' = t /\ Followed = j /\ Followed' = j
  <2>1. <<>> \o t = t
    BY NothingBefore
  <2>2. QED
    BY <1>3, <1>4, <1>5, <1>7, <1>9, <1>10, <2>1 DEF Stream, Followed
<1>14. StreamTold(Stream, jobs)'
  BY <1>3, <1>6, <1>13
<1>15. HookShape'
  BY <1>3, <1>4, <1>9, <1>10, <1>12 DEF HookShape
<1>16. StatusIsOfItsJob'
  BY <1>3, <1>4, <1>10, <1>12 DEF StatusIsOfItsJob
<1>17. HearsTheEnd'
  <2>1. SUFFICES ASSUME k.status = "running", jobs[j].stage = "over" PROVE EndIn(t, j, jobs)
    BY <1>3, <1>4, <1>12, <1>13 DEF HearsTheEnd, EndIn
  <2>2. PICK i \in DOMAIN (p \o t) : (p \o t)[i] = ToolEvent(jobs[j].outcome, j)
    BY <1>7, <1>13, <2>1 DEF ToolInv, HearsTheEnd, EndIn
  <2>3. /\ Len(p) \in Nat /\ Len(t) \in Nat /\ DOMAIN t = 1 .. Len(t)
        /\ i \in 1 .. Len(p) + Len(t)
        /\ i \in DOMAIN p => (p \o t)[i] = p[i]
        /\ i \notin DOMAIN p => i - Len(p) \in DOMAIN t /\ (p \o t)[i] = t[i - Len(p)]
    OBVIOUS
  <2>4. jobs[j].outcome \in Outcomes
    BY <2>1 DEF ToolInv
  <2>5. i \notin DOMAIN p
    BY <1>4, <1>12, <2>1, <2>2, <2>3, <2>4 DEF ToolEvent
  <2>6. QED
    BY <2>2, <2>3, <2>5 DEF EndIn
<1>18. QED
  BY <1>3, <1>9, <1>14, <1>15, <1>16, <1>17 DEF ToolInv

\* The invariant holds at the start.
LEMMA InitTools == ToolInit => ToolInv
<1> SUFFICES ASSUME ToolInit PROVE ToolInv
  OBVIOUS
<1>1. /\ jobs \in Seq(JobRecord) /\ DOMAIN jobs = {} /\ toolEvents \in Seq(ChannelEvent)
      /\ cancelling = {} /\ toolHook = IdleHook
  BY Nothing DEF ToolInit
<1>2. /\ toolHook \in HookRecord /\ toolHook.jobId = None /\ toolHook.awaits = None
      /\ toolHook.status = "idle" /\ ~toolHook.listening /\ toolHook.pending = <<>>
      /\ toolHook.logs = <<>>
  BY <1>1, IdleIsAHook DEF IdleHook
<1>3. Stream = <<>>
  BY <1>2, NothingBefore, Nothing DEF Stream, ToolInit
<1>4. StreamTold(Stream, jobs)
  BY <1>3, Nothing DEF StreamTold
<1>5. HookShape /\ StatusIsOfItsJob /\ HearsTheEnd
  BY <1>2, Nothing DEF HookShape, StatusIsOfItsJob, HearsTheEnd, Outcomes
<1>6. QED
  BY <1>1, <1>2, <1>4, <1>5 DEF ToolInv

\* Every step keeps it.
LEMMA ToolStep == ToolInv /\ [ToolNext]_toolVars => ToolInv'
<1> SUFFICES ASSUME ToolInv, [ToolNext]_toolVars PROVE ToolInv'
  OBVIOUS
<1>1. ASSUME NEW j \in DOMAIN jobs,
             StartTool(j) \/ AnnounceStarted(j) \/ AnnounceLine(j) \/ ToolExits(j) \/ AnnounceEnd(j)
      PROVE  ToolInv'
  BY <1>1, JobSteps
<1>2. ASSUME NEW j \in cancelling, CancelTool(j) PROVE ToolInv'
  BY <1>2, JobSteps DEF ToolInv
<1>3. ASSUME NEW j \in DOMAIN jobs, HearName(j) PROVE ToolInv'
  BY <1>3, JobNamed
<1>4. ASSUME NEW j \in DOMAIN jobs, HearRefusal(j) PROVE ToolInv'
  <2>1. toolHook' = [IdleHook EXCEPT !.status = "failed"]
    BY <1>4 DEF HearRefusal
  <2>2. /\ toolHook' \in HookRecord /\ toolHook'.jobId = None /\ toolHook'.awaits = None
        /\ toolHook'.status = "failed" /\ ~toolHook'.listening
        /\ toolHook'.pending = <<>> /\ toolHook'.logs = <<>>
    BY <2>1, IdleIsAHook DEF IdleHook, HookRecord, Outcomes
  <2>3. QED
    BY <1>4, <2>2, HookRests DEF HearRefusal
<1>5. CASE StartJob
  BY <1>5, JobStarts
<1>6. CASE HearTool
  BY <1>6, EventKept, EventApplied, EventUnheard
<1>7. CASE AskToCancel
  <2>1. toolHook' = toolHook /\ jobs' = jobs /\ toolEvents' = toolEvents
        /\ cancelling' = cancelling \cup {toolHook.jobId}
    BY <1>7 DEF AskToCancel
  <2>2. toolHook.jobId \in DOMAIN jobs
    BY <1>7 DEF AskToCancel, ToolInv, HookShape
  <2>3. QED
    BY <2>1, <2>2 DEF ToolInv, HookShape, StatusIsOfItsJob, HearsTheEnd, Stream, Followed
<1>8. CASE CloseDialog \/ ReloadDialog
  <2>1. toolHook' = IdleHook
    BY <1>8 DEF CloseDialog, ReloadDialog
  <2>2. /\ toolHook' \in HookRecord /\ toolHook'.jobId = None /\ toolHook'.awaits = None
        /\ toolHook'.status = "idle" /\ ~toolHook'.listening
        /\ toolHook'.pending = <<>> /\ toolHook'.logs = <<>>
    BY <2>1, IdleIsAHook DEF IdleHook
  <2>3. QED
    BY <1>8, <2>2, HookRests DEF CloseDialog, ReloadDialog
<1>9. CASE UNCHANGED toolVars
  BY <1>9 DEF toolVars, ToolInv, HookShape, StatusIsOfItsJob, HearsTheEnd, Stream, Followed
<1>10. QED
  BY <1>1, <1>2, <1>3, <1>4, <1>5, <1>6, <1>7, <1>8, <1>9 DEF ToolNext

\* A dialog that is as the invariant says tells its own job's story to the end.
LEMMA DialogIsTrue == ToolInv => ToolDialogIsTrue
<1> SUFFICES ASSUME ToolInv PROVE RunningDialogHearsTheEnd
  BY DEF ToolInv, ToolDialogIsTrue
<1>1. HearsTheEnd
  BY DEF ToolInv
<1>2. QED
  BY <1>1 DEF HearsTheEnd, RunningDialogHearsTheEnd, Followed, EndIn, Stream

-----------------------------------------------------------------------------
(* The psql terminal.                                                       *)

SessionEvent == [type : {"data", "started", "exit"}, id : Mount \cup {Unnamed}]
CallAnswer == [type : {"answer", "failed"}, id : Mount]
PsqlHook ==
    [status : {"idle", "starting", "running", "exited", "error"}, session : Mount \cup {None},
     pending : Seq(SessionEvent), listening : BOOLEAN]

\* An exit that names a session comes after its process has been reaped, and a failed
\* start has started nothing.
ExitIsOfReaped(s, ps) ==
    \A i \in DOMAIN s, m \in Mount : s[i] = Event("exit", m) => ps[m] = "reaped"
FailureStartedNothing(s, ps, cs) ==
    \A i \in DOMAIN s, m \in Mount :
        s[i] = Event("failed", m) => ps[m] = "none" /\ cs[m] = "returned"

PsqlInv ==
    /\ mountNo \in Nat /\ stops \subseteq Mount
    /\ calls \in [Mount -> {"none", "sent", "spawned", "named", "announced", "returned"}]
    /\ process \in [Mount -> {"none", "running", "exited", "reaped"}]
    /\ toWindow \in Seq(SessionEvent \cup CallAnswer) /\ hook \in PsqlHook
    /\ \A m \in Mount : m > mountNo => calls[m] = "none"
    /\ \A m \in Mount : process[m] # "none" => calls[m] \notin {"none", "sent"}
    /\ mounted /\ hook.session # None => hook.session = mountNo
    /\ ExitIsOfReaped(toWindow, process) /\ ExitIsOfReaped(hook.pending, process)
    /\ FailureStartedNothing(toWindow, process, calls)
    /\ NoOrphanPsql

-----------------------------------------------------------------------------
(* Replaying what was kept.                                                 *)

\* One event leaves a hook a hook; it ends the session only as an exit of that session,
\* and what it adds to the kept events is itself.
LEMMA EventOfSession ==
    ASSUME NEW h \in PsqlHook, NEW e \in SessionEvent, NEW ps,
           ExitIsOfReaped(h.pending, ps), \A m \in Mount : e = Event("exit", m) => ps[m] = "reaped"
    PROVE  /\ ApplyEvent(h, e) \in PsqlHook
           /\ ExitIsOfReaped(ApplyEvent(h, e).pending, ps)
           /\ \/ ApplyEvent(h, e).session = h.session
              \/ /\ h.session \in Mount /\ ps[h.session] = "reaped"
                 /\ ApplyEvent(h, e).session = None
<1> PICK k : k = ApplyEvent(h, e)
  OBVIOUS
<1> SUFFICES /\ k \in PsqlHook /\ ExitIsOfReaped(k.pending, ps)
             /\ \/ k.session = h.session
                \/ h.session \in Mount /\ ps[h.session] = "reaped" /\ k.session = None
  OBVIOUS
<1>1. CASE h.session = None
  <2>1. PICK p \in Seq(SessionEvent) : p = h.pending
    BY DEF PsqlHook
  <2>2. k = [h EXCEPT !.pending = Append(p, e)]
    BY <1>1, <2>1 DEF ApplyEvent
  <2>3. /\ Append(p, e) \in Seq(SessionEvent) /\ DOMAIN Append(p, e) = 1 .. Len(p) + 1
        /\ DOMAIN p = 1 .. Len(p) /\ Len(p) \in Nat /\ Append(p, e)[Len(p) + 1] = e
        /\ \A i \in DOMAIN p : Append(p, e)[i] = p[i]
    OBVIOUS
  <2>4. k \in PsqlHook /\ k.session = h.session /\ k.pending = Append(p, e)
    BY <2>2, <2>3 DEF PsqlHook
  <2>5. \A i \in DOMAIN Append(p, e) :
           Append(p, e)[i] = e \/ (i \in DOMAIN p /\ Append(p, e)[i] = p[i])
    BY <2>3
  <2>6. ExitIsOfReaped(k.pending, ps)
    BY <2>1, <2>4, <2>5 DEF ExitIsOfReaped
  <2>7. QED
    BY <2>4, <2>6
<1>2. CASE h.session # None /\ e.id # h.session
  BY <1>2 DEF ApplyEvent
<1>3. CASE h.session # None /\ e.id = h.session
  <2>1. k = Applied(h, e) /\ h.session \in Mount
    BY <1>3 DEF ApplyEvent, PsqlHook
  <2>2. CASE e.type = "data"
    BY <2>1, <2>2 DEF Applied
  <2>3. CASE e.type = "started"
    <3>1. k = [h EXCEPT !.status = "running"]
      BY <2>1, <2>3 DEF Applied
    <3>2. QED
      BY <3>1 DEF PsqlHook
  <2>4. CASE e.type = "exit"
    <3>1. k = [h EXCEPT !.status = "exited", !.session = None, !.listening = FALSE]
      BY <2>1, <2>4 DEF Applied
    <3>2. k \in PsqlHook /\ k.session = None /\ k.pending = h.pending
      BY <3>1 DEF PsqlHook
    <3>3. e = Event("exit", h.session)
      BY <1>3, <2>4 DEF SessionEvent, Event
    <3>4. ps[h.session] = "reaped"
      BY <2>1, <3>3
    <3>5. QED
      BY <2>1, <3>2, <3>4
  <2>5. QED
    BY <2>2, <2>3, <2>4 DEF SessionEvent
<1>4. QED
  BY <1>1, <1>2, <1>3

\* The hook joined to its session, with the first events replayed: it has the session, or
\* has lost it to an exit.
Joined(h, m, ps) ==
    /\ h \in PsqlHook /\ ExitIsOfReaped(h.pending, ps)
    /\ h.session = m \/ (h.session = None /\ ps[m] = "reaped")

\* Replaying ends with the session, unless its process has been reaped.
LEMMA EventsReplayed ==
    ASSUME NEW h \in PsqlHook, NEW m \in Mount, NEW ps, ExitIsOfReaped(h.pending, ps)
    PROVE  Joined(Replayed(h, m), m, ps) /\ Replayed(h, m).pending = <<>>
<1> DEFINE n == Len(h.pending)
           first == [h EXCEPT !.session = m]
           Good == {k \in PsqlHook : Joined(k, m, ps)}
           step == [i \in 1 .. n |-> [x \in Good |-> ApplyEvent(x, h.pending[i])]]
           Runs(f) == f = [i \in 0 .. n |-> IF i = 0 THEN first ELSE ApplyEvent(f[i - 1], h.pending[i])]
<1>1. /\ n \in Nat /\ \A i \in 1 .. n : h.pending[i] \in SessionEvent
      /\ \A i \in 1 .. n, l \in Mount : h.pending[i] = Event("exit", l) => ps[l] = "reaped"
  BY DEF PsqlHook, ExitIsOfReaped
<1>2. first \in Good
  BY DEF PsqlHook, Joined
<1>3. ASSUME NEW i \in 1 .. n, NEW x \in Good PROVE ApplyEvent(x, h.pending[i]) \in Good
  <2>1. /\ x \in PsqlHook /\ h.pending[i] \in SessionEvent /\ ExitIsOfReaped(x.pending, ps)
        /\ \A l \in Mount : h.pending[i] = Event("exit", l) => ps[l] = "reaped"
    BY <1>1 DEF Joined
  <2>2. x.session = m \/ (x.session = None /\ ps[m] = "reaped")
    BY DEF Joined
  <2>3. PICK k : k = ApplyEvent(x, h.pending[i])
    OBVIOUS
  <2>4. /\ k \in PsqlHook /\ ExitIsOfReaped(k.pending, ps)
        /\ \/ k.session = x.session
           \/ x.session \in Mount /\ ps[x.session] = "reaped" /\ k.session = None
    BY <2>1, <2>3, EventOfSession
  <2>5. None \notin Mount
    BY PsqlAssumption DEF Mount
  <2>6. k.session = m \/ (k.session = None /\ ps[m] = "reaped")
    BY <2>2, <2>4, <2>5
  <2>7. QED
    BY <2>3, <2>4, <2>6 DEF Joined
<1>4. step \in Steps(Good, n)
  <2> HIDE DEF Good, n
  <2>1. QED
    BY <1>1, <1>3 DEF Steps
<1>5. \A i \in 1 .. n, x \in Good : step[i][x] = ApplyEvent(x, h.pending[i])
  OBVIOUS
<1>6. PICK f \in [0 .. n -> Good] : f[0] = first /\ \A i \in 1 .. n : f[i] = step[i][f[i - 1]]
  <2> HIDE DEF step, n, Good, first
  <2>1. \E f : Follows(f, Good, n, first, step)
    BY <1>1, <1>2, <1>4, Recursion
  <2>2. QED
    BY <2>1 DEF Follows
<1>7. \A i \in 1 .. n : f[i] = ApplyEvent(f[i - 1], h.pending[i])
  <2> HIDE DEF step, n, Good
  <2>1. \A i \in 1 .. n : i - 1 \in 0 .. n
    BY <1>1
  <2>2. QED
    BY <1>1, <1>5, <1>6, <2>1
<1>8. \A i \in 0 .. n : f[i] = IF i = 0 THEN first ELSE ApplyEvent(f[i - 1], h.pending[i])
  <2> HIDE DEF step, n, Good, first
  <2>1. QED
    BY <1>1, <1>6, <1>7
<1>9. Runs(f)
  <2> HIDE DEF first, Good
  <2>1. QED
    BY <1>8
<1> DEFINE g == CHOOSE x : Runs(x)
<1>10. Runs(g)
  BY <1>9
<1>11. g = [i \in 0 .. n |-> IF i = 0 THEN first ELSE ApplyEvent(g[i - 1], h.pending[i])]
  BY <1>10
<1>12. Replayed(h, m) = [g[n] EXCEPT !.pending = <<>>]
  BY DEF Replayed
<1> HIDE DEF g, first, Good
<1>13. \A i \in 0 .. n : g[i] \in Good
  <2> DEFINE S == {i \in 0 .. n : g[i] \in Good}
  <2>1. 0 \in S
    BY <1>1, <1>2, <1>11
  <2>2. ASSUME NEW i \in 0 .. n - 1, i \in S PROVE i + 1 \in S
    <3>1. i \in 0 .. n /\ i + 1 \in 1 .. n /\ i + 1 \in 0 .. n /\ (i + 1) - 1 = i /\ i + 1 # 0
      BY <1>1
    <3>2. g[i + 1] = ApplyEvent(g[(i + 1) - 1], h.pending[i + 1])
      BY <1>11, <3>1
    <3>3. QED
      BY <1>3, <2>2, <3>1, <3>2
  <2> HIDE DEF S
  <2>3. \A i \in 0 .. n : i \in S
    BY <1>1, <2>1, <2>2, UpTo
  <2>4. QED
    BY <2>3 DEF S
<1>14. PICK k : k = g[n]
  OBVIOUS
<1>15. Joined(k, m, ps) /\ Replayed(h, m) = [k EXCEPT !.pending = <<>>]
  BY <1>1, <1>12, <1>13, <1>14 DEF Good
<1>16. <<>> \in Seq(SessionEvent) /\ ExitIsOfReaped(<<>>, ps)
  BY Nothing DEF ExitIsOfReaped
<1>17. [k EXCEPT !.pending = <<>>] \in PsqlHook /\ [k EXCEPT !.pending = <<>>].session = k.session
       /\ [k EXCEPT !.pending = <<>>].pending = <<>>
  BY <1>15, <1>16 DEF Joined, PsqlHook
<1>18. QED
  BY <1>15, <1>16, <1>17 DEF Joined

-----------------------------------------------------------------------------
(* The queue to the window.                                                 *)

\* An event at the end of the queue.
LEMMA Queued ==
    ASSUME NEW T, NEW q \in Seq(T), NEW e \in T
    PROVE  /\ Append(q, e) \in Seq(T) /\ e \in Range(Append(q, e))
           /\ \A x \in Range(q) : x \in Range(Append(q, e))
           /\ \A i \in DOMAIN Append(q, e) :
                 Append(q, e)[i] = e \/ (i \in DOMAIN q /\ Append(q, e)[i] = q[i])
<1>1. /\ Append(q, e) \in Seq(T) /\ DOMAIN Append(q, e) = 1 .. Len(q) + 1
      /\ DOMAIN q = 1 .. Len(q) /\ Len(q) \in Nat
      /\ Append(q, e)[Len(q) + 1] = e /\ \A i \in DOMAIN q : Append(q, e)[i] = q[i]
  BY Appended
<1>2. Len(q) + 1 \in DOMAIN Append(q, e) /\ \A i \in DOMAIN q : i \in DOMAIN Append(q, e)
  BY <1>1
<1>3. QED
  BY <1>1, <1>2 DEF Range

\* An event at the head of the queue is taken from it.
LEMMA Dequeued ==
    ASSUME NEW T, NEW q \in Seq(T), q # <<>>
    PROVE  /\ Head(q) \in T /\ Tail(q) \in Seq(T) /\ Head(q) \in Range(q)
           /\ \E i \in DOMAIN q : q[i] = Head(q)
           /\ \A x \in Range(q) : x = Head(q) \/ x \in Range(Tail(q))
           /\ \A i \in DOMAIN Tail(q) : \E k \in DOMAIN q : Tail(q)[i] = q[k]
<1>1. /\ Head(q) \in T /\ Tail(q) \in Seq(T) /\ Head(q) = q[1]
      /\ \A i \in DOMAIN q : i = 1 \/ (i - 1 \in DOMAIN Tail(q) /\ Tail(q)[i - 1] = q[i])
      /\ \A i \in DOMAIN Tail(q) : i + 1 \in DOMAIN q /\ Tail(q)[i] = q[i + 1]
  BY HeadThenTail
<1>2. 1 \in DOMAIN q
  OBVIOUS
<1>3. PICK h, t : h = Head(q) /\ t = Tail(q)
  OBVIOUS
<1>4. \A x \in Range(q) : x = h \/ x \in Range(t)
  BY <1>1, <1>3 DEF Range
<1>5. \A i \in DOMAIN t : \E k \in DOMAIN q : t[i] = q[k]
  BY <1>1, <1>3
<1>6. h \in Range(q) /\ \E i \in DOMAIN q : q[i] = h
  BY <1>1, <1>2, <1>3 DEF Range
<1>7. QED
  BY <1>1, <1>3, <1>4, <1>5, <1>6

-----------------------------------------------------------------------------
(* The steps.                                                               *)

Queue == SessionEvent \cup CallAnswer

\* A step of the service or of the terminal manager: what it must not do to a session.
LEMMA NativeStep ==
    ASSUME PsqlInv, UNCHANGED <<mountNo, mounted, hook, forgotten>>, NEW E \in SUBSET Queue,
           stops' \subseteq Mount,
           calls' \in [Mount -> {"none", "sent", "spawned", "named", "announced", "returned"}],
           process' \in [Mount -> {"none", "running", "exited", "reaped"}],
           \/ toWindow' = toWindow /\ E = {}
           \/ \E e \in Queue : toWindow' = Append(toWindow, e) /\ E = {e},
           \A k \in Mount :
              /\ k > mountNo => calls'[k] = "none"
              /\ process'[k] # "none" => calls'[k] \notin {"none", "sent"}
              /\ process[k] = "reaped" => process'[k] = "reaped"
              /\ process[k] = "none" /\ calls[k] = "returned" =>
                    process'[k] = "none" /\ calls'[k] = "returned"
              /\ Event("exit", k) \in E => process'[k] = "reaped"
              /\ Event("failed", k) \in E => process'[k] = "none" /\ calls'[k] = "returned"
              /\ process'[k] = "running" =>
                    \/ calls'[k] # "returned" \/ Event("answer", k) \in E
                    \/ process[k] = "running" /\ calls[k] = "returned" /\ (k \in stops => k \in stops')
    PROVE  PsqlInv'
<1>1. /\ toWindow' \in Seq(Queue) /\ \A x \in Range(toWindow) \cup E : x \in Range(toWindow')
      /\ \A i \in DOMAIN toWindow' :
            toWindow'[i] \in E \/ (i \in DOMAIN toWindow /\ toWindow'[i] = toWindow[i])
  <2>1. toWindow \in Seq(Queue)
    BY DEF PsqlInv, Queue
  <2>2. CASE toWindow' = toWindow /\ E = {}
    BY <2>1, <2>2
  <2>3. ASSUME NEW e \in Queue, toWindow' = Append(toWindow, e), E = {e}
        PROVE  /\ toWindow' \in Seq(Queue) /\ \A x \in Range(toWindow) \cup E : x \in Range(toWindow')
               /\ \A i \in DOMAIN toWindow' :
                     toWindow'[i] \in E \/ (i \in DOMAIN toWindow /\ toWindow'[i] = toWindow[i])
    BY <2>1, <2>3, Queued
  <2>4. QED
    BY <2>2, <2>3
<1>2. ExitIsOfReaped(toWindow, process)' /\ ExitIsOfReaped(hook.pending, process)'
  BY <1>1 DEF PsqlInv, ExitIsOfReaped
<1>3. FailureStartedNothing(toWindow, process, calls)'
  BY <1>1 DEF PsqlInv, FailureStartedNothing
<1>4. NoOrphanPsql'
  <2>1. SUFFICES ASSUME NEW k \in Mount, process'[k] = "running", calls'[k] = "returned",
                        Event("answer", k) \notin E
                 PROVE  \/ Event("answer", k) \in Range(toWindow')
                        \/ (mounted' /\ hook'.session = k) \/ k \in stops' \/ k \in forgotten'
    BY <1>1 DEF NoOrphanPsql
  <2>2. process[k] = "running" /\ calls[k] = "returned" /\ (k \in stops => k \in stops')
    BY <2>1
  <2>3. \/ Event("answer", k) \in Range(toWindow) \/ (mounted /\ hook.session = k)
        \/ k \in stops \/ k \in forgotten
    BY <2>2 DEF PsqlInv, NoOrphanPsql
  <2>4. QED
    BY <1>1, <2>2, <2>3
<1>5. QED
  BY <1>1, <1>2, <1>3, <1>4 DEF PsqlInv, Queue

\* A step of the window, which leaves the sessions alone and takes from the queue.
LEMMA WindowStep ==
    ASSUME PsqlInv, UNCHANGED <<process, forgotten>>, hook' \in PsqlHook, NEW E, mountNo' \in Nat,
           calls' \in [Mount -> {"none", "sent", "spawned", "named", "announced", "returned"}],
           toWindow' \in Seq(Queue), \A i \in DOMAIN toWindow' : \E k \in DOMAIN toWindow : toWindow'[i] = toWindow[k],
           \A x \in Range(toWindow) : x \in E \cup Range(toWindow'),
           \A k \in Mount : /\ k > mountNo' => calls'[k] = "none"
                            /\ calls'[k] = calls[k] \/ (calls[k] = "none" /\ calls'[k] = "sent"),
           mounted' /\ hook'.session # None => hook'.session = mountNo',
           ExitIsOfReaped(hook'.pending, process), stops \subseteq stops', stops' \subseteq Mount,
           \A k \in Mount : process[k] = "running" =>
              /\ Event("answer", k) \in E => k \in stops' \/ (mounted' /\ hook'.session = k)
              /\ mounted /\ hook.session = k => k \in stops' \/ (mounted' /\ hook'.session = k)
    PROVE  PsqlInv'
<1>1. ExitIsOfReaped(toWindow, process)'
  BY DEF PsqlInv, ExitIsOfReaped
<1>2. FailureStartedNothing(toWindow, process, calls)'
  <2>1. \A m \in Mount : calls[m] = "returned" => calls'[m] = "returned"
    OBVIOUS
  <2>2. QED
    BY <2>1 DEF PsqlInv, FailureStartedNothing
<1>3. ASSUME NEW m \in Mount, process'[m] # "none" PROVE calls'[m] \notin {"none", "sent"}
  BY <1>3 DEF PsqlInv
<1>4. NoOrphanPsql'
  <2>1. SUFFICES ASSUME NEW k \in Mount, process[k] = "running", calls'[k] = "returned"
                 PROVE  \/ Event("answer", k) \in Range(toWindow')
                        \/ (mounted' /\ hook'.session = k) \/ k \in stops' \/ k \in forgotten
    BY DEF NoOrphanPsql
  <2>2. calls[k] = "returned"
    BY <2>1
  <2>3. \/ Event("answer", k) \in Range(toWindow) \/ (mounted /\ hook.session = k)
        \/ k \in stops \/ k \in forgotten
    BY <2>1, <2>2 DEF PsqlInv, NoOrphanPsql
  <2>4. QED
    BY <2>1, <2>3
<1>5. QED
  BY <1>1, <1>2, <1>3, <1>4 DEF PsqlInv, Queue

\* What is sent to the window is an event or an answer, and one of its kind.
LEMMA EventsDiffer ==
    ASSUME NEW m \in Mount
    PROVE  /\ m \in Nat /\ m # Unnamed /\ m # None
           /\ NameOf(m) \in {m, Unnamed}
           /\ \A type \in {"data", "started", "exit"} :
                 /\ Event(type, m) \in Queue /\ Event(type, Unnamed) \in Queue
                 /\ Event(type, NameOf(m)) \in Queue
           /\ Event("answer", m) \in Queue /\ Event("failed", m) \in Queue
           /\ \A t, u, i, k : Event(t, i) = Event(u, k) <=> t = u /\ i = k
<1>1. m \in Nat /\ m # Unnamed /\ m # None
  BY PsqlAssumption DEF Mount
<1>2. \A t, u, i, k : Event(t, i) = Event(u, k) <=> t = u /\ i = k
  BY DEF Event
<1>3. NameOf(m) \in {m, Unnamed}
  BY DEF NameOf
<1>4. \A type \in {"data", "started", "exit"} :
         Event(type, m) \in Queue /\ Event(type, Unnamed) \in Queue
  BY DEF Event, Queue, SessionEvent
<1>5. Event("answer", m) \in Queue /\ Event("failed", m) \in Queue
  BY DEF Event, Queue, CallAnswer
<1>6. \A type \in {"data", "started", "exit"} : Event(type, NameOf(m)) \in Queue
  BY <1>3, <1>4
<1>7. QED
  BY <1>1, <1>2, <1>3, <1>4, <1>5, <1>6

\* The service and the terminal manager.
LEMMA NativeSteps ==
    ASSUME PsqlInv, NEW m \in Mount,
           \/ SpawnPsql(m) \/ SpawnFails(m) \/ AssignSessionId(m) \/ EmitStarted(m)
           \/ ReturnSession(m) \/ Pump(m) \/ PsqlExits(m) \/ Reap(m) \/ Sweep(m) \/ StopSession(m)
    PROVE  PsqlInv'
<1>1. /\ calls \in [Mount -> {"none", "sent", "spawned", "named", "announced", "returned"}]
      /\ stops \subseteq Mount /\ process \in [Mount -> {"none", "running", "exited", "reaped"}]
      /\ \A k \in Mount : /\ k > mountNo => calls[k] = "none"
                          /\ process[k] # "none" => calls[k] \notin {"none", "sent"}
  BY DEF PsqlInv
<1>2. {} \in SUBSET Queue /\ \A e \in Queue : {e} \in SUBSET Queue
  OBVIOUS
<1>3. CASE SpawnPsql(m)
  BY <1>1, <1>2, <1>3, NativeStep, ZenonT(60) DEF SpawnPsql
<1>4. CASE SpawnFails(m)
  <2>1. /\ calls' = [calls EXCEPT ![m] = "returned"] /\ calls[m] = "sent" /\ process' = process
        /\ toWindow' = Append(toWindow, Event("failed", m))
        /\ UNCHANGED <<mountNo, mounted, hook, forgotten, stops>>
    BY <1>4 DEF SpawnFails, Emit
  <2>2. PICK E \in SUBSET Queue : E = {Event("failed", m)}
    BY <1>2, EventsDiffer
  <2>3. process[m] = "none"
    BY <1>1, <2>1
  <2>4. \A k \in Mount : Event("failed", k) \in E => k = m
    BY <2>2, EventsDiffer
  <2>5. \A k \in Mount : Event("exit", k) \notin E /\ Event("answer", k) \notin E
    BY <2>2, EventsDiffer
  <2>6. \E e \in Queue : toWindow' = Append(toWindow, e) /\ E = {e}
    BY <2>1, <2>2, EventsDiffer
  <2>7. QED
    BY <1>1, <2>1, <2>3, <2>4, <2>5, <2>6, NativeStep, ZenonT(60)
<1>5. CASE AssignSessionId(m)
  BY <1>1, <1>2, <1>5, NativeStep, ZenonT(60) DEF AssignSessionId
<1>6. CASE EmitStarted(m)
  <2>1. /\ calls' = [calls EXCEPT ![m] = "announced"] /\ calls[m] = "named" /\ process' = process
        /\ toWindow' = Append(toWindow, Event("started", m))
        /\ UNCHANGED <<mountNo, mounted, hook, forgotten, stops>>
    BY <1>6 DEF EmitStarted, Emit
  <2>2. PICK E \in SUBSET Queue : E = {Event("started", m)}
    BY <1>2, EventsDiffer
  <2>3. \A k \in Mount : /\ Event("exit", k) \notin E /\ Event("answer", k) \notin E
                         /\ Event("failed", k) \notin E
    BY <2>2, EventsDiffer
  <2>4. \E e \in Queue : toWindow' = Append(toWindow, e) /\ E = {e}
    BY <2>1, <2>2, EventsDiffer
  <2>5. QED
    BY <1>1, <2>1, <2>3, <2>4, NativeStep
<1>7. CASE ReturnSession(m)
  <2>1. /\ calls' = [calls EXCEPT ![m] = "returned"] /\ calls[m] = "announced" /\ process' = process
        /\ toWindow' = Append(toWindow, Event("answer", m))
        /\ UNCHANGED <<mountNo, mounted, hook, forgotten, stops>>
    BY <1>7 DEF ReturnSession, Emit
  <2>2. PICK E \in SUBSET Queue : E = {Event("answer", m)}
    BY <1>2, EventsDiffer
  <2>3. \A k \in Mount : Event("exit", k) \notin E /\ Event("failed", k) \notin E
    BY <2>2, EventsDiffer
  <2>4. \E e \in Queue : toWindow' = Append(toWindow, e) /\ E = {e}
    BY <2>1, <2>2, EventsDiffer
  <2>5. QED
    BY <1>1, <2>1, <2>2, <2>3, <2>4, NativeStep, ZenonT(60)
<1>8. CASE Pump(m)
  <2>1. /\ UNCHANGED <<calls, process>>
        /\ toWindow' = Append(toWindow, Event("data", NameOf(m)))
        /\ UNCHANGED <<mountNo, mounted, hook, forgotten, stops>>
    BY <1>8 DEF Pump, Emit
  <2>2. PICK E \in SUBSET Queue : E = {Event("data", NameOf(m))}
    BY <1>2, EventsDiffer
  <2>3. \A k \in Mount : /\ Event("exit", k) \notin E /\ Event("answer", k) \notin E
                         /\ Event("failed", k) \notin E
    BY <2>2, EventsDiffer
  <2>4. \E e \in Queue : toWindow' = Append(toWindow, e) /\ E = {e}
    BY <2>1, <2>2, EventsDiffer
  <2>5. QED
    BY <1>1, <2>1, <2>3, <2>4, NativeStep
<1>9. CASE PsqlExits(m)
  BY <1>1, <1>2, <1>9, NativeStep DEF PsqlExits
<1>10. CASE Reap(m)
  <2>1. /\ calls' = calls /\ process' = [process EXCEPT ![m] = "reaped"] /\ process[m] = "exited"
        /\ toWindow' = Append(toWindow, Event("exit", NameOf(m)))
        /\ UNCHANGED <<mountNo, mounted, hook, forgotten, stops>>
    BY <1>10 DEF Reap, Emit
  <2>2. PICK E \in SUBSET Queue : E = {Event("exit", NameOf(m))}
    BY <1>2, EventsDiffer
  <2>3. \A k \in Mount : Event("answer", k) \notin E /\ Event("failed", k) \notin E
    BY <2>2, EventsDiffer
  <2>4. \A k \in Mount : Event("exit", k) \in E => k = m
    BY <2>2, EventsDiffer
  <2>5. \E e \in Queue : toWindow' = Append(toWindow, e) /\ E = {e}
    BY <2>1, <2>2, EventsDiffer
  <2>6. QED
    BY <1>1, <2>1, <2>3, <2>4, <2>5, NativeStep
<1>11. CASE Sweep(m)
  BY <1>1, <1>2, <1>11, NativeStep DEF Sweep, Killed
<1>12. CASE StopSession(m)
  <2>1. /\ process' \in [Mount -> {"none", "running", "exited", "reaped"}]
        /\ process'[m] # "running" /\ \A k \in Mount : process'[k] = process[k]
                                          \/ (process[k] = "running" /\ process'[k] = "exited")
    BY <1>1, <1>12 DEF StopSession, Killed
  <2>2. stops' \subseteq Mount /\ \A k \in Mount : k # m /\ k \in stops => k \in stops'
    BY <1>1, <1>12 DEF StopSession
  <2>3. UNCHANGED <<mountNo, mounted, hook, forgotten, calls, toWindow>>
    BY <1>12 DEF StopSession
  <2>4. PICK E \in SUBSET Queue : E = {}
    BY <1>2
  <2>5. \A k \in Mount : process'[k] = "running" =>
           process[k] = "running" /\ (k \in stops => k \in stops')
    BY <2>1, <2>2
  <2>6. QED
    BY <1>1, <2>1, <2>2, <2>3, <2>4, <2>5, NativeStep, ZenonT(60)
<1>13. QED
  BY <1>3, <1>4, <1>5, <1>6, <1>7, <1>8, <1>9, <1>10, <1>11, <1>12

\* The hook with nothing kept.
LEMMA FreshIsAHook ==
    /\ FreshHook \in PsqlHook
    /\ [FreshHook EXCEPT !.status = "error"] \in PsqlHook
    /\ [FreshHook EXCEPT !.status = "starting", !.listening = TRUE] \in PsqlHook
    /\ \A ps : ExitIsOfReaped(<<>>, ps)
  BY Nothing DEF FreshHook, PsqlHook, ExitIsOfReaped

\* The tab is shown, or hidden.
LEMMA ShownOrHidden == ASSUME PsqlInv, ShowPsql \/ HidePsql PROVE PsqlInv'
<1>1. /\ calls \in [Mount -> {"none", "sent", "spawned", "named", "announced", "returned"}]
      /\ toWindow \in Seq(Queue) /\ hook \in PsqlHook /\ mountNo \in Nat
      /\ \A k \in Mount : k > mountNo => calls[k] = "none"
      /\ mounted /\ hook.session # None => hook.session = mountNo
      /\ MaxMounts \in Nat /\ stops \subseteq Mount
  BY PsqlAssumption DEF PsqlInv, Queue
<1>2. \A i \in DOMAIN toWindow : \E k \in DOMAIN toWindow : toWindow[i] = toWindow[k]
  OBVIOUS
<1> PICK E : E = {}
  OBVIOUS
<1>3. CASE ShowPsql
  <2>1. /\ UNCHANGED <<process, forgotten, toWindow, stops>> /\ ~mounted /\ mounted'
        /\ mountNo' = mountNo + 1 /\ calls' = [calls EXCEPT ![mountNo + 1] = "sent"]
        /\ mountNo + 1 \in Mount
    BY <1>1, <1>3 DEF ShowPsql, Mount
  <2>2. hook' \in PsqlHook /\ hook'.session = None /\ hook'.pending = <<>>
    BY <1>3, FreshIsAHook DEF ShowPsql, FreshHook
  <2>3. ExitIsOfReaped(hook'.pending, process)
    BY <2>2, FreshIsAHook
  <2>4. /\ mountNo' \in Nat /\ calls[mountNo + 1] = "none"
        /\ calls' \in [Mount -> {"none", "sent", "spawned", "named", "announced", "returned"}]
    BY <1>1, <2>1
  <2>5. \A k \in Mount : /\ k > mountNo' => calls'[k] = "none"
                         /\ calls'[k] = calls[k] \/ (calls[k] = "none" /\ calls'[k] = "sent")
    BY <1>1, <2>1, <2>4 DEF Mount
  <2>6. \A x \in Range(toWindow) : x \in E \cup Range(toWindow')
    BY <2>1
  <2>7. \A k \in Mount : process[k] = "running" =>
           /\ Event("answer", k) \in E => k \in stops' \/ (mounted' /\ hook'.session = k)
           /\ mounted /\ hook.session = k => k \in stops' \/ (mounted' /\ hook'.session = k)
    BY <2>1
  <2>8. stops \subseteq stops' /\ stops' \subseteq Mount
    BY <1>1, <2>1
  <2>9. QED
    BY <1>1, <1>2, <2>1, <2>2, <2>3, <2>4, <2>5, <2>6, <2>7, <2>8, WindowStep
<1>4. CASE HidePsql
  <2>1. UNCHANGED <<process, forgotten, toWindow, mountNo, calls>> /\ ~mounted'
    BY <1>4 DEF HidePsql
  <2>2. hook' \in PsqlHook /\ hook'.session = None /\ hook'.pending = <<>>
    BY <1>4, FreshIsAHook DEF HidePsql, FreshHook
  <2>3. ExitIsOfReaped(hook'.pending, process)
    BY <2>2, FreshIsAHook
  <2>4. /\ stops \subseteq stops' /\ stops' \subseteq Mount
        /\ \A k \in Mount : hook.session = k => k \in stops'
    BY <1>1, <1>4, EventsDiffer DEF HidePsql, PsqlHook
  <2>5. \A x \in Range(toWindow) : x \in E \cup Range(toWindow')
    BY <2>1
  <2>6. \A k \in Mount : process[k] = "running" =>
           /\ Event("answer", k) \in E => k \in stops' \/ (mounted' /\ hook'.session = k)
           /\ mounted /\ hook.session = k => k \in stops' \/ (mounted' /\ hook'.session = k)
    BY <2>4
  <2>7. QED
    BY <1>1, <1>2, <2>1, <2>2, <2>3, <2>4, <2>5, <2>6, WindowStep
<1>5. QED
  BY <1>3, <1>4

\* The window is reloaded: whatever was started by then is the sweep's.
LEMMA Reloaded == ASSUME PsqlInv, Reload PROVE PsqlInv'
<1>1. /\ UNCHANGED <<mountNo, calls, process, stops>> /\ ~mounted' /\ toWindow' = <<>>
      /\ hook' = FreshHook /\ forgotten' = {m \in Mount : calls[m] # "none"}
  BY DEF Reload
<1>2. hook' \in PsqlHook /\ hook'.pending = <<>> /\ toWindow' \in Seq(SessionEvent \cup CallAnswer)
  BY <1>1, FreshIsAHook, Nothing DEF FreshHook
<1>3. ExitIsOfReaped(toWindow, process)' /\ ExitIsOfReaped(hook.pending, process)'
  BY <1>1, <1>2, FreshIsAHook
<1>4. FailureStartedNothing(toWindow, process, calls)'
  BY <1>1, Nothing DEF FailureStartedNothing
<1>5. NoOrphanPsql'
  BY <1>1 DEF PsqlInv, NoOrphanPsql
<1>6. QED
  BY <1>1, <1>2, <1>3, <1>4, <1>5 DEF PsqlInv

\* What taking an event leaves.
LEMMA EventTaken ==
    ASSUME PsqlInv, NEW e, Take(e)
    PROVE  /\ e \in Queue /\ toWindow' \in Seq(Queue) /\ e \in Range(toWindow)
           /\ \A i \in DOMAIN toWindow' : \E k \in DOMAIN toWindow : toWindow'[i] = toWindow[k]
           /\ \A x \in Range(toWindow) : x \in {e} \cup Range(toWindow')
           /\ \A m \in Mount : /\ e = Event("exit", m) => process[m] = "reaped"
                               /\ e = Event("failed", m) => process[m] = "none"
<1>1. toWindow \in Seq(Queue) /\ toWindow # <<>> /\ Head(toWindow) = e /\ toWindow' = Tail(toWindow)
  BY DEF PsqlInv, Queue, Take
<1>2. /\ e \in Queue /\ toWindow' \in Seq(Queue) /\ e \in Range(toWindow)
      /\ \A i \in DOMAIN toWindow' : \E k \in DOMAIN toWindow : toWindow'[i] = toWindow[k]
      /\ \A x \in Range(toWindow) : x = e \/ x \in Range(toWindow')
      /\ \E i \in DOMAIN toWindow : toWindow[i] = e
  BY <1>1, Dequeued
<1>3. \A m \in Mount : /\ e = Event("exit", m) => process[m] = "reaped"
                       /\ e = Event("failed", m) => process[m] = "none"
  BY <1>2 DEF PsqlInv, ExitIsOfReaped, FailureStartedNothing
<1>4. QED
  BY <1>2, <1>3

\* The window hears an event of a session.
LEMMA EventReceived == ASSUME PsqlInv, ReceiveEvent PROVE PsqlInv'
<1>1. PICK m \in Mount \cup {Unnamed}, type \in {"data", "started", "exit"} :
         /\ Take(Event(type, m))
         /\ hook' = IF hook.listening THEN ApplyEvent(hook, Event(type, m)) ELSE hook
         /\ UNCHANGED <<mountNo, mounted, calls, process, stops, forgotten>>
  BY DEF ReceiveEvent
<1>2. PICK e : e = Event(type, m)
  OBVIOUS
<1>3. e \in SessionEvent /\ \A k \in Mount : e # Event("answer", k)
  BY <1>2 DEF Event, SessionEvent
<1>4. /\ toWindow' \in Seq(Queue)
      /\ \A i \in DOMAIN toWindow' : \E k \in DOMAIN toWindow : toWindow'[i] = toWindow[k]
      /\ \A x \in Range(toWindow) : x \in {e} \cup Range(toWindow')
      /\ \A k \in Mount : e = Event("exit", k) => process[k] = "reaped"
  BY <1>1, <1>2, EventTaken
<1>5. /\ hook \in PsqlHook /\ ExitIsOfReaped(hook.pending, process) /\ mountNo \in Nat
      /\ stops \subseteq Mount
      /\ calls \in [Mount -> {"none", "sent", "spawned", "named", "announced", "returned"}]
      /\ \A k \in Mount : k > mountNo => calls[k] = "none"
      /\ mounted /\ hook.session # None => hook.session = mountNo
  BY DEF PsqlInv
<1>6. /\ hook' \in PsqlHook /\ ExitIsOfReaped(hook'.pending, process)
      /\ \/ hook'.session = hook.session
         \/ hook.session \in Mount /\ process[hook.session] = "reaped" /\ hook'.session = None
  <2>1. CASE ~hook.listening
    BY <1>1, <1>5, <2>1
  <2>2. CASE hook.listening
    <3>1. hook' = ApplyEvent(hook, e)
      BY <1>1, <1>2, <2>2
    <3>2. QED
      BY <1>3, <1>4, <1>5, <3>1, EventOfSession
  <2>3. QED
    BY <2>1, <2>2
<1>7. \A k \in Mount : process[k] = "running" =>
         /\ Event("answer", k) \notin {e}
         /\ mounted /\ hook.session = k => mounted' /\ hook'.session = k
  BY <1>1, <1>3, <1>6
<1>8. QED
  BY <1>1, <1>4, <1>5, <1>6, <1>7, WindowStep

\* The window hears the answer of a start.
LEMMA AnswerReceived == ASSUME PsqlInv, NEW m \in Mount, ReceiveAnswer(m) PROVE PsqlInv'
<1>1. PICK e : e = Event("answer", m)
  OBVIOUS
<1>2. /\ toWindow' \in Seq(Queue)
      /\ \A i \in DOMAIN toWindow' : \E k \in DOMAIN toWindow : toWindow'[i] = toWindow[k]
      /\ \A x \in Range(toWindow) : x \in {e} \cup Range(toWindow')
  BY <1>1, EventTaken DEF ReceiveAnswer
<1>3. \A k \in Mount : Event("answer", k) \in {e} => k = m
  BY <1>1, EventsDiffer
<1>4. /\ hook \in PsqlHook /\ ExitIsOfReaped(hook.pending, process) /\ mountNo \in Nat
      /\ stops \subseteq Mount
      /\ calls \in [Mount -> {"none", "sent", "spawned", "named", "announced", "returned"}]
      /\ \A k \in Mount : k > mountNo => calls[k] = "none"
      /\ mounted /\ hook.session # None => hook.session = mountNo
  BY DEF PsqlInv
<1>5. UNCHANGED <<mountNo, mounted, calls, process, forgotten>>
  BY DEF ReceiveAnswer
<1>6. CASE mounted /\ m = mountNo
  <2>1. hook' = Replayed(hook, m) /\ stops' = stops
    BY <1>6 DEF ReceiveAnswer
  <2>2. Joined(hook', m, process)
    BY <1>4, <2>1, EventsReplayed
  <2>3. /\ hook' \in PsqlHook /\ ExitIsOfReaped(hook'.pending, process)
        /\ hook'.session = m \/ (hook'.session = None /\ process[m] = "reaped")
    BY <2>2 DEF Joined
  <2>4. m # None
    BY EventsDiffer
  <2>5. \A k \in Mount : process[k] = "running" =>
           /\ Event("answer", k) \in {e} => mounted' /\ hook'.session = k
           /\ mounted /\ hook.session = k => mounted' /\ hook'.session = k
    BY <1>3, <1>4, <1>5, <1>6, <2>3, EventsDiffer
  <2>6. QED
    BY <1>2, <1>4, <1>5, <1>6, <2>1, <2>3, <2>4, <2>5, WindowStep
<1>7. CASE ~(mounted /\ m = mountNo)
  <2>1. hook' = hook /\ stops' = stops \cup {m}
    BY <1>7 DEF ReceiveAnswer
  <2>2. \A k \in Mount : process[k] = "running" =>
           /\ Event("answer", k) \in {e} => k \in stops'
           /\ mounted /\ hook.session = k => mounted' /\ hook'.session = k
    BY <1>3, <1>5, <2>1
  <2>3. QED
    BY <1>2, <1>4, <1>5, <2>1, <2>2, WindowStep
<1>8. QED
  BY <1>6, <1>7

\* The window hears that a start failed.
LEMMA FailureReceived == ASSUME PsqlInv, NEW m \in Mount, ReceiveFailure(m) PROVE PsqlInv'
<1>1. PICK e : e = Event("failed", m)
  OBVIOUS
<1>2. /\ toWindow' \in Seq(Queue)
      /\ \A i \in DOMAIN toWindow' : \E k \in DOMAIN toWindow : toWindow'[i] = toWindow[k]
      /\ \A x \in Range(toWindow) : x \in {e} \cup Range(toWindow')
      /\ process[m] = "none"
  BY <1>1, EventTaken DEF ReceiveFailure
<1>3. \A k \in Mount : Event("answer", k) \notin {e}
  BY <1>1, EventsDiffer
<1>4. /\ hook \in PsqlHook /\ ExitIsOfReaped(hook.pending, process) /\ mountNo \in Nat
      /\ stops \subseteq Mount
      /\ calls \in [Mount -> {"none", "sent", "spawned", "named", "announced", "returned"}]
      /\ \A k \in Mount : k > mountNo => calls[k] = "none"
      /\ mounted /\ hook.session # None => hook.session = mountNo
  BY DEF PsqlInv
<1>5. UNCHANGED <<mountNo, mounted, calls, process, forgotten, stops>>
  BY DEF ReceiveFailure
<1>6. \/ hook' = hook
      \/ mounted /\ m = mountNo /\ hook' = [FreshHook EXCEPT !.status = "error"]
  BY DEF ReceiveFailure
<1>7. /\ hook' \in PsqlHook /\ ExitIsOfReaped(hook'.pending, process)
      /\ hook'.session # None => hook' = hook
  BY <1>4, <1>6, FreshIsAHook DEF FreshHook
<1>8. \A k \in Mount : process[k] = "running" =>
         (mounted /\ hook.session = k => mounted' /\ hook'.session = k)
  BY <1>2, <1>4, <1>5, <1>6, EventsDiffer
<1>9. QED
  BY <1>2, <1>3, <1>4, <1>5, <1>7, <1>8, WindowStep

\* The invariant holds at the start.
LEMMA InitPsql == PsqlInit => PsqlInv
<1> SUFFICES ASSUME PsqlInit PROVE PsqlInv
  OBVIOUS
<1>1. toWindow \in Seq(SessionEvent \cup CallAnswer) /\ hook \in PsqlHook /\ hook.pending = <<>>
  BY FreshIsAHook, Nothing DEF PsqlInit, FreshHook
<1>2. /\ ExitIsOfReaped(toWindow, process) /\ ExitIsOfReaped(hook.pending, process)
      /\ FailureStartedNothing(toWindow, process, calls)
  BY <1>1, FreshIsAHook, Nothing DEF PsqlInit, FailureStartedNothing
<1>3. QED
  BY <1>1, <1>2 DEF PsqlInit, PsqlInv, NoOrphanPsql

\* Every step keeps it.
LEMMA PsqlStep == PsqlInv /\ [PsqlNext]_psqlVars => PsqlInv'
<1> SUFFICES ASSUME PsqlInv, [PsqlNext]_psqlVars PROVE PsqlInv'
  OBVIOUS
<1>1. CASE ShowPsql \/ HidePsql
  BY <1>1, ShownOrHidden
<1>2. CASE Reload
  BY <1>2, Reloaded
<1>3. CASE ReceiveEvent
  BY <1>3, EventReceived
<1>4. ASSUME NEW m \in Mount, ReceiveAnswer(m) \/ ReceiveFailure(m) PROVE PsqlInv'
  BY <1>4, AnswerReceived, FailureReceived
<1>5. ASSUME NEW m \in Mount,
             \/ SpawnPsql(m) \/ SpawnFails(m) \/ AssignSessionId(m) \/ EmitStarted(m)
             \/ ReturnSession(m) \/ Pump(m) \/ PsqlExits(m) \/ Reap(m) \/ Sweep(m)
      PROVE  PsqlInv'
  BY <1>5, NativeSteps
<1>6. ASSUME NEW m \in stops, StopSession(m) PROVE PsqlInv'
  BY <1>6, NativeSteps DEF PsqlInv
<1>7. CASE UNCHANGED psqlVars
  BY <1>7 DEF psqlVars, PsqlInv, NoOrphanPsql
<1>8. QED
  BY <1>1, <1>2, <1>3, <1>4, <1>5, <1>6, <1>7 DEF PsqlNext

-----------------------------------------------------------------------------
(* The tab bar.                                                             *)

\* No two tabs have one identity.
Distinct(tabs) == \A i, j \in DOMAIN tabs : tabs[i].id = tabs[j].id => i = j

\* A table tab's identity names its connection; the others' are numbers given out.
IdTells(tab, fresh) ==
    \/ tab.connection \in Connection /\ tab.id = TableTabId(tab.connection)
    \/ \E n \in 1 .. fresh : tab.id = FreshTabId(n)

\* The bar.
GoodBar(tabs, fresh, deleted) ==
    /\ tabs \in Seq(Tab) /\ Distinct(tabs)
    /\ \A i \in DOMAIN tabs : IdTells(tabs[i], fresh) /\ tabs[i].connection \notin deleted

\* The tab that is shown is one of the bar's, and the toolbar has its connection, unless
\* they were last set apart.
GoodView(tabs, active, connection, free) ==
    /\ IF tabs = <<>> THEN active = None ELSE Keeps(tabs, active)
    /\ ~free => \A i \in DOMAIN tabs : tabs[i].id = active => connection = tabs[i].connection

\* A connection that is deleted is not listed.
GoodLists ==
    /\ listed \subseteq Connection /\ deletedConnections \subseteq Connection
    /\ listed \cap deletedConnections = {}
    /\ deleting \in [step : {"none", "asked", "deleted"}, connection : Connection \cup {None}]
    /\ deleting.step # "none" => deleting.connection \in Connection
    /\ deleting.step = "deleted" => deleting.connection \notin listed

TabsInv ==
    /\ freshIds \in 0 .. MaxFresh /\ dragIndex \in Nat /\ apart \in BOOLEAN
    /\ GoodBar(openedTabs, freshIds, deletedConnections)
    /\ GoodView(openedTabs, activeTabId, activeConnectionId, apart)
    /\ GoodLists

-----------------------------------------------------------------------------
(* Lists of tabs.                                                           *)

\* What the filter has taken after n tabs.
TakenOf(k, tabs, positions, n) ==
    /\ k \in Seq(Tab)
    /\ \A j \in DOMAIN k : \E i \in 1 .. n : i \in positions /\ k[j] = tabs[i]
    /\ \A i \in 1 .. n : i \in positions => \E j \in DOMAIN k : k[j] = tabs[i]
    /\ Distinct(tabs) => Distinct(k)

\* One more tab for the filter.
LEMMA OneMoreTab ==
    ASSUME NEW tabs \in Seq(Tab), NEW positions, NEW n \in Nat, n + 1 \in DOMAIN tabs, NEW k,
           TakenOf(k, tabs, positions, n)
    PROVE  TakenOf(IF n + 1 \in positions THEN Append(k, tabs[n + 1]) ELSE k, tabs, positions, n + 1)
<1>1. \A i \in 1 .. n + 1 : i \in 1 .. n \/ i = n + 1
  OBVIOUS
<1>2. \A i \in 1 .. n : i \in 1 .. n + 1 /\ i # n + 1 /\ i \in DOMAIN tabs
  OBVIOUS
<1>3. n + 1 \in 1 .. n + 1
  OBVIOUS
<1>4. CASE n + 1 \notin positions
  <2>1. TakenOf(k, tabs, positions, n + 1)
    BY <1>1, <1>2, <1>4 DEF TakenOf
  <2>2. QED
    BY <1>4, <2>1
<1>5. CASE n + 1 \in positions
  <2>1. PICK e \in Tab : e = tabs[n + 1]
    OBVIOUS
  <2>2. PICK more : more = Append(k, e)
    OBVIOUS
  <2>3. k \in Seq(Tab)
    BY DEF TakenOf
  <2>4. PICK last : last = Len(k) + 1
    OBVIOUS
  <2>5. /\ more \in Seq(Tab) /\ last \in DOMAIN more /\ more[last] = e
        /\ \A j \in DOMAIN more : (j \in DOMAIN k /\ more[j] = k[j]) \/ (j = last /\ more[j] = e)
        /\ \A j \in DOMAIN k : j \in DOMAIN more /\ more[j] = k[j]
    <3>1. /\ more \in Seq(Tab) /\ DOMAIN more = 1 .. Len(k) + 1 /\ DOMAIN k = 1 .. Len(k) /\ Len(k) \in Nat
          /\ more[Len(k) + 1] = e /\ \A i \in DOMAIN k : more[i] = k[i]
      BY <2>2, <2>3, Appended
    <3>2. \A j \in 1 .. Len(k) + 1 : j \in 1 .. Len(k) \/ j = Len(k) + 1
      BY <3>1
    <3>3. QED
      BY <2>4, <3>1, <3>2
  <2>6. \A j \in DOMAIN more : \E i \in 1 .. n + 1 : i \in positions /\ more[j] = tabs[i]
    BY <1>2, <1>3, <1>5, <2>1, <2>5 DEF TakenOf
  <2>7. \A i \in 1 .. n + 1 : i \in positions => \E j \in DOMAIN more : more[j] = tabs[i]
    BY <1>1, <2>1, <2>5 DEF TakenOf
  <2>8. ASSUME Distinct(tabs), NEW i \in DOMAIN more, NEW j \in DOMAIN more, more[i].id = more[j].id
        PROVE  i = j
    <3>1. \A l \in DOMAIN k : k[l].id # e.id
      <4>1. ASSUME NEW l \in DOMAIN k, k[l].id = e.id PROVE FALSE
        <5>1. PICK o \in 1 .. n : k[l] = tabs[o]
          BY DEF TakenOf
        <5>2. o = n + 1
          BY <1>2, <2>1, <2>8, <4>1, <5>1 DEF Distinct
        <5>3. QED
          BY <1>2, <5>2
      <4>2. QED
        BY <4>1
    <3>2. Distinct(k)
      BY <2>8 DEF TakenOf
    <3>3. QED
      BY <2>5, <2>8, <3>1, <3>2 DEF Distinct
  <2>9. TakenOf(more, tabs, positions, n + 1)
    BY <2>5, <2>6, <2>7, <2>8 DEF TakenOf, Distinct
  <2>10. QED
    BY <1>5, <2>1, <2>2, <2>9
<1>6. QED
  BY <1>4, <1>5

\* The filter keeps the tabs at the positions, and no others.
LEMMA Filtered ==
    ASSUME NEW tabs \in Seq(Tab), NEW positions
    PROVE  TakenOf(Picked(tabs, positions), tabs, positions, Len(tabs))
<1> PICK n \in Nat : n = Len(tabs)
  OBVIOUS
<1>1. DOMAIN tabs = 1 .. n /\ \A i \in 1 .. n : tabs[i] \in Tab
  OBVIOUS
<1>2. PICK g : PicksUpTo(g, Tab, tabs, positions) /\ Picked(tabs, positions) = g[n]
  BY PickedStepwise
<1>3. g[0] = <<>>
      /\ \A i \in 1 .. n : g[i] = IF i \in positions THEN Append(g[i - 1], tabs[i]) ELSE g[i - 1]
  BY <1>2 DEF PicksUpTo
<1>4. \A i \in 0 .. n : TakenOf(g[i], tabs, positions, i)
  <2> DEFINE S == {i \in 0 .. n : TakenOf(g[i], tabs, positions, i)}
  <2>1. 0 \in S
    <3>1. g[0] = <<>> /\ 0 \in 0 .. n
      BY <1>3
    <3>2. TakenOf(<<>>, tabs, positions, 0)
      <4>1. <<>> \in Seq(Tab) /\ \A i \in 1 .. 0 : FALSE
        OBVIOUS
      <4>2. QED
        BY <4>1, Nothing DEF TakenOf, Distinct
    <3>3. QED
      BY <3>1, <3>2
  <2>2. ASSUME NEW i \in 0 .. n - 1, i \in S PROVE i + 1 \in S
    <3>1. i \in Nat /\ i + 1 \in 1 .. n /\ i + 1 \in 0 .. n /\ (i + 1) - 1 = i /\ i + 1 # 0
      BY <1>1
    <3>2. g[i + 1] = IF i + 1 \in positions THEN Append(g[(i + 1) - 1], tabs[i + 1]) ELSE g[(i + 1) - 1]
      BY <1>3, <3>1
    <3>3. g[i + 1] = IF i + 1 \in positions THEN Append(g[i], tabs[i + 1]) ELSE g[i]
      BY <3>1, <3>2
    <3>4. TakenOf(g[i + 1], tabs, positions, i + 1)
      BY <1>1, <2>2, <3>1, <3>3, OneMoreTab
    <3>5. QED
      BY <3>1, <3>4
  <2> HIDE DEF S
  <2>3. \A i \in 0 .. n : i \in S
    BY <1>1, <2>1, <2>2, UpTo
  <2>4. QED
    BY <2>3 DEF S
<1>5. QED
  BY <1>2, <1>4

\* A list that has the tabs at some positions of another, each once.
Picks(k, tabs, P) ==
    /\ k \in Seq(Tab)
    /\ \A j \in DOMAIN k : \E i \in P : k[j] = tabs[i]
    /\ \A i \in P : \E j \in DOMAIN k : k[j] = tabs[i]
    /\ Distinct(tabs) => Distinct(k)

\* So the filter picks them.
LEMMA FilterPicks ==
    ASSUME NEW tabs \in Seq(Tab), NEW P, P \subseteq DOMAIN tabs
    PROVE  Picks(Picked(tabs, P), tabs, P)
<1> PICK k : k = Picked(tabs, P)
  OBVIOUS
<1>1. TakenOf(k, tabs, P, Len(tabs))
  BY Filtered
<1>2. \A i \in P : i \in 1 .. Len(tabs)
  OBVIOUS
<1>3. Picks(k, tabs, P)
  BY <1>1, <1>2 DEF TakenOf, Picks
<1>4. QED
  BY <1>3

\* A stretch of the list.
LEMMA StretchPicks ==
    ASSUME NEW tabs \in Seq(Tab), NEW m \in Nat \ {0}, NEW n \in Int, n <= Len(tabs)
    PROVE  Picks(SubSeq(tabs, m, n), tabs, m .. n)
<1> PICK k : k = SubSeq(tabs, m, n)
  OBVIOUS
<1> PICK len \in Nat : len = Len(tabs)
  OBVIOUS
<1>1. \A i \in m .. n : i \in DOMAIN tabs /\ tabs[i] \in Tab
  <2>1. \A i \in m .. n : i \in 1 .. Len(tabs)
    OBVIOUS
  <2>2. QED
    BY <2>1
<1>2. /\ k \in Seq(Tab) /\ Len(k) = IF m <= n THEN n - m + 1 ELSE 0
      /\ \A i \in 1 .. n - m + 1 : k[i] = tabs[m + i - 1]
  BY <1>1, SubSeqProperties
<1>3. \A j \in DOMAIN k : j \in Nat /\ j \in 1 .. n - m + 1 /\ m + j - 1 \in m .. n
  <2>1. DOMAIN k = 1 .. Len(k)
    BY <1>2
  <2>2. QED
    BY <1>2, <2>1
<1>4. \A i \in m .. n : i - m + 1 \in DOMAIN k /\ m + (i - m + 1) - 1 = i /\ i - m + 1 \in 1 .. n - m + 1
  <2>1. m .. n # {} => DOMAIN k = 1 .. n - m + 1
    BY <1>2
  <2>2. \A i \in m .. n : i - m + 1 \in 1 .. n - m + 1 /\ m + (i - m + 1) - 1 = i
    OBVIOUS
  <2>3. QED
    BY <2>1, <2>2
<1>5. \A j \in DOMAIN k : \E i \in m .. n : k[j] = tabs[i]
  BY <1>2, <1>3
<1>6. ASSUME NEW i \in m .. n PROVE \E j \in DOMAIN k : k[j] = tabs[i]
  <2>1. k[i - m + 1] = tabs[m + (i - m + 1) - 1]
    BY <1>2, <1>4
  <2>2. QED
    BY <1>4, <2>1
<1>7. ASSUME Distinct(tabs), NEW i \in DOMAIN k, NEW j \in DOMAIN k, k[i].id = k[j].id PROVE i = j
  <2>1. k[i] = tabs[m + i - 1] /\ k[j] = tabs[m + j - 1] /\ m + i - 1 \in DOMAIN tabs /\ m + j - 1 \in DOMAIN tabs
    BY <1>1, <1>2, <1>3
  <2>2. m + i - 1 = m + j - 1
    BY <1>7, <2>1 DEF Distinct
  <2>3. QED
    BY <1>3, <2>2
<1>8. Picks(k, tabs, m .. n)
  BY <1>2, <1>5, <1>6, <1>7 DEF Picks, Distinct
<1>9. QED
  BY <1>8

\* A list with the tabs of two others.
Both(k, a, b) ==
    /\ k \in Seq(Tab)
    /\ \A j \in DOMAIN k : (\E i \in DOMAIN a : k[j] = a[i]) \/ \E i \in DOMAIN b : k[j] = b[i]
    /\ \A i \in DOMAIN a : \E j \in DOMAIN k : k[j] = a[i]
    /\ \A i \in DOMAIN b : \E j \in DOMAIN k : k[j] = b[i]
    /\ Distinct(a) /\ Distinct(b) /\ (\A i \in DOMAIN a, j \in DOMAIN b : a[i].id # b[j].id) => Distinct(k)

\* Two lists, one after the other.
LEMMA TabsJoined ==
    ASSUME NEW a \in Seq(Tab), NEW b \in Seq(Tab), NEW k, k = a \o b
    PROVE  Both(k, a, b)
<1> PICK n \in Nat, l \in Nat : n = Len(a) /\ l = Len(b)
  OBVIOUS
<1>1. /\ k \in Seq(Tab) /\ Len(k) = n + l
      /\ \A i \in 1 .. n + l : k[i] = IF i <= n THEN a[i] ELSE b[i - n]
  BY ConcatProperties
<1>2. DOMAIN k = 1 .. n + l /\ DOMAIN a = 1 .. n /\ DOMAIN b = 1 .. l
  BY <1>1
<1>3. \A j \in 1 .. n + l : (j \in 1 .. n /\ j <= n) \/ (j - n \in 1 .. l /\ ~(j <= n) /\ j \in Nat)
  OBVIOUS
<1>4. \A j \in DOMAIN k : (j \in DOMAIN a /\ k[j] = a[j]) \/ (j - n \in DOMAIN b /\ k[j] = b[j - n] /\ j \in Nat)
  BY <1>1, <1>2, <1>3
<1>5. \A i \in DOMAIN a : i \in DOMAIN k /\ k[i] = a[i]
  <2>1. \A i \in 1 .. n : i \in 1 .. n + l /\ i <= n
    OBVIOUS
  <2>2. QED
    BY <1>1, <1>2, <2>1
<1>6. \A i \in DOMAIN b : i + n \in DOMAIN k /\ k[i + n] = b[i]
  <2>1. \A i \in 1 .. l : i + n \in 1 .. n + l /\ ~(i + n <= n) /\ (i + n) - n = i
    OBVIOUS
  <2>2. ASSUME NEW i \in 1 .. l PROVE k[i + n] = b[i]
    <3>1. k[i + n] = b[(i + n) - n]
      BY <1>1, <2>1
    <3>2. QED
      BY <2>1, <3>1
  <2>3. QED
    BY <1>2, <2>1, <2>2
<1>7. ASSUME Distinct(a), Distinct(b), \A i \in DOMAIN a, j \in DOMAIN b : a[i].id # b[j].id,
             NEW i \in DOMAIN k, NEW j \in DOMAIN k, k[i].id = k[j].id
      PROVE  i = j
  <2>1. CASE i \in DOMAIN a /\ k[i] = a[i] /\ j \in DOMAIN a /\ k[j] = a[j]
    BY <1>7, <2>1 DEF Distinct
  <2>2. CASE i - n \in DOMAIN b /\ k[i] = b[i - n] /\ i \in Nat /\ j - n \in DOMAIN b /\ k[j] = b[j - n] /\ j \in Nat
    <3>1. i - n = j - n
      BY <1>7, <2>2 DEF Distinct
    <3>2. QED
      BY <2>2, <3>1
  <2>3. QED
    BY <1>4, <1>7, <2>1, <2>2
<1>8. Distinct(a) /\ Distinct(b) /\ (\A i \in DOMAIN a, j \in DOMAIN b : a[i].id # b[j].id) => Distinct(k)
  BY <1>7 DEF Distinct
<1>9. /\ \A j \in DOMAIN k : (\E i \in DOMAIN a : k[j] = a[i]) \/ \E i \in DOMAIN b : k[j] = b[i]
      /\ \A i \in DOMAIN a : \E j \in DOMAIN k : k[j] = a[i]
      /\ \A i \in DOMAIN b : \E j \in DOMAIN k : k[j] = b[i]
  BY <1>4, <1>5, <1>6
<1>10. QED
  BY <1>1, <1>8, <1>9 DEF Both

\* Two picks that have no position in common, one after the other.
LEMMA PicksJoined ==
    ASSUME NEW tabs \in Seq(Tab), NEW P, NEW Q, P \subseteq DOMAIN tabs, Q \subseteq DOMAIN tabs, P \cap Q = {},
           NEW a, Picks(a, tabs, P), NEW b, Picks(b, tabs, Q)
    PROVE  Picks(a \o b, tabs, P \cup Q)
<1> PICK k : k = a \o b
  OBVIOUS
<1>1. a \in Seq(Tab) /\ b \in Seq(Tab)
  BY DEF Picks
<1>2. Both(k, a, b)
  BY <1>1, TabsJoined
<1>3. ASSUME Distinct(tabs), NEW i \in DOMAIN a, NEW j \in DOMAIN b PROVE a[i].id # b[j].id
  <2>1. PICK p \in P : a[i] = tabs[p]
    BY DEF Picks
  <2>2. PICK q \in Q : b[j] = tabs[q]
    BY DEF Picks
  <2>3. QED
    BY <1>3, <2>1, <2>2 DEF Distinct
<1>4. Distinct(tabs) => Distinct(k)
  BY <1>2, <1>3 DEF Picks, Both
<1>5. ASSUME NEW j \in DOMAIN k PROVE \E i \in P \cup Q : k[j] = tabs[i]
  <2>1. CASE \E i \in DOMAIN a : k[j] = a[i]
    BY <2>1 DEF Picks
  <2>2. CASE \E i \in DOMAIN b : k[j] = b[i]
    BY <2>2 DEF Picks
  <2>3. QED
    BY <1>2, <2>1, <2>2 DEF Both
<1>6. ASSUME NEW i \in P \cup Q PROVE \E j \in DOMAIN k : k[j] = tabs[i]
  <2>1. CASE i \in P
    <3>1. PICK j \in DOMAIN a : a[j] = tabs[i]
      BY <2>1 DEF Picks
    <3>2. QED
      BY <1>2, <3>1, ZenonT(60) DEF Both
  <2>2. CASE i \in Q
    <3>1. PICK j \in DOMAIN b : b[j] = tabs[i]
      BY <2>2 DEF Picks
    <3>2. QED
      BY <1>2, <3>1, ZenonT(60) DEF Both
  <2>3. QED
    BY <2>1, <2>2
<1>7. Picks(k, tabs, P \cup Q)
  BY <1>2, <1>4, <1>5, <1>6 DEF Picks, Both
<1>8. QED
  BY <1>7

\* One tab is taken out.
LEMMA RemovePicks ==
    ASSUME NEW tabs \in Seq(Tab), NEW i \in DOMAIN tabs
    PROVE  Picks(RemoveAt(tabs, i), tabs, DOMAIN tabs \ {i})
<1> PICK n \in Nat : n = Len(tabs)
  OBVIOUS
<1>1. i \in Nat \ {0} /\ i <= n /\ DOMAIN tabs = 1 .. n
  OBVIOUS
<1>2. PICK a, b : a = SubSeq(tabs, 1, i - 1) /\ b = SubSeq(tabs, i + 1, n)
  OBVIOUS
<1>3. Picks(a, tabs, 1 .. i - 1) /\ Picks(b, tabs, i + 1 .. n)
  BY <1>1, <1>2, StretchPicks
<1>4. /\ 1 .. i - 1 \subseteq DOMAIN tabs /\ i + 1 .. n \subseteq DOMAIN tabs /\ (1 .. i - 1) \cap (i + 1 .. n) = {}
      /\ (1 .. i - 1) \cup (i + 1 .. n) = DOMAIN tabs \ {i}
  BY <1>1
<1>5. Picks(a \o b, tabs, (1 .. i - 1) \cup (i + 1 .. n))
  BY <1>3, <1>4, PicksJoined
<1>6. RemoveAt(tabs, i) = a \o b
  BY <1>2 DEF RemoveAt
<1>7. QED
  BY <1>4, <1>5, <1>6

\* One tab is put in, of an identity that is new to the list.
Inserts(k, tabs, e) ==
    /\ k \in Seq(Tab)
    /\ \A j \in DOMAIN k : k[j] = e \/ \E i \in DOMAIN tabs : k[j] = tabs[i]
    /\ \A i \in DOMAIN tabs : \E j \in DOMAIN k : k[j] = tabs[i]
    /\ \E j \in DOMAIN k : k[j] = e
    /\ Distinct(tabs) /\ (\A i \in DOMAIN tabs : tabs[i].id # e.id) => Distinct(k)

\* InsertAt puts it in.
LEMMA InsertInserts ==
    ASSUME NEW tabs \in Seq(Tab), NEW i \in 1 .. Len(tabs) + 1, NEW e \in Tab
    PROVE  Inserts(InsertAt(tabs, i, e), tabs, e)
<1> PICK n \in Nat : n = Len(tabs)
  OBVIOUS
<1>1. i \in Nat \ {0} /\ i <= n + 1 /\ DOMAIN tabs = 1 .. n
  OBVIOUS
<1>2. PICK a, b, one, ae : a = SubSeq(tabs, 1, i - 1) /\ b = SubSeq(tabs, i, n) /\ one = <<e>> /\ ae = a \o one
  OBVIOUS
<1>3. PICK k : k = ae \o b
  OBVIOUS
<1>4. Picks(a, tabs, 1 .. i - 1) /\ Picks(b, tabs, i .. n)
  BY <1>1, <1>2, StretchPicks
<1>5. /\ 1 .. i - 1 \subseteq DOMAIN tabs /\ i .. n \subseteq DOMAIN tabs /\ (1 .. i - 1) \cap (i .. n) = {}
      /\ (1 .. i - 1) \cup (i .. n) = DOMAIN tabs
  BY <1>1
<1>6. one \in Seq(Tab) /\ DOMAIN one = {1} /\ one[1] = e /\ Distinct(one)
  <2>1. one \in Seq(Tab) /\ DOMAIN one = {1} /\ one[1] = e
    BY <1>2
  <2>2. QED
    BY <2>1 DEF Distinct
<1>7. a \in Seq(Tab) /\ b \in Seq(Tab)
  BY <1>4 DEF Picks
<1>8. Both(ae, a, one)
  BY <1>2, <1>6, <1>7, TabsJoined
<1>9. Both(k, ae, b)
  <2>1. ae \in Seq(Tab)
    BY <1>8 DEF Both
  <2>2. QED
    BY <1>3, <1>7, <2>1, TabsJoined
<1>10. \A l \in DOMAIN a : \E p \in 1 .. i - 1 : a[l] = tabs[p]
  BY <1>4 DEF Picks
<1>11. \A l \in DOMAIN b : \E p \in i .. n : b[l] = tabs[p]
  BY <1>4 DEF Picks
<1>12. \A j \in DOMAIN k : k[j] = e \/ \E l \in DOMAIN tabs : k[j] = tabs[l]
  <2>1. ASSUME NEW j \in DOMAIN k PROVE k[j] = e \/ \E l \in DOMAIN tabs : k[j] = tabs[l]
    <3>1. CASE \E l \in DOMAIN b : k[j] = b[l]
      BY <1>5, <1>11, <3>1
    <3>2. CASE \E l \in DOMAIN ae : k[j] = ae[l]
      <4>1. PICK l \in DOMAIN ae : k[j] = ae[l]
        BY <3>2
      <4>2. (\E m \in DOMAIN a : ae[l] = a[m]) \/ ae[l] = e
        BY <1>6, <1>8 DEF Both
      <4>3. QED
        BY <1>5, <1>10, <4>1, <4>2
    <3>3. QED
      BY <1>9, <3>1, <3>2 DEF Both
  <2>2. QED
    BY <2>1
<1>13. \E j \in DOMAIN k : k[j] = e
  <2>1. PICK l \in DOMAIN ae : ae[l] = e
    BY <1>6, <1>8 DEF Both
  <2>2. QED
    BY <1>9, <2>1 DEF Both
<1>14. ASSUME NEW p \in DOMAIN tabs PROVE \E j \in DOMAIN k : k[j] = tabs[p]
  <2>1. CASE p \in 1 .. i - 1
    <3>1. PICK l \in DOMAIN a : a[l] = tabs[p]
      BY <1>4, <2>1 DEF Picks
    <3>2. PICK m \in DOMAIN ae : ae[m] = a[l]
      BY <1>8 DEF Both
    <3>3. QED
      BY <1>9, <3>1, <3>2 DEF Both
  <2>2. CASE p \in i .. n
    <3>1. PICK l \in DOMAIN b : b[l] = tabs[p]
      BY <1>4, <2>2 DEF Picks
    <3>2. QED
      BY <1>9, <3>1 DEF Both
  <2>3. QED
    BY <1>5, <2>1, <2>2
<1>15. ASSUME Distinct(tabs), \A p \in DOMAIN tabs : tabs[p].id # e.id PROVE Distinct(k)
  <2>1. Distinct(ae)
    <3>1. \A l \in DOMAIN a, j \in DOMAIN one : a[l].id # one[j].id
      BY <1>5, <1>6, <1>10, <1>15
    <3>2. QED
      BY <1>4, <1>6, <1>8, <1>15, <3>1 DEF Picks, Both
  <2>2. \A l \in DOMAIN ae, j \in DOMAIN b : ae[l].id # b[j].id
    <3>1. ASSUME NEW l \in DOMAIN ae, NEW j \in DOMAIN b PROVE ae[l].id # b[j].id
      <4>1. PICK q \in i .. n : b[j] = tabs[q]
        BY <1>11
      <4>2. CASE \E p \in DOMAIN a : ae[l] = a[p]
        <5>1. PICK p \in 1 .. i - 1 : ae[l] = tabs[p]
          BY <1>10, <4>2
        <5>2. QED
          BY <1>5, <1>15, <4>1, <5>1 DEF Distinct
      <4>3. CASE ae[l] = e
        BY <1>5, <1>15, <4>1, <4>3
      <4>4. QED
        BY <1>6, <1>8, <4>2, <4>3 DEF Both
    <3>2. QED
      BY <3>1
  <2>3. QED
    BY <1>4, <1>9, <1>15, <2>1, <2>2 DEF Picks, Both
<1>16. Inserts(k, tabs, e)
  BY <1>9, <1>12, <1>13, <1>14, <1>15 DEF Inserts, Both
<1>17. InsertAt(tabs, i, e) = k
  BY <1>2, <1>3 DEF InsertAt
<1>18. QED
  BY <1>16, <1>17

-----------------------------------------------------------------------------
(* The bar and what is shown of it.                                         *)

\* What picks from a good bar is one.
LEMMA PicksGood ==
    ASSUME NEW tabs, NEW fresh, NEW deleted, GoodBar(tabs, fresh, deleted),
           NEW P, P \subseteq DOMAIN tabs, NEW k, Picks(k, tabs, P)
    PROVE  GoodBar(k, fresh, deleted)
<1>1. ASSUME NEW j \in DOMAIN k PROVE IdTells(k[j], fresh) /\ k[j].connection \notin deleted
  <2>1. PICK i \in P : k[j] = tabs[i]
    BY DEF Picks
  <2>2. QED
    BY <2>1 DEF GoodBar
<1>2. QED
  BY <1>1 DEF GoodBar, Picks

\* The tab shown is still shown when the list keeps it.
LEMMA StayView ==
    ASSUME NEW tabs, NEW active, NEW connection, NEW free, GoodView(tabs, active, connection, free),
           NEW P, P \subseteq DOMAIN tabs, NEW k, Picks(k, tabs, P), Keeps(k, active)
    PROVE  GoodView(k, active, connection, free)
<1>1. k # <<>>
  BY Nothing DEF Keeps
<1>2. ASSUME ~free, NEW j \in DOMAIN k, k[j].id = active PROVE connection = k[j].connection
  <2>1. PICK i \in P : k[j] = tabs[i]
    BY DEF Picks
  <2>2. QED
    BY <1>2, <2>1 DEF GoodView
<1>3. QED
  BY <1>1, <1>2 DEF GoodView

\* A list with all the tabs of another keeps the one that is shown.
LEMMA AllStay ==
    ASSUME NEW tabs \in Seq(Tab), NEW active, NEW connection, NEW free, GoodView(tabs, active, connection, free),
           tabs # <<>>, NEW k, Picks(k, tabs, DOMAIN tabs)
    PROVE  GoodView(k, active, connection, free)
<1>1. PICK i \in DOMAIN tabs : tabs[i].id = active
  BY DEF GoodView, Keeps
<1>2. PICK j \in DOMAIN k : k[j] = tabs[i]
  BY DEF Picks
<1>3. Keeps(k, active)
  BY <1>1, <1>2 DEF Keeps
<1>4. QED
  BY <1>3, StayView

\* A tab of the list is shown, with its connection.
LEMMA ActivateView ==
    ASSUME NEW k, Distinct(k), NEW i \in DOMAIN k
    PROVE  GoodView(k, k[i].id, k[i].connection, FALSE)
<1>1. k # <<>>
  BY Nothing
<1>2. Keeps(k, k[i].id)
  BY DEF Keeps
<1>3. QED
  BY <1>1, <1>2 DEF GoodView, Distinct

\* The last tab takes the place of one that is gone.
LEMMA LastView ==
    ASSUME NEW k \in Seq(Tab), Distinct(k), LastIsActive(k)
    PROVE  GoodView(k, activeTabId', activeConnectionId', apart')
<1>1. CASE k = <<>>
  <2>1. activeTabId' = None /\ activeConnectionId' = None /\ apart' = FALSE
    BY <1>1 DEF LastIsActive, Nowhere
  <2>2. QED
    BY <1>1, <2>1, Nothing DEF GoodView
<1>2. CASE k # <<>>
  <2>1. PICK n : n = Len(k)
    OBVIOUS
  <2>2. n \in DOMAIN k /\ Last(k) = k[n]
    BY <1>2, <2>1 DEF Last
  <2>3. activeTabId' = k[n].id /\ activeConnectionId' = k[n].connection /\ apart' = FALSE
    BY <1>2, <2>2 DEF LastIsActive, Activate
  <2>4. GoodView(k, k[n].id, k[n].connection, FALSE)
    BY <2>2, ActivateView
  <2>5. QED
    BY <2>3, <2>4
<1>3. QED
  BY <1>1, <1>2

\* The tab that is shown is shown again.
LEMMA AgainView ==
    ASSUME NEW k, Distinct(k), Keeps(k, activeTabId), Activate(ActiveTab(k))
    PROVE  GoodView(k, activeTabId', activeConnectionId', apart')
<1>1. PICK n \in DOMAIN k : ActiveTab(k) = k[n]
  BY DEF Keeps, ActiveTab
<1>2. activeTabId' = k[n].id /\ activeConnectionId' = k[n].connection /\ apart' = FALSE
  BY <1>1 DEF Activate
<1>3. GoodView(k, k[n].id, k[n].connection, FALSE)
  BY ActivateView
<1>4. QED
  BY <1>2, <1>3

\* A tab that the new list has from the old one is shown.
LEMMA PickedView ==
    ASSUME NEW tabs, NEW P, NEW k, Distinct(k), Picks(k, tabs, P), NEW i \in P, Activate(tabs[i])
    PROVE  GoodView(k, activeTabId', activeConnectionId', apart')
<1>1. PICK n \in DOMAIN k : k[n] = tabs[i]
  BY DEF Picks
<1>2. activeTabId' = k[n].id /\ activeConnectionId' = k[n].connection /\ apart' = FALSE
  BY <1>1 DEF Activate
<1>3. GoodView(k, k[n].id, k[n].connection, FALSE)
  BY ActivateView
<1>4. QED
  BY <1>2, <1>3

\* A bar stays good when more identities have been given out.
LEMMA MoreFresh ==
    ASSUME NEW tabs, NEW fresh \in Nat, NEW deleted, GoodBar(tabs, fresh, deleted)
    PROVE  GoodBar(tabs, fresh + 1, deleted)
<1>1. \A n \in 1 .. fresh : n \in 1 .. fresh + 1
  OBVIOUS
<1>2. \A t : IdTells(t, fresh) => IdTells(t, fresh + 1)
  BY <1>1 DEF IdTells
<1>3. QED
  BY <1>2 DEF GoodBar

\* A good bar with one tab more, of an identity that is new.
LEMMA InsertedGood ==
    ASSUME NEW tabs, NEW fresh, NEW deleted, GoodBar(tabs, fresh, deleted), NEW e \in Tab,
           IdTells(e, fresh), e.connection \notin deleted, \A i \in DOMAIN tabs : tabs[i].id # e.id,
           NEW k, Inserts(k, tabs, e)
    PROVE  /\ GoodBar(k, fresh, deleted)
           /\ GoodView(k, e.id, e.connection, FALSE)
<1>1. Distinct(k) /\ k \in Seq(Tab)
  BY DEF GoodBar, Inserts
<1>2. ASSUME NEW j \in DOMAIN k PROVE IdTells(k[j], fresh) /\ k[j].connection \notin deleted
  BY DEF Inserts, GoodBar
<1>3. PICK j \in DOMAIN k : k[j] = e
  BY DEF Inserts
<1>4. GoodView(k, k[j].id, k[j].connection, FALSE)
  BY <1>1, ActivateView
<1>5. QED
  BY <1>1, <1>2, <1>3, <1>4 DEF GoodBar

\* A tab is appended.
LEMMA AppendInserts ==
    ASSUME NEW tabs \in Seq(Tab), NEW e \in Tab
    PROVE  Inserts(Append(tabs, e), tabs, e)
<1> PICK n \in Nat : n = Len(tabs)
  OBVIOUS
<1> PICK k : k = Append(tabs, e)
  OBVIOUS
<1>1. /\ k \in Seq(Tab) /\ DOMAIN k = 1 .. n + 1 /\ DOMAIN tabs = 1 .. n /\ k[n + 1] = e
      /\ \A i \in DOMAIN tabs : k[i] = tabs[i]
  BY Appended
<1>2. \A j \in 1 .. n + 1 : j \in 1 .. n \/ j = n + 1
  OBVIOUS
<1>3. n + 1 \in DOMAIN k /\ \A i \in DOMAIN tabs : i \in DOMAIN k
  BY <1>1
<1>4. ASSUME Distinct(tabs), \A i \in DOMAIN tabs : tabs[i].id # e.id PROVE Distinct(k)
  BY <1>1, <1>2, <1>4 DEF Distinct
<1>5. Inserts(k, tabs, e)
  BY <1>1, <1>2, <1>3, <1>4 DEF Inserts
<1>6. QED
  BY <1>5

\* A tab is moved.
LEMMA MovedPicks ==
    ASSUME NEW tabs \in Seq(Tab), NEW d \in DOMAIN tabs, NEW to \in DOMAIN tabs
    PROVE  Picks(InsertAt(RemoveAt(tabs, d), to, tabs[d]), tabs, DOMAIN tabs)
<1> PICK n \in Nat : n = Len(tabs)
  OBVIOUS
<1> PICK r, e : r = RemoveAt(tabs, d) /\ e = tabs[d]
  OBVIOUS
<1> PICK k : k = InsertAt(r, to, e)
  OBVIOUS
<1>1. d \in Nat \ {0} /\ d <= n /\ DOMAIN tabs = 1 .. n /\ e \in Tab /\ to \in 1 .. n
  OBVIOUS
<1>2. Picks(r, tabs, DOMAIN tabs \ {d})
  BY RemovePicks
<1>3. r \in Seq(Tab)
  BY <1>2 DEF Picks
<1>4. Len(r) = n - 1
  <2>1. PICK a, b : a = SubSeq(tabs, 1, d - 1) /\ b = SubSeq(tabs, d + 1, n)
    OBVIOUS
  <2>2. a \in Seq(Tab) /\ Len(a) = d - 1 /\ Len(a) \in Nat
    BY <1>1, <2>1, SubSeqProperties
  <2>3. b \in Seq(Tab) /\ Len(b) = n - d /\ Len(b) \in Nat
    BY <1>1, <2>1, SubSeqProperties
  <2>4. r = a \o b
    BY <2>1 DEF RemoveAt
  <2>5. Len(r) = Len(a) + Len(b)
    BY <2>2, <2>3, <2>4, ConcatProperties
  <2>6. QED
    BY <1>1, <2>2, <2>3, <2>5
<1>5. to \in 1 .. Len(r) + 1
  BY <1>1, <1>4
<1>6. Inserts(k, r, e)
  BY <1>1, <1>3, <1>5, InsertInserts
<1>7. ASSUME NEW j \in DOMAIN k PROVE \E i \in DOMAIN tabs : k[j] = tabs[i]
  <2>1. CASE k[j] = e
    BY <2>1
  <2>2. CASE \E i \in DOMAIN r : k[j] = r[i]
    BY <1>2, <2>2 DEF Picks
  <2>3. QED
    BY <1>6, <2>1, <2>2 DEF Inserts
<1>8. ASSUME NEW i \in DOMAIN tabs PROVE \E j \in DOMAIN k : k[j] = tabs[i]
  <2>1. CASE i = d
    BY <1>6, <2>1 DEF Inserts
  <2>2. CASE i # d
    <3>1. PICK l \in DOMAIN r : r[l] = tabs[i]
      BY <1>2, <2>2 DEF Picks
    <3>2. QED
      BY <1>6, <3>1 DEF Inserts
  <2>3. QED
    BY <2>1, <2>2
<1>9. ASSUME Distinct(tabs) PROVE Distinct(k)
  <2>1. \A l \in DOMAIN r : r[l].id # e.id
    BY <1>2, <1>9 DEF Picks, Distinct
  <2>2. QED
    BY <1>2, <1>6, <1>9, <2>1 DEF Picks, Inserts
<1>10. Picks(k, tabs, DOMAIN tabs)
  BY <1>6, <1>7, <1>8, <1>9 DEF Picks, Inserts
<1>11. QED
  BY <1>10

\* A pin is toggled: the same tabs otherwise.
LEMMA ToggledGood ==
    ASSUME NEW tabs, NEW fresh, NEW deleted, GoodBar(tabs, fresh, deleted), NEW i \in DOMAIN tabs,
           NEW active, NEW connection, NEW free, GoodView(tabs, active, connection, free),
           NEW toggled, toggled = [tabs EXCEPT ![i].pinned = ~@]
    PROVE  GoodBar(toggled, fresh, deleted) /\ GoodView(toggled, active, connection, free)
<1>1. tabs \in Seq(Tab)
  BY DEF GoodBar
<1>2. PICK e : e = [tabs[i] EXCEPT !.pinned = ~@]
  OBVIOUS
<1>3. tabs[i] \in Tab
  BY <1>1
<1>4. e \in Tab /\ e.id = tabs[i].id /\ e.connection = tabs[i].connection
  BY <1>2, <1>3 DEF Tab
<1>5. toggled = [tabs EXCEPT ![i] = e]
  BY <1>1, <1>2
<1>6. toggled \in Seq(Tab) /\ DOMAIN toggled = DOMAIN tabs /\ \A j \in DOMAIN tabs : toggled[j] = IF j = i THEN e ELSE tabs[j]
  <2>1. DOMAIN toggled = DOMAIN tabs /\ \A j \in DOMAIN tabs : toggled[j] = IF j = i THEN e ELSE tabs[j]
    BY <1>1, <1>5
  <2>2. \A j \in DOMAIN tabs : tabs[j] \in Tab
    BY <1>1
  <2>3. toggled = [j \in DOMAIN tabs |-> toggled[j]]
    BY <1>5
  <2>4. \A j \in DOMAIN tabs : toggled[j] \in Tab
    BY <1>4, <2>1, <2>2
  <2>5. toggled \in Seq(Tab)
    BY <1>1, <2>1, <2>3, <2>4, Mapped
  <2>6. QED
    BY <2>1, <2>5
<1>7. \A j \in DOMAIN tabs : toggled[j].id = tabs[j].id /\ toggled[j].connection = tabs[j].connection
  BY <1>4, <1>6
<1>8. \A j \in DOMAIN tabs : IdTells(toggled[j], fresh)
  BY <1>7 DEF GoodBar, IdTells
<1>9. Distinct(toggled)
  BY <1>6, <1>7 DEF GoodBar, Distinct
<1>10. toggled # <<>> /\ tabs # <<>>
  BY <1>6, Nothing
<1>11. Keeps(toggled, active)
  BY <1>6, <1>7, <1>10 DEF GoodView, Keeps
<1>12. GoodView(toggled, active, connection, free)
  BY <1>6, <1>7, <1>10, <1>11 DEF GoodView
<1>13. QED
  BY <1>6, <1>7, <1>8, <1>9, <1>12 DEF GoodBar

-----------------------------------------------------------------------------
(* The steps.                                                               *)

\* No tab at the start.
LEMMA InitTabs == ASSUME TabsInit PROVE TabsInv
<1>1. <<>> \in Seq(Tab) /\ \A i \in DOMAIN <<>> : FALSE
  BY Nothing
<1>2. GoodBar(openedTabs, freshIds, deletedConnections)
  BY <1>1 DEF TabsInit, GoodBar, Distinct
<1>3. GoodView(openedTabs, activeTabId, activeConnectionId, apart)
  BY DEF TabsInit, GoodView
<1>4. GoodLists
  BY DEF TabsInit, GoodLists, NoDeletion
<1>5. freshIds \in 0 .. MaxFresh /\ dragIndex \in Nat /\ apart \in BOOLEAN
  BY TabsAssumption DEF TabsInit
<1>6. QED
  BY <1>2, <1>3, <1>4, <1>5 DEF TabsInv

\* A tab opened from the list's connections, or of none: shown, and put in when new.
LEMMA OpenStep ==
    ASSUME TabsInv, NEW c \in listed \cup {None}, NEW tab \in Tab, tab.connection = c, OpenTab(tab),
           \/ tab.id = TableTabId(c) /\ c \in Connection /\ freshIds' = freshIds
           \/ freshIds < MaxFresh /\ freshIds' = freshIds + 1 /\ tab.id = FreshTabId(freshIds'),
           OutsideTheStore
    PROVE  TabsInv'
<1> PICK tabs, new : tabs = openedTabs /\ new = openedTabs'
  OBVIOUS
<1>1. GoodBar(tabs, freshIds, deletedConnections) /\ freshIds \in 0 .. MaxFresh /\ tabs \in Seq(Tab) /\ freshIds \in Nat
  BY TabsAssumption DEF TabsInv, GoodBar
<1>2. GoodBar(tabs, freshIds', deletedConnections) /\ freshIds' \in 0 .. MaxFresh
  <2>1. CASE freshIds' = freshIds
    BY <1>1, <2>1
  <2>2. CASE freshIds < MaxFresh /\ freshIds' = freshIds + 1
    BY <1>1, <2>2, MoreFresh, TabsAssumption
  <2>3. QED
    BY <2>1, <2>2
<1>3. c \notin deletedConnections
  BY TabsAssumption DEF TabsInv, GoodLists
<1>4. IdTells(tab, freshIds')
  <2>1. CASE tab.id = TableTabId(c) /\ c \in Connection
    BY <2>1 DEF IdTells
  <2>2. CASE freshIds < MaxFresh /\ freshIds' = freshIds + 1 /\ tab.id = FreshTabId(freshIds')
    <3>1. freshIds' \in 1 .. freshIds'
      BY <1>1, <2>2
    <3>2. QED
      BY <2>2, <3>1 DEF IdTells
  <2>3. QED
    BY <2>1, <2>2
<1>5. GoodBar(new, freshIds', deletedConnections) /\ GoodView(new, activeTabId', activeConnectionId', apart')
  <2>1. activeTabId' = tab.id /\ activeConnectionId' = tab.connection /\ apart' = FALSE
    BY DEF OpenTab, Activate
  <2>2. CASE tab.id \in OpenedIds
    <3>1. new = tabs
      BY <2>2 DEF OpenTab, PutInBar
    <3>2. PICK i \in DOMAIN tabs : tabs[i].id = tab.id
      BY <2>2 DEF OpenedIds
    <3>3. IdTells(tabs[i], freshIds)
      BY <1>1 DEF GoodBar
    <3>4. tabs[i].connection = c
      <4>1. CASE tab.id = TableTabId(c)
        BY <3>2, <3>3, <4>1 DEF IdTells, TableTabId, FreshTabId
      <4>2. CASE freshIds' = freshIds + 1 /\ tab.id = FreshTabId(freshIds')
        <5>1. freshIds' \notin 1 .. freshIds
          BY <1>1, <4>2
        <5>2. QED
          BY <3>2, <3>3, <4>2, <5>1 DEF IdTells, TableTabId, FreshTabId
      <4>3. QED
        BY <4>1, <4>2
    <3>5. GoodView(tabs, tabs[i].id, tabs[i].connection, FALSE)
      BY <1>1, ActivateView DEF GoodBar
    <3>6. QED
      BY <1>2, <2>1, <3>1, <3>2, <3>4, <3>5
  <2>3. CASE tab.id \notin OpenedIds
    <3>1. new = Append(tabs, tab)
      BY <2>3 DEF OpenTab, PutInBar
    <3>2. Inserts(new, tabs, tab)
      BY <1>1, <3>1, AppendInserts
    <3>3. \A i \in DOMAIN tabs : tabs[i].id # tab.id
      BY <2>3 DEF OpenedIds
    <3>4. QED
      BY <1>2, <1>3, <1>4, <2>1, <3>2, <3>3, InsertedGood
  <2>4. QED
    BY <2>2, <2>3
<1>6. GoodLists'
  BY DEF TabsInv, GoodLists, OutsideTheStore
<1>7. QED
  BY <1>2, <1>5, <1>6 DEF TabsInv, OutsideTheStore, OpenTab, Activate

\* A query tab is duplicated: the clone is new, and of a connection that is not deleted.
LEMMA DuplicateStep == ASSUME TabsInv, NEW i \in DOMAIN openedTabs, DuplicateTab(i) PROVE TabsInv'
<1> PICK tabs, new, clone : tabs = openedTabs /\ new = openedTabs' /\ clone = [openedTabs[i] EXCEPT !.id = FreshTabId(freshIds')]
  OBVIOUS
<1>1. GoodBar(tabs, freshIds, deletedConnections) /\ freshIds \in 0 .. MaxFresh /\ tabs \in Seq(Tab) /\ freshIds \in Nat
  BY TabsAssumption DEF TabsInv, GoodBar
<1>2. freshIds' = freshIds + 1 /\ freshIds' \in 0 .. MaxFresh /\ freshIds' \in 1 .. MaxFresh
  BY <1>1, TabsAssumption DEF DuplicateTab
<1>3. GoodBar(tabs, freshIds', deletedConnections)
  BY <1>1, <1>2, MoreFresh
<1>4. tabs[i] \in Tab /\ tabs[i].connection \notin deletedConnections
  BY <1>1 DEF GoodBar
<1>5. clone \in Tab /\ clone.id = FreshTabId(freshIds') /\ clone.connection = tabs[i].connection
  BY <1>2, <1>4 DEF Tab, TabIds
<1>6. IdTells(clone, freshIds')
  <2>1. freshIds' \in 1 .. freshIds'
    BY <1>1, <1>2
  <2>2. QED
    BY <1>5, <2>1 DEF IdTells
<1>7. ASSUME NEW j \in DOMAIN tabs PROVE tabs[j].id # clone.id
  <2>1. IdTells(tabs[j], freshIds) /\ freshIds' \notin 1 .. freshIds
    BY <1>1, <1>2 DEF GoodBar
  <2>2. QED
    BY <1>5, <2>1 DEF IdTells, TableTabId, FreshTabId
<1>8. Inserts(new, tabs, clone)
  <2>1. new = InsertAt(tabs, i + 1, clone)
    BY DEF DuplicateTab
  <2>2. i + 1 \in 1 .. Len(tabs) + 1
    BY <1>1
  <2>3. QED
    BY <1>1, <1>5, <2>1, <2>2, InsertInserts
<1>9. GoodBar(new, freshIds', deletedConnections) /\ GoodView(new, clone.id, clone.connection, FALSE)
  BY <1>3, <1>4, <1>5, <1>6, <1>7, <1>8, InsertedGood
<1>10. activeTabId' = clone.id /\ activeConnectionId' = clone.connection /\ apart' = FALSE
  BY DEF DuplicateTab, Activate
<1>11. GoodLists'
  BY DEF TabsInv, GoodLists, DuplicateTab, OutsideTheStore
<1>12. QED
  BY <1>2, <1>9, <1>10, <1>11 DEF TabsInv, DuplicateTab, OutsideTheStore

\* A step of the bar and its view that leaves the rest alone keeps the invariant.
LEMMA BarStep ==
    ASSUME TabsInv, UNCHANGED <<freshIds, listed, deleting, deletedConnections, dragIndex>>, apart' \in BOOLEAN,
           GoodBar(openedTabs', freshIds, deletedConnections),
           GoodView(openedTabs', activeTabId', activeConnectionId', apart')
    PROVE  TabsInv'
<1>1. GoodLists'
  BY DEF TabsInv, GoodLists
<1>2. QED
  BY <1>1 DEF TabsInv

\* A tab is shown.
LEMMA ActivateStep == ASSUME TabsInv, NEW i \in DOMAIN openedTabs, ActivateTab(i) PROVE TabsInv'
<1>1. GoodView(openedTabs, openedTabs[i].id, openedTabs[i].connection, FALSE)
  BY ActivateView DEF TabsInv, GoodBar
<1>2. QED
  BY <1>1, BarStep DEF TabsInv, ActivateTab, Activate, OutsideTheStore

\* A tab of the list is shown, and the toolbar keeps its connection.
LEMMA ShowOnlyView ==
    ASSUME NEW k, NEW i \in DOMAIN k, NEW connection
    PROVE  GoodView(k, k[i].id, connection, TRUE)
<1>1. k # <<>>
  BY Nothing
<1>2. Keeps(k, k[i].id)
  BY DEF Keeps
<1>3. QED
  BY <1>1, <1>2 DEF GoodView

\* A tab is shown from the search.
LEMMA SearchStep == ASSUME TabsInv, NEW i \in DOMAIN openedTabs, ActivateFromSearch(i) PROVE TabsInv'
<1>1. GoodView(openedTabs, openedTabs[i].id, activeConnectionId, TRUE)
  BY ShowOnlyView
<1>2. QED
  BY <1>1, BarStep DEF TabsInv, ActivateFromSearch, ShowOnly, OutsideTheStore

\* A collection is opened, or its tab shown again.
LEMMA CollectionStep == ASSUME TabsInv, NEW c \in Connection, OpenCollectionTab(c) PROVE TabsInv'
<1> PICK tabs, new, tab : tabs = openedTabs /\ new = openedTabs' /\ tab = TableTab(c)
  OBVIOUS
<1>1. GoodBar(tabs, freshIds, deletedConnections) /\ tabs \in Seq(Tab)
  BY DEF TabsInv, GoodBar
<1>2. tab \in Tab /\ tab.connection = c /\ tab.id = TableTabId(c)
  BY DEF TableTab, Tab, TabIds
<1>3. /\ PutInBar(tab) /\ activeTabId' = tab.id /\ activeConnectionId' = activeConnectionId
      /\ apart' = TRUE /\ c \in listed
  BY DEF OpenCollectionTab, ShowOnly
<1>4. c \notin deletedConnections /\ IdTells(tab, freshIds)
  BY <1>2, <1>3 DEF TabsInv, GoodLists, IdTells
<1>5. GoodBar(new, freshIds, deletedConnections) /\ Keeps(new, tab.id)
  <2>1. CASE tab.id \in OpenedIds
    <3>1. new = tabs
      BY <1>3, <2>1 DEF PutInBar
    <3>2. QED
      BY <1>1, <2>1, <3>1 DEF OpenedIds, Keeps
  <2>2. CASE tab.id \notin OpenedIds
    <3>1. new = Append(tabs, tab)
      BY <1>3, <2>2 DEF PutInBar
    <3>2. Inserts(new, tabs, tab)
      BY <1>1, <1>2, <3>1, AppendInserts
    <3>3. \A i \in DOMAIN tabs : tabs[i].id # tab.id
      BY <2>2 DEF OpenedIds
    <3>4. GoodBar(new, freshIds, deletedConnections)
      BY <1>1, <1>2, <1>4, <3>2, <3>3, InsertedGood
    <3>5. QED
      BY <3>2, <3>4 DEF Inserts, Keeps
  <2>3. QED
    BY <2>1, <2>2
<1>6. GoodView(new, tab.id, activeConnectionId, TRUE)
  <2>1. PICK i \in DOMAIN new : new[i].id = tab.id
    BY <1>5 DEF Keeps
  <2>2. QED
    BY <2>1, ShowOnlyView
<1>7. QED
  BY <1>3, <1>5, <1>6, BarStep DEF TabsInv, OpenCollectionTab, OutsideTheStore

\* A tab is closed.
LEMMA CloseStep == ASSUME TabsInv, NEW i \in DOMAIN openedTabs, CloseTab(i) PROVE TabsInv'
<1> PICK tabs, k : tabs = openedTabs /\ k = RemoveAt(openedTabs, i)
  OBVIOUS
<1>1. GoodBar(tabs, freshIds, deletedConnections) /\ tabs \in Seq(Tab)
  BY DEF TabsInv, GoodBar
<1>2. Picks(k, tabs, DOMAIN tabs \ {i})
  BY <1>1, RemovePicks
<1>3. GoodBar(k, freshIds, deletedConnections)
  BY <1>1, <1>2, PicksGood
<1>4. k \in Seq(Tab) /\ Distinct(k)
  BY <1>3 DEF GoodBar
<1>5. GoodView(k, activeTabId', activeConnectionId', apart')
  <2>1. CASE Keeps(k, activeTabId)
    <3>1. Activate(ActiveTab(k))
      BY <2>1 DEF CloseTab
    <3>2. QED
      BY <1>4, <2>1, <3>1, AgainView
  <2>2. CASE ~Keeps(k, activeTabId)
    <3>1. LastIsActive(k)
      BY <2>2 DEF CloseTab
    <3>2. QED
      BY <1>4, <3>1, LastView
  <2>3. QED
    BY <2>1, <2>2
<1>6. openedTabs' = k /\ apart' \in BOOLEAN
  BY DEF CloseTab, Activate, LastIsActive, Nowhere
<1>7. QED
  BY <1>3, <1>5, <1>6, BarStep DEF CloseTab, OutsideTheStore

\* All tabs are closed.
LEMMA CloseAllStep == ASSUME TabsInv, CloseAllTabs PROVE TabsInv'
<1>1. <<>> \in Seq(Tab) /\ \A i \in DOMAIN <<>> : FALSE
  BY Nothing
<1>2. GoodBar(openedTabs', freshIds, deletedConnections)
  BY <1>1 DEF CloseAllTabs, GoodBar, Distinct
<1>3. GoodView(openedTabs', activeTabId', activeConnectionId', apart')
  BY <1>1 DEF CloseAllTabs, GoodView
<1>4. QED
  BY <1>2, <1>3, BarStep DEF TabsInv, CloseAllTabs, OutsideTheStore

\* The tabs of a connection are closed: the others are as good, also once the connection
\* counts as deleted.
LEMMA ConnectionStep ==
    ASSUME TabsInv, NEW c, CloseConnectionTabs(c)
    PROVE  /\ GoodBar(openedTabs', freshIds, deletedConnections)
           /\ GoodBar(openedTabs', freshIds, deletedConnections \cup {c})
           /\ GoodView(openedTabs', activeTabId', activeConnectionId', apart')
           /\ apart' \in BOOLEAN /\ freshIds' = freshIds
<1> PICK tabs, k, P : /\ tabs = openedTabs /\ P = {i \in DOMAIN openedTabs : openedTabs[i].connection # c}
                      /\ k = Picked(openedTabs, {i \in DOMAIN openedTabs : openedTabs[i].connection # c})
  OBVIOUS
<1>1. GoodBar(tabs, freshIds, deletedConnections) /\ tabs \in Seq(Tab) /\ P \subseteq DOMAIN tabs
  BY DEF TabsInv, GoodBar
<1>2. Picks(k, tabs, P)
  BY <1>1, FilterPicks
<1>3. GoodBar(k, freshIds, deletedConnections)
  BY <1>1, <1>2, PicksGood
<1>4. k \in Seq(Tab) /\ Distinct(k)
  BY <1>3 DEF GoodBar
<1>5. \A j \in DOMAIN k : k[j].connection # c
  BY <1>2 DEF Picks
<1>6. GoodBar(k, freshIds, deletedConnections \cup {c})
  BY <1>3, <1>5 DEF GoodBar
<1>7. /\ openedTabs' = k /\ freshIds' = freshIds
      /\ CASE k = openedTabs -> StayActive
           [] k # openedTabs /\ ~Keeps(k, activeTabId) -> LastIsActive(k)
           [] OTHER -> IF ActiveTab(k).connection = None THEN StayActive ELSE Activate(ActiveTab(k))
  BY DEF CloseConnectionTabs, WithoutConnection
<1>8. GoodView(tabs, activeTabId, activeConnectionId, apart) /\ apart \in BOOLEAN
  BY DEF TabsInv
<1>9. GoodView(k, activeTabId', activeConnectionId', apart') /\ apart' \in BOOLEAN
  <2>1. CASE k = openedTabs
    <3>1. StayActive
      BY <1>7, <2>1
    <3>2. QED
      BY <1>8, <2>1, <3>1 DEF StayActive
  <2>2. CASE k # openedTabs /\ ~Keeps(k, activeTabId)
    <3>1. LastIsActive(k)
      BY <1>7, <2>2
    <3>2. GoodView(k, activeTabId', activeConnectionId', apart')
      BY <1>4, <3>1, LastView
    <3>3. QED
      BY <3>1, <3>2 DEF LastIsActive, Nowhere, Activate
  <2>3. CASE k # openedTabs /\ Keeps(k, activeTabId)
    <3>1. IF ActiveTab(k).connection = None THEN StayActive ELSE Activate(ActiveTab(k))
      BY <1>7, <2>3
    <3>2. CASE StayActive
      <4>1. GoodView(k, activeTabId, activeConnectionId, apart)
        BY <1>1, <1>2, <1>8, <2>3, StayView
      <4>2. QED
        BY <1>8, <3>2, <4>1 DEF StayActive
    <3>3. CASE Activate(ActiveTab(k))
      <4>1. GoodView(k, activeTabId', activeConnectionId', apart')
        BY <1>4, <2>3, <3>3, AgainView
      <4>2. QED
        BY <3>3, <4>1 DEF Activate
    <3>4. QED
      BY <3>1, <3>2, <3>3
  <2>4. QED
    BY <2>1, <2>2, <2>3
<1>10. QED
  BY <1>3, <1>6, <1>7, <1>9

\* The tabs of a connection are closed, at its user's wish.
LEMMA ForConnectionStep == ASSUME TabsInv, NEW c, CloseForConnection(c) PROVE TabsInv'
<1>1. CloseConnectionTabs(c)
  BY DEF CloseForConnection
<1>2. QED
  BY <1>1, ConnectionStep, BarStep DEF CloseForConnection, OutsideTheStore

\* The other tabs are closed, but for the pinned ones.
LEMMA CloseOthersStep == ASSUME TabsInv, NEW i \in DOMAIN openedTabs, CloseOtherTabs(i) PROVE TabsInv'
<1> PICK P : P = {j \in DOMAIN openedTabs : openedTabs[j].id = openedTabs[i].id \/ openedTabs[j].pinned}
  OBVIOUS
<1> PICK tabs, k : tabs = openedTabs /\ k = Picked(openedTabs, P)
  OBVIOUS
<1>1. GoodBar(tabs, freshIds, deletedConnections) /\ tabs \in Seq(Tab) /\ P \subseteq DOMAIN tabs /\ i \in P
  BY DEF TabsInv, GoodBar
<1>2. Picks(k, tabs, P)
  BY <1>1, FilterPicks
<1>3. GoodBar(k, freshIds, deletedConnections)
  BY <1>1, <1>2, PicksGood
<1>4. openedTabs' = k /\ IF k = openedTabs THEN StayActive ELSE Activate(openedTabs[i])
  BY DEF CloseOtherTabs
<1>5. GoodView(k, activeTabId', activeConnectionId', apart') /\ apart' \in BOOLEAN
  <2>1. CASE k = openedTabs
    BY <1>4, <2>1 DEF StayActive, TabsInv
  <2>2. CASE k # openedTabs
    <3>1. Distinct(k) /\ Activate(tabs[i])
      BY <1>3, <1>4, <2>2 DEF GoodBar
    <3>2. GoodView(k, activeTabId', activeConnectionId', apart')
      BY <1>1, <1>2, <3>1, PickedView
    <3>3. QED
      BY <3>1, <3>2 DEF Activate
  <2>3. QED
    BY <2>1, <2>2
<1>6. QED
  BY <1>3, <1>4, <1>5, BarStep DEF CloseOtherTabs, OutsideTheStore

\* The tabs to the right are closed, but for the pinned ones.
LEMMA CloseRightStep == ASSUME TabsInv, NEW i \in DOMAIN openedTabs, CloseTabsToRight(i) PROVE TabsInv'
<1> PICK P : P = {j \in DOMAIN openedTabs : j <= i \/ openedTabs[j].pinned}
  OBVIOUS
<1> PICK tabs, k : tabs = openedTabs /\ k = Picked(openedTabs, P)
  OBVIOUS
<1>1. GoodBar(tabs, freshIds, deletedConnections) /\ tabs \in Seq(Tab) /\ P \subseteq DOMAIN tabs /\ i \in P
  <2>1. GoodBar(tabs, freshIds, deletedConnections) /\ tabs \in Seq(Tab)
    BY DEF TabsInv, GoodBar
  <2>2. i <= i
    BY <2>1
  <2>3. QED
    BY <2>1, <2>2
<1>2. Picks(k, tabs, P)
  BY <1>1, FilterPicks
<1>3. GoodBar(k, freshIds, deletedConnections)
  BY <1>1, <1>2, PicksGood
<1>4. openedTabs' = k /\ IF Keeps(k, activeTabId) THEN StayActive ELSE Activate(openedTabs[i])
  BY DEF CloseTabsToRight
<1>5. GoodView(k, activeTabId', activeConnectionId', apart') /\ apart' \in BOOLEAN
  <2>1. CASE Keeps(k, activeTabId)
    <3>1. GoodView(tabs, activeTabId, activeConnectionId, apart)
      BY DEF TabsInv
    <3>2. GoodView(k, activeTabId, activeConnectionId, apart)
      BY <1>1, <1>2, <2>1, <3>1, StayView
    <3>3. QED
      BY <1>4, <2>1, <3>2 DEF StayActive, TabsInv
  <2>2. CASE ~Keeps(k, activeTabId)
    <3>1. Distinct(k) /\ Activate(tabs[i])
      BY <1>3, <1>4, <2>2 DEF GoodBar
    <3>2. GoodView(k, activeTabId', activeConnectionId', apart')
      BY <1>1, <1>2, <3>1, PickedView
    <3>3. QED
      BY <3>1, <3>2 DEF Activate
  <2>3. QED
    BY <2>1, <2>2
<1>6. QED
  BY <1>3, <1>4, <1>5, BarStep DEF CloseTabsToRight, OutsideTheStore

\* A pin is toggled, and the tabs are sorted.
LEMMA TogglePinStep == ASSUME TabsInv, NEW i \in DOMAIN openedTabs, ToggleTabPin(i) PROVE TabsInv'
<1> PICK toggled : toggled = [openedTabs EXCEPT ![i].pinned = ~@]
  OBVIOUS
<1> PICK P : P = {j \in DOMAIN toggled : toggled[j].pinned}
  OBVIOUS
<1> PICK k : k = Picked(toggled, P) \o Picked(toggled, DOMAIN toggled \ P)
  OBVIOUS
<1>1. /\ GoodBar(toggled, freshIds, deletedConnections)
      /\ GoodView(toggled, activeTabId, activeConnectionId, apart)
  BY ToggledGood, ZenonT(60) DEF TabsInv
<1>2. toggled \in Seq(Tab) /\ toggled # <<>>
  <2>1. DOMAIN toggled = DOMAIN openedTabs
    OBVIOUS
  <2>2. QED
    BY <1>1, <2>1, Nothing DEF GoodBar
<1>3. Picks(Picked(toggled, P), toggled, P) /\ Picks(Picked(toggled, DOMAIN toggled \ P), toggled, DOMAIN toggled \ P)
  BY <1>2, FilterPicks
<1>4. /\ P \subseteq DOMAIN toggled /\ DOMAIN toggled \ P \subseteq DOMAIN toggled
      /\ P \cap (DOMAIN toggled \ P) = {} /\ P \cup (DOMAIN toggled \ P) = DOMAIN toggled
  OBVIOUS
<1>5. Picks(k, toggled, DOMAIN toggled)
  <2>1. Picks(Picked(toggled, P) \o Picked(toggled, DOMAIN toggled \ P), toggled, P \cup (DOMAIN toggled \ P))
    BY <1>2, <1>3, <1>4, PicksJoined
  <2>2. QED
    BY <1>4, <2>1
<1>6. GoodBar(k, freshIds, deletedConnections)
  BY <1>1, <1>5, PicksGood
<1>7. GoodView(k, activeTabId, activeConnectionId, apart)
  BY <1>1, <1>2, <1>5, AllStay
<1>8. openedTabs' = k
  BY DEF ToggleTabPin
<1>9. QED
  BY <1>6, <1>7, <1>8, BarStep DEF TabsInv, ToggleTabPin, StayActive, OutsideTheStore

\* A tab is dropped at another place.
LEMMA DropStep == ASSUME TabsInv, NEW to \in DOMAIN openedTabs, DropTab(to) PROVE TabsInv'
<1> PICK tabs, d : tabs = openedTabs /\ d = dragIndex
  OBVIOUS
<1>1. /\ GoodBar(tabs, freshIds, deletedConnections) /\ tabs \in Seq(Tab) /\ d \in Nat /\ d # 0
      /\ GoodView(tabs, activeTabId, activeConnectionId, apart)
  BY DEF TabsInv, GoodBar, DropTab
<1>2. GoodBar(openedTabs', freshIds, deletedConnections) /\ GoodView(openedTabs', activeTabId, activeConnectionId, apart)
  <2>1. CASE d = to \/ d > Len(tabs)
    BY <1>1, <2>1 DEF DropTab
  <2>2. CASE ~(d = to \/ d > Len(tabs))
    <3>1. openedTabs' = InsertAt(RemoveAt(tabs, d), to, tabs[d])
      BY <2>2 DEF DropTab
    <3>2. d \in DOMAIN tabs
      BY <1>1, <2>2
    <3>3. Picks(openedTabs', tabs, DOMAIN tabs)
      BY <1>1, <3>1, <3>2, MovedPicks
    <3>4. tabs # <<>>
      BY <3>2, Nothing
    <3>5. GoodBar(openedTabs', freshIds, deletedConnections)
      BY <1>1, <3>3, PicksGood
    <3>6. GoodView(openedTabs', activeTabId, activeConnectionId, apart)
      BY <1>1, <3>3, <3>4, AllStay
    <3>7. QED
      BY <3>5, <3>6
  <2>3. QED
    BY <2>1, <2>2
<1>3. GoodLists'
  BY DEF TabsInv, GoodLists, DropTab
<1>4. dragIndex' = 0 /\ UNCHANGED <<activeTabId, activeConnectionId, apart, deletedConnections, freshIds>>
  BY DEF DropTab
<1>5. QED
  BY <1>2, <1>3, <1>4 DEF TabsInv

\* A step of the lists, the drag and the choice that leaves the bar alone.
LEMMA ListStep ==
    ASSUME TabsInv, UNCHANGED <<openedTabs, activeTabId, deletedConnections, freshIds>>,
           dragIndex' \in Nat, apart' \in BOOLEAN,
           UNCHANGED <<activeConnectionId, apart>> \/ apart' = TRUE, GoodLists'
    PROVE  TabsInv'
<1>1. GoodView(openedTabs, activeTabId, activeConnectionId', apart')
  BY DEF TabsInv, GoodView
<1>2. QED
  BY <1>1 DEF TabsInv

\* The steps of the sidebar, of the drag and of the reload.
LEMMA SideStep ==
    ASSUME TabsInv,
           \/ \E c \in Connection : ChooseConnection(c) \/ AskToDelete(c)
           \/ \E i \in DOMAIN openedTabs : StartDrag(i)
           \/ ProfileIsDeleted \/ DeletionFails \/ ReloadTabs
    PROVE  TabsInv'
<1>1. ASSUME NEW c \in Connection, ChooseConnection(c) PROVE TabsInv'
  <2>1. GoodLists'
    BY <1>1 DEF TabsInv, GoodLists, ChooseConnection, OutsideTheStore
  <2>2. QED
    BY <1>1, <2>1, ListStep DEF TabsInv, ChooseConnection, OutsideTheStore
<1>2. ASSUME NEW c \in Connection, AskToDelete(c) PROVE TabsInv'
  <2>1. GoodLists'
    BY <1>2 DEF TabsInv, GoodLists, AskToDelete
  <2>2. QED
    BY <1>2, <2>1, ListStep DEF TabsInv, AskToDelete
<1>3. ASSUME NEW i \in DOMAIN openedTabs, StartDrag(i) PROVE TabsInv'
  <2>1. GoodLists'
    BY <1>3 DEF TabsInv, GoodLists, StartDrag
  <2>2. i \in Nat
    BY DEF TabsInv, GoodBar
  <2>3. QED
    BY <1>3, <2>1, <2>2, ListStep DEF TabsInv, StartDrag
<1>4. ASSUME ProfileIsDeleted PROVE TabsInv'
  <2>1. PICK d : d = deleting
    OBVIOUS
  <2>2. d \in [step : {"none", "asked", "deleted"}, connection : Connection \cup {None}] /\ d.step = "asked"
    BY <1>4, <2>1 DEF TabsInv, GoodLists, ProfileIsDeleted
  <2>3. deleting' = [d EXCEPT !.step = "deleted"] /\ listed' = listed \ {d.connection}
    BY <1>4, <2>1 DEF ProfileIsDeleted
  <2>4. deleting' \in [step : {"none", "asked", "deleted"}, connection : Connection \cup {None}]
        /\ deleting'.connection = d.connection
    BY <2>2, <2>3
  <2>5. GoodLists'
    BY <1>4, <2>1, <2>2, <2>3, <2>4 DEF TabsInv, GoodLists, ProfileIsDeleted
  <2>6. QED
    BY <1>4, <2>5, ListStep DEF TabsInv, ProfileIsDeleted
<1>5. ASSUME DeletionFails PROVE TabsInv'
  <2>1. GoodLists'
    BY <1>5 DEF TabsInv, GoodLists, DeletionFails, NoDeletion
  <2>2. QED
    BY <1>5, <2>1, ListStep DEF TabsInv, DeletionFails
<1>6. ASSUME ReloadTabs PROVE TabsInv'
  <2>1. listed' \subseteq listed /\ deleting' = NoDeletion /\ deletedConnections' = deletedConnections
    BY <1>6 DEF ReloadTabs
  <2>2. GoodLists'
    BY <2>1 DEF TabsInv, GoodLists, NoDeletion
  <2>3. QED
    BY <1>6, <2>2, ListStep DEF TabsInv, ReloadTabs
<1>7. QED
  BY <1>1, <1>2, <1>3, <1>4, <1>5, <1>6

\* The tabs of a connection close when its deletion is over.
LEMMA DeletedStep == ASSUME TabsInv, TabsOfDeletedClose PROVE TabsInv'
<1> PICK c : c = deleting.connection
  OBVIOUS
<1>1. /\ CloseConnectionTabs(c) /\ deletedConnections' = deletedConnections \cup {c} /\ deleting' = NoDeletion
      /\ listed' = listed /\ dragIndex' = dragIndex /\ deleting.step = "deleted"
  BY DEF TabsOfDeletedClose
<1>2. /\ GoodBar(openedTabs', freshIds, deletedConnections \cup {c})
      /\ GoodView(openedTabs', activeTabId', activeConnectionId', apart')
      /\ apart' \in BOOLEAN /\ freshIds' = freshIds
  BY <1>1, ConnectionStep
<1>3. c \in Connection /\ c \notin listed
  BY <1>1 DEF TabsInv, GoodLists
<1>4. GoodLists'
  BY <1>1, <1>3 DEF TabsInv, GoodLists, NoDeletion
<1>5. QED
  BY <1>1, <1>2, <1>4 DEF TabsInv

\* Every step of the tabs keeps the invariant.
LEMMA TabsStep == ASSUME TabsInv, [TabsNext]_tabsVars PROVE TabsInv'
<1>1. CASE UNCHANGED tabsVars
  BY <1>1 DEF TabsInv, GoodLists, tabsVars
<1>2. ASSUME NEW c \in Connection, OpenTableTab(c) PROVE TabsInv'
  <2>1. PICK tab : tab = TableTab(c)
    OBVIOUS
  <2>2. tab \in Tab /\ tab.connection = c /\ tab.id = TableTabId(c)
    BY <2>1 DEF TableTab, Tab, TabIds
  <2>3. OpenTab(tab) /\ c \in listed /\ freshIds' = freshIds /\ OutsideTheStore
    BY <1>2, <2>1 DEF OpenTableTab
  <2>4. QED
    BY <2>2, <2>3, OpenStep
<1>3. ASSUME NEW c \in Connection \cup {None}, OpenFreshTab(c) PROVE TabsInv'
  <2>1. PICK tab : tab = [id |-> FreshTabId(freshIds'), connection |-> c, pinned |-> FALSE]
    OBVIOUS
  <2>2. freshIds' \in 1 .. MaxFresh
    BY <1>3, TabsAssumption DEF TabsInv, OpenFreshTab
  <2>3. tab \in Tab /\ tab.connection = c /\ tab.id = FreshTabId(freshIds')
    BY <2>1, <2>2 DEF Tab, TabIds
  <2>4. OpenTab(tab) /\ c \in listed \cup {None} /\ freshIds < MaxFresh /\ freshIds' = freshIds + 1 /\ OutsideTheStore
    BY <1>3, <2>1 DEF OpenFreshTab
  <2>5. QED
    BY <2>3, <2>4, OpenStep
<1>4. QED
  BY <1>1, <1>2, <1>3, DuplicateStep, ActivateStep, SearchStep, CollectionStep, CloseStep,
     CloseAllStep, ForConnectionStep, CloseOthersStep,
     CloseRightStep, TogglePinStep, DropStep, SideStep, DeletedStep DEF TabsNext

\* The invariant says that bar, toolbar and profiles agree.
LEMMA TabsStand == ASSUME TabsInv PROVE TabsAgree
<1>1. /\ openedTabs \in Seq(Tab) /\ Distinct(openedTabs)
      /\ GoodView(openedTabs, activeTabId, activeConnectionId, apart)
  BY DEF TabsInv, GoodBar
<1>2. RepairIsIdle
  <2>1. IsInjective([i \in DOMAIN openedTabs |-> openedTabs[i].id])
    BY <1>1 DEF IsInjective, Distinct
  <2>2. IF openedTabs = <<>> THEN activeTabId = None ELSE activeTabId \in OpenedIds
    BY <1>1 DEF GoodView, Keeps, OpenedIds
  <2>3. QED
    BY <2>1, <2>2 DEF RepairIsIdle
<1>3. ToolbarFollowsTab
  <2>1. ASSUME ~apart, openedTabs # <<>> PROVE activeConnectionId = ActiveTab(openedTabs).connection
    <3>1. PICK n \in DOMAIN openedTabs : ActiveTab(openedTabs) = openedTabs[n] /\ openedTabs[n].id = activeTabId
      BY <1>1, <2>1 DEF GoodView, Keeps, ActiveTab
    <3>2. QED
      BY <1>1, <2>1, <3>1 DEF GoodView
  <2>2. QED
    BY <2>1 DEF ToolbarFollowsTab
<1>4. NoTabOfDeleted
  BY DEF TabsInv, GoodBar, NoTabOfDeleted
<1>5. QED
  BY <1>2, <1>3, <1>4 DEF TabsAgree

-----------------------------------------------------------------------------
(* The window as a whole.                                                   *)

\* A part of the window takes its own steps, and nobody else takes them.
LEMMA PartsRun ==
    SessionSpec =>
        PsqlSpec /\ ShellSpec /\ TabsSpec /\ ToolSpec /\ ExportSpec /\ WatcherSpec
<1>1. SessionInit => PsqlInit /\ ShellInit /\ TabsInit /\ ToolInit /\ ExportInit /\ WatcherInit
  BY DEF SessionInit
<1>2. [SessionNext]_sessionVars =>
         /\ [PsqlNext]_psqlVars /\ [ShellNext]_shellVars /\ [TabsNext]_tabsVars
         /\ [ToolNext]_toolVars /\ [ExportNext]_exportVars /\ [WatcherNext]_watcherVars
  BY DEF SessionNext, sessionVars
<1>3. QED
  BY <1>1, <1>2, PTL DEF SessionSpec, PsqlSpec, ShellSpec, TabsSpec, ToolSpec, ExportSpec, WatcherSpec

\* The invariants of the parts hold of the window.
THEOREM SessionInvariance ==
    SessionSpec => [](PsqlInv /\ ShellInv /\ TabsInv /\ ToolInv /\ ExportInv /\ WatcherInv)
<1>1. PsqlSpec => []PsqlInv
  BY InitPsql, PsqlStep, PTL DEF PsqlSpec
<1>2. TabsSpec => []TabsInv
  BY InitTabs, TabsStep, PTL DEF TabsSpec
<1>3. ToolSpec => []ToolInv
  BY InitTools, ToolStep, PTL DEF ToolSpec
<1>4. ExportSpec => []ExportInv
  BY InitExports, ExportStep, PTL DEF ExportSpec
<1>5. QED
  BY <1>1, <1>2, <1>3, <1>4, PartsRun, ShellInvariance, WatcherInvariance, PTL

\* Neither a psql nor a mongosh goes on without anybody who could stop it, through
\* closings, remounts, reloads and late answers.
THEOREM NoOrphans == SessionSpec => []NoOrphanSession
<1>1. PsqlInv /\ ShellInv => NoOrphanSession
  BY DEF PsqlInv, ShellInv, NoOrphanSession
<1>2. QED
  BY <1>1, SessionInvariance, PTL

\* The window's terminals show their sessions' output once and in order.
THEOREM ShellShowsAll == SessionSpec => []ShellOutputIsKept
  BY OutputIsKept, PartsRun, PTL

\* The tab that is shown is in the bar, no two tabs are alike and none is of a connection
\* whose deletion is over; and the toolbar names the shown tab's connection, unless a step
\* that sets only one of the two (the choice of a connection, the start, the search's open
\* tabs, the MongoDB explorer) came after the last operation that shows a tab.
THEOREM TabsAlwaysAgree == SessionSpec => []TabsAgree
  BY TabsStand, SessionInvariance, PTL

\* A dialog says of a backup or a restore what its job has done; an export whose
\* cancellation was accepted before its rename keeps the old file; and one whose view was
\* left is being cancelled, though its rename may still come first.
THEOREM JobsKept == SessionSpec => []JobsKeepTheirWord
<1>1. ToolInv /\ ExportInv => JobsKeepTheirWord
  BY DialogIsTrue, ExportsKept DEF JobsKeepTheirWord
<1>2. QED
  BY <1>1, SessionInvariance, PTL

\* An export's stage, result and place in the service's tables are of their types.
THEOREM ExportsTypeCorrect == SessionSpec => []ExportTypeOK
  BY ExportsTyped, SessionInvariance, PTL

\* No half of the schema watcher stops by itself, however many callers switch it on and
\* off, resume it and stop it: an enabled cadence has a loop that is not told to stop and
\* skips ticks during captures only, and notifications once switched on are listened for
\* or tried again until the next call that switches them.
THEOREM WatcherKeepsGoing == SessionSpec => []WatcherGoesOn
  BY GoesOn, PartsRun, PTL
=============================================================================
