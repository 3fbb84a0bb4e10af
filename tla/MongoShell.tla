----------------------------- MODULE MongoShell -----------------------------
(***************************************************************************)
(* The mongosh of a workspace tab: the effect that starts or rejoins it    *)
(* (components/mongo-shell.tsx), the session id that the tab keeps         *)
(* (store/workspace-tabs.ts), the kill of a closed tab's session           *)
(* (App.tsx), and the PTY sessions behind it (internal/terminal).          *)
(*                                                                         *)
(* Unlike psql, a mongosh outlives the display of its tab.  Its output is  *)
(* buffered until somebody attaches; from then on every piece is an event, *)
(* which reaches the terminals that are subscribed.  A session is numbered *)
(* by the mount that started it.  Events and the answers of calls come to  *)
(* the window through one queue.                                           *)
(***************************************************************************)
EXTENDS Absent, Integers, Sequences, SequencesExt

CONSTANTS
    MaxShows,   \* bound: times the tab is shown
    MaxOutput   \* bound: pieces of output of one mongosh

ASSUME ShellAssumption ==
    MaxShows \in Nat \ {0} /\ MaxOutput \in Nat /\ None \notin Nat

VARIABLES
    tabOpen,    \* is the tab among openedTabs?
    tabSession, \* tab.sessionId
    shows,      \* mounts so far; the last is the current one
    onDisplay,  \* the current mount has not been aborted
    mounts,     \* mount -> its asynchronous effect and its terminal
    mongosh,    \* session -> the PTY session
    written,    \* session -> pieces of output the pump has read
    pumping,    \* session -> a piece about to be emitted, 0 for none
    inbox,      \* events and answers on their way to the window
    stopping,   \* StopMongoShell calls under way
    replaced,   \* sessions whose id another took the place of in the tab (history)
    unheard     \* mounts whose window was reloaded before their start was answered (history)

tabVars == <<tabOpen, tabSession, shows, onDisplay, replaced, unheard>>
shellVars == <<tabVars, mounts, mongosh, written, pumping, inbox, stopping>>

ShowNo == 1 .. MaxShows

NewMount == [phase |-> "none", session |-> None, answer |-> <<>>,
             screen |-> <<>>, live |-> <<>>, listening |-> FALSE]
NoShell == [state |-> "none", buffer |-> <<>>, streaming |-> FALSE]

ShellTypeOK ==
    /\ {tabOpen, onDisplay} \subseteq BOOLEAN
    /\ tabSession \in ShowNo \cup {None} /\ shows \in 0 .. MaxShows
    /\ \A m \in ShowNo :
          /\ mounts[m].phase \in {"none", "ping", "start", "attach", "attached", "waiting", "ready"}
          /\ mounts[m].session \in ShowNo \cup {None}
          /\ mongosh[m].state \in {"none", "running", "exited", "removed"}
          /\ {written[m], pumping[m]} \subseteq 0 .. MaxOutput
    /\ stopping \cup replaced \cup unheard \subseteq ShowNo

ShellInit ==
    /\ tabOpen = TRUE /\ tabSession = None /\ shows = 0 /\ onDisplay = FALSE
    /\ mounts = [m \in ShowNo |-> NewMount]
    /\ mongosh = [s \in ShowNo |-> NoShell]
    /\ written = [s \in ShowNo |-> 0] /\ pumping = [s \in ShowNo |-> 0]
    /\ inbox = <<>> /\ stopping = {} /\ replaced = {} /\ unheard = {}

Message(type, of, body) == [type |-> type, of |-> of, body |-> body]
Deliver(message) == inbox' = Append(inbox, message)

Alive(s) == mongosh[s].state = "running"
Known(s) == mongosh[s].state \in {"running", "exited"}

-----------------------------------------------------------------------------
(* internal/terminal.                                                       *)

\* pump chooses between the buffer and the stream under the session's lock.
PumpShell(s) ==
    /\ mongosh[s].state \in {"running", "exited"}
    /\ pumping[s] = 0 /\ written[s] < MaxOutput
    /\ written' = [written EXCEPT ![s] = @ + 1]
    /\ IF mongosh[s].streaming
       THEN pumping' = [pumping EXCEPT ![s] = written'[s]] /\ UNCHANGED mongosh
       ELSE mongosh' = [mongosh EXCEPT ![s].buffer = Append(@, written'[s])] /\ UNCHANGED pumping
    /\ UNCHANGED <<tabVars, mounts, inbox, stopping>>

\* It emits a streamed piece after releasing the lock.
EmitOutput(s) ==
    /\ pumping[s] # 0
    /\ pumping' = [pumping EXCEPT ![s] = 0]
    /\ Deliver(Message("output", s, pumping[s]))
    /\ UNCHANGED <<tabVars, mounts, mongosh, written, stopping>>

\* reap, when mongosh ends by itself.
ShellExits(s) ==
    /\ Alive(s)
    /\ mongosh' = [mongosh EXCEPT ![s].state = "exited"]
    /\ Deliver(Message("exit", s, None))
    /\ UNCHANGED <<tabVars, mounts, written, pumping, stopping>>

\* Kill removes the session; reap reports the end of its process.
Kill(s) ==
    /\ mongosh' = [mongosh EXCEPT ![s].state = IF Known(s) THEN "removed" ELSE @]
    /\ IF Alive(s) THEN Deliver(Message("exit", s, None)) ELSE UNCHANGED inbox

StopMongoShell(s) ==
    /\ stopping' = stopping \ {s}
    /\ Kill(s)
    /\ UNCHANGED <<tabVars, mounts, written, pumping>>

\* sweep: SessionTimeout after the start, whoever uses the session.
SweepShell(s) ==
    /\ Alive(s)
    /\ Kill(s)
    /\ UNCHANGED <<tabVars, mounts, written, pumping, stopping>>

\* PingMongoShell.
PingShell(m) ==
    /\ mounts[m].phase = "ping"
    /\ mounts' = [mounts EXCEPT ![m].phase = "waiting"]
    /\ Deliver(Message("pong", m, Alive(mounts[m].session)))
    /\ UNCHANGED <<tabVars, mongosh, written, pumping, stopping>>

\* StartMongoShell; it fails when there is no mongosh, or the profile is gone.
StartMongoShell(m) ==
    /\ mounts[m].phase = "start"
    /\ mounts' = [mounts EXCEPT ![m].phase = "waiting"]
    /\ \/ mongosh' = [mongosh EXCEPT ![m].state = "running"] /\ Deliver(Message("started", m, m))
       \/ UNCHANGED mongosh /\ Deliver(Message("failed", m, None))
    /\ UNCHANGED <<tabVars, written, pumping, stopping>>

\* Mutant: the buffer is not emptied when the session begins to stream.
AttachKeepsBuffer(m) ==
    LET s == mounts[m].session IN
    /\ mounts[m].phase = "attach"
    /\ mounts' = [mounts EXCEPT ![m].phase = "attached",
                                ![m].answer = IF Known(s) THEN mongosh[s].buffer ELSE <<>>]
    /\ UNCHANGED <<tabVars, mongosh, written, pumping, inbox, stopping>>

\* Attach: what was buffered is the answer, what comes next is streamed.
AttachMongoShell(m) ==
    LET s == mounts[m].session IN
    /\ mounts[m].phase = "attach"
    /\ mounts' = [mounts EXCEPT ![m].phase = "attached",
                                ![m].answer = IF Known(s) THEN mongosh[s].buffer ELSE <<>>]
    /\ mongosh' = [mongosh EXCEPT ![s].streaming = @ \/ Known(s),
                                  ![s].buffer = IF Known(s) THEN <<>> ELSE @]
    /\ UNCHANGED <<tabVars, written, pumping, inbox, stopping>>

AnswerAttach(m) ==
    /\ mounts[m].phase = "attached"
    /\ mounts' = [mounts EXCEPT ![m].phase = "waiting", ![m].answer = <<>>]
    /\ Deliver(Message("buffered", m, mounts[m].answer))
    /\ UNCHANGED <<tabVars, mongosh, written, pumping, stopping>>

-----------------------------------------------------------------------------
(* The effect of the component.                                             *)

Aborted(m) == ~(onDisplay /\ m = shows)

\* The tab is shown: a session that it remembers is looked for first.
ShowShell ==
    /\ tabOpen /\ ~onDisplay /\ shows < MaxShows
    /\ shows' = shows + 1 /\ onDisplay' = TRUE
    /\ mounts' = [mounts EXCEPT ![shows + 1].session = tabSession,
                                ![shows + 1].phase = IF tabSession = None THEN "start" ELSE "ping"]
    /\ UNCHANGED <<tabOpen, tabSession, replaced, unheard, mongosh, written, pumping, inbox, stopping>>

\* The clean-up reaches the subscription only once the attach has been answered.
Unmounted ==
    mounts' = [m \in ShowNo |->
                 IF m = shows /\ mounts[m].phase = "ready"
                 THEN [mounts[m] EXCEPT !.listening = FALSE, !.screen = <<>>, !.live = <<>>]
                 ELSE mounts[m]]

HideShell ==
    /\ onDisplay
    /\ onDisplay' = FALSE
    /\ Unmounted
    /\ UNCHANGED <<tabOpen, tabSession, shows, replaced, unheard, mongosh, written, pumping,
                   inbox, stopping>>

\* The tab is closed; App's effect stops the session it last knew of the tab.
CloseShellTab ==
    /\ tabOpen
    /\ tabOpen' = FALSE /\ onDisplay' = FALSE
    /\ Unmounted
    /\ stopping' = IF tabSession = None THEN stopping ELSE stopping \cup {tabSession}
    /\ UNCHANGED <<tabSession, shows, replaced, unheard, mongosh, written, pumping, inbox>>

\* The window is reloaded: the tab comes back with its session id.
ReloadWindow ==
    /\ shows > 0 /\ (onDisplay \/ inbox # <<>>)
    /\ onDisplay' = FALSE
    /\ unheard' = unheard \cup
          {m \in ShowNo : mounts[m].phase = "start" \/ Message("started", m, m) \in Range(inbox)}
    /\ mounts' = [m \in ShowNo |-> [mounts[m] EXCEPT !.listening = FALSE, !.screen = <<>>, !.live = <<>>]]
    /\ inbox' = <<>>
    /\ UNCHANGED <<tabOpen, tabSession, shows, replaced, mongosh, written, pumping, stopping>>

TakeMessage(message) == inbox # <<>> /\ Head(inbox) = message /\ inbox' = Tail(inbox)

\* Subscribe, then attach.
Attaching(m, s) ==
    mounts' = [mounts EXCEPT ![m].session = s, ![m].phase = "attach", ![m].listening = TRUE]

ReceivePong(m, alive) ==
    /\ TakeMessage(Message("pong", m, alive))
    /\ IF Aborted(m) THEN UNCHANGED mounts
       ELSE IF alive THEN Attaching(m, mounts[m].session)
       ELSE mounts' = [mounts EXCEPT ![m].phase = "start"]
    /\ UNCHANGED <<tabVars, mongosh, written, pumping, stopping>>

\* The new session becomes the tab's, and is stopped if the mount is gone.
ReceiveStarted(m) ==
    /\ TakeMessage(Message("started", m, m))
    /\ IF m \in unheard
       THEN UNCHANGED <<tabVars, mounts, stopping>>
       ELSE /\ tabSession' = IF tabOpen THEN m ELSE tabSession
            /\ replaced' = IF tabOpen /\ tabSession # None THEN replaced \cup {tabSession} ELSE replaced
            /\ IF Aborted(m)
               THEN stopping' = stopping \cup {m} /\ UNCHANGED mounts
               ELSE Attaching(m, m) /\ UNCHANGED stopping
            /\ UNCHANGED <<tabOpen, shows, onDisplay, unheard>>
    /\ UNCHANGED <<mongosh, written, pumping>>

ReceiveFailed(m) ==
    /\ TakeMessage(Message("failed", m, None))
    /\ UNCHANGED <<tabVars, mounts, mongosh, written, pumping, stopping>>

\* The buffered text is written, and only now is the clean-up registered.
ReceiveBuffered(m) ==
    /\ inbox # <<>> /\ TakeMessage(Message("buffered", m, Head(inbox).body))
    /\ mounts' = IF Aborted(m) THEN mounts
                 ELSE [mounts EXCEPT ![m].phase = "ready", ![m].screen = @ \o Head(inbox).body]
    /\ UNCHANGED <<tabVars, mongosh, written, pumping, stopping>>

ReceiveOutput(s) ==
    /\ inbox # <<>> /\ TakeMessage(Message("output", s, Head(inbox).body))
    /\ mounts' = [m \in ShowNo |->
                    IF mounts[m].listening /\ mounts[m].session = s /\ ~Aborted(m)
                    THEN [mounts[m] EXCEPT !.screen = Append(@, Head(inbox).body),
                                           !.live = Append(@, Head(inbox).body)]
                    ELSE mounts[m]]
    /\ UNCHANGED <<tabVars, mongosh, written, pumping, stopping>>

\* Those who listen write the exit code and unsubscribe.
ReceiveExit(s) ==
    /\ TakeMessage(Message("exit", s, None))
    /\ mounts' = [m \in ShowNo |->
                    IF mounts[m].session = s THEN [mounts[m] EXCEPT !.listening = FALSE] ELSE mounts[m]]
    /\ UNCHANGED <<tabVars, mongosh, written, pumping, stopping>>

ShellNext ==
    \/ ShowShell \/ HideShell \/ CloseShellTab \/ ReloadWindow
    \/ \E m \in ShowNo :
          \/ PingShell(m) \/ StartMongoShell(m) \/ AttachMongoShell(m) \/ AnswerAttach(m)
          \/ ReceivePong(m, TRUE) \/ ReceivePong(m, FALSE)
          \/ ReceiveStarted(m) \/ ReceiveFailed(m) \/ ReceiveBuffered(m)
    \/ \E s \in ShowNo :
          \/ PumpShell(s) \/ EmitOutput(s) \/ ShellExits(s) \/ SweepShell(s)
          \/ ReceiveOutput(s) \/ ReceiveExit(s)
    \/ \E s \in stopping : StopMongoShell(s)

ShellSpec == ShellInit /\ [][ShellNext]_shellVars

-----------------------------------------------------------------------------
(* Properties.                                                              *)

\* Somebody still knows of the session: the tab, a stop under way, or the answer
\* of its start.
Referenced(s) ==
    \/ tabOpen /\ tabSession = s
    \/ s \in stopping
    \/ Message("started", s, s) \in Range(inbox)

\* "Kill orphaned mongo-shell PTY sessions when their tabs are closed": no mongosh of
\* a closed tab goes on running, except one whose start a reload kept from the window.
NoShellAfterClose ==
    \A s \in ShowNo : Alive(s) /\ ~tabOpen => Referenced(s) \/ s \in unheard

\* Open or closed, a mongosh that nobody knows of has lost its place in the tab to
\* another, or its window to a reload.
OnlyReplacedIsOrphan ==
    \A s \in ShowNo : Alive(s) => Referenced(s) \/ s \in unheard \cup replaced

\* A terminal that has been on display since its mongosh started, and heard of
\* everything, shows every piece of output once, whether it came before, during or
\* after the attach; and the streamed pieces in their order.
ShellOutputIsKept ==
    LET m == shows IN
    onDisplay /\ mounts[m].phase = "ready" /\ mounts[m].session = m =>
        /\ IsInjective(mounts[m].screen)
        /\ \A i, j \in DOMAIN mounts[m].live : i < j => mounts[m].live[i] < mounts[m].live[j]
        /\ (Alive(m) /\ pumping[m] = 0 /\ \A e \in Range(inbox) : e.of # m) =>
               Range(mounts[m].screen) = 1 .. written[m]

\* "On cleanup [...]: unsubscribe and clear the no-output timer so re-mount starts
\* fresh": a terminal that is gone is not subscribed any more.
NoLeakedSubscription ==
    \A m \in ShowNo : mounts[m].listening => ~Aborted(m)
=============================================================================
