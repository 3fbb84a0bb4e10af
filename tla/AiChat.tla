-------------------------------- MODULE AiChat --------------------------------
(***************************************************************************)
(* The AI chat panel: the hook that streams answers (hooks/use-chat.ts),   *)
(* the panel's effects and handlers (components/ai-chat-panel.tsx) and the *)
(* native side of a chat (internal/api/ai.go).                             *)
(*                                                                         *)
(* A chat is one question and its answer.  Its text is left out: what is   *)
(* modelled is which chats are shown, which is loading, which can be       *)
(* stopped, and the events on the way from the native side to the window.  *)
(* An event that finds no subscription is lost.  What the store has of a   *)
(* connection's earlier chats is left open.                                *)
(***************************************************************************)
EXTENDS Absent, Integers, Sequences, FiniteSets, SequencesExt

CONSTANTS
    Chattable, \* the connections one may chat about
    MaxChats,  \* bound: questions asked
    MaxDeltas  \* bound: content events of one answer

ASSUME ChatAssumption ==
    /\ {MaxChats, MaxDeltas} \subseteq Nat
    /\ None \notin Chattable \cup Nat

VARIABLES
    chats,         \* every question asked, in order
    panelOf,       \* the connection the panel is open for, or None
    newest,        \* the chat requestSeqRef stands for, or 0 after a reset
    abortRef,      \* the chat that Stop cancels, or None
    chatIsLoading,
    chatMessages,  \* what is shown: chats, and the history of a connection
    historyLoaded, \* historyLoadedRef
    promptSent,    \* sentPromptRef
    chatHistory,   \* the cached answer of GetChatHistory, for each connection
    cleared        \* the user has cleared the chat, and asked nothing since (history)

panelVars == <<panelOf, newest, abortRef, chatIsLoading, chatMessages, historyLoaded, promptSent>>
chatVars == <<chats, panelVars, chatHistory, cleared>>

\* chatHistory before its first answer, and after one: empty or not.
Unfetched == "unfetched"
HistoryOf(c) == [chat |-> 0, of |-> c]

ChatTypeOK ==
    /\ \A i \in DOMAIN chats :
          /\ chats[i].connection \in Chattable
          /\ chats[i].step \in {"starting", "streaming", "over"}
          /\ chats[i].native \in {"none", "running", "stopping", "ended", "refused"}
          /\ chats[i].cancelled \in BOOLEAN
          /\ chats[i].events \in Seq({"content", "done", "error"})
    /\ panelOf \in Chattable \cup {None}
    /\ newest \in {0} \cup DOMAIN chats /\ abortRef \in {None} \cup DOMAIN chats
    /\ {chatIsLoading, historyLoaded, promptSent, cleared} \subseteq BOOLEAN
    /\ chatHistory \in [Chattable -> {Unfetched, "empty", "some"}]

ChatInit ==
    /\ chats = <<>> /\ panelOf = None /\ newest = 0 /\ abortRef = None
    /\ chatIsLoading = FALSE /\ chatMessages = <<>>
    /\ historyLoaded = FALSE /\ promptSent = FALSE
    /\ chatHistory = [c \in Chattable |-> Unfetched]
    /\ cleared = FALSE

-----------------------------------------------------------------------------
(* The panel.                                                               *)

\* A chat that is cancelled before its request is known is only marked.
Cancelled(cs, i) ==
    IF i = None THEN cs
    ELSE [cs EXCEPT ![i].cancelled = TRUE,
                    ![i].native = IF cs[i].step = "streaming" /\ @ = "running" THEN "stopping" ELSE @]

Asked(c) == [connection |-> c, step |-> "starting", native |-> "none", cancelled |-> FALSE,
             events |-> <<>>, deltas |-> 0]

\* The effect that shows the history once, when there is nothing to be seen and no
\* prompt was sent from the schema tree.
ShowPanel(c, messages, history, loaded, prompted) ==
    LET loads == ~prompted /\ messages = <<>> /\ ~loaded /\ history # Unfetched IN
    /\ chatMessages' = IF loads /\ history = "some" THEN <<HistoryOf(c)>> ELSE messages
    /\ historyLoaded' = (loaded \/ loads)
    /\ promptSent' = prompted

\* sendMessage and resendFrom.
Ask(c, base, loaded, prompted) ==
    /\ Len(chats) < MaxChats
    /\ chats' = Append(Cancelled(chats, abortRef), Asked(c))
    /\ newest' = Len(chats) + 1
    /\ abortRef' = Len(chats) + 1
    /\ chatIsLoading' = TRUE
    /\ ShowPanel(c, Append(base, [chat |-> Len(chats) + 1, of |-> c]),
                 chatHistory[c], loaded, prompted)
    /\ cleared' = FALSE

\* Typed and sent with Enter, also while an answer is loading.
SendMessage ==
    /\ panelOf # None
    /\ Ask(panelOf, chatMessages, historyLoaded, promptSent)
    /\ UNCHANGED <<panelOf, chatHistory>>

\* Edit and Resend are disabled while an answer is loading.  What came before the
\* question is kept, a part of the history if the question is one of it.
ResendFrom(m) ==
    /\ panelOf # None /\ ~chatIsLoading
    /\ \E kept \in {m - 1} \cup {k \in {m} : chatMessages[k].chat = 0} :
          Ask(panelOf, SubSeq(chatMessages, 1, kept), historyLoaded, promptSent)
    /\ UNCHANGED <<panelOf, chatHistory>>

\* A prompt from the schema tree opens the panel or changes its connection first.
SendPrompt(c) ==
    /\ panelOf' = c
    /\ IF c = panelOf THEN Ask(c, chatMessages, historyLoaded, TRUE) ELSE Ask(c, <<>>, FALSE, TRUE)
    /\ UNCHANGED <<chatHistory>>

\* openAiChatPanel: a panel that is open is reset, one that is not is mounted.
OpenPanel(c) ==
    /\ panelOf # c
    /\ panelOf' = c
    /\ chats' = Cancelled(chats, abortRef)
    /\ newest' = 0 /\ chatIsLoading' = FALSE /\ cleared' = FALSE
    /\ ShowPanel(c, <<>>, chatHistory[c], FALSE, FALSE)
    /\ UNCHANGED <<abortRef, chatHistory>>

\* Nothing is cancelled when the panel closes: its chats run on natively, and nothing of
\* them shows.
ClosePanel ==
    /\ panelOf # None
    /\ panelOf' = None /\ newest' = 0 /\ abortRef' = None /\ chatIsLoading' = FALSE
    /\ chatMessages' = <<>> /\ historyLoaded' = FALSE /\ promptSent' = FALSE /\ cleared' = FALSE
    /\ chats' = [i \in DOMAIN chats |-> [chats[i] EXCEPT !.step = "over", !.events = <<>>]]
    /\ UNCHANGED <<chatHistory>>

StopChat ==
    /\ chatIsLoading
    /\ chats' = Cancelled(chats, abortRef)
    /\ UNCHANGED <<panelVars, chatHistory, cleared>>

ClearChat ==
    /\ panelOf # None /\ chatMessages # <<>>
    /\ ShowPanel(panelOf, <<>>, chatHistory[panelOf], historyLoaded, promptSent)
    /\ cleared' = TRUE
    /\ UNCHANGED <<chats, panelOf, newest, abortRef, chatIsLoading, chatHistory>>

\* GetChatHistory answers with what the store has: when the panel opens, when the cached
\* answer is stale, and after ClearChatHistory.
HistoryArrives ==
    /\ panelOf # None
    /\ \E history \in {"empty", "some"} :
       /\ chatHistory' = [chatHistory EXCEPT ![panelOf] = history]
       /\ ShowPanel(panelOf, chatMessages, history, historyLoaded, promptSent)
    /\ UNCHANGED <<chats, panelOf, newest, abortRef, chatIsLoading, cleared>>

-----------------------------------------------------------------------------
(* The stream.                                                              *)

\* Mutant: whichever chat ends, the panel has stopped loading.
SettledAnyway(i) ==
    /\ chatIsLoading' = FALSE
    /\ abortRef' = None

\* The "finally" of streamChat: only the newest chat may say that the panel is idle.
Settled(i) ==
    IF newest = i THEN chatIsLoading' = FALSE /\ abortRef' = None
                  ELSE UNCHANGED <<chatIsLoading, abortRef>>

KeepsPanel == UNCHANGED <<panelOf, newest, chatMessages, historyLoaded, promptSent, chatHistory,
                          cleared>>

\* StartChat: the answer begins before the window hears of it.
NativeStarts(i) ==
    /\ chats[i].native = "none"
    /\ chats' = [chats EXCEPT ![i].native = "running"]
    /\ KeepsPanel /\ UNCHANGED <<chatIsLoading, abortRef>>

NativeRefuses(i) ==
    /\ chats[i].native = "none"
    /\ chats' = [chats EXCEPT ![i].native = "refused", ![i].step = "over"]
    /\ Settled(i)
    /\ KeepsPanel

\* The request is known: Stop cancels this chat from now on, be it the newest or not.
Subscribe(i) ==
    /\ chats[i].step = "starting" /\ chats[i].native \in {"running", "ended"}
    /\ chats' = [chats EXCEPT ![i].step = "streaming"]
    /\ abortRef' = i
    /\ KeepsPanel /\ UNCHANGED <<chatIsLoading>>

\* Nobody listens any more to a chat that is over.
Emitted(chat, event) ==
    IF chat.step = "over" THEN chat ELSE [chat EXCEPT !.events = Append(@, event)]

EmitDelta(i) ==
    /\ chats[i].native = "running" /\ chats[i].deltas < MaxDeltas
    /\ chats' = [chats EXCEPT ![i] = [Emitted(chats[i], "content") EXCEPT !.deltas = @ + 1]]
    /\ KeepsPanel /\ UNCHANGED <<chatIsLoading, abortRef>>

NativeEnds(i, event) ==
    /\ chats[i].native \in {"running"} \cup (IF event = "error" THEN {"stopping"} ELSE {})
    /\ chats' = [chats EXCEPT ![i] = [Emitted(chats[i], event) EXCEPT !.native = "ended"]]
    /\ KeepsPanel /\ UNCHANGED <<chatIsLoading, abortRef>>

LoseEvent(i) ==
    /\ chats[i].events # <<>> /\ chats[i].step = "starting"
    /\ chats' = [chats EXCEPT ![i].events = Tail(@)]
    /\ KeepsPanel /\ UNCHANGED <<chatIsLoading, abortRef>>

\* Any event ends a chat that is cancelled.
DeliverEvent(i) ==
    LET ends == chats[i].cancelled \/ Head(chats[i].events) # "content" IN
    /\ chats[i].events # <<>> /\ chats[i].step = "streaming"
    /\ chats' = [chats EXCEPT ![i].events = IF ends THEN <<>> ELSE Tail(@),
                               ![i].step = IF ends THEN "over" ELSE @]
    /\ IF ends THEN Settled(i) ELSE UNCHANGED <<chatIsLoading, abortRef>>
    /\ KeepsPanel

ChatNext ==
    \/ SendMessage \/ StopChat \/ ClosePanel \/ ClearChat \/ HistoryArrives
    \/ \E m \in DOMAIN chatMessages : ResendFrom(m)
    \/ \E c \in Chattable : SendPrompt(c) \/ OpenPanel(c)
    \/ \E i \in DOMAIN chats :
          \/ NativeStarts(i) \/ NativeRefuses(i) \/ Subscribe(i) \/ EmitDelta(i)
          \/ NativeEnds(i, "done") \/ NativeEnds(i, "error") \/ LoseEvent(i) \/ DeliverEvent(i)

ChatSpec == ChatInit /\ [][ChatNext]_chatVars

-----------------------------------------------------------------------------
(* Properties.                                                              *)

\* The panel loads while the newest chat is under way, whichever older chats end
\* meanwhile, and not after a reset.
LoadsTheNewest ==
    chatIsLoading <=> newest # 0 /\ chats[newest].step # "over"

\* Everything shown is of the connection the panel is open for, whatever was loading,
\* fetched or streamed when it changed.
ShowsItsConnection ==
    \A m \in DOMAIN chatMessages : chatMessages[m].of = panelOf

\* The panel shows the conversation it is open for, and whether it is being answered.
ChatPanelIsTrue == LoadsTheNewest /\ ShowsItsConnection

\* "The desktop [...] finishes on done": a chat whose end was announced and is no longer
\* on its way has ended in the panel.  Violated: the announcement may precede the
\* subscription.
FinishesOnDone ==
    chatIsLoading => ~(/\ chats[newest].step = "streaming" /\ chats[newest].native = "ended"
                       /\ chats[newest].events = <<>>)

\* "CancelChat aborts the active chat stream": Stop cancels the newest chat.  Violated:
\* an older chat whose request becomes known later takes its place.
StopsTheNewest == chatIsLoading => abortRef = newest

\* A chat that was cleared stays cleared.  Violated: a history that arrived after the
\* first question was asked is shown once the messages are gone.
ClearedStaysCleared == cleared => chatMessages = <<>>
=============================================================================
