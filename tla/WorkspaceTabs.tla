---------------------------- MODULE WorkspaceTabs ----------------------------
(***************************************************************************)
(* The tabs of the workspace: the store's operations on the tab list       *)
(* (store/workspace-tabs.ts), the tab bar, the keyboard and the sidebar    *)
(* that call them, the search and the MongoDB explorer that write the      *)
(* store themselves, and the part of the store that survives a reload      *)
(* (store/state.ts, store/ui-preferences.ts).                              *)
(*                                                                         *)
(* A tab is its identity, its connection (None for a federated query) and  *)
(* its pin.  What a tab shows, its title and its text are left out, and    *)
(* with them the operations that write only those.  A query tab gets a     *)
(* fresh identity; a table or a collection has one tab per connection.     *)
(***************************************************************************)
EXTENDS Absent, Selection, FiniteSets, SequencesExt

CONSTANTS
    Connection, \* the connection profiles
    MaxTabs,    \* bound: tabs open at a time
    MaxFresh    \* bound: fresh tab identities given out

ASSUME TabsAssumption ==
    /\ MaxTabs \in Nat /\ MaxFresh \in Nat
    /\ None \notin Connection

VARIABLES
    openedTabs,         \* the tabs, in the order of the bar
    activeTabId,
    activeConnectionId,
    apart,              \* the tab shown and activeConnectionId were last set apart: by the
                        \* sidebar, a start, the search's open tabs, or the MongoDB
                        \* explorer (history)
    listed,             \* the connections the cached list shows
    deleting,           \* the deletion under way
    deletedConnections, \* connections whose deletion is over (history)
    dragIndex,          \* where the dragged tab was when its drag began
    freshIds            \* how many fresh identities were given out

tabsVars == <<openedTabs, activeTabId, activeConnectionId, apart, listed, deleting,
              deletedConnections, dragIndex, freshIds>>

TableTabId(c) == <<"table", c>>
FreshTabId(n) == <<"query", n>>
TabIds == {TableTabId(c) : c \in Connection} \cup {FreshTabId(n) : n \in 1..MaxFresh}
Tab == [id : TabIds, connection : Connection \cup {None}, pinned : BOOLEAN]
NoDeletion == [step |-> "none", connection |-> None]

OpenedIds == {openedTabs[i].id : i \in DOMAIN openedTabs}

TabsTypeOK ==
    /\ openedTabs \in Seq(Tab) /\ Len(openedTabs) <= MaxTabs
    /\ activeTabId \in TabIds \cup {None}
    /\ activeConnectionId \in Connection \cup {None}
    /\ apart \in BOOLEAN
    /\ listed \subseteq Connection /\ deletedConnections \subseteq Connection
    /\ deleting.step \in {"none", "asked", "deleted"}
    /\ dragIndex \in 0..MaxTabs
    /\ freshIds \in 0..MaxFresh

TabsInit ==
    /\ openedTabs = <<>> /\ activeTabId = None
    /\ activeConnectionId = None /\ apart = TRUE
    /\ listed = Connection /\ deleting = NoDeletion /\ deletedConnections = {}
    /\ dragIndex = 0 /\ freshIds = 0

\* What every operation of the store leaves alone.
OutsideTheStore == UNCHANGED <<listed, deleting, deletedConnections, dragIndex>>

\* The tab shown and the connection of the toolbar change together.
Activate(tab) ==
    /\ activeTabId' = tab.id
    /\ activeConnectionId' = tab.connection
    /\ apart' = FALSE

\* A tab is shown, and the toolbar keeps its connection.
ShowOnly(tab) ==
    /\ activeTabId' = tab.id
    /\ apart' = TRUE
    /\ UNCHANGED activeConnectionId

Nowhere ==
    /\ activeTabId' = None
    /\ activeConnectionId' = None
    /\ apart' = FALSE

StayActive == UNCHANGED <<activeTabId, activeConnectionId, apart>>

-----------------------------------------------------------------------------
(* Opening.                                                                 *)

\* A tab of the same identity is not opened twice.
PutInBar(tab) ==
    /\ openedTabs' = IF tab.id \in OpenedIds THEN openedTabs ELSE Append(openedTabs, tab)
    /\ Len(openedTabs') <= MaxTabs

\* openTab: the tab is shown, be it new or not.
OpenTab(tab) == PutInBar(tab) /\ Activate(tab)

TableTab(c) == [id |-> TableTabId(c), connection |-> c, pinned |-> FALSE]

\* From the tree of the sidebar, and from the search's tables, whose results are taken to
\* be of the connections listed.
OpenTableTab(c) ==
    /\ c \in listed
    /\ OpenTab(TableTab(c))
    /\ UNCHANGED freshIds /\ OutsideTheStore

\* The MongoDB explorer's collections: the tab is shown, of whatever connection the
\* toolbar is.
OpenCollectionTab(c) ==
    /\ c \in listed
    /\ PutInBar(TableTab(c)) /\ ShowOnly(TableTab(c))
    /\ UNCHANGED freshIds /\ OutsideTheStore

\* A query tab, or a federated one, which has no single connection.
OpenFreshTab(c) ==
    /\ c \in listed \cup {None} /\ freshIds < MaxFresh
    /\ freshIds' = freshIds + 1
    /\ OpenTab([id |-> FreshTabId(freshIds'), connection |-> c, pinned |-> FALSE])
    /\ OutsideTheStore

\* The clone is pinned when its original is, and comes right after it.
DuplicateTab(i) ==
    /\ openedTabs[i].id[1] = "query"
    /\ freshIds < MaxFresh /\ Len(openedTabs) < MaxTabs
    /\ freshIds' = freshIds + 1
    /\ LET clone == [openedTabs[i] EXCEPT !.id = FreshTabId(freshIds')] IN
       /\ openedTabs' = InsertAt(openedTabs, i + 1, clone)
       /\ Activate(clone)
    /\ OutsideTheStore

\* A click on a tab, Ctrl+Tab and Ctrl+1 to Ctrl+9.
ActivateTab(i) ==
    /\ Activate(openedTabs[i])
    /\ UNCHANGED <<openedTabs, freshIds>> /\ OutsideTheStore

\* Ctrl+K, Open Tabs.
ActivateFromSearch(i) ==
    /\ ShowOnly(openedTabs[i])
    /\ UNCHANGED <<openedTabs, freshIds>> /\ OutsideTheStore

-----------------------------------------------------------------------------
(* Closing.                                                                 *)

Keeps(tabs, id) == \E i \in DOMAIN tabs : tabs[i].id = id

\* The last tab that is left takes the place of an active one that is closed.
LastIsActive(tabs) == IF tabs = <<>> THEN Nowhere ELSE Activate(Last(tabs))

ActiveTab(tabs) == tabs[CHOOSE i \in DOMAIN tabs : tabs[i].id = activeTabId]

\* Mutant: the toolbar keeps the connection of the tab that is closed.
CloseTabKeepsConnection(i) ==
    LET tabs == RemoveAt(openedTabs, i) IN
    /\ openedTabs' = tabs
    /\ activeTabId' = IF Keeps(tabs, activeTabId) THEN activeTabId
                      ELSE IF tabs = <<>> THEN None ELSE Last(tabs).id
    /\ UNCHANGED <<activeConnectionId, apart, freshIds>> /\ OutsideTheStore

\* Closing another tab puts the toolbar back to the active tab's connection.
CloseTab(i) ==
    LET tabs == RemoveAt(openedTabs, i) IN
    /\ openedTabs' = tabs
    /\ IF Keeps(tabs, activeTabId) THEN Activate(ActiveTab(tabs)) ELSE LastIsActive(tabs)
    /\ UNCHANGED freshIds /\ OutsideTheStore

\* The toolbar keeps its connection.
CloseAllTabs ==
    /\ openedTabs # <<>>
    /\ openedTabs' = <<>> /\ activeTabId' = None
    /\ UNCHANGED <<activeConnectionId, apart, freshIds>> /\ OutsideTheStore

\* closeTabsForConnection, pinned or not.
WithoutConnection(c) == Picked(openedTabs, {i \in DOMAIN openedTabs : openedTabs[i].connection # c})

CloseConnectionTabs(c) ==
    LET tabs == WithoutConnection(c) IN
    /\ openedTabs' = tabs
    /\ CASE tabs = openedTabs -> StayActive
         [] tabs # openedTabs /\ ~Keeps(tabs, activeTabId) -> LastIsActive(tabs)
         [] OTHER -> IF ActiveTab(tabs).connection = None THEN StayActive
                     ELSE Activate(ActiveTab(tabs))
    /\ UNCHANGED freshIds

CloseForConnection(c) ==
    /\ \E i \in DOMAIN openedTabs : openedTabs[i].connection = c
    /\ CloseConnectionTabs(c) /\ OutsideTheStore

\* Offered when there is another tab; the tab kept becomes active, unless all were.
CloseOtherTabs(i) ==
    LET tabs == Picked(openedTabs, {j \in DOMAIN openedTabs :
                                      openedTabs[j].id = openedTabs[i].id \/ openedTabs[j].pinned}) IN
    /\ Len(openedTabs) > 1
    /\ openedTabs' = tabs
    /\ IF tabs = openedTabs THEN StayActive ELSE Activate(openedTabs[i])
    /\ UNCHANGED freshIds /\ OutsideTheStore

CloseTabsToRight(i) ==
    LET tabs == Picked(openedTabs, {j \in DOMAIN openedTabs : j <= i \/ openedTabs[j].pinned}) IN
    /\ i < Len(openedTabs)
    /\ openedTabs' = tabs
    /\ IF Keeps(tabs, activeTabId) THEN StayActive ELSE Activate(openedTabs[i])
    /\ UNCHANGED freshIds /\ OutsideTheStore

-----------------------------------------------------------------------------
(* Order.                                                                   *)

\* The sort is stable, and happens at every toggle.
ToggleTabPin(i) ==
    LET toggled == [openedTabs EXCEPT ![i].pinned = ~@]
        pins == {j \in DOMAIN toggled : toggled[j].pinned} IN
    /\ openedTabs' = Picked(toggled, pins) \o Picked(toggled, DOMAIN toggled \ pins)
    /\ StayActive /\ UNCHANGED freshIds /\ OutsideTheStore

StartDrag(i) ==
    /\ dragIndex = 0
    /\ dragIndex' = i
    /\ UNCHANGED <<openedTabs, activeTabId, activeConnectionId, apart, listed, deleting,
                   deletedConnections, freshIds>>

\* reorderTabs ignores an index that is no longer one, and the pins.
DropTab(to) ==
    /\ dragIndex # 0
    /\ dragIndex' = 0
    /\ openedTabs' = IF dragIndex = to \/ dragIndex > Len(openedTabs) THEN openedTabs
                     ELSE InsertAt(RemoveAt(openedTabs, dragIndex), to, openedTabs[dragIndex])
    /\ UNCHANGED <<activeTabId, activeConnectionId, apart, listed, deleting,
                   deletedConnections, freshIds>>

-----------------------------------------------------------------------------
(* The sidebar, and the reload.                                             *)

\* setActiveConnection (the sidebar, its menus, the search's connections) and
\* openAiChatPanel: the toolbar leaves the tabs' connection.
ChooseConnection(c) ==
    /\ c \in listed
    /\ activeConnectionId' = c /\ apart' = TRUE
    /\ UNCHANGED <<openedTabs, activeTabId, freshIds>> /\ OutsideTheStore

AskToDelete(c) ==
    /\ deleting = NoDeletion /\ c \in listed
    /\ deleting' = [step |-> "asked", connection |-> c]
    /\ UNCHANGED <<openedTabs, activeTabId, activeConnectionId, apart, listed,
                   deletedConnections, dragIndex, freshIds>>

\* The native side deletes the profile, and the list is fetched again.
ProfileIsDeleted ==
    /\ deleting.step = "asked"
    /\ listed' = listed \ {deleting.connection}
    /\ deleting' = [deleting EXCEPT !.step = "deleted"]
    /\ UNCHANGED <<openedTabs, activeTabId, activeConnectionId, apart,
                   deletedConnections, dragIndex, freshIds>>

\* "Revoke the managed MCP account before deleting this connection", or another error.
DeletionFails ==
    /\ deleting.step = "asked"
    /\ deleting' = NoDeletion
    /\ UNCHANGED <<openedTabs, activeTabId, activeConnectionId, apart, listed,
                   deletedConnections, dragIndex, freshIds>>

\* Only then are its tabs closed.
TabsOfDeletedClose ==
    /\ deleting.step = "deleted"
    /\ CloseConnectionTabs(deleting.connection)
    /\ deletedConnections' = deletedConnections \cup {deleting.connection}
    /\ deleting' = NoDeletion
    /\ UNCHANGED <<listed, dragIndex>>

\* Ctrl+R or a restart: the tabs and the active one come back from localStorage, the
\* toolbar's connection does not, and what was still to be done is forgotten.
ReloadTabs ==
    /\ activeConnectionId' = None /\ apart' = TRUE
    /\ listed' \in (IF deleting.step = "asked" THEN {listed, listed \ {deleting.connection}} ELSE {listed})
    /\ deleting' = NoDeletion /\ dragIndex' = 0
    /\ UNCHANGED <<openedTabs, activeTabId, deletedConnections, freshIds>>

TabsNext ==
    \/ \E c \in Connection :
          \/ OpenTableTab(c) \/ OpenCollectionTab(c) \/ CloseForConnection(c)
          \/ ChooseConnection(c) \/ AskToDelete(c)
    \/ \E c \in Connection \cup {None} : OpenFreshTab(c)
    \/ \E i \in DOMAIN openedTabs :
          \/ DuplicateTab(i) \/ ActivateTab(i) \/ ActivateFromSearch(i)
          \/ CloseTab(i) \/ CloseOtherTabs(i)
          \/ CloseTabsToRight(i) \/ ToggleTabPin(i) \/ StartDrag(i) \/ DropTab(i)
    \/ CloseAllTabs \/ ProfileIsDeleted \/ DeletionFails \/ TabsOfDeletedClose \/ ReloadTabs

TabsSpec == TabsInit /\ [][TabsNext]_tabsVars

-----------------------------------------------------------------------------
(* Properties.                                                              *)

\* The active tab is one of the tabs, with no two alike, after any operations and
\* reloads: Workspace's repair of a dangling activeTabId never has anything to do.
RepairIsIdle ==
    /\ IsInjective([i \in DOMAIN openedTabs |-> openedTabs[i].id])
    /\ IF openedTabs = <<>> THEN activeTabId = None ELSE activeTabId \in OpenedIds

\* Closing, duplicating and moving tabs, and clicks and keys on the bar, leave the
\* toolbar's buttons (new query, AI chat) with the connection of the tab that is shown.
\* Four things set one without the other, until the next operation that shows a tab: the
\* choice of a connection, a start, the search's open tabs and the MongoDB explorer.
ToolbarFollowsTab ==
    ~apart /\ openedTabs # <<>> => activeConnectionId = ActiveTab(openedTabs).connection

\* No tab, pinned or not, duplicated or opened while the deletion was under way, is of
\* a connection whose deletion is over.
NoTabOfDeleted ==
    \A i \in DOMAIN openedTabs : openedTabs[i].connection \notin deletedConnections

\* The bar, the toolbar and the profiles tell the same story.
TabsAgree == RepairIsIdle /\ ToolbarFollowsTab /\ NoTabOfDeleted

\* "Pinned tabs [...] sort to the front of the tab bar": violated, a drag ignores pins.
PinnedFirst ==
    \A i, j \in DOMAIN openedTabs : openedTabs[j].pinned /\ i < j => openedTabs[i].pinned
=============================================================================
