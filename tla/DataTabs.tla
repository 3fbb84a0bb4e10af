------------------------------ MODULE DataTabs ------------------------------
(***************************************************************************)
(* A workspace window with one of its data views in use: a tab on display  *)
(* (components/workspace-screen.tsx) or the chat panel beside it.  Only    *)
(* the tab on display is mounted, and no two kinds of view share state but *)
(* the tab list (WorkspaceTabs); so one kind is chosen, and only that kind *)
(* takes steps.                                                            *)
(***************************************************************************)
EXTENDS SqlEditor, SqlStatements, TableGrid, RedisBrowse, MongoBrowse,
        MongoPipeline, FederatedQuery, AiChat

VARIABLE kind  \* of the view in use

Kinds == {"query", "text", "table", "redis", "collection", "pipeline", "federated", "chat"}

dataVars == <<kind, editorVars, sqlText, gridVars, browseVars, mongoVars, pipeVars, fedVars, chatVars>>

\* A view that is not in use has not been opened: its inputs are not chosen.
Unopened ==
    /\ kind # "query" => readOnly = FALSE /\ draft = CHOOSE t \in Text : TRUE
    /\ kind # "table" => ~seekable
    /\ kind # "collection" => large = {}
    /\ kind # "pipeline" => inputs = CHOOSE i \in Inputs : TRUE
    /\ kind # "federated" => fedSql = CHOOSE t \in Statements : TRUE

\* WorkspaceScreen: the tab's kind decides which component is mounted.
DataInit ==
    /\ kind \in Kinds
    /\ EditorInit /\ SqlTextInit /\ GridInit /\ BrowseInit /\ MongoInit /\ PipeInit /\ FedInit
    /\ ChatInit
    /\ Unopened

DataNext ==
    /\ UNCHANGED kind
    /\ \/ /\ kind = "query" /\ EditorNext
          /\ UNCHANGED <<sqlText, gridVars, browseVars, mongoVars, pipeVars, fedVars, chatVars>>
       \/ /\ kind = "text" /\ SqlTextNext
          /\ UNCHANGED <<editorVars, gridVars, browseVars, mongoVars, pipeVars, fedVars, chatVars>>
       \/ /\ kind = "table" /\ GridNext
          /\ UNCHANGED <<editorVars, sqlText, browseVars, mongoVars, pipeVars, fedVars, chatVars>>
       \/ /\ kind = "redis" /\ BrowseNext
          /\ UNCHANGED <<editorVars, sqlText, gridVars, mongoVars, pipeVars, fedVars, chatVars>>
       \/ /\ kind = "collection" /\ MongoNext
          /\ UNCHANGED <<editorVars, sqlText, gridVars, browseVars, pipeVars, fedVars, chatVars>>
       \/ /\ kind = "pipeline" /\ PipeNext
          /\ UNCHANGED <<editorVars, sqlText, gridVars, browseVars, mongoVars, fedVars, chatVars>>
       \/ /\ kind = "federated" /\ FedNext
          /\ UNCHANGED <<editorVars, sqlText, gridVars, browseVars, mongoVars, pipeVars, chatVars>>
       \/ /\ kind = "chat" /\ ChatNext
          /\ UNCHANGED <<editorVars, sqlText, gridVars, browseVars, mongoVars, pipeVars, fedVars>>

DataSpec == DataInit /\ [][DataNext]_dataVars

-----------------------------------------------------------------------------
(* Properties that several tabs promise.                                    *)

\* "Would silently skip": what pages by cursors, leases or offsets lies where the listing has
\* it, also where pages were cut short, cached, parked or jumped to.  Of Redis keys: no page
\* leaves out one that comes after it begins; where it begins is the server's cursor.
NothingIsSkipped == PageIsWhereItSays /\ NoKeyIsSkipped /\ NoDocumentIsSkipped

\* "Reject late completions": results and counts on display are of the query on display,
\* the canvas's merge is of its newest run, and a spinner has a request behind it, however
\* runs overtake each other.
ViewsFollowTheirRuns ==
    /\ SpinnerHasARequest
    /\ CountIsOfTheQuery
    /\ ResultIsOfTheInputs /\ SpinnerHasARun
    /\ MergeIsWhole /\ FederatedRunIsUnderWay
=============================================================================
