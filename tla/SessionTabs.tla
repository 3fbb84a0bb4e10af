----------------------------- MODULE SessionTabs -----------------------------
(***************************************************************************)
(* The parts of the window that outlive a single query: the tab bar, the   *)
(* terminals, the backup dialogs, the exports and the schema timeline,     *)
(* each with its native side.  They have events of their own and no state  *)
(* in common but what the modules say; so one of them acts at a time.      *)
(***************************************************************************)
EXTENDS PsqlTerminal, MongoShell, WorkspaceTabs, ToolJobs, Exports, SchemaWatcher

VARIABLE part  \* of the window that is in use

Parts == {"psql", "mongosh", "tabs", "tools", "exports", "watcher"}

sessionVars == <<part, psqlVars, shellVars, tabsVars, toolVars, exportVars, watcherVars>>

SessionInit ==
    /\ part \in Parts
    /\ PsqlInit /\ ShellInit /\ TabsInit /\ ToolInit /\ ExportInit
    /\ WatcherInit

SessionNext ==
    /\ UNCHANGED part
    /\ \/ /\ part = "psql" /\ PsqlNext
          /\ UNCHANGED <<shellVars, tabsVars, toolVars, exportVars, watcherVars>>
       \/ /\ part = "mongosh" /\ ShellNext
          /\ UNCHANGED <<psqlVars, tabsVars, toolVars, exportVars, watcherVars>>
       \/ /\ part = "tabs" /\ TabsNext
          /\ UNCHANGED <<psqlVars, shellVars, toolVars, exportVars, watcherVars>>
       \/ /\ part = "tools" /\ ToolNext
          /\ UNCHANGED <<psqlVars, shellVars, tabsVars, exportVars, watcherVars>>
       \/ /\ part = "exports" /\ ExportNext
          /\ UNCHANGED <<psqlVars, shellVars, tabsVars, toolVars, watcherVars>>
       \/ /\ part = "watcher" /\ WatcherNext
          /\ UNCHANGED <<psqlVars, shellVars, tabsVars, toolVars, exportVars>>

SessionSpec == SessionInit /\ [][SessionNext]_sessionVars

-----------------------------------------------------------------------------
(* Properties.                                                              *)

\* No process behind a terminal goes on without anybody who could stop it: neither a
\* psql nor a mongosh, through closings, remounts, reloads and late answers.
NoOrphanSession == NoOrphanPsql /\ OnlyReplacedIsOrphan

\* What the window says of a backup, a restore or an export is what its job has done, an
\* export whose cancellation was accepted before its rename keeps the old file, and one
\* whose view was left has its cancellation under way; the rename may still come first.
JobsKeepTheirWord == ToolDialogIsTrue /\ ExportsKeepTheirWord
=============================================================================
