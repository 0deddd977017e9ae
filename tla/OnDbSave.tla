------------------------------ MODULE OnDbSave ------------------------------
(***************************************************************************)
(* src/src/on_db_save.c: a command that is run after every save of the     *)
(* database, by one child process at a time.                               *)
(* Operators named Bad... are wrong variants of the one below them.        *)
(***************************************************************************)
EXTENDS Integers, Process

CONSTANTS
    FdLimit,      \* descriptors services may still open
    MaxCommands   \* bound: commands running at once

ASSUME FdAssumption == FdLimit \in Nat /\ MaxCommands \in Nat

VARIABLES
    db_loaded,
    command,    \* db_update_command is set
    running,    \* update_command_proc.running
    mine,       \* commands started by the image of the module that is loaded
    old,        \* commands started by an image that has been unloaded
    fds,        \* descriptors left
    behind,     \* the latest save has no command that started after it
    mixed       \* the module has been unloaded under a running command

dbVars == <<db_loaded, command, running, mine, old, fds, behind, mixed>>

OnDbSaveInit ==
    /\ db_loaded = TRUE /\ command = FALSE /\ running = FALSE
    /\ mine = 0 /\ old = 0 /\ fds = FdLimit
    /\ behind = FALSE /\ mixed = FALSE

Saved == alive /\ db_loaded /\ command

\* on_db_save, a command is still running
SaveWhileRunning ==
    /\ Saved /\ running
    /\ behind' = TRUE
    /\ UNCHANGED <<db_loaded, command, running, mine, old, fds, mixed>>

\* pipe fails, for want of descriptors or of memory
SavePipeFails ==
    /\ Saved /\ ~running
    /\ behind' = TRUE
    /\ UNCHANGED <<db_loaded, command, running, mine, old, fds, mixed>>

\* fork fails: neither pipe is closed.
SaveForkFails ==
    /\ Saved /\ ~running /\ fds >= 4
    /\ fds' = fds - 4
    /\ behind' = TRUE
    /\ UNCHANGED <<db_loaded, command, running, mine, old, mixed>>

BadSaveStarts ==
    /\ Saved /\ fds >= 4 /\ mine + old < MaxCommands
    /\ running' = TRUE /\ mine' = mine + 1 /\ fds' = fds - 2
    /\ behind' = FALSE
    /\ UNCHANGED <<db_loaded, command, old, mixed>>

\* The parent keeps the reading ends of the two pipes.
SaveStarts ==
    /\ Saved /\ ~running /\ fds >= 4 /\ mine + old < MaxCommands
    /\ running' = TRUE /\ mine' = mine + 1 /\ fds' = fds - 2
    /\ behind' = FALSE
    /\ UNCHANGED <<db_loaded, command, old, mixed>>

BadFinished ==
    /\ alive /\ mine > 0
    /\ mine' = mine - 1 /\ fds' = fds + 2
    /\ UNCHANGED <<db_loaded, command, running, old, behind, mixed>>

\* update_command_finished; the loop closes the pipes at their end.
Finished ==
    /\ alive /\ mine > 0
    /\ mine' = mine - 1 /\ fds' = fds + 2
    /\ running' = FALSE
    /\ UNCHANGED <<db_loaded, command, old, behind, mixed>>

\* The handlers of a command that outlived its image are addresses in it.  Where
\* they point when the pipes are read or the child is reaped is up to the
\* loader: to nothing, or to the same function of an image loaded later.
OldFinished ==
    /\ alive /\ old > 0
    /\ old' = old - 1 /\ fds' = fds + 2
    /\ \/ alive' = FALSE /\ UNCHANGED running
       \/ db_loaded /\ running' = FALSE /\ UNCHANGED alive
    /\ UNCHANGED <<db_loaded, command, mine, behind, mixed>>

\* mod_deinit takes back the hook and the configuration item, nothing else.
UnloadOnDbSave ==
    /\ alive /\ db_loaded /\ db_loaded' = FALSE
    /\ command' = FALSE /\ running' = FALSE
    /\ old' = old + mine /\ mine' = 0
    /\ mixed' = (mixed \/ mine > 0)
    /\ behind' = FALSE
    /\ UNCHANGED fds

LoadOnDbSave ==
    /\ alive /\ ~db_loaded /\ db_loaded' = TRUE
    /\ UNCHANGED <<command, running, mine, old, fds, behind, mixed>>

\* A rehash reads db_update_command.
RehashCommand ==
    /\ alive /\ db_loaded /\ ~command /\ command' = TRUE
    /\ UNCHANGED <<db_loaded, running, mine, old, fds, behind, mixed>>

OnDbSaveNext ==
    \/ OldFinished
    \/ /\ UNCHANGED alive
       /\ \/ SaveWhileRunning
          \/ SavePipeFails
          \/ SaveForkFails
          \/ SaveStarts
          \/ Finished
          \/ UnloadOnDbSave
          \/ LoadOnDbSave
          \/ RehashCommand

(***************************************************************************)
(* Properties.                                                             *)
(***************************************************************************)
OnDbSaveTypeOK ==
    /\ db_loaded \in BOOLEAN /\ command \in BOOLEAN /\ running \in BOOLEAN
    /\ mine \in Nat /\ old \in Nat /\ fds \in 0 .. FdLimit
    /\ behind \in BOOLEAN /\ mixed \in BOOLEAN

\* As long as the module is not unloaded under a command, "running" is right, so
\* two commands never work on the database at once.
OneCommand == ~mixed => mine + old = IF running THEN 1 ELSE 0

\* A save that found a command running, or could not start one, is made good by
\* a command started after a later save, unless failed forks have used up the
\* descriptors.
CatchUp == behind ~> ~behind \/ ~alive \/ fds + 2 * (mine + old) < 4
=============================================================================
