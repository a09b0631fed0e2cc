---------------------------- MODULE TaskWorkspaces ----------------------------
(***************************************************************************)
(* Where the tasks of one project work: its row, its directory (a git      *)
(* worktree, a copy or the original), its branch and its artifacts, made   *)
(* and removed by commands of the window's thread (RS/commands/tasks.rs,   *)
(* RS/commands/worktree.rs, RS/git/mod.rs, RS/workspace/mod.rs).  Every    *)
(* step may fail or be the last one before the application stops; the      *)
(* Agent works in the directories meanwhile.                               *)
(***************************************************************************)
EXTENDS PersonalProfiles

CONSTANT Tasks  \* ids of tasks, each used once

VARIABLES git,       \* the project: no repository, the user's, or initialized here
          rows,      \* tasks: the workspace that each row names
          dirs,      \* the directories under the worktree root, named for their task
          branches,  \* the branch of each task: none, at the base, or with commits
          worktrees, \* the tasks whose directory the repository knows as a worktree
          artifacts, \* the tasks that have a directory of artifacts
          incomplete \* history: tasks of which a step that removes, takes back or
                     \* settles has failed, or an operation was cut off by a stop

workVars == <<git, rows, dirs, branches, worktrees, artifacts>>
workspaceVars == <<op, profileVars, workVars, incomplete>>

GitKinds == {"git_worktree", "git_initialized_worktree"}
Row(state, kind, path, branch) ==
    [state |-> state, kind |-> kind, path |-> path, branch |-> branch]

WorkspacesInit ==
    /\ ProfilesInit
    /\ git \in {"none", "own"}
    /\ rows = [t \in Tasks |-> Row("fresh", "none", FALSE, FALSE)]
    /\ dirs = [t \in Tasks |-> "none"] /\ branches = [t \in Tasks |-> "none"]
    /\ worktrees = {} /\ artifacts = {} /\ incomplete = {}

Listed(t) == rows[t].state = "listed"

-----------------------------------------------------------------------------
(* git, as the commands use it.                                            *)

\* git worktree add: the branch of the task, or a new one.
AddTree(t) ==
    /\ git # "none" /\ dirs[t] = "none"
    /\ dirs' = [dirs EXCEPT ![t] = "clean"]
    /\ branches' = [branches EXCEPT ![t] = IF @ = "none" THEN "base" ELSE @]
    /\ worktrees' = worktrees \cup {t}

\* When the checkout fails, the new branch may be there already.
AddTreeFails(t) ==
    /\ branches' \in {branches, [branches EXCEPT ![t] = IF @ = "none" /\ git # "none"
                                                          THEN "base" ELSE @]}
    /\ UNCHANGED <<dirs, worktrees>>

\* Mutant: git is told to remove what it would refuse to remove.
Forced(t) == git # "none" /\ t \in worktrees

\* git worktree remove refuses what has changes that are not committed: it
\* looks first, and then removes whatever is there by then.
Removable(t) == git # "none" /\ t \in worktrees /\ dirs[t] = "clean"

DropTree(t) ==
    /\ dirs' = [dirs EXCEPT ![t] = "none"]
    /\ worktrees' = worktrees \ {t}

DropRepository ==
    /\ git' = "none" /\ worktrees' = {}
    /\ branches' = [t \in Tasks |-> "none"]

-----------------------------------------------------------------------------
(* create_task_record.                                                     *)

Then(step) == op' = [op EXCEPT !.step = step]
Mark(t)    == incomplete' = incomplete \cup {t}

\* resolve_workspace_strategy, after the project is inspected.
Strategies == IF git # "none" THEN {"git_worktree"}
              ELSE {"git_initialized_worktree", "isolated_copy", "direct_original"}

CreateTask(t, kind) ==
    /\ UiFree /\ rows[t].state = "fresh" /\ kind \in Strategies
    /\ rows' = [rows EXCEPT ![t] = Row("gone", kind, FALSE, FALSE)]
    /\ artifacts' = artifacts \cup {t}
    /\ op' = [step |-> IF kind = "git_initialized_worktree" THEN "init" ELSE "tree",
              task |-> t, kind |-> kind, path |-> FALSE, branch |-> FALSE, init |-> FALSE]
    /\ UNCHANGED <<profileVars, git, dirs, branches, worktrees, incomplete>>

\* A repository that the user has made by now is an error.
InitializeGit ==
    /\ op.step = "init" /\ git = "none"
    /\ git' = "ours" /\ Then("tree")
    /\ UNCHANGED <<profileVars, rows, dirs, branches, worktrees, artifacts, incomplete>>

\* What a failed baseline leaves is removed, if it can be.
InitializeGitFails ==
    /\ op.step = "init"
    /\ git' \in IF git = "none" THEN {"none", "ours"} ELSE {git}
    /\ Then("abandon")
    /\ UNCHANGED <<profileVars, rows, dirs, branches, worktrees, artifacts, incomplete>>

PrepareTree ==
    /\ op.step = "tree"
    /\ CASE op.kind \in GitKinds        -> AddTree(op.task)
         [] op.kind = "isolated_copy"   ->
              /\ dirs' = [dirs EXCEPT ![op.task] = "clean"]
              /\ UNCHANGED <<branches, worktrees>>
         [] op.kind = "direct_original" -> UNCHANGED <<dirs, branches, worktrees>>
    /\ op' = [op EXCEPT !.step = "persist", !.path = TRUE, !.branch = op.kind \in GitKinds,
                        !.init = op.kind = "git_initialized_worktree"]
    /\ UNCHANGED <<profileVars, git, rows, artifacts, incomplete>>

\* A part of a copy is removed, if it can be; so is a new repository.
PrepareTreeFails ==
    /\ op.step = "tree" /\ op.kind # "direct_original"
    /\ Then("abandon")
    /\ \/ /\ op.kind = "git_worktree" /\ AddTreeFails(op.task)
          /\ UNCHANGED <<git, incomplete>>
       \/ /\ op.kind = "git_initialized_worktree"
          /\ \/ DropRepository
             \/ AddTreeFails(op.task) /\ UNCHANGED <<git, worktrees>>
          /\ UNCHANGED <<dirs, incomplete>>
       \/ /\ op.kind = "isolated_copy"
          /\ \/ UNCHANGED <<dirs, incomplete>>
             \/ dirs' = [dirs EXCEPT ![op.task] = "clean"] /\ Mark(op.task)
          /\ UNCHANGED <<git, branches, worktrees>>
    /\ UNCHANGED <<profileVars, rows, artifacts>>

\* Nothing but the artifacts is left to remove, and no failure is looked at.
Abandon ==
    /\ op.step = "abandon"
    /\ \/ artifacts' = artifacts \ {op.task} /\ UNCHANGED incomplete
       \/ UNCHANGED artifacts /\ Mark(op.task)
    /\ op' = Free
    /\ UNCHANGED <<profileVars, git, rows, dirs, branches, worktrees>>

\* The session file, and one transaction with the row and the contract, which
\* the active profile fills.
PersistTask ==
    /\ op.step = "persist" /\ Active # {}
    /\ rows' = [rows EXCEPT ![op.task] = Row("listed", op.kind, TRUE, op.branch)]
    /\ op' = Free
    /\ UNCHANGED <<profileVars, git, dirs, branches, worktrees, artifacts, incomplete>>

PersistTaskFails ==
    /\ op.step = "persist"
    /\ Then("undoTree")
    /\ UNCHANGED <<profileVars, workVars, incomplete>>

-----------------------------------------------------------------------------
(* delete_task_record, and what it shares with a creation that failed:     *)
(* rollback_created_task_files tries every part and reports what failed.   *)

\* Mutant: the files are removed first, and the row by the next start.
DeleteFilesOnly(t, init) ==
    /\ UiFree /\ Listed(t)
    /\ op' = [step |-> "undoTree", task |-> t, kind |-> rows[t].kind, path |-> rows[t].path,
              branch |-> rows[t].branch,
              init |-> init /\ rows[t].kind = "git_initialized_worktree"]
    /\ UNCHANGED <<profileVars, workVars, incomplete>>

DeleteTask(t, init) ==
    /\ UiFree /\ Listed(t)
    /\ op' = [step |-> "undoTree", task |-> t, kind |-> rows[t].kind, path |-> rows[t].path,
              branch |-> rows[t].branch,
              init |-> init /\ rows[t].kind = "git_initialized_worktree"]
    /\ rows' = [rows EXCEPT ![t] = Row("gone", rows[t].kind, FALSE, FALSE)]
    /\ UNCHANGED <<profileVars, git, dirs, branches, worktrees, artifacts, incomplete>>

TreeToUndo   == op.path /\ dirs[op.task] # "none" /\ op.kind # "direct_original"
BranchToUndo == op.branch /\ op.kind \in GitKinds

\* Mutant: a directory that cannot be removed is passed over.
UndoTreeQuietly ==
    /\ op.step = "undoTree"
    /\ \/ TreeToUndo /\ DropTree(op.task)
       \/ UNCHANGED <<dirs, worktrees>>
    /\ Then("undoBranch")
    /\ UNCHANGED <<profileVars, git, rows, branches, artifacts, incomplete>>

UndoTree ==
    /\ op.step = "undoTree"
    /\ \/ /\ TreeToUndo /\ op.kind \in GitKinds /\ Removable(op.task)
          /\ Then("dropTree") /\ UNCHANGED <<dirs, worktrees, incomplete>>
       \/ /\ TreeToUndo /\ op.kind \notin GitKinds
          /\ DropTree(op.task) /\ Then("undoBranch") /\ UNCHANGED incomplete
       \/ /\ ~TreeToUndo
          /\ Then("undoBranch") /\ UNCHANGED <<dirs, worktrees, incomplete>>
       \/ /\ TreeToUndo /\ Mark(op.task)
          /\ Then("undoBranch") /\ UNCHANGED <<dirs, worktrees>>
    /\ UNCHANGED <<profileVars, git, rows, branches, artifacts>>

\* A branch that is checked out is not deleted.
UndoBranch ==
    /\ op.step = "undoBranch"
    /\ \/ /\ BranchToUndo /\ git # "none" /\ op.task \notin worktrees
          /\ branches' = [branches EXCEPT ![op.task] = "none"]
          /\ UNCHANGED incomplete
       \/ /\ ~BranchToUndo /\ UNCHANGED <<branches, incomplete>>
       \/ /\ BranchToUndo /\ Mark(op.task) /\ UNCHANGED branches
    /\ Then(IF op.init THEN "undoGit" ELSE "undoFiles")
    /\ UNCHANGED <<profileVars, git, rows, dirs, worktrees, artifacts>>

UndoGit ==
    /\ op.step = "undoGit"
    /\ \/ DropRepository /\ UNCHANGED incomplete
       \/ Mark(op.task) /\ UNCHANGED <<git, branches, worktrees>>
    /\ Then("undoFiles")
    /\ UNCHANGED <<profileVars, rows, dirs, artifacts>>

UndoFiles ==
    /\ op.step = "undoFiles"
    /\ \/ artifacts' = artifacts \ {op.task} /\ UNCHANGED incomplete
       \/ Mark(op.task) /\ UNCHANGED artifacts
    /\ op' = Free
    /\ UNCHANGED <<profileVars, git, rows, dirs, branches, worktrees>>

-----------------------------------------------------------------------------
(* Worktrees of tasks that have a row.                                     *)

CreateTaskBranch(t) ==
    /\ UiFree /\ Listed(t) /\ git # "none"
    /\ branches[t] = "none"
    /\ branches' = [branches EXCEPT ![t] = "base"]
    /\ UNCHANGED <<op, profileVars, git, rows, dirs, worktrees, artifacts, incomplete>>

CreateTaskWorktree(t) ==
    /\ UiFree /\ Listed(t)
    /\ AddTree(t)
    /\ op' = [step |-> "meta", task |-> t]
    /\ UNCHANGED <<profileVars, git, rows, artifacts, incomplete>>

\* The kind of the workspace stays what it was.
PersistWorktree ==
    /\ op.step = "meta"
    /\ rows' = [rows EXCEPT ![op.task].path = TRUE, ![op.task].branch = TRUE]
    /\ op' = Free
    /\ UNCHANGED <<profileVars, git, dirs, branches, worktrees, artifacts, incomplete>>

PersistWorktreeFails ==
    /\ op.step = "meta"
    /\ Then("undoMeta")
    /\ UNCHANGED <<profileVars, workVars, incomplete>>

UndoWorktree ==
    /\ op.step = "undoMeta"
    /\ \/ Removable(op.task) /\ Then("dropMeta") /\ UNCHANGED incomplete
       \/ op' = Free /\ Mark(op.task)
    /\ UNCHANGED <<profileVars, workVars>>

\* Confirmed by the user.  A directory that is gone has only its row cleared;
\* copies and the original are no worktrees, and git refuses them.
CleanupWorktree(t) ==
    /\ UiFree /\ Listed(t) /\ rows[t].path
    /\ \/ /\ dirs[t] = "none" /\ rows[t].kind # "direct_original"
          /\ op' = [step |-> "clear", task |-> t]
       \/ Removable(t) /\ op' = [step |-> "dropCleanup", task |-> t]
    /\ UNCHANGED <<profileVars, workVars, incomplete>>

Removals == {"dropTree", "dropMeta", "dropCleanup"}

AfterRemoval(removed) ==
    CASE op.step = "dropTree"                -> Then("undoBranch")
      [] op.step = "dropCleanup" /\ removed  -> Then("clear")
      [] OTHER                               -> op' = Free

\* git has found no changes and removes the directory, or fails to.  Nothing
\* has been taken away when a cleanup fails here.
RemoveWorktree ==
    /\ op.step \in Removals
    /\ \/ DropTree(op.task) /\ AfterRemoval(TRUE) /\ UNCHANGED incomplete
       \/ /\ AfterRemoval(FALSE) /\ UNCHANGED <<dirs, worktrees>>
          /\ IF op.step = "dropCleanup" THEN UNCHANGED incomplete ELSE Mark(op.task)
    /\ UNCHANGED <<profileVars, git, rows, branches, artifacts>>

ClearWorktree ==
    /\ op.step = "clear"
    /\ \/ /\ rows' = [rows EXCEPT ![op.task].path = FALSE, ![op.task].branch = FALSE]
          /\ UNCHANGED incomplete
       \/ Mark(op.task) /\ UNCHANGED rows
    /\ op' = Free
    /\ UNCHANGED <<profileVars, git, dirs, branches, worktrees, artifacts>>

-----------------------------------------------------------------------------
(* The Agent, the user and the application.                                *)

\* A command that still runs when its task is deleted edits too.
Edit(t) ==
    /\ dirs[t] = "clean"
    /\ dirs' = [dirs EXCEPT ![t] = "dirty"]
    /\ UNCHANGED <<op, profileVars, git, rows, branches, worktrees, artifacts, incomplete>>

\* The merge of a task commits its worktree first.
CommitWorktree(t) ==
    /\ UiFree /\ Listed(t) /\ rows[t].branch
    /\ t \in worktrees /\ dirs[t] = "dirty"
    /\ dirs' = [dirs EXCEPT ![t] = "clean"]
    /\ branches' = [branches EXCEPT ![t] = "commits"]
    /\ UNCHANGED <<op, profileVars, git, rows, worktrees, artifacts, incomplete>>

UserInitializesGit ==
    /\ git = "none"
    /\ git' = "own"
    /\ UNCHANGED <<op, profileVars, rows, dirs, branches, worktrees, artifacts, incomplete>>

Restart ==
    /\ op' = Free
    /\ profiles' = WithDefault
    /\ incomplete' = IF "task" \in DOMAIN op THEN incomplete \cup {op.task} ELSE incomplete
    /\ UNCHANGED <<candidates, memories, workVars>>

-----------------------------------------------------------------------------
Create ==
    \/ \E t \in Tasks, kind \in Strategies : CreateTask(t, kind)
    \/ InitializeGit \/ InitializeGitFails \/ PrepareTree \/ PrepareTreeFails
    \/ Abandon \/ PersistTask \/ PersistTaskFails

Delete ==
    \/ \E t \in Tasks, init \in BOOLEAN : DeleteTask(t, init)
    \/ UndoTree \/ UndoBranch \/ UndoGit \/ UndoFiles \/ RemoveWorktree

Worktree ==
    \/ \E t \in Tasks :
          CreateTaskBranch(t) \/ CreateTaskWorktree(t) \/ CleanupWorktree(t) \/ CommitWorktree(t)
    \/ PersistWorktree \/ PersistWorktreeFails \/ UndoWorktree \/ ClearWorktree

WorkspacesNext ==
    \/ ProfilesNext /\ UNCHANGED <<workVars, incomplete>>
    \/ Create \/ Delete \/ Worktree
    \/ \E t \in Tasks : Edit(t)
    \/ UserInitializesGit \/ Restart

WorkspacesSpec == WorkspacesInit /\ [][WorkspacesNext]_workspaceVars

-----------------------------------------------------------------------------
Busy(t) == "task" \in DOMAIN op /\ op.task = t

\* A task goes from the list before its files, and comes to it after them:
\* wherever a creation or a deletion fails or stops, a task that is listed has
\* its artifacts, and it has the directory that its row names unless a step that
\* settles the two has failed, as when a cleanup could not clear the row.
ListedHasFiles ==
    \A t \in Tasks : Listed(t) =>
        /\ t \in artifacts
        /\ rows[t].path /\ rows[t].kind # "direct_original"
             => dirs[t] # "none" \/ Busy(t) \/ t \in incomplete

\* Of a task that is deleted or could not be created neither a directory nor
\* artifacts are left, unless a step that removes or takes them back has failed
\* or was cut off (rollback_created_task_files); branches may be left.  A task
\* that worked in the original is no part of the first: its kind hides a
\* worktree that it was given later.
NoSilentOrphans ==
    \A t \in Tasks \ incomplete :
        ~Listed(t) /\ ~Busy(t) =>
            /\ t \notin artifacts
            /\ rows[t].kind # "direct_original" => dirs[t] = "none"

Removing(t) == op.step \in Removals /\ op.task = t

\* docs/s3/worktree-management.md:38: changes are not dropped silently.  git
\* begins to remove a worktree only when it finds no changes, whichever command
\* asks for it, and a worktree goes in no other way: what is lost was written
\* after git looked.  The branch of a worktree with changes is dropped in one
\* step only, that in which a deletion removes the repository initialized here.
WorkKept ==
    [][\A t \in worktrees :
          /\ ~Removing(t) /\ Removing(t)' => dirs[t] = "clean"
          /\ dirs[t] = "dirty" /\ dirs'[t] = "none" => Removing(t)
          /\ dirs[t] = "dirty" /\ branches'[t] = "none" => op.step = "undoGit"]_workspaceVars
=============================================================================
