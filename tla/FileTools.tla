------------------------------ MODULE FileTools ------------------------------
(***************************************************************************)
(* The tools that change files (create_file, replace_in_file, delete_file, *)
(* delete_snippet, apply_patch: internal/tools/file_ops.go, file_edit.go,  *)
(* patch.go) over the path locks and the undo store.  A tool call locks    *)
(* its paths, reads the files and plans its changes, asks for approval,    *)
(* checks that nothing changed meanwhile, then makes the changes one by    *)
(* one; a change that fails puts the earlier ones back.  The user, or a    *)
(* shell command, edits files without locks; new turns begin and Undo is   *)
(* called at any time.                                                     *)
(*                                                                         *)
(* A call's plan is a sequence of changes [path, op]: "write" replaces an  *)
(* existing file, "create" makes a new one, "delete" removes one; a move   *)
(* is a create and a delete.                                               *)
(***************************************************************************)
EXTENDS PathLocks, Checkpoints

CONSTANTS Plans,      \* the plans a tool call may have
          User,       \* the author of edits made outside the tools
          StartFiles, \* the files that exist at first
          EditFiles,  \* bound: the files edited outside the tools
          MaxTurns,   \* bound: turns begun by prompts
          MaxStuck    \* bound: files Undo could not put back

VARIABLES content,  \* the workspace's files
          cp,       \* Workspace.checkpoints
          task,     \* each tool call's progress
          undo      \* the Undo that has checked and not yet restored, with what
                    \* earlier ones could not put back

fileVars == <<content, cp, task, undo>>
vars == <<lockVars, fileVars>>

\* For the properties only, edited: the files with edits of the user when it
\* checked; left: the snapshots of files that could not be put back.
NoUndo == [on |-> FALSE, edited |-> {}, left |-> {}]

Phases == {"idle", "plan", "approve", "check", "snap", "change", "note", "rollback", "done",
           "returned"}

\* seen: what the call read; at: the change it is making; added: whether
\* before added an entry; ok: nothing failed.  For the properties only,
\* others: its files edited outside the tools since it looked at them;
\* stuck: putting a file back failed too.
NoTask == [plan |-> <<>>, phase |-> "idle", seen |-> <<>>, at |-> 0, added |-> FALSE,
           others |-> {}, ok |-> TRUE, stuck |-> FALSE]

TypeOK ==
    /\ LockTypeOK
    /\ content \in [Files -> Content]
    /\ IsStore(cp)
    /\ \A t \in Tools : task[t].phase \in Phases /\ task[t].others \subseteq Files
    /\ undo.on => Undoable(cp) # {}

Init ==
    /\ LockInit
    /\ content = [f \in Files |-> IF f \in StartFiles THEN {} ELSE Absent]
    /\ cp = EmptyStore
    /\ task = [t \in Tools |-> NoTask]
    /\ undo = NoUndo

PathsOf(plan) == {c.path : c \in Range(plan)}

\* A plan has a change at least, each of a file of the workspace.
ASSUME PlanAssumption ==
    /\ Files = Paths
    /\ \A plan \in Plans : /\ plan \in Seq([path : Paths, op : {"write", "create", "delete"}])
                           /\ plan # <<>>

\* The tools, and the user, edit files.
ASSUME AuthorAssumption == Tools \cup {User} \subseteq Authors /\ EditFiles \subseteq Files

Now(t) == task[t].plan[task[t].at]

\* Undo holds the store's lock from its check to its last restore.
StoreFree == ~undo.on

InPhase(t, p) == pc[t] = "critical" /\ task[t].phase = p
Enter(t, p) == task' = [task EXCEPT ![t].phase = p]
End(t) == task' = [task EXCEPT ![t].phase = "done", ![t].ok = FALSE]

-----------------------------------------------------------------------------
\* A mutant: only the first path of a patch is locked.
CallFirstPath(t, plan) ==
    /\ task[t].phase = "idle"
    /\ LockPaths(t, {plan[1].path})
    /\ task' = [task EXCEPT ![t] = [NoTask EXCEPT !.plan = plan, !.phase = "plan"]]
    /\ UNCHANGED <<content, cp, undo>>

Call(t, plan) ==
    /\ task[t].phase = "idle"
    /\ LockPaths(t, PathsOf(plan))
    /\ task' = [task EXCEPT ![t] = [NoTask EXCEPT !.plan = plan, !.phase = "plan"]]
    /\ UNCHANGED <<content, cp, undo>>

\* The files are read: what is to be created must be missing, the rest exist.
PlanChanges(t) ==
    /\ InPhase(t, "plan")
    /\ LET fits == \A c \in Range(task[t].plan) : content[c.path] = Absent <=> c.op = "create"
       IN \/ /\ fits
             /\ task' = [task EXCEPT ![t].phase = "approve",
                            ![t].seen = [f \in PathsOf(task[t].plan) |-> content[f]]]
          \/ ~fits /\ End(t)
    /\ UNCHANGED <<lockVars, content, cp, undo>>

Approved(t) ==
    /\ InPhase(t, "approve")
    /\ Enter(t, "check") \/ End(t)
    /\ UNCHANGED <<lockVars, content, cp, undo>>

\* The files edited since the read that differ from what was read.
Edited(t) == {f \in task[t].others : content[f] # task[t].seen[f]}

\* A mutant: the files are not looked at again after the approval.
CheckNothing(t) ==
    /\ InPhase(t, "check")
    /\ task' = [task EXCEPT ![t].phase = "snap", ![t].at = 1, ![t].others = {}]
    /\ UNCHANGED <<lockVars, content, cp, undo>>

\* unchanged: a file edited while the user was asked stops the call.  A file
\* to be created is not always looked at again: its creation is exclusive.
CheckUnchanged(t) ==
    /\ InPhase(t, "check")
    /\ LET stale(c) == content[c.path] # task[t].seen[c.path]
           plan == Range(task[t].plan)
       IN \/ /\ \A c \in plan : c.op # "create" => ~stale(c)
             /\ task' = [task EXCEPT ![t].phase = "snap", ![t].at = 1, ![t].others = Edited(t)]
          \/ (\E c \in plan : stale(c)) /\ End(t)
    /\ UNCHANGED <<lockVars, content, cp, undo>>

\* Workspace.snapshot, before the file is touched.
Snapshot(t) ==
    /\ InPhase(t, "snap") /\ StoreFree
    /\ LET f == Now(t).path IN
          /\ cp' = Before(cp, f, content[f])
          /\ task' = [task EXCEPT ![t].phase = "change", ![t].added = ~InLast(cp, f)]
    /\ UNCHANGED <<lockVars, content, undo>>

NewContent(t) ==
    CASE Now(t).op = "write" -> task[t].seen[Now(t).path] \cup {t}
      [] Now(t).op = "create" -> {t}
      [] Now(t).op = "delete" -> Absent

\* The write, exclusive creation or removal succeeds, ...
Change(t) ==
    /\ InPhase(t, "change")
    /\ Now(t).op = "create" => content[Now(t).path] = Absent
    /\ Now(t).op = "delete" => content[Now(t).path] # Absent
    /\ content' = [content EXCEPT ![Now(t).path] = NewContent(t)]
    /\ Enter(t, "note")
    /\ UNCHANGED <<lockVars, cp, undo>>

\* A mutant: a failed change leaves the earlier ones in place.
ChangeFailsOnly(t) ==
    /\ InPhase(t, "change") /\ (task[t].added => StoreFree)
    /\ cp' = IF task[t].added THEN Discard(cp, Now(t).path) ELSE cp
    /\ End(t)
    /\ UNCHANGED <<lockVars, content, undo>>

\* ... or fails: its snapshot is dropped, and the changes made are put back.
ChangeFails(t) ==
    /\ InPhase(t, "change") /\ (task[t].added => StoreFree)
    /\ cp' = IF task[t].added THEN Discard(cp, Now(t).path) ELSE cp
    /\ task' = [task EXCEPT ![t].phase = IF task[t].at = 1 THEN "done" ELSE "rollback",
                            ![t].at = @ - 1, ![t].ok = FALSE]
    /\ UNCHANGED <<lockVars, content, undo>>

Note(t) ==
    /\ InPhase(t, "note") /\ StoreFree
    /\ cp' = After(cp, Now(t).path, NewContent(t))
    /\ task' = [task EXCEPT ![t].phase = IF task[t].at = Len(task[t].plan) THEN "done" ELSE "snap",
                            ![t].at = @ + 1]
    /\ UNCHANGED <<lockVars, content, undo>>

\* executePlan's rollback of one change, itself a checkpointed write.
Rollback(t) ==
    /\ InPhase(t, "rollback") /\ StoreFree
    /\ LET f == Now(t).path
           old == task[t].seen[f]
           last == IF task[t].at = 1 THEN "done" ELSE "rollback"
       IN \/ /\ old = Absent => content[f] # Absent
             /\ content' = [content EXCEPT ![f] = old]
             /\ cp' = After(Before(cp, f, content[f]), f, old)
             /\ task' = [task EXCEPT ![t].at = @ - 1, ![t].phase = last]
          \/ /\ cp' = IF InLast(cp, f) THEN cp ELSE Discard(Before(cp, f, content[f]), f)
             /\ task' = [task EXCEPT ![t].at = @ - 1, ![t].phase = last, ![t].stuck = TRUE]
             /\ UNCHANGED content
    /\ UNCHANGED <<lockVars, undo>>

\* It gives the locks back, and forgets what it read.
Finish(t) ==
    /\ Leave(t) /\ task[t].phase = "done"
    /\ task' = [task EXCEPT ![t] = [NoTask EXCEPT !.phase = "done"]]
    /\ UNCHANGED <<content, cp, undo>>

\* The call is over: its result goes back to the model.
Return(t) ==
    /\ Unlocked(t)
    /\ task' = [task EXCEPT ![t] = [NoTask EXCEPT !.phase = "returned"]]
    /\ UNCHANGED <<content, cp, undo>>

-----------------------------------------------------------------------------
\* The calls that have read f: it changes under them.
Others(F) == [t \in Tools |-> [task[t] EXCEPT !.others = @ \cup (F \cap DOMAIN task[t].seen)]]

HasEdit(c) == c # Absent /\ User \in c

UserEdits(f) ==
    /\ ~HasEdit(content[f])
    /\ content' = [content EXCEPT ![f] = {User} \cup (IF @ = Absent THEN {} ELSE @)]
    /\ task' = Others({f})
    /\ UNCHANGED <<lockVars, cp, undo>>

BeginTurn ==
    /\ StoreFree /\ Begin(cp).nextID <= MaxTurns
    /\ cp' = Begin(cp)
    /\ UNCHANGED <<lockVars, content, task, undo>>

\* Undo takes no path lock: tools and the user may change files between its
\* check and its restores.
UndoChecks(force) ==
    /\ StoreFree /\ Undoable(cp) # {}
    /\ force \/ ~Conflict(cp, content)
    /\ undo' = [undo EXCEPT !.on = TRUE,
                            !.edited = IF force THEN {} ELSE {f \in Files : HasEdit(content[f])}]
    /\ UNCHANGED <<lockVars, content, cp, task>>

UndoRestores(failed) ==
    LET t == cp.turns[UndoTurn(cp)] IN
    /\ undo.on /\ failed \subseteq Changed(t)
    /\ Cardinality(undo.left) + Cardinality(failed) <= MaxStuck
    /\ content' = Restored(cp, content, failed)
    /\ cp' = Undone(cp, failed)
    /\ task' = Others(Changed(t) \ failed)
    /\ undo' = [NoUndo EXCEPT !.left = undo.left \cup
                   {[file |-> f, id |-> t.id, held |-> t.changes[f].before # Absent] : f \in failed}]
    /\ UNCHANGED lockVars

-----------------------------------------------------------------------------
ToolStep(t) ==
    \/ PlanChanges(t) \/ Approved(t) \/ CheckUnchanged(t) \/ Snapshot(t)
    \/ Change(t) \/ ChangeFails(t) \/ Note(t) \/ Rollback(t) \/ Finish(t) \/ Return(t)

Locking(t) ==
    /\ Locked(t) \/ Receive(t) \/ \E k \in Paths : Ref(t, k) \/ Lookup(t, k) \/ Drop(t, k)
    /\ UNCHANGED fileVars

Taking(t) == (\E k \in Paths : Take(t, k)) /\ UNCHANGED fileVars

Cancelled(t) ==
    /\ \E k \in Paths : Cancel(t, k)
    /\ task' = [task EXCEPT ![t].phase = "done", ![t].ok = FALSE]
    /\ UNCHANGED <<content, cp, undo>>

Next ==
    \/ \E t \in Tools :
          \/ \E plan \in Plans : Call(t, plan)
          \/ Locking(t) \/ Taking(t) \/ Cancelled(t) \/ ToolStep(t)
    \/ \E f \in EditFiles : UserEdits(f)
    \/ BeginTurn
    \/ \E force \in BOOLEAN : UndoChecks(force)
    \/ \E failed \in SUBSET Files : UndoRestores(failed)

Spec == Init /\ [][Next]_vars

(* A tool's goroutine goes on, approvals are answered (or the turn is        *)
(* cancelled, which denies them), an Undo goes through its files, and a      *)
(* blocked channel send gets its turn, as Go's channels serve senders in     *)
(* order.  Nothing cancels a wait.                                           *)
FairSpec ==
    /\ Spec
    /\ WF_vars(\E failed \in SUBSET Files : UndoRestores(failed))
    /\ \A t \in Tools : /\ WF_vars(Locking(t)) /\ WF_vars(ToolStep(t))
                        /\ SF_vars(Taking(t))

-----------------------------------------------------------------------------
(* When a tool writes a file it still is what the tool read, or it was       *)
(* edited outside the tools after the tool's last look: two edits of one     *)
(* file by tools never lose one (the comment on pathLocks), and no edit made *)
(* while the user was asked is lost (unchanged).                             *)
Untouched(t, f) ==
    \A i \in DOMAIN task[t].plan : task[t].plan[i].path = f =>
        task[t].at < i \/ (task[t].at = i /\ task[t].phase \in {"snap", "change"})

NoLostUpdate ==
    \A t \in Tools : pc[t] = "critical" /\ task[t].ok =>
        \A f \in DOMAIN task[t].seen :
            Untouched(t, f) /\ f \notin task[t].others => content[f] = task[t].seen[f]

(* apply_patch is all or nothing: when a change failed and the rollback did  *)
(* not, every file is what it was, but for those edited by others meanwhile  *)
(* (the comment on NewApplyPatchTool, patch.go:438-440).                         *)
AllOrNothing ==
    \A t \in Tools : pc[t] = "critical" /\ task[t].phase = "done" /\ ~task[t].ok /\ ~task[t].stuck =>
        \A f \in DOMAIN task[t].seen \ task[t].others : content[f] = task[t].seen[f]

(* The budget counts exactly the snapshots kept, whatever was discarded,     *)
(* trimmed or undone, and those of files that an undo could not put back; it *)
(* is exceeded by the changes of one turn alone.                             *)
BudgetExact ==
    /\ cp.bytes = Weight(cp.turns, LastOf(cp)) + Cardinality({u \in undo.left : u.held})
    /\ cp.bytes > MaxBytes => Cardinality(Undoable(cp)) <= 1

(* The session diff is never made from a snapshot that was dropped, but for  *)
(* a file that an undo could not put back.                                   *)
OriginalsKept ==
    \A f \in Files : cp.originals[f] # 0 =>
        \/ \E i \in DOMAIN cp.turns : cp.turns[i].id = cp.originals[f] /\ f \in Changed(cp.turns[i])
        \/ \E u \in undo.left : u.file = f /\ u.id = cp.originals[f]

(* Every snapshot is counted while it is kept, and found while it is needed, *)
(* also when tools write while an Undo is between its check and its restores *)
(* (checkpoint.go:106-205 and 219-277).                                      *)
SnapshotsAccounted == BudgetExact /\ OriginalsKept

(* Undo without force never discards an edit of the user (or the shell) that *)
(* was there when it checked: the comment on Undo, checkpoint.go:217.        *)
UndoKeepsUserEdits ==
    [][undo.on /\ ~undo'.on => \A f \in undo.edited : HasEdit(content'[f])]_vars

(* Every tool call ends, whatever the others lock: no deadlock among the     *)
(* locks of multi-file edits, no call left behind a lock.                    *)
CallsEnd == \A t \in Tools : pc[t] = "lock" ~> pc[t] = "idle"
=============================================================================
