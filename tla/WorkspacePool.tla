---------------------------- MODULE WorkspacePool ----------------------------
(***************************************************************************)
(* The server's open workspaces (internal/server/server.go): one Workspace *)
(* per directory, opened on first use by a goroutine every caller of that  *)
(* directory shares, closed by CloseWorkspace or by Server.Close.  A       *)
(* workspace owns an exclusive OS lock from the moment it is built until   *)
(* its Close releases it (internal/app/lock.go).                           *)
(*                                                                         *)
(* Every attempt to open directory d has a number i; ws[<<d, i>>] is what  *)
(* has become of it.  Directories stand for canonical() keys.              *)
(***************************************************************************)
EXTENDS Naturals

CONSTANTS Dirs,        \* the canonical workspace directories
          MaxOpens     \* bound: attempts to open one directory

ASSUME PoolAssumption == MaxOpens \in Nat \ {0}

VARIABLES closed,      \* Server.closed
          workspaces,  \* Server.workspaces: the open attempt kept for each directory, or 0
          opening,     \* Server.opening: the attempt in flight for each directory, or 0
          ws,          \* the phase of each attempt
          closer       \* where Server.Close is

poolVars == <<closed, workspaces, opening, ws, closer>>

Opens == 1..MaxOpens

(* An attempt's life: "opening" (Opener running), "built" (opened, holding  *)
(* the OS lock) or "failed"; settled as "open" (in the map) or "refused"    *)
(* (an error); then "closing" (by CloseWorkspace) or "draining" (by Close), *)
(* and at last "closed", the lock released.                                 *)
Phase == {"none", "opening", "built", "failed", "open", "refused",
          "closing", "draining", "closed"}

CloserPhase == {"no", "cancelled", "stopped", "draining", "done"}

PoolTypeOK ==
    /\ closed \in BOOLEAN
    /\ workspaces \in [Dirs -> Opens \cup {0}]
    /\ opening \in [Dirs -> Opens \cup {0}]
    /\ ws \in [Dirs \X Opens -> Phase]
    /\ closer \in CloserPhase

PoolInit ==
    /\ closed = FALSE
    /\ workspaces = [d \in Dirs |-> 0]
    /\ opening = [d \in Dirs |-> 0]
    /\ ws = [o \in Dirs \X Opens |-> "none"]
    /\ closer = "no"

-----------------------------------------------------------------------------
(* What a phase says. *)

\* The attempts whose workspace holds the directory's lock.
Owners(d) == {i \in Opens : ws[<<d, i>>] \in {"built", "open", "closing", "draining"}}

\* op.done is closed: callers waiting for the attempt go on.
Settled(d, i) == ws[<<d, i>>] \in {"open", "refused", "closing", "draining", "closed"}

\* A settled attempt that gave its callers a workspace.
Gave(d, i) == ws[<<d, i>>] \in {"open", "closing", "draining", "closed"}

\* Bound: another attempt to open d is left after this one.
Spare(d) == \E i \in Opens : ws[<<d, i>>] = "none"

NextOpen(d, i) == ws[<<d, i>>] = "none" /\ \A j \in Opens : j < i => ws[<<d, j>>] # "none"

-----------------------------------------------------------------------------
(* Server.workspace, up to the wait for the attempt, in three cases. *)

Found(d, i) ==
    /\ ~closed /\ workspaces[d] = i /\ i # 0
    /\ UNCHANGED poolVars

JoinOpening(d, i) ==
    /\ ~closed /\ workspaces[d] = 0
    /\ opening[d] = i /\ i # 0
    /\ UNCHANGED poolVars

\* A mutant: the caller does not look for an attempt already in flight.
BeginOpeningAlone(d, i) ==
    /\ ~closed /\ workspaces[d] = 0
    /\ NextOpen(d, i)
    /\ opening' = [opening EXCEPT ![d] = i]
    /\ ws' = [ws EXCEPT ![<<d, i>>] = "opening"]
    /\ UNCHANGED <<closed, workspaces, closer>>

BeginOpening(d, i) ==
    /\ ~closed /\ workspaces[d] = 0 /\ opening[d] = 0
    /\ NextOpen(d, i)
    /\ opening' = [opening EXCEPT ![d] = i]
    /\ ws' = [ws EXCEPT ![<<d, i>>] = "opening"]
    /\ UNCHANGED <<closed, workspaces, closer>>

ShutDown == closed /\ UNCHANGED poolVars

-----------------------------------------------------------------------------
(* openWorkspace: the goroutine of one attempt. *)

\* The Opener succeeds only if nobody else holds the directory's lock.
OpenerReturns(d, i) ==
    /\ ws[<<d, i>>] = "opening"
    /\ \/ Owners(d) = {} /\ ws' = [ws EXCEPT ![<<d, i>>] = "built"]
       \* ErrWorkspaceBusy (this process or another holds the lock) or any error.
       \/ (Owners(d) # {} \/ Spare(d)) /\ ws' = [ws EXCEPT ![<<d, i>>] = "failed"]
    /\ UNCHANGED <<closed, workspaces, opening, closer>>

\* A mutant: the attempt is kept whether or not the server closed meanwhile.
SettleBlindly(d, i) ==
    /\ ws[<<d, i>>] \in {"built", "failed"}
    /\ opening' = [opening EXCEPT ![d] = 0]
    /\ \/ /\ ws[<<d, i>>] = "built"
          /\ ws' = [ws EXCEPT ![<<d, i>>] = "open"]
          /\ workspaces' = [workspaces EXCEPT ![d] = i]
       \/ /\ ws[<<d, i>>] = "failed"
          /\ ws' = [ws EXCEPT ![<<d, i>>] = "refused"]
          /\ UNCHANGED workspaces
    /\ UNCHANGED <<closed, closer>>

\* Under mu: the attempt leaves `opening`; its workspace joins the map, or is
\* closed at once when the server has closed meanwhile.
Settle(d, i) ==
    /\ ws[<<d, i>>] \in {"built", "failed"}
    /\ opening' = [opening EXCEPT ![d] = 0]
    /\ \/ /\ ws[<<d, i>>] = "built" /\ ~closed
          /\ ws' = [ws EXCEPT ![<<d, i>>] = "open"]
          /\ workspaces' = [workspaces EXCEPT ![d] = i]
       \/ /\ ws[<<d, i>>] = "failed" \/ closed
          /\ ws' = [ws EXCEPT ![<<d, i>>] = "refused"]
          /\ UNCHANGED workspaces
    /\ UNCHANGED <<closed, closer>>

OpenWorkspace(d, i) == OpenerReturns(d, i) \/ Settle(d, i)

-----------------------------------------------------------------------------
(* Closing. *)

\* closeWorkspace forgets the workspace under mu and closes it afterwards.
\* With none open it does nothing, even while one is opening.
CloseWorkspace(d) ==
    /\ workspaces[d] # 0 /\ Spare(d)
    /\ ws' = [ws EXCEPT ![<<d, workspaces[d]>>] = "closing"]
    /\ workspaces' = [workspaces EXCEPT ![d] = 0]
    /\ UNCHANGED <<closed, opening, closer>>

\* Workspace.Close: the lock goes last.
WorkspaceClosed(d, i) ==
    /\ ws[<<d, i>>] \in {"closing", "draining"}
    /\ ws' = [ws EXCEPT ![<<d, i>>] = "closed"]
    /\ UNCHANGED <<closed, workspaces, opening, closer>>

\* Server.Close, once the scheduler has stopped: take the map under mu.
CloseTakesMap ==
    /\ closer = "stopped"
    /\ closed' = TRUE
    /\ ws' = [o \in Dirs \X Opens |->
                 IF workspaces[o[1]] = o[2] THEN "draining" ELSE ws[o]]
    /\ workspaces' = [d \in Dirs |-> 0]
    /\ closer' = "draining"
    /\ UNCHANGED opening

CloseReturns ==
    /\ closer = "draining"
    /\ \A o \in Dirs \X Opens : ws[o] # "draining"
    /\ closer' = "done"
    /\ UNCHANGED <<closed, workspaces, opening, ws>>

-----------------------------------------------------------------------------
(* Callers of a directory share one attempt: what is in flight for d is     *)
(* exactly what `opening` names, and a workspace in the map is open and is  *)
(* the only one that holds the directory's lock, but for one being closed.  *)
SharedOpening ==
    \A d \in Dirs :
        /\ {i \in Opens : ws[<<d, i>>] \in {"opening", "built", "failed"}} = {opening[d]} \ {0}
        /\ {i \in Opens : ws[<<d, i>>] = "open"} = {workspaces[d]} \ {0}

(* None opens after Close: when Close has returned no workspace is open and *)
(* none will be (the comment of Server.Close, server.go:85).                *)
NoneOpenAfterClose ==
    closer = "done" => \A o \in Dirs \X Opens : ws[o] \notin {"open", "draining"}

(* The pool opens each directory once and closes what it opened, whoever     *)
(* asks, fails and closes meanwhile (server.go:85-180).                      *)
PoolSound == SharedOpening /\ NoneOpenAfterClose
=============================================================================
