---------------------------- MODULE WorkspaceOpening ----------------------------
(***************************************************************************)
(* Open and Close of a workspace (internal/app/workspace.go, lock.go), with *)
(* the tool registry it owns (internal/tools/registry.go).                 *)
(*                                                                         *)
(* Several processes, or workspaces of one process, open one directory,     *)
(* by any of its spellings.  A process may end at any step; what its        *)
(* children do then is the operating system's.  What is open has a life of  *)
(* its own in other modules: here it only has things that must be let go.   *)
(***************************************************************************)
EXTENDS Naturals, Sequences, SequencesExt, FiniteSets

CONSTANTS Owners,
          Spellings,  \* paths that lead to the one directory
          NoOwner,
          MaxRoots    \* the workspace and its further roots

ASSUME OpeningAssumption == NoOwner \notin Owners /\ MaxRoots \in Nat

VARIABLES locked, \* who holds each lock file
          own     \* what each owner has

openVars == <<locked, own>>

Startable == {"hooks", "processes", "servers"}

(* at: the step of Open, or that it is closed, open, or being let go; via:   *)
(* the path it was given; roots: open handles; todo: what is to be let go.   *)
Nothing == [at |-> "closed", via |-> NoOwner, roots |-> 0, lock |-> FALSE, audit |-> FALSE,
            running |-> {}, todo |-> <<>>]

OpeningInit ==
    /\ locked = [d \in Spellings |-> NoOwner]
    /\ own = [o \in Owners |-> Nothing]

(* The lock is on the directory, whatever path leads to it.                  *)
AsGiven(path) == path
Canonical(path) == CHOOSE d \in Spellings : TRUE

-------------------------------------------------------------------------------
(* Open, up to the registry. *)

OpenBegins(o, path) ==
    /\ own[o].at = "closed"
    /\ IF locked[Canonical(path)] = NoOwner
       THEN /\ locked' = [locked EXCEPT ![Canonical(path)] = o]
            /\ own' = [own EXCEPT ![o] = [Nothing EXCEPT !.at = "registries", !.via = path, !.lock = TRUE]]
       ELSE UNCHANGED openVars \* ErrWorkspaceBusy

(* What Close of the tools and of the workspace let go, in that order.       *)
ToolsGo == <<"hooks", "processes", "servers", "roots">>
AllGo == Append(Append(ToolsGo, "audit"), "lock")

LetGo(o, things) == own' = [own EXCEPT ![o].at = "letting go", ![o].todo = things]

(* What a step that fails lets go: the deferred release of the lock is last. *)
OfFailed(step) ==
    CASE step = "registries" -> <<"lock">>
      [] step \in {"roots", "parts"} -> <<"roots", "lock">>
      [] step \in {"tools", "servers", "scripts"} -> Append(ToolsGo, "lock")
      [] step \in {"storage", "events", "engine"} -> Append(AllGo, "lock")

Fallible == {"registries", "roots", "parts", "tools", "servers", "scripts", "storage", "events", "engine"}

StepFails(o) ==
    /\ own[o].at \in Fallible
    /\ LetGo(o, OfFailed(own[o].at))
    /\ UNCHANGED locked

(* The steps: built-in and external agents and skills; roots one by one;     *)
(* command policy, sandbox, approvals and images; tools; MCP servers; hooks; *)
(* the audit log; storage, events, and the engine on the configured model.   *)
After ==
    [registries |-> "roots", roots |-> "parts", parts |-> "tools", tools |-> "servers", servers |-> "scripts",
     scripts |-> "audit", audit |-> "storage", storage |-> "events", events |-> "engine", engine |-> "open"]

OpensRoot(o) ==
    /\ own[o].at = "roots" /\ own[o].roots < MaxRoots
    /\ own' = [own EXCEPT ![o].roots = @ + 1]
    /\ UNCHANGED locked

(* A log that can't be opened is a warning.                                  *)
OpensAudit(o) ==
    /\ own[o].at = "audit"
    /\ \E opens \in BOOLEAN : own' = [own EXCEPT ![o].at = After["audit"], ![o].audit = opens]
    /\ UNCHANGED locked

Succeeds(o) ==
    /\ own[o].at \in Fallible
    /\ own[o].at = "roots" => own[o].roots > 0
    /\ own' = [own EXCEPT ![o].at = After[@]]
    /\ UNCHANGED locked

(* A workspace that is open runs hooks, processes and servers.               *)
Works(o, thing) ==
    /\ own[o].at = "open"
    /\ own' = [own EXCEPT ![o].running = @ \cup {thing}]
    /\ UNCHANGED locked

-------------------------------------------------------------------------------
LockGoesFirst(o) == own[o].at = "open" /\ LetGo(o, <<"lock">> \o AllGo) /\ UNCHANGED locked
Closes(o) == own[o].at = "open" /\ LetGo(o, AllGo) /\ UNCHANGED locked

(* release does nothing the second time.                                     *)
Released(o) == IF own[o].lock THEN [locked EXCEPT ![Canonical(own[o].via)] = NoOwner] ELSE locked

LetsGo(o) ==
    /\ own[o].at = "letting go" /\ own[o].todo # <<>>
    /\ LET thing == Head(own[o].todo)
           q == [own[o] EXCEPT !.todo = Tail(@)]
       IN /\ locked' = IF thing = "lock" THEN Released(o) ELSE locked
          /\ own' = [own EXCEPT ![o] =
                CASE thing = "lock" -> [q EXCEPT !.lock = FALSE]
                  [] thing = "audit" -> [q EXCEPT !.audit = FALSE]
                  [] thing = "roots" -> [q EXCEPT !.roots = 0]
                  [] OTHER -> [q EXCEPT !.running = @ \ {thing}]]

(* Open has failed, or Close has ended.                                      *)
AllLetGo(o) ==
    /\ own[o].at = "letting go" /\ own[o].todo = <<>>
    /\ own' = [own EXCEPT ![o].at = "closed", ![o].via = NoOwner]
    /\ UNCHANGED locked

(* The process ends: its locks and handles go with it.                       *)
Dies(o) ==
    /\ own[o].at # "closed"
    /\ locked' = Released(o)
    /\ own' = [own EXCEPT ![o] = Nothing]

OpeningNext ==
    \E o \in Owners :
        \/ \E path \in Spellings : OpenBegins(o, path)
        \/ OpensRoot(o) \/ OpensAudit(o) \/ Succeeds(o) \/ StepFails(o)
        \/ \E thing \in Startable : Works(o, thing)
        \/ Closes(o) \/ LetsGo(o) \/ AllLetGo(o) \/ Dies(o)

OpeningSpec == OpeningInit /\ [][OpeningNext]_openVars

-------------------------------------------------------------------------------
OpeningTypeOK ==
    /\ locked \in [Spellings -> Owners \cup {NoOwner}]
    /\ \A o \in Owners :
          /\ own[o].at \in DOMAIN After \cup {"closed", "open", "letting go"}
          /\ own[o].via \in Spellings \cup {NoOwner} /\ own[o].roots \in 0 .. MaxRoots
          /\ own[o].lock \in BOOLEAN /\ own[o].audit \in BOOLEAN /\ own[o].running \subseteq Startable

HasAny(o) == own[o].lock \/ own[o].audit \/ own[o].roots > 0 \/ own[o].running # {}

(* A directory has one owner at a time, by whatever path it was opened: what *)
(* an owner has open or running, it has while no other has anything - also   *)
(* while it closes, or lets go of what a failed Open took (lock.go:15-19).   *)
OneOwner == \A o, p \in Owners : o # p => ~(HasAny(o) /\ HasAny(p))

(* Whatever step of Open fails, and however often what it took is let go, no *)
(* handle, process or lock is left, and the next one can open.               *)
NothingLeft ==
    /\ \A o \in Owners : own[o].at = "closed" => ~HasAny(o)
    /\ \A d \in Spellings : locked[d] # NoOwner => own[locked[d]].lock

OpenedAlone == OneOwner /\ NothingLeft
===============================================================================
