------------------------------- MODULE Processes -------------------------------
(***************************************************************************)
(* Background processes (internal/tools/background.go).  The manager       *)
(* learns of an exit from a goroutine per process that waits for it; Start *)
(* runs under the manager's lock, as does every look at the map; Kill and  *)
(* Shutdown cancel without it, so starts and exits come in between.        *)
(***************************************************************************)
EXTENDS Integers, FiniteSets, Sequences, SequencesExt

CONSTANTS MaxStarts,   \* bound: processes started
          MaxRunning,  \* limit of processes running at once
          MaxRetained, \* finished processes kept for their output
          Closers      \* calls of Shutdown: the terminal's and the registry's

ASSUME ProcessAssumption == MaxStarts \in Nat /\ MaxRunning \in Nat

VARIABLES process,   \* what has become of each process
          cancelled, \* processes whose context was cancelled
          tracked,   \* the manager's map
          refusing,  \* the manager is shut down
          closer     \* each Shutdown: its place and the processes it found

processVars == <<process, cancelled, tracked, refusing, closer>>

Ids == 1 .. MaxStarts

Alive == {p \in Ids : process[p] = "running"}
Started == {p \in Ids : process[p] # "unborn"}
(* bp.finished is set only after Wait has returned, and done is closed last. *)
Finished == {p \in Ids : process[p] \in {"finished", "done"}}

ProcessInit ==
    /\ process = [p \in Ids |-> "unborn"]
    /\ cancelled = {} /\ tracked = {} /\ refusing = FALSE
    /\ closer = [c \in Closers |-> [pc |-> "idle", found |-> {}]]

-------------------------------------------------------------------------------
(* The oldest finished processes beyond those retained; by age alone, a      *)
(* process that still runs would go too.                                     *)
PrunedByAge == {p \in tracked : Cardinality({q \in tracked : q > p}) >= MaxRetained}

Pruned ==
    LET done == tracked \cap Finished
    IN {p \in done : Cardinality({q \in done : q > p}) >= MaxRetained}

Counted == tracked \ Finished

AcceptingAlways == TRUE
Accepting == ~refusing

(* Start: refused when shut down or at the limit; an attempt that fails to   *)
(* start its command has pruned all the same.                                *)
StartProcess(starts) ==
    LET new == Cardinality(Started) + 1 IN
    /\ Accepting /\ Cardinality(Counted) < MaxRunning /\ new \in Ids
    /\ IF starts
       THEN /\ tracked' = (tracked \ Pruned) \cup {new}
            /\ process' = [process EXCEPT ![new] = "running"]
       ELSE tracked' = tracked \ Pruned /\ UNCHANGED process
    /\ UNCHANGED <<cancelled, refusing, closer>>

(* It ends by itself, at its lifetime or because it was killed. *)
Exit(p) ==
    /\ process[p] = "running"
    /\ process' = [process EXCEPT ![p] = "exited"]
    /\ UNCHANGED <<cancelled, tracked, refusing, closer>>

(* The waiting goroutine: cancel, then the marks under the lock, then done. *)
MarkFinished(p) ==
    /\ process[p] = "exited"
    /\ process' = [process EXCEPT ![p] = "finished"]
    /\ cancelled' = cancelled \cup {p}
    /\ UNCHANGED <<tracked, refusing, closer>>

CloseDone(p) ==
    /\ process[p] = "finished"
    /\ process' = [process EXCEPT ![p] = "done"]
    /\ UNCHANGED <<cancelled, tracked, refusing, closer>>

Kill(p) ==
    /\ p \in tracked
    /\ cancelled' = cancelled \cup {p}
    /\ UNCHANGED <<process, tracked, refusing, closer>>

-------------------------------------------------------------------------------
(* Shutdown. *)

At(c, pc) == closer[c].pc = pc

Refuse(c) ==
    /\ At(c, "idle")
    /\ refusing' = TRUE
    /\ closer' = [closer EXCEPT ![c].pc = "refusing"]
    /\ UNCHANGED <<process, cancelled, tracked>>

Find(c) ==
    /\ At(c, "refusing")
    /\ closer' = [closer EXCEPT ![c] = [pc |-> "cancelling", found |-> tracked]]
    /\ UNCHANGED <<process, cancelled, tracked, refusing>>

CancelAll(c) ==
    /\ At(c, "cancelling")
    /\ cancelled' = cancelled \cup closer[c].found
    /\ closer' = [closer EXCEPT ![c].pc = "waiting"]
    /\ UNCHANGED <<process, tracked, refusing>>

(* Every one is done, or the deadline has passed. *)
ShutdownReturns(c) ==
    /\ At(c, "waiting")
    /\ closer' = [closer EXCEPT ![c].pc = "returned"]
    /\ UNCHANGED <<process, cancelled, tracked, refusing>>

ProcessNext ==
    \/ \E starts \in BOOLEAN : StartProcess(starts)
    \/ \E p \in Ids : Exit(p) \/ MarkFinished(p) \/ CloseDone(p) \/ Kill(p)
    \/ \E c \in Closers : Refuse(c) \/ Find(c) \/ CancelAll(c) \/ ShutdownReturns(c)

ProcessSpec == ProcessInit /\ [][ProcessNext]_processVars

-------------------------------------------------------------------------------
ProcessTypeOK ==
    /\ process \in [Ids -> {"unborn", "running", "exited", "finished", "done"}]
    /\ cancelled \cup tracked \subseteq Started
    /\ refusing \in BOOLEAN

(* A process that runs is in the map, where it can be listed, killed and     *)
(* counted, whatever was pruned and however late its exit was noticed; so no *)
(* more run than the limit allows (background.go:78-89 and 127-142).         *)
RunningTracked ==
    /\ Alive \subseteq tracked
    /\ Cardinality(Alive) <= MaxRunning

(* "Shutdown kills every running process and refuses new ones": once it has  *)
(* cancelled, none runs that wasn't cancelled and none will be started, not  *)
(* even by a Start that was under way (background.go:243-253).               *)
ShutdownKills ==
    \A c \in Closers : closer[c].pc \in {"waiting", "returned"} => refusing /\ Alive \subseteq cancelled

-------------------------------------------------------------------------------
(***************************************************************************)
(* The queue of post_tool hooks (internal/tools/scripthooks.go): tool      *)
(* calls queue events for one worker, which the first of them starts;      *)
(* flush puts a marker behind the events queued so far and waits for it;   *)
(* Close takes no more, lets the worker drain the queue for a while and    *)
(* then kills the hooks still running.                                     *)
(*                                                                         *)
(* sync.Once starts the queue without the queue's lock, so Close may find  *)
(* it half started: the three steps of starting are separate here.         *)
(***************************************************************************)

CONSTANTS Tellers,   \* tool calls and flushes that may overlap
          QueueSize, \* bound of the code: events waiting
          MaxTold,   \* bound: events and markers ever queued
          Enders     \* calls of Close

VARIABLES started,  \* how far startPost is: "no", "jobs" or "all"
          closed,   \* no more events are taken
          queue,    \* the channel of jobs: events and flush markers, by number
          open,     \* the channel isn't closed
          worker,   \* "none", "idle", "busy" or "ended"
          current,  \* the event it handles, or 0
          killed,   \* the hooks' context is cancelled
          teller,   \* each tool call's place, and the marker it waits for
          ender,    \* each Close's place
          told,     \* events and markers queued so far, in order
          markers,  \* which of them are markers
          handled   \* events handled and markers reached so far, in order

hookVars == <<started, closed, queue, open, worker, current, killed, teller, ender, told, markers, handled>>

Quiet == [pc |-> "idle", marker |-> 0]

HookInit ==
    /\ started = "no" /\ closed = FALSE /\ open = TRUE /\ killed = FALSE
    /\ queue = <<>> /\ worker = "none" /\ current = 0
    /\ teller = [t \in Tellers |-> Quiet]
    /\ ender = [e \in Enders |-> "idle"]
    /\ told = <<>> /\ markers = {} /\ handled = <<>>

-------------------------------------------------------------------------------
(* PostTool and flush.                                                       *)

(* The first caller starts the queue; the others wait until it has.          *)
Arrive(t, pc) ==
    /\ teller[t].pc = "idle"
    /\ teller' = [teller EXCEPT ![t].pc = pc]
    /\ UNCHANGED <<started, closed, queue, open, worker, current, killed, ender, told, markers, handled>>

StartPost ==
    /\ \E t \in Tellers : teller[t].pc \in {"event", "flush"}
    /\ \/ started = "no" /\ started' = "jobs" /\ UNCHANGED worker
       \/ started = "jobs" /\ started' = "all" /\ worker' = "idle"
    /\ UNCHANGED <<closed, queue, open, current, killed, teller, ender, told, markers, handled>>

(* Close needs the write lock to close the channel: under the read lock a    *)
(* closed queue is seen as closed.                                           *)
TakenAlways == TRUE
Taken == ~closed

Number == Len(told) + 1

Enqueue == told' = Append(told, Number) /\ queue' = Append(queue, Number)

(* A full queue drops the event. *)
Tell(t) ==
    /\ teller[t].pc = "event" /\ started = "all"
    /\ teller' = [teller EXCEPT ![t] = Quiet]
    /\ IF Taken /\ Len(queue) < QueueSize
       THEN Number <= MaxTold /\ Enqueue
       ELSE UNCHANGED <<told, queue>>
    /\ UNCHANGED <<started, closed, open, worker, current, killed, ender, markers, handled>>

(* flush waits for room with the read lock held; its context may end.        *)
Mark(t) ==
    /\ teller[t].pc = "flush" /\ started = "all"
    /\ IF Taken
       THEN \/ /\ Len(queue) < QueueSize /\ Number <= MaxTold
               /\ Enqueue
               /\ markers' = markers \cup {Number}
               /\ teller' = [teller EXCEPT ![t] = [pc |-> "waiting", marker |-> Number]]
            \/ teller' = [teller EXCEPT ![t] = Quiet] /\ UNCHANGED <<told, queue, markers>>
       ELSE teller' = [teller EXCEPT ![t] = Quiet] /\ UNCHANGED <<told, queue, markers>>
    /\ UNCHANGED <<started, closed, open, worker, current, killed, ender, handled>>

FlushReturns(t) ==
    /\ teller[t].pc = "waiting"
    /\ \/ teller[t].marker \in ToSet(handled)
          /\ teller' = [teller EXCEPT ![t].pc = "flushed"]
       \/ teller' = [teller EXCEPT ![t] = Quiet]
    /\ UNCHANGED <<started, closed, queue, open, worker, current, killed, ender, told, markers, handled>>

AfterFlush(t) ==
    /\ teller[t].pc = "flushed"
    /\ teller' = [teller EXCEPT ![t] = Quiet]
    /\ UNCHANGED <<started, closed, queue, open, worker, current, killed, ender, told, markers, handled>>

-------------------------------------------------------------------------------
(* The worker. *)

TakeJob ==
    /\ worker = "idle" /\ queue # <<>>
    /\ queue' = Tail(queue)
    /\ IF Head(queue) \in markers
       THEN handled' = Append(handled, Head(queue)) /\ UNCHANGED <<worker, current>>
       ELSE worker' = "busy" /\ current' = Head(queue) /\ UNCHANGED handled
    /\ UNCHANGED <<started, closed, open, killed, teller, ender, told, markers>>

(* The hooks of one event end, fail, are killed or panic. *)
HooksEnd ==
    /\ worker = "busy"
    /\ handled' = Append(handled, current)
    /\ worker' = "idle" /\ current' = 0
    /\ UNCHANGED <<started, closed, queue, open, killed, teller, ender, told, markers>>

WorkerEnds ==
    /\ worker = "idle" /\ queue = <<>> /\ ~open
    /\ worker' = "ended"
    /\ UNCHANGED <<started, closed, queue, open, current, killed, teller, ender, told, markers, handled>>

-------------------------------------------------------------------------------
(* Close. *)

CloseQueue(e) ==
    /\ ender[e] = "idle"
    /\ closed' = TRUE
    /\ open' = (started = "no" /\ open)
    /\ ender' = [ender EXCEPT ![e] = IF started = "no" THEN "returned" ELSE "draining"]
    /\ UNCHANGED <<started, queue, worker, current, killed, teller, told, markers, handled>>

(* The drain timeout, which the start of the queue doesn't outlast.          *)
DrainTimeout(e) ==
    /\ ender[e] = "draining" /\ started = "all"
    /\ killed' = TRUE
    /\ ender' = [ender EXCEPT ![e] = "killing"]
    /\ UNCHANGED <<started, closed, queue, open, worker, current, teller, told, markers, handled>>

CloseReturns(e) ==
    /\ ender[e] \in {"draining", "killing"} /\ worker = "ended"
    /\ killed' = TRUE
    /\ ender' = [ender EXCEPT ![e] = "returned"]
    /\ UNCHANGED <<started, closed, queue, open, worker, current, teller, told, markers, handled>>

HookNext ==
    \/ StartPost \/ TakeJob \/ HooksEnd \/ WorkerEnds
    \/ \E e \in Enders : CloseQueue(e) \/ DrainTimeout(e) \/ CloseReturns(e)
    \/ \E t \in Tellers : \/ \E pc \in {"event", "flush"} : Arrive(t, pc)
                          \/ Tell(t) \/ Mark(t) \/ FlushReturns(t) \/ AfterFlush(t)

HookSpec == HookInit /\ [][HookNext]_hookVars

-------------------------------------------------------------------------------
HookTypeOK ==
    /\ started \in {"no", "jobs", "all"}
    /\ worker \in {"none", "idle", "busy", "ended"}
    /\ worker = "busy" <=> current # 0
    /\ worker = "none" <=> started # "all"
    /\ Len(queue) <= QueueSize /\ markers \subseteq ToSet(told)
    /\ \A e \in Enders : ender[e] \in {"idle", "draining", "killing", "returned"}

(* Once a Close has returned no hook runs and none will: what was queued has *)
(* been handled, in order, and nothing more is taken, also when the first    *)
(* event starts the queue just before or after Close looks for it            *)
(* (scripthooks.go:133-150 and 214-237).                                     *)
ClosedIsQuiet ==
    \A e \in Enders : ender[e] = "returned" => closed /\ worker # "busy" /\ handled = told

(* "flush waits until every post_tool event queued so far has been handled":  *)
(* when it says so, every event queued before it has (scripthooks.go:187-210).*)
FlushedIsHandled ==
    \A t \in Tellers : teller[t].pc = "flushed" => 1 .. teller[t].marker \subseteq ToSet(handled)

(* What Close and flush tell their callers of the queue is so.               *)
QueueToldTruly == ClosedIsQuiet /\ FlushedIsHandled
-------------------------------------------------------------------------------
(***************************************************************************)
(* One shell command of the model's (internal/tools/shell.go), behind the  *)
(* pre_tool hooks of the call (internal/tools/scripthooks.go and           *)
(* internal/runtime/engine.go: beforeTool).  Hooks and commands are        *)
(* processes with a deadline each, and the turn may be cancelled at any    *)
(* time; what a process did is looked at after it has ended, and the       *)
(* deadline may have passed in between.  One left in the background is the *)
(* manager's, above.                                                       *)
(***************************************************************************)

CONSTANT MaxHooks \* bound: pre_tool hooks configured

VARIABLES ordered, \* the call, and what it meets
          hooked,  \* what its hooks have done so far, in order
          shell    \* how far it is, and what became of it

shellVars == <<ordered, hooked, shell>>

(* A hook may be for this tool, and be fail_closed. *)
PreHooks == SUBSET {"for it", "fail closed"}

(* The call: in plan mode, with no command or a directory elsewhere, to be   *)
(* left in the background; and what the policy says of its command.          *)
ShellOrders ==
    [hooks : UNION {[1 .. n -> PreHooks] : n \in 0 .. MaxHooks}, is : SUBSET {"planned", "invalid", "background"},
     verdict : {"deny", "auto", "ask"}]

PlainOrder == [hooks |-> <<>>, is |-> {}, verdict |-> "auto"]

(* `came` is what happened on the way, `child` the command's process. *)
ShellInit ==
    /\ ordered \in ShellOrders /\ hooked = <<>>
    /\ shell = [at |-> "called", came |-> {}, child |-> "none", exit |-> 0, error |-> "none", code |-> 0]

Is(what) == what \in ordered.is
Came(what) == what \in shell.came
NextHook == ordered.hooks[Len(hooked) + 1]

Over(error, code) == [shell EXCEPT !.at = "returned", !.error = error, !.code = code]

BeginsCall ==
    /\ shell.at = "called"
    /\ shell' = IF Is("planned") THEN Over("plan mode", 0) ELSE [shell EXCEPT !.at = "hooks"]
    /\ UNCHANGED <<ordered, hooked>>

CancelTurn ==
    /\ shell.at # "returned"
    /\ shell' = [shell EXCEPT !.came = @ \cup {"cancelled"}]
    /\ UNCHANGED <<ordered, hooked>>

(* What a hook does, within its deadline or not: exit 2 and a decision it    *)
(* prints block.                                                             *)
HookEnds == [ended : {"exit 2", "prints block", "exit 0", "fails"}, time : {"left", "over"}]
PassedOver == [ended |-> "none", time |-> "left"]

(* ScriptHooks.run: one whose deadline has passed has failed, whatever it    *)
(* printed or returned.                                                      *)
HookFails(end) == end.time = "over" \/ end.ended = "fails"
HookBlocks(end) == ~HookFails(end) /\ end.ended # "exit 0"

(* dispatch: hooks for other tools are passed over; the first that blocks,   *)
(* or fails and is fail_closed, ends the call, and the failure of another is *)
(* only reported.                                                            *)
PassHook ==
    /\ shell.at = "hooks" /\ Len(hooked) < Len(ordered.hooks) /\ "for it" \notin NextHook
    /\ hooked' = Append(hooked, PassedOver)
    /\ UNCHANGED <<ordered, shell>>

RunHook(end) ==
    /\ shell.at = "hooks" /\ Len(hooked) < Len(ordered.hooks) /\ "for it" \in NextHook
    /\ hooked' = Append(hooked, end)
    /\ shell' = IF HookBlocks(end) \/ (HookFails(end) /\ "fail closed" \in NextHook) THEN Over("blocked by hook", 0) ELSE shell
    /\ UNCHANGED ordered

(* runShellCommand: command and directory, the policy, and the user. *)
JudgeCommand ==
    /\ shell.at = "hooks" /\ Len(hooked) = Len(ordered.hooks)
    /\ shell' = IF Is("invalid") THEN Over("invalid", 0)
                ELSE CASE ordered.verdict = "deny" -> Over("blocked by policy", 0)
                       [] ordered.verdict = "auto" -> [shell EXCEPT !.at = "starting"]
                       [] ordered.verdict = "ask" -> [shell EXCEPT !.at = "asking", !.came = @ \cup {"asked"}]
    /\ UNCHANGED <<ordered, hooked>>

AnswerCommand ==
    /\ shell.at = "asking"
    /\ shell' \in {Over("denied", 0), [shell EXCEPT !.at = "starting", !.came = @ \cup {"approved"}]}
    /\ UNCHANGED <<ordered, hooked>>

(* In the background, where the manager may refuse it, or here, where it may *)
(* not be prepared or not be started.                                        *)
StartCommand ==
    /\ shell.at = "starting"
    /\ shell' \in IF Is("background")
                  THEN {Over("failed", 0), [Over("none", 0) EXCEPT !.child = "background"]}
                  ELSE {Over("failed", 0), [shell EXCEPT !.at = "ended", !.exit = 1, !.error = "failed"],
                        [shell EXCEPT !.at = "running", !.child = "running"]}
    /\ UNCHANGED <<ordered, hooked>>

DeadlinePasses ==
    /\ shell.at \in {"running", "ended"}
    /\ shell' = [shell EXCEPT !.came = @ \cup {"late"}]
    /\ UNCHANGED <<ordered, hooked>>

(* It ends by itself, perhaps with something left that holds its output, or  *)
(* is killed: at the deadline, with the turn, or by anyone.                  *)
CommandEnds ==
    /\ shell.at = "running"
    /\ \/ \E exit \in {0, 2} : shell' = [shell EXCEPT !.at = "ended", !.child = "exited", !.exit = exit]
       \/ shell' = [shell EXCEPT !.at = "ended", !.child = "exited", !.exit = 1, !.error = "failed"]
       \/ shell' = [shell EXCEPT !.at = "ended", !.child = "killed", !.exit = -1]
    /\ UNCHANGED <<ordered, hooked>>

(* "Check the context first: a killed process also surfaces as an            *)
(* ExitError" (shell.go:161).                                                *)
TellCommand ==
    /\ shell.at = "ended"
    /\ shell' = IF Came("cancelled") THEN Over("cancelled", -1)
                ELSE IF Came("late") THEN Over("timed out", -1)
                ELSE Over(shell.error, shell.exit)
    /\ UNCHANGED <<ordered, hooked>>

ShellNext ==
    \/ BeginsCall \/ CancelTurn \/ PassHook \/ JudgeCommand \/ AnswerCommand \/ StartCommand \/ DeadlinePasses \/ CommandEnds
    \/ TellCommand
    \/ \E end \in HookEnds : RunHook(end)

ShellSpec == ShellInit /\ [][ShellNext]_shellVars

ShellTypeOK ==
    /\ ordered \in ShellOrders
    /\ hooked \in Seq(HookEnds \cup {PassedOver}) /\ Len(hooked) <= Len(ordered.hooks)
    /\ shell \in [at : {"called", "hooks", "asking", "starting", "running", "ended", "returned"},
                  came : SUBSET {"cancelled", "asked", "approved", "late"},
                  child : {"none", "background", "running", "exited", "killed"},
                  exit : -1 .. 2, code : -1 .. 2,
                  error : {"none", "plan mode", "blocked by hook", "invalid", "blocked by policy", "denied", "failed", "timed out", "cancelled"}]

(* A hook lets a call through: it isn't for the tool, did what it is for in *)
(* time and said nothing against it, or failed and isn't fail_closed.        *)
LetsThrough(hook, end) ==
    \/ "for it" \notin hook
    \/ end.ended = "exit 0" /\ end.time = "left"
    \/ HookFails(end) /\ "fail closed" \notin hook

LetThrough(i) == LetsThrough(ordered.hooks[i], hooked[i])

(* "Exit 2 blocks or print a block decision; other failures warn unless      *)
(* fail_closed" (README.md:201): nobody is asked about a command, and none   *)
(* is started, that a hook of the call blocked, in plan mode or against the  *)
(* policy, and none without the approval it needs; no hook runs after one    *)
(* that blocked.  What is told of a command is so: one that isn't said to    *)
(* have failed ended with that code, or runs in the background, and one that *)
(* was killed for its time or with the turn is never given as its own end    *)
(* (shell.go:73-180, scripthooks.go:271-350).                                *)
ShellTold ==
    /\ Came("asked") \/ shell.child # "none" =>
           /\ ~Is("planned") /\ ~Is("invalid") /\ Len(hooked) = Len(ordered.hooks)
           /\ \A i \in 1 .. Len(hooked) : LetThrough(i)
           /\ ordered.verdict = "auto" \/ (ordered.verdict = "ask" /\ (shell.child = "none" \/ Came("approved")))
    /\ \A i \in 1 .. Len(hooked) - 1 : LetThrough(i)
    /\ shell.at = "returned" =>
           /\ shell.child # "running"
           /\ shell.error = "none" =>
                  IF Is("background") THEN shell.child = "background"
                  ELSE shell.child \in {"exited", "killed"} /\ shell.code = shell.exit /\ ~Came("late") /\ ~Came("cancelled")
           /\ shell.error = "timed out" => Came("late") /\ ~Came("cancelled")
           /\ shell.error = "cancelled" => Came("cancelled")
           /\ shell.error = "blocked by hook" => ~LetThrough(Len(hooked))

(* No process escapes the manager, in its life or at its end, no command of  *)
(* the model's is run that may not be, and what it came to is told truly.    *)
NoneEscapes == RunningTracked /\ ShutdownKills /\ ShellTold
===============================================================================
