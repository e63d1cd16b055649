--------------------------- MODULE WorkerScheduler ---------------------------
(***************************************************************************)
(* The worker scheduler (internal/server/scheduler.go) over the pool of    *)
(* workspaces, with the part of Workspace.RunWorker (internal/app/         *)
(* workers.go) that decides whether a run may go: calls of start compete   *)
(* for the run slots, each tracked call has one run goroutine, and stop    *)
(* cancels and waits for them all.                                         *)
(*                                                                         *)
(* A call's number is free again once it has returned and its run is over. *)
(* The slots channel and the wait group hold anonymous tokens in the code; *)
(* here each token names the call it was taken for, so that a leak shows.  *)
(***************************************************************************)
EXTENDS WorkspacePool, Sequences, FiniteSets

CONSTANTS Workers,        \* worker names
          MaxConcurrent,  \* SchedulerConfig.MaxConcurrent
          MaxCalls        \* bound: calls of start, and their runs, at once

ASSUME SchedulerAssumption == MaxConcurrent \in Nat \ {0} /\ MaxCalls \in Nat \ {0}

VARIABLES base,      \* scheduler.base is cancelled
          cron,      \* cron is ticking
          slots,     \* the calls holding a token of the slots channel
          slotq,     \* calls blocked sending to it, in the order they came
          waiting,   \* scheduler.waiting
          wg,        \* scheduler.wg, a token per goroutine counted
          call,      \* the calls of start
          run,       \* their run goroutines
          running    \* Workspace.running, of every workspace

schedVars == <<base, cron, slots, slotq, waiting, wg, call, run, running>>
allVars == <<poolVars, schedVars>>

Calls == 1..MaxCalls
Kinds == {"manual", "cron", "catchup"}  \* RunWorker RPC, cron job, register's catch-up

CallPC == {"new", "join", "acquire", "queued", "granted", "dropped", "track",
           "handoff", "returned"}
RunPC == {"none", "begin", "going", "release", "exit", "leave"}

CallRecord == [pc : CallPC, dir : Dirs, worker : Workers, kind : Kinds, inst : Opens]
NoCall == [pc |-> "new"]

\* started is what OnStart sets: lr is no longer nil.
RunRecord == [pc : RunPC, started : BOOLEAN]

\* A call is in the queue while it is blocked there, once.
QueueTyped ==
    /\ \A c \in Calls : call[c].pc = "queued" <=> \E i \in 1..Len(slotq) : slotq[i] = c
    /\ \A i, j \in 1..Len(slotq) : slotq[i] = slotq[j] => i = j

TypeOK ==
    /\ PoolTypeOK
    /\ base \in BOOLEAN /\ cron \in BOOLEAN
    /\ slots \in SUBSET Calls
    /\ slotq \in Seq(Calls) /\ QueueTyped
    /\ waiting \in SUBSET (Dirs \X Workers)
    /\ wg \in SUBSET (Calls \X {"start", "run"})
    /\ call \in [Calls -> CallRecord \cup {NoCall}]
    /\ run \in [Calls -> RunRecord]
    /\ running \in SUBSET (Dirs \X Opens \X Workers)

Init ==
    /\ PoolInit
    /\ base = FALSE /\ cron = TRUE
    /\ slots = {} /\ slotq = <<>> /\ waiting = {} /\ wg = {}
    /\ call = [c \in Calls |-> NoCall]
    /\ run = [c \in Calls |-> [pc |-> "none", started |-> FALSE]]
    /\ running = {}

-----------------------------------------------------------------------------
(* Names for parts of the state. *)

At(c, pc) == call[c].pc = pc
Goto(c, pc) == call' = [call EXCEPT ![c].pc = pc]
RunAt(c, pc) == run[c].pc = pc
RunGoto(c, pc) == run' = [run EXCEPT ![c].pc = pc]

Key(c) == <<call[c].dir, call[c].worker>>
Claim(c) == <<call[c].dir, call[c].inst, call[c].worker>>
Scheduled(c) == call[c].kind # "manual"
Active(c) == call[c].pc \notin {"new", "returned"}   \* start has not returned

\* start returns to its caller; a catch-up's goroutine ends with it.  A call
\* that has returned and whose run is over is forgotten.
Returned(f, c) == IF RunAt(c, "none") THEN [f EXCEPT ![c] = NoCall] ELSE [f EXCEPT ![c].pc = "returned"]
Return(c) == call' = Returned(call, c) /\ wg' = wg \ {<<c, "start">>}

\* Receive from slots: a blocked sender's token goes straight in, in order.
GiveBack(c) ==
    IF slotq = <<>>
    THEN slots' = slots \ {c} /\ UNCHANGED slotq
    ELSE slots' = (slots \ {c}) \cup {Head(slotq)} /\ slotq' = Tail(slotq)

\* The call the given-back token goes to goes on.
Woken(f) == IF slotq = <<>> THEN f ELSE [f EXCEPT ![Head(slotq)].pc = "granted"]

-----------------------------------------------------------------------------
(* start, from the call to the slot. *)

\* workspace(): the call finds the workspace open, waits for the attempt to
\* open it, or (shutting down) fails.
Start(c, d, w, k) ==
    /\ At(c, "new") /\ \A b \in Calls : b < c => ~At(b, "new")
    /\ k = "cron" => cron
    /\ k = "catchup" => ~base
    /\ \/ \E i \in Opens :
             /\ \/ Found(d, i) /\ call' = [call EXCEPT ![c] =
                      [pc |-> "acquire", dir |-> d, worker |-> w, kind |-> k, inst |-> i]]
                \/ (JoinOpening(d, i) \/ BeginOpening(d, i)) /\ call' = [call EXCEPT ![c] =
                      [pc |-> "join", dir |-> d, worker |-> w, kind |-> k, inst |-> i]]
             /\ wg' = IF k = "catchup" THEN wg \cup {<<c, "start">>} ELSE wg
       \/ ShutDown /\ UNCHANGED <<call, wg>>
    /\ UNCHANGED <<base, cron, slots, slotq, waiting, run, running>>

\* The attempt settles, with a workspace or an error; or the scheduler, whose
\* context a scheduled call has, stops.
Joined(c) ==
    /\ At(c, "join")
    /\ \/ Gave(call[c].dir, call[c].inst) /\ Goto(c, "acquire") /\ UNCHANGED wg
       \/ Settled(call[c].dir, call[c].inst) /\ ~Gave(call[c].dir, call[c].inst) /\ Return(c)
       \/ Scheduled(c) /\ base /\ Return(c)
    /\ UNCHANGED <<poolVars, base, cron, slots, slotq, waiting, run, running>>

\* The client of a RunWorker request goes away while the workspace opens.
GiveUp(c) ==
    /\ At(c, "join") /\ ~Scheduled(c)
    /\ Return(c)
    /\ UNCHANGED <<poolVars, base, cron, slots, slotq, waiting, run, running>>

\* acquire, manual: a slot at once or an error.
AcquireManual(c) ==
    /\ At(c, "acquire") /\ ~Scheduled(c)
    /\ IF Cardinality(slots) < MaxConcurrent
       THEN slots' = slots \cup {c} /\ Goto(c, "track") /\ UNCHANGED wg
       ELSE Return(c) /\ UNCHANGED slots
    /\ UNCHANGED <<poolVars, base, cron, slotq, waiting, run, running>>

\* The select of acquire: a free slot, the scheduler stopped, or block.
SelectSlot(c) ==
    \/ /\ Cardinality(slots) < MaxConcurrent
       /\ slots' = slots \cup {c} /\ Goto(c, "granted") /\ UNCHANGED slotq
    \/ base /\ Goto(c, "dropped") /\ UNCHANGED <<slots, slotq>>
    \/ /\ ~base /\ Cardinality(slots) >= MaxConcurrent
       /\ slotq' = Append(slotq, c) /\ Goto(c, "queued") /\ UNCHANGED slots

\* A mutant: a tick does not look for the same worker already waiting.
AcquireAnyway(c) ==
    /\ At(c, "acquire") /\ Scheduled(c)
    /\ waiting' = waiting \cup {Key(c)} /\ SelectSlot(c)
    /\ UNCHANGED <<poolVars, base, cron, wg, run, running>>

\* acquire, scheduled: not twice for one worker; else wait for a slot.
AcquireScheduled(c) ==
    /\ At(c, "acquire") /\ Scheduled(c)
    /\ \/ Key(c) \in waiting /\ Return(c) /\ UNCHANGED <<waiting, slots, slotq>>
       \/ /\ Key(c) \notin waiting
          /\ waiting' = waiting \cup {Key(c)} /\ SelectSlot(c) /\ UNCHANGED wg
    /\ UNCHANGED <<poolVars, base, cron, run, running>>

\* A mutant: the sender that gives up still stands in the queue.
DropStays(c) ==
    /\ At(c, "queued") /\ base
    /\ Goto(c, "dropped")
    /\ UNCHANGED <<poolVars, base, cron, slots, slotq, waiting, wg, run, running>>

\* The select again: the scheduler stops while the call is blocked.
Drop(c) ==
    /\ At(c, "queued") /\ base
    /\ \E i \in 1..Len(slotq) :
          slotq[i] = c /\ slotq' = SubSeq(slotq, 1, i - 1) \o SubSeq(slotq, i + 1, Len(slotq))
    /\ Goto(c, "dropped")
    /\ UNCHANGED <<poolVars, base, cron, slots, waiting, wg, run, running>>

\* acquire's deferred delete from waiting.
StopWaiting(c) ==
    /\ \/ At(c, "granted") /\ Goto(c, "track") /\ UNCHANGED wg
       \/ At(c, "dropped") /\ Return(c)
    /\ waiting' = waiting \ {Key(c)}
    /\ UNCHANGED <<poolVars, base, cron, slots, slotq, run, running>>

\* A mutant: the slot is kept when the scheduler has stopped.
TrackKeepsSlot(c) ==
    /\ At(c, "track")
    /\ \/ /\ ~base
          /\ wg' = wg \cup {<<c, "run">>}
          /\ Goto(c, "handoff") /\ RunGoto(c, "begin")
       \/ base /\ Return(c) /\ UNCHANGED run
    /\ UNCHANGED <<poolVars, base, cron, slots, slotq, waiting, running>>

\* A mutant: the goroutine is counted without a look at base.
TrackLate(c) ==
    /\ At(c, "track")
    /\ wg' = wg \cup {<<c, "run">>}
    /\ Goto(c, "handoff") /\ RunGoto(c, "begin")
    /\ UNCHANGED <<poolVars, base, cron, slots, slotq, waiting, running>>

\* track, and the run goroutine; or the slot is given back.
Track(c) ==
    /\ At(c, "track")
    /\ \/ /\ ~base
          /\ wg' = wg \cup {<<c, "run">>}
          /\ Goto(c, "handoff") /\ RunGoto(c, "begin")
          /\ UNCHANGED <<slots, slotq>>
       \/ /\ base
          /\ GiveBack(c)
          /\ call' = Returned(Woken(call), c)
          /\ wg' = wg \ {<<c, "start">>}
          /\ UNCHANGED run
    /\ UNCHANGED <<poolVars, base, cron, waiting, running>>

\* start's last select: the run started, or failed before it did.
Handoff(c) ==
    /\ At(c, "handoff")
    /\ run[c].started \/ run[c].pc \in {"exit", "leave", "none"}
    /\ Return(c)
    /\ UNCHANGED <<poolVars, base, cron, slots, slotq, waiting, run, running>>

-----------------------------------------------------------------------------
(* The run goroutine: RunWorker, then what start does with its result. *)

\* The worker is loaded: it must be valid and enabled at its current hash.
\* Files and store may have changed since it was scheduled.
RunRefused(c) ==
    /\ RunAt(c, "begin")
    /\ RunGoto(c, "exit")
    /\ UNCHANGED <<poolVars, base, cron, slots, slotq, waiting, wg, call, running>>

\* The worker is claimed, and the run's own session created: OnStart
\* announces the run.  Or that fails.
Begun(c) ==
    /\ running' = running \cup {Claim(c)}
    /\ \/ run' = [run EXCEPT ![c] = [pc |-> "going", started |-> TRUE]]
       \/ RunGoto(c, "release")

\* A mutant: a run of the same worker still going does not stop another.
RunClaimAnyway(c) ==
    /\ RunAt(c, "begin")
    /\ Begun(c)
    /\ UNCHANGED <<poolVars, base, cron, slots, slotq, waiting, wg, call>>

\* Under runsMu: a run of the same worker still going makes this one skipped.
RunClaim(c) ==
    /\ RunAt(c, "begin")
    /\ \/ Claim(c) \in running /\ RunGoto(c, "exit") /\ UNCHANGED running
       \/ Claim(c) \notin running /\ Begun(c)
    /\ UNCHANGED <<poolVars, base, cron, slots, slotq, waiting, wg, call>>

\* The turn ends by itself, at a limit or cancelled; the run is recorded.
RunEnd(c) ==
    /\ RunAt(c, "going")
    /\ RunGoto(c, "release")
    /\ UNCHANGED <<poolVars, base, cron, slots, slotq, waiting, wg, call, running>>

\* RunWorker returns; the run is no longer live.
RunRelease(c) ==
    /\ RunAt(c, "release")
    /\ running' = running \ {Claim(c)}
    /\ RunGoto(c, "exit")
    /\ UNCHANGED <<poolVars, base, cron, slots, slotq, waiting, wg, call>>

\* A mutant: a run that never started keeps its slot.
RunExitKeepsSlot(c) ==
    /\ RunAt(c, "exit")
    /\ IF run[c].started
       THEN GiveBack(c) /\ call' = Woken(call)
       ELSE UNCHANGED <<slots, slotq, call>>
    /\ RunGoto(c, "leave")
    /\ UNCHANGED <<poolVars, base, cron, waiting, wg, running>>

\* The goroutine's deferred calls: the slot, then the wait group.
RunExit(c) ==
    /\ RunAt(c, "exit")
    /\ GiveBack(c) /\ call' = Woken(call)
    /\ RunGoto(c, "leave")
    /\ UNCHANGED <<poolVars, base, cron, waiting, wg, running>>

NoRun == [pc |-> "none", started |-> FALSE]

\* A mutant: a run that never started is not taken off the wait group.
RunLeaveStarted(c) ==
    /\ RunAt(c, "leave")
    /\ wg' = IF run[c].started THEN wg \ {<<c, "run">>} ELSE wg
    /\ run' = [run EXCEPT ![c] = NoRun]
    /\ call' = IF At(c, "returned") THEN [call EXCEPT ![c] = NoCall] ELSE call
    /\ UNCHANGED <<poolVars, base, cron, slots, slotq, waiting, running>>

RunLeave(c) ==
    /\ RunAt(c, "leave")
    /\ wg' = wg \ {<<c, "run">>}
    /\ run' = [run EXCEPT ![c] = NoRun]
    /\ call' = IF At(c, "returned") THEN [call EXCEPT ![c] = NoCall] ELSE call
    /\ UNCHANGED <<poolVars, base, cron, slots, slotq, waiting, running>>

-----------------------------------------------------------------------------
(* The end of the scheduler. *)

\* StartScheduler's context ends: base is cancelled, and nobody waits yet.
ContextDone ==
    /\ ~base /\ base' = TRUE
    /\ UNCHANGED <<poolVars, cron, slots, slotq, waiting, wg, call, run, running>>

\* Server.Close calls stop: cancel under mu, stop cron, ...
StopCancels ==
    /\ closer = "no" /\ closer' = "cancelled"
    /\ base' = TRUE /\ cron' = FALSE
    /\ UNCHANGED <<closed, workspaces, opening, ws, slots, slotq, waiting, wg, call, run, running>>

\* ... then wait for cron's jobs and for every goroutine counted.
StopWaits ==
    /\ closer = "cancelled"
    /\ \A c \in Calls : Active(c) => call[c].kind # "cron"
    /\ wg = {}
    /\ closer' = "stopped"
    /\ UNCHANGED <<closed, workspaces, opening, ws, schedVars>>

PoolStep ==
    /\ \/ \E d \in Dirs : CloseWorkspace(d) \/ \E i \in Opens : OpenWorkspace(d, i) \/ WorkspaceClosed(d, i)
       \/ CloseTakesMap
       \/ CloseReturns
    /\ UNCHANGED schedVars

CallStep(c) ==
    \/ Joined(c) \/ AcquireManual(c) \/ AcquireScheduled(c) \/ Drop(c)
    \/ StopWaiting(c) \/ Track(c) \/ Handoff(c)

RunStep(c) ==
    \/ RunRefused(c) \/ RunClaim(c) \/ RunEnd(c) \/ RunRelease(c) \/ RunExit(c)
    \/ RunLeave(c)

Next ==
    \/ \E c \in Calls, d \in Dirs, w \in Workers, k \in Kinds : Start(c, d, w, k)
    \/ \E c \in Calls : CallStep(c) \/ GiveUp(c) \/ RunStep(c)
    \/ ContextDone \/ StopCancels \/ StopWaits
    \/ PoolStep

(* Goroutines that can go on do: each call, each run (a model's turn ends or *)
(* notices the cancellation), the opening and closing of workspaces, and     *)
(* Close once it is called.  Nothing makes callers call.                     *)
Fairness ==
    /\ \A c \in Calls : WF_allVars(CallStep(c)) /\ WF_allVars(RunStep(c))
    /\ \A d \in Dirs, i \in Opens :
           WF_allVars((OpenWorkspace(d, i) \/ WorkspaceClosed(d, i)) /\ UNCHANGED schedVars)
    /\ WF_allVars(StopWaits)
    /\ WF_allVars((CloseTakesMap \/ CloseReturns) /\ UNCHANGED schedVars)

Spec == Init /\ [][Next]_allVars
FairSpec == Spec /\ Fairness

-----------------------------------------------------------------------------
(* Properties. *)

Holding(c) == \/ call[c].pc \in {"granted", "track"}
              \/ run[c].pc \notin {"none", "leave"}

(* Every slot taken is held by a start on its way to a run or by a run that  *)
(* has not ended, whichever way each path leaves (refused, failed before it  *)
(* started, scheduler stopped), and there are at most MaxConcurrent.         *)
SlotsAccounted ==
    /\ slots = {c \in Calls : Holding(c)}
    /\ Cardinality(slots) <= MaxConcurrent

(* A worker that falls behind runs once, not once per missed tick: at most   *)
(* one call per worker waits for a slot, and waiting is cleared with it.     *)
Waits(c) == call[c].pc \in {"queued", "granted", "dropped"} /\ Scheduled(c)

WaitsOnce ==
    /\ \A b, c \in Calls : Waits(b) /\ Waits(c) /\ Key(b) = Key(c) => b = c
    /\ waiting = {Key(c) : c \in {b \in Calls : Waits(b)}}

(* What a start takes, a slot and a waiting mark, it gives back on every     *)
(* path and no other call takes beside it (scheduler.go:223-347).            *)
StartsAccounted == SlotsAccounted /\ WaitsOnce

(* Once stop has returned no run goroutine is left and none will begin, so   *)
(* Close closes no workspace under a run (the comment in Server.Close, "runs *)
(* use their workspace until they end").                                     *)
StoppedIsQuiet ==
    closer \in {"stopped", "draining", "done"} =>
        \A c \in Calls : run[c].pc = "none"

Working(c) == run[c].pc = "going"

(* On one open workspace, at most one run of a worker goes at a time.        *)
OneRunPerWorkspace ==
    \A b, c \in Calls : Working(b) /\ Working(c) /\ Claim(b) = Claim(c) => b = c

(* The same for a worker of a directory, however often its workspace was     *)
(* closed and opened again: what RunWorker's comment and lock.go promise.    *)
OneRunPerWorker ==
    \A b, c \in Calls : Working(b) /\ Working(c) /\ Key(b) = Key(c) => b = c

(* Close returns, whatever calls and runs it finds.                          *)
CloseEnds == closer = "cancelled" ~> closer = "done"

(* A scheduled run waiting for a slot gets out of the queue: it gets a slot, *)
(* in its turn, or the scheduler stops.                                      *)
QueueMoves == \A c \in Calls : At(c, "queued") ~> ~At(c, "queued")

(* After Close the locks of every workspace are released, also of one that   *)
(* was still opening.                                                        *)
LocksReleased == closer = "done" ~> \A d \in Dirs : Owners(d) = {}
(* Closing the service ends, and gives back every directory.                 *)
CloseReleases == CloseEnds /\ LocksReleased
=============================================================================
