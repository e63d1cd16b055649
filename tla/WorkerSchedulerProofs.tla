------------------------ MODULE WorkerSchedulerProofs ------------------------
(***************************************************************************)
(* Proofs about the pool of workspaces and the worker scheduler over it,   *)
(* for any directories, workers, slots and calls.                          *)
(*                                                                         *)
(* None of the properties is inductive.  That an open workspace is the     *)
(* only owner of its directory's lock rests on the lock's exclusivity      *)
(* (OneOwner); that no slot leaks, on which run belongs to which call      *)
(* (Paired) and on the queue being exactly the calls blocked in it; that   *)
(* no run is left after stop, on every run being counted in the wait group *)
(* (RunsCounted) and on `base` staying cancelled; that a worker runs once  *)
(* per workspace, on claims outliving the runs that took them (ClaimsKept).*)
(***************************************************************************)
EXTENDS WorkerScheduler, FiniteSetTheorems, SequenceTheorems, TLAPS

(* One attempt at a time holds a directory's lock. *)
OneOwner == \A d \in Dirs : \A i, j \in Owners(d) : i = j

(* How far Close is, what it has closed, and that the scheduler stops first. *)
Closing ==
    /\ closed <=> closer \in {"draining", "done"}
    /\ closed => \A d \in Dirs : workspaces[d] = 0
    /\ closer = "done" => \A d \in Dirs, i \in Opens : ws[<<d, i>>] # "draining"
    /\ closer # "no" => base

PoolInv == PoolTypeOK /\ SharedOpening /\ OneOwner /\ Closing

SchedTypeOK ==
    /\ base \in BOOLEAN /\ cron \in BOOLEAN
    /\ slots \in SUBSET Calls
    /\ slotq \in Seq(Calls)
    /\ waiting \in SUBSET (Dirs \X Workers)
    /\ wg \in SUBSET (Calls \X {"start", "run"})
    /\ call \in [Calls -> CallRecord \cup {NoCall}]
    /\ run \in [Calls -> RunRecord]
    /\ running \in SUBSET (Dirs \X Opens \X Workers)

(* A run belongs to a call that has handed it off, and a call that returned  *)
(* is remembered for its run; only a scheduled call waits for a slot.        *)
Paired ==
    \A c \in Calls :
        /\ ~RunAt(c, "none") => call[c].pc \in {"handoff", "returned"}
        /\ At(c, "returned") => ~RunAt(c, "none")
        /\ call[c].pc \in {"queued", "granted", "dropped"} => Scheduled(c)

RunsCounted == \A c \in Calls : ~RunAt(c, "none") => <<c, "run">> \in wg

(* From its claim to its release. *)
Claimed(c) == run[c].pc \in {"going", "release"}

ClaimsKept ==
    /\ \A c \in Calls : Claimed(c) => Claim(c) \in running
    /\ \A b, c \in Calls : Claimed(b) /\ Claimed(c) /\ Claim(b) = Claim(c) => b = c

SchedInv ==
    /\ PoolInv /\ SchedTypeOK /\ QueueTyped /\ Paired
    /\ SlotsAccounted /\ WaitsOnce /\ RunsCounted /\ StoppedIsQuiet /\ ClaimsKept

USE SchedulerAssumption, PoolAssumption

-------------------------------------------------------------------------------
(* The pool: one step per action that touches it. *)

LEMMA PoolInit0 == Init => PoolInv
<1> SUFFICES ASSUME Init PROVE PoolInv
    OBVIOUS
<1>1. /\ closed = FALSE /\ closer = "no" /\ workspaces = [d \in Dirs |-> 0]
      /\ opening = [d \in Dirs |-> 0] /\ ws = [o \in Dirs \X Opens |-> "none"]
    BY DEF Init, PoolInit
<1>2. PoolTypeOK
    BY <1>1 DEF PoolTypeOK, Phase, CloserPhase
<1>3. \A d \in Dirs, i \in Opens : ws[<<d, i>>] = "none"
    BY <1>1
<1>4. SharedOpening /\ OneOwner
    BY <1>1, <1>3 DEF SharedOpening, OneOwner, Owners
<1>5. Closing
    BY <1>1 DEF Closing
<1> QED
    BY <1>2, <1>4, <1>5 DEF PoolInv

\* Nothing of the pool changes; base may be cancelled.
LEMMA PoolFixed ==
    ASSUME PoolInv, UNCHANGED poolVars, base => base'
    PROVE  PoolInv'
BY DEF PoolInv, poolVars, PoolTypeOK, SharedOpening, OneOwner, Closing, Owners

\* One attempt goes from one phase to another that owns the lock only if the
\* first did, or nobody does.
Becomes(d, i, ph) == ws' = [ws EXCEPT ![<<d, i>>] = ph]

LEMMA OwnersAfter ==
    ASSUME PoolInv, NEW d \in Dirs, NEW i \in Opens, NEW ph, Becomes(d, i, ph),
           ph \in {"built", "open", "closing", "draining"} => i \in Owners(d) \/ Owners(d) = {}
    PROVE  OneOwner' /\ \A e \in Dirs, j \in Opens :
               ws'[<<e, j>>] = IF e = d /\ j = i THEN ph ELSE ws[<<e, j>>]
<1>1. \A e \in Dirs, j \in Opens : ws'[<<e, j>>] = IF e = d /\ j = i THEN ph ELSE ws[<<e, j>>]
    BY DEF Becomes, PoolInv, PoolTypeOK
<1>2. \A e \in Dirs : e # d => Owners(e)' = Owners(e)
    BY <1>1 DEF Owners
<1>3. \/ Owners(d)' \subseteq Owners(d)
      \/ Owners(d) = {} /\ Owners(d)' = {i}
    BY <1>1 DEF Owners
<1> QED
    BY <1>1, <1>2, <1>3 DEF PoolInv, OneOwner

LEMMA BeginOpeningKeeps ==
    ASSUME PoolInv, NEW d \in Dirs, NEW i \in Opens, BeginOpening(d, i), base' = base
    PROVE  PoolInv'
<1> USE DEF BeginOpening, NextOpen
<1>0. Becomes(d, i, "opening")
    BY DEF Becomes
<1>1. OneOwner' /\ \A e \in Dirs, j \in Opens : ws'[<<e, j>>] = IF e = d /\ j = i THEN "opening" ELSE ws[<<e, j>>]
    BY <1>0, OwnersAfter
<1>2. PoolTypeOK'
    BY DEF PoolInv, PoolTypeOK, Phase
<1>3. SharedOpening'
    BY <1>1 DEF PoolInv, PoolTypeOK, SharedOpening, Opens
<1>4. Closing'
    BY <1>1 DEF PoolInv, PoolTypeOK, Closing
<1> QED
    BY <1>1, <1>2, <1>3, <1>4 DEF PoolInv

LEMMA OpenerReturnsKeeps ==
    ASSUME PoolInv, NEW d \in Dirs, NEW i \in Opens, OpenerReturns(d, i), base' = base
    PROVE  PoolInv'
<1> USE DEF OpenerReturns
<1>1. PICK ph \in {"built", "failed"} : Becomes(d, i, ph) /\ (ph = "built" => Owners(d) = {})
    BY DEF Becomes
<1>2. OneOwner' /\ \A e \in Dirs, j \in Opens : ws'[<<e, j>>] = IF e = d /\ j = i THEN ph ELSE ws[<<e, j>>]
    BY <1>1, OwnersAfter
<1>3. PoolTypeOK'
    BY <1>1 DEF Becomes, PoolInv, PoolTypeOK, Phase
<1>4. SharedOpening'
    BY <1>2 DEF PoolInv, PoolTypeOK, SharedOpening
<1>5. Closing'
    BY <1>2 DEF PoolInv, PoolTypeOK, Closing
<1> QED
    BY <1>2, <1>3, <1>4, <1>5 DEF PoolInv

\* A workspace that joins the map owns the lock, so no other is open.
LEMMA SettleKeeps ==
    ASSUME PoolInv, NEW d \in Dirs, NEW i \in Opens, Settle(d, i), base' = base
    PROVE  PoolInv'
<1> USE DEF Settle
<1>1. opening[d] = i
    BY DEF PoolInv, SharedOpening
<1>2. CASE ws[<<d, i>>] = "built" /\ ~closed /\ ws' = [ws EXCEPT ![<<d, i>>] = "open"] /\ workspaces' = [workspaces EXCEPT ![d] = i]
  <2>0. Becomes(d, i, "open") /\ i \in Owners(d)
      BY <1>2 DEF Becomes, Owners
  <2>1. OneOwner' /\ \A e \in Dirs, j \in Opens : ws'[<<e, j>>] = IF e = d /\ j = i THEN "open" ELSE ws[<<e, j>>]
      BY <2>0, OwnersAfter
  <2>2. PoolTypeOK'
      BY <1>2 DEF PoolInv, PoolTypeOK, Phase
  <2>3. \A j \in Opens : ws[<<d, j>>] # "open"
      BY <1>2 DEF PoolInv, OneOwner, Owners
  <2>4. SharedOpening'
      BY <1>1, <1>2, <2>1, <2>3 DEF PoolInv, PoolTypeOK, SharedOpening, Opens
  <2>5. Closing'
      BY <1>2, <2>1 DEF PoolInv, PoolTypeOK, Closing
  <2> QED
      BY <2>1, <2>2, <2>4, <2>5 DEF PoolInv
<1>3. CASE ws' = [ws EXCEPT ![<<d, i>>] = "refused"] /\ workspaces' = workspaces
  <2>0. Becomes(d, i, "refused")
      BY <1>3 DEF Becomes
  <2>1. OneOwner' /\ \A e \in Dirs, j \in Opens : ws'[<<e, j>>] = IF e = d /\ j = i THEN "refused" ELSE ws[<<e, j>>]
      BY <2>0, OwnersAfter
  <2>2. PoolTypeOK'
      BY <1>3 DEF PoolInv, PoolTypeOK, Phase
  <2>3. SharedOpening'
      BY <1>1, <1>3, <2>1 DEF PoolInv, PoolTypeOK, SharedOpening, Opens
  <2>4. Closing'
      BY <1>3, <2>1 DEF PoolInv, PoolTypeOK, Closing
  <2> QED
      BY <2>1, <2>2, <2>3, <2>4 DEF PoolInv
<1> QED
    BY <1>2, <1>3

LEMMA CloseWorkspaceKeeps ==
    ASSUME PoolInv, NEW d \in Dirs, CloseWorkspace(d), base' = base
    PROVE  PoolInv'
<1> USE DEF CloseWorkspace
<1> DEFINE i == workspaces[d]
<1>1. i \in Opens /\ ws[<<d, i>>] = "open" /\ i \in Owners(d) /\ Becomes(d, i, "closing")
    BY DEF Becomes, Owners, PoolInv, PoolTypeOK, SharedOpening
<1>2. OneOwner' /\ \A e \in Dirs, j \in Opens : ws'[<<e, j>>] = IF e = d /\ j = i THEN "closing" ELSE ws[<<e, j>>]
    BY <1>1, OwnersAfter
<1>3. PoolTypeOK'
    BY DEF PoolInv, PoolTypeOK, Phase
<1>4. SharedOpening'
    BY <1>1, <1>2 DEF PoolInv, PoolTypeOK, SharedOpening, Opens
<1>5. Closing'
    BY <1>1, <1>2 DEF PoolInv, PoolTypeOK, Closing
<1> QED
    BY <1>2, <1>3, <1>4, <1>5 DEF PoolInv

LEMMA WorkspaceClosedKeeps ==
    ASSUME PoolInv, NEW d \in Dirs, NEW i \in Opens, WorkspaceClosed(d, i), base' = base
    PROVE  PoolInv'
<1> USE DEF WorkspaceClosed
<1>0. Becomes(d, i, "closed")
    BY DEF Becomes
<1>1. OneOwner' /\ \A e \in Dirs, j \in Opens : ws'[<<e, j>>] = IF e = d /\ j = i THEN "closed" ELSE ws[<<e, j>>]
    BY <1>0, OwnersAfter
<1>2. PoolTypeOK'
    BY DEF PoolInv, PoolTypeOK, Phase
<1>3. SharedOpening'
    BY <1>1 DEF PoolInv, PoolTypeOK, SharedOpening
<1>4. Closing'
    BY <1>1 DEF PoolInv, PoolTypeOK, Closing
<1> QED
    BY <1>1, <1>2, <1>3, <1>4 DEF PoolInv

\* Close takes the map: what was open drains, and nothing else changes.
LEMMA CloseTakesMapKeeps ==
    ASSUME PoolInv, CloseTakesMap, base' = base
    PROVE  PoolInv'
<1> USE DEF CloseTakesMap
<1>1. \A d \in Dirs, i \in Opens : ws'[<<d, i>>] = IF workspaces[d] = i THEN "draining" ELSE ws[<<d, i>>]
    OBVIOUS
<1>2. ASSUME NEW d \in Dirs, NEW i \in Opens PROVE workspaces[d] = i <=> ws[<<d, i>>] = "open"
  <2>1. {j \in Opens : ws[<<d, j>>] = "open"} = {workspaces[d]} \ {0}
      BY DEF PoolInv, SharedOpening
  <2>2. i # 0
      BY DEF Opens
  <2> QED
      BY <2>1, <2>2
<1>3. \A d \in Dirs : Owners(d)' = Owners(d)
    BY <1>1, <1>2 DEF Owners
<1>4. PoolTypeOK'
    BY DEF PoolInv, PoolTypeOK, Phase, CloserPhase
<1>5. SharedOpening'
    BY <1>1, <1>2 DEF PoolInv, PoolTypeOK, SharedOpening, Opens
<1>6. Closing'
    BY <1>1 DEF PoolInv, PoolTypeOK, Closing
<1>7. OneOwner'
    BY <1>3 DEF PoolInv, OneOwner
<1> QED
    BY <1>4, <1>5, <1>6, <1>7 DEF PoolInv

LEMMA CloseReturnsKeeps ==
    ASSUME PoolInv, CloseReturns, base' = base
    PROVE  PoolInv'
BY DEF CloseReturns, PoolInv, PoolTypeOK, CloserPhase, SharedOpening, OneOwner, Owners, Closing

LEMMA StopCancelsKeepsPool ==
    ASSUME PoolInv, StopCancels
    PROVE  PoolInv'
BY DEF StopCancels, PoolInv, PoolTypeOK, CloserPhase, SharedOpening, OneOwner, Owners, Closing

LEMMA StopWaitsKeepsPool ==
    ASSUME PoolInv, StopWaits
    PROVE  PoolInv'
BY DEF StopWaits, schedVars, PoolInv, PoolTypeOK, CloserPhase, SharedOpening, OneOwner, Owners, Closing

LEMMA PoolStepKeepsPool ==
    ASSUME PoolInv, PoolStep
    PROVE  PoolInv'
<1>1. base' = base
    BY DEF PoolStep, schedVars
<1>2. ASSUME NEW d \in Dirs, CloseWorkspace(d) PROVE PoolInv'
    BY <1>1, <1>2, CloseWorkspaceKeeps
<1>3. ASSUME NEW d \in Dirs, NEW i \in Opens, OpenWorkspace(d, i) PROVE PoolInv'
    BY <1>1, <1>3, OpenerReturnsKeeps, SettleKeeps DEF OpenWorkspace
<1>4. ASSUME NEW d \in Dirs, NEW i \in Opens, WorkspaceClosed(d, i) PROVE PoolInv'
    BY <1>1, <1>4, WorkspaceClosedKeeps
<1> QED
    BY <1>1, <1>2, <1>3, <1>4, CloseTakesMapKeeps, CloseReturnsKeeps DEF PoolStep

-------------------------------------------------------------------------------
(* Calls and runs. *)

\* A call that has begun is a full record.
LEMMA Full ==
    ASSUME SchedTypeOK
    PROVE  \A c \in Calls : ~At(c, "new") => call[c] \in CallRecord
BY DEF SchedTypeOK, At, NoCall

\* What a call is about stays as it is.
SameCall(c) == /\ Key(c)' = Key(c) /\ Claim(c)' = Claim(c)
               /\ Scheduled(c)' <=> Scheduled(c)

\* The steps below change the place of one call, to pc, and perhaps its slot.
OnlyPlace(c, pc) ==
    \A b \in Calls : SameCall(b) /\ call'[b].pc = IF b = c THEN pc ELSE call[b].pc

LEMMA GotoMoves ==
    ASSUME SchedTypeOK, NEW c \in Calls, NEW pc \in CallPC, ~At(c, "new"), Goto(c, pc)
    PROVE  call' \in [Calls -> CallRecord \cup {NoCall}] /\ OnlyPlace(c, pc)
<1>1. call[c] \in CallRecord
    BY Full
<1>2. \A b \in Calls : call'[b] = IF b = c THEN [call[c] EXCEPT !.pc = pc] ELSE call[b]
    BY DEF Goto, SchedTypeOK
<1>3. [call[c] EXCEPT !.pc = pc] \in CallRecord
    BY <1>1 DEF CallRecord
<1>4. call' \in [Calls -> CallRecord \cup {NoCall}]
    BY <1>3 DEF Goto, SchedTypeOK
<1>5. call'[c].pc = pc /\ SameCall(c)
    BY <1>1, <1>2 DEF SameCall, Key, Claim, Scheduled, CallRecord
<1>6. \A b \in Calls : b # c => SameCall(b)
    BY <1>2 DEF SameCall, Key, Claim, Scheduled
<1> QED
    BY <1>2, <1>4, <1>5, <1>6 DEF OnlyPlace

\* A call returns: it is forgotten unless its run is still there.
Over(c) == IF RunAt(c, "none") THEN "new" ELSE "returned"

OnlyReturned(c) ==
    \A b \in Calls : /\ call'[b].pc = IF b = c THEN Over(c) ELSE call[b].pc
                     /\ b # c \/ ~RunAt(c, "none") => SameCall(b)

LEMMA ReturnedMoves ==
    ASSUME SchedTypeOK, NEW c \in Calls, ~At(c, "new"), call' = Returned(call, c)
    PROVE  call' \in [Calls -> CallRecord \cup {NoCall}] /\ OnlyReturned(c)
<1>1. CASE RunAt(c, "none")
  <2>1. \A b \in Calls : call'[b] = IF b = c THEN NoCall ELSE call[b]
      BY <1>1 DEF Returned, SchedTypeOK
  <2>2. call' \in [Calls -> CallRecord \cup {NoCall}]
      BY <1>1 DEF Returned, SchedTypeOK
  <2>3. call'[c].pc = "new"
      BY <2>1 DEF NoCall
  <2>4. \A b \in Calls : b # c => SameCall(b)
      BY <2>1 DEF SameCall, Key, Claim, Scheduled
  <2> QED
      BY <1>1, <2>1, <2>2, <2>3, <2>4 DEF OnlyReturned, Over
<1>2. CASE ~RunAt(c, "none")
  <2>1. Goto(c, "returned")
      BY <1>2 DEF Returned, Goto
  <2>2. call' \in [Calls -> CallRecord \cup {NoCall}] /\ OnlyPlace(c, "returned")
      BY <2>1, GotoMoves DEF CallPC
  <2> QED
      BY <1>2, <2>2 DEF OnlyReturned, OnlyPlace, Over
<1> QED
    BY <1>1, <1>2

\* A run's step.
LEMMA RunMoves ==
    ASSUME SchedTypeOK, NEW c \in Calls, NEW pc \in RunPC, RunGoto(c, pc)
    PROVE  run' \in [Calls -> RunRecord] /\ \A b \in Calls : run'[b].pc = IF b = c THEN pc ELSE run[b].pc
<1>1. run[c] \in RunRecord
    BY DEF SchedTypeOK
<1>2. \A b \in Calls : run'[b] = IF b = c THEN [run[c] EXCEPT !.pc = pc] ELSE run[b]
    BY DEF RunGoto, SchedTypeOK
<1>3. [run[c] EXCEPT !.pc = pc] \in RunRecord
    BY <1>1 DEF RunRecord
<1>4. run' \in [Calls -> RunRecord]
    BY <1>3 DEF RunGoto, SchedTypeOK
<1> QED
    BY <1>1, <1>2, <1>4 DEF RunRecord

-------------------------------------------------------------------------------
(* What leaves each part of the invariant as it is. *)

LEMMA QueueSame ==
    ASSUME QueueTyped, slotq' = slotq, \A b \in Calls : At(b, "queued")' <=> At(b, "queued")
    PROVE  QueueTyped'
BY DEF QueueTyped, At

LEMMA SlotsSame ==
    ASSUME SlotsAccounted, slots' = slots, \A b \in Calls : Holding(b)' <=> Holding(b)
    PROVE  SlotsAccounted'
<1>1. {c \in Calls : Holding(c)}' = {c \in Calls : Holding(c)}
    OBVIOUS
<1> QED
    BY <1>1 DEF SlotsAccounted

LEMMA WaitsSame ==
    ASSUME WaitsOnce, waiting' = waiting,
           \A b \in Calls : (Waits(b)' <=> Waits(b)) /\ (Waits(b) => Key(b)' = Key(b))
    PROVE  WaitsOnce'
<1>1. {Key(c) : c \in {b \in Calls : Waits(b)}}' = {Key(c) : c \in {b \in Calls : Waits(b)}}
    OBVIOUS
<1> QED
    BY <1>1 DEF WaitsOnce

LEMMA ClaimsSame ==
    ASSUME ClaimsKept, running \subseteq running',
           \A b \in Calls : Claimed(b)' => Claimed(b) /\ Claim(b)' = Claim(b)
    PROVE  ClaimsKept'
BY DEF ClaimsKept

LEMMA RunsSame ==
    ASSUME RunsCounted, \A b \in Calls : ~RunAt(b, "none")' => ~RunAt(b, "none") /\ (<<b, "run">> \in wg => <<b, "run">> \in wg')
    PROVE  RunsCounted'
BY DEF RunsCounted

LEMMA QuietSame ==
    ASSUME StoppedIsQuiet, closer' = closer, \A b \in Calls : RunAt(b, "none") => RunAt(b, "none")'
    PROVE  StoppedIsQuiet'
BY DEF StoppedIsQuiet, RunAt

\* A step of a call alone leaves the runs as they are.
LEMMA RunsAside ==
    ASSUME SchedInv, NEW c \in Calls, UNCHANGED <<run, running, closer>>,
           \A b \in Calls : <<b, "run">> \in wg => <<b, "run">> \in wg',
           \A b \in Calls : b # c \/ ~RunAt(c, "none") => SameCall(b)
    PROVE  RunsCounted' /\ StoppedIsQuiet' /\ ClaimsKept'
<1>1. \A b \in Calls : Claimed(b)' => Claimed(b) /\ Claim(b)' = Claim(b)
    BY DEF Claimed, RunAt, SameCall
<1> QED
    BY <1>1, RunsSame, QuietSame, ClaimsSame DEF SchedInv, RunAt

\* Nothing of the calls and runs changes; or no run is left.
LEMMA PoolAlone ==
    ASSUME SchedInv, PoolInv', UNCHANGED <<slots, slotq, waiting, wg, call, run, running>>,
           base' \in BOOLEAN, cron' \in BOOLEAN,
           StoppedIsQuiet'
    PROVE  SchedInv'
<1>1. SchedTypeOK' /\ QueueTyped' /\ Paired' /\ RunsCounted' /\ ClaimsKept'
    BY DEF SchedInv, SchedTypeOK, QueueTyped, Paired, RunsCounted, ClaimsKept, At, RunAt, Scheduled, Claimed, Claim
<1>2. SlotsAccounted'
    BY SlotsSame DEF SchedInv, Holding
<1>3. WaitsOnce'
    BY WaitsSame DEF SchedInv, Waits, Scheduled, Key
<1> QED
    BY <1>1, <1>2, <1>3 DEF SchedInv

LEMMA StutterKeeps == ASSUME SchedInv, UNCHANGED allVars PROVE SchedInv'
<1>1. UNCHANGED <<slots, slotq, waiting, wg, call, run, running, base, cron, closer>>
    BY DEF allVars, schedVars, poolVars
<1>2. PoolInv'
    BY PoolFixed DEF SchedInv, allVars, schedVars
<1>3. StoppedIsQuiet'
    BY <1>1 DEF SchedInv, StoppedIsQuiet
<1> QED
    BY <1>1, <1>2, <1>3, PoolAlone DEF SchedInv, SchedTypeOK

LEMMA PoolStepKeeps == ASSUME SchedInv, PoolStep PROVE SchedInv'
<1>1. PoolInv'
    BY PoolStepKeepsPool DEF SchedInv
<1>2. UNCHANGED <<slots, slotq, waiting, wg, call, run, running, base, cron>>
    BY DEF PoolStep, schedVars
<1>3. closer' \in {"stopped", "draining", "done"} => closer \in {"stopped", "draining", "done"}
    BY DEF PoolStep, CloseWorkspace, OpenWorkspace, OpenerReturns, Settle, WorkspaceClosed, CloseTakesMap, CloseReturns
<1>4. StoppedIsQuiet'
    BY <1>2, <1>3 DEF SchedInv, StoppedIsQuiet
<1> QED
    BY <1>1, <1>2, <1>4, PoolAlone DEF SchedInv, SchedTypeOK

LEMMA ContextDoneKeeps == ASSUME SchedInv, ContextDone PROVE SchedInv'
<1> USE DEF ContextDone
<1>1. PoolInv'
    BY PoolFixed DEF SchedInv
<1>2. StoppedIsQuiet'
    BY DEF SchedInv, StoppedIsQuiet, poolVars
<1> QED
    BY <1>1, <1>2, PoolAlone DEF SchedInv, SchedTypeOK

LEMMA StopCancelsKeeps == ASSUME SchedInv, StopCancels PROVE SchedInv'
<1> USE DEF StopCancels
<1>1. PoolInv'
    BY StopCancelsKeepsPool DEF SchedInv
<1>2. StoppedIsQuiet'
    BY DEF StoppedIsQuiet
<1> QED
    BY <1>1, <1>2, PoolAlone DEF SchedInv, SchedTypeOK

\* stop has waited for every run that was counted.
LEMMA StopWaitsKeeps == ASSUME SchedInv, StopWaits PROVE SchedInv'
<1>1. PoolInv'
    BY StopWaitsKeepsPool DEF SchedInv
<1>2. UNCHANGED <<slots, slotq, waiting, wg, call, run, running, base, cron>> /\ wg = {}
    BY DEF StopWaits, schedVars
<1>3. StoppedIsQuiet'
    BY <1>2 DEF SchedInv, StoppedIsQuiet, RunsCounted, RunAt
<1> QED
    BY <1>1, <1>2, <1>3, PoolAlone DEF SchedInv, SchedTypeOK

-------------------------------------------------------------------------------
(* The steps of a call.  What they share: the pool stays, and so do the runs. *)

LEMMA NoRunYet ==
    ASSUME SchedInv, NEW c \in Calls, call[c].pc \notin {"handoff", "returned"}
    PROVE  RunAt(c, "none")
BY DEF SchedInv, Paired

\* A call that is on its way neither to nor from a slot goes on.
LEMMA CallGoes ==
    ASSUME SchedInv, NEW c \in Calls, PoolInv', UNCHANGED <<closer, base, cron, slots, slotq, waiting, run, running>>,
           wg' \in SUBSET (Calls \X {"start", "run"}), \A b \in Calls : <<b, "run">> \in wg => <<b, "run">> \in wg',
           call' \in [Calls -> CallRecord \cup {NoCall}],
           NEW pc, pc \in {"new", "join", "acquire", "returned"}, pc = "returned" => ~RunAt(c, "none"),
           ~RunAt(c, "none") => pc = "returned",
           call[c].pc \in {"new", "join", "acquire", "handoff"},
           \A b \in Calls : /\ call'[b].pc = IF b = c THEN pc ELSE call[b].pc
                            /\ b # c \/ ~RunAt(c, "none") => SameCall(b)
    PROVE  SchedInv'
<1>2. SchedTypeOK'
    BY DEF SchedInv, SchedTypeOK
<1>3. QueueTyped'
    BY QueueSame DEF SchedInv, At
<1>4. Paired'
    BY DEF SchedInv, Paired, At, RunAt, SameCall
<1>5. SlotsAccounted'
    BY SlotsSame DEF SchedInv, Holding
<1>6. WaitsOnce'
    BY WaitsSame DEF SchedInv, Waits, SameCall
<1>7. RunsCounted' /\ StoppedIsQuiet' /\ ClaimsKept'
    BY RunsAside
<1> QED
    BY <1>2, <1>3, <1>4, <1>5, <1>6, <1>7 DEF SchedInv

\* One that returns, too.
LEMMA CallReturns ==
    ASSUME SchedInv, NEW c \in Calls, UNCHANGED <<poolVars, base, cron, slots, slotq, waiting, run, running>>,
           call[c].pc \in {"join", "acquire", "handoff"}, Return(c)
    PROVE  SchedInv'
<1>1. call' \in [Calls -> CallRecord \cup {NoCall}] /\ OnlyReturned(c)
    BY ReturnedMoves DEF SchedInv, At, Return
<1>2. wg' \in SUBSET (Calls \X {"start", "run"}) /\ \A b \in Calls : <<b, "run">> \in wg => <<b, "run">> \in wg'
    BY DEF Return, SchedInv, SchedTypeOK
<1>3. Over(c) \in {"new", "join", "acquire", "returned"} /\ (Over(c) = "returned" <=> ~RunAt(c, "none"))
    BY DEF Over
<1>4. PoolInv' /\ closer' = closer
    BY PoolFixed DEF SchedInv, poolVars
<1> QED
    BY <1>1, <1>2, <1>3, <1>4, CallGoes DEF OnlyReturned

LEMMA StartKeeps ==
    ASSUME SchedInv, NEW c \in Calls, NEW d \in Dirs, NEW w \in Workers, NEW k \in Kinds, Start(c, d, w, k)
    PROVE  SchedInv'
<1>1. CASE ShutDown /\ UNCHANGED <<call, wg>>
    BY <1>1, StutterKeeps DEF Start, ShutDown, allVars, schedVars
<1>2. ASSUME NEW i \in Opens, NEW pc \in {"acquire", "join"},
             Found(d, i) \/ JoinOpening(d, i) \/ BeginOpening(d, i),
             call' = [call EXCEPT ![c] = [pc |-> pc, dir |-> d, worker |-> w, kind |-> k, inst |-> i]],
             wg' = IF k = "catchup" THEN wg \cup {<<c, "start">>} ELSE wg
      PROVE  SchedInv'
  <2>1. UNCHANGED <<closer, base, cron, slots, slotq, waiting, run, running>>
      BY <1>2 DEF Start, Found, JoinOpening, BeginOpening, poolVars
  <2>2. PoolInv'
      BY <1>2, <2>1, PoolFixed, BeginOpeningKeeps DEF SchedInv, Found, JoinOpening
  <2>3. wg' \in SUBSET (Calls \X {"start", "run"}) /\ \A b \in Calls : <<b, "run">> \in wg => <<b, "run">> \in wg'
      BY <1>2 DEF SchedInv, SchedTypeOK
  <2>4. call' \in [Calls -> CallRecord \cup {NoCall}]
      BY <1>2 DEF SchedInv, SchedTypeOK, CallRecord, CallPC
  <2>5. \A b \in Calls : call'[b] = IF b = c THEN [pc |-> pc, dir |-> d, worker |-> w, kind |-> k, inst |-> i] ELSE call[b]
      BY <1>2 DEF SchedInv, SchedTypeOK
  <2>6. call[c].pc = "new"
      BY DEF Start, At
  <2>7. RunAt(c, "none")
      BY <2>6, NoRunYet
  <2>8. \A b \in Calls : /\ call'[b].pc = IF b = c THEN pc ELSE call[b].pc
                         /\ b # c \/ ~RunAt(c, "none") => SameCall(b)
      BY <2>5, <2>7 DEF SameCall, Key, Claim, Scheduled
  <2>9. pc \in {"new", "join", "acquire", "returned"} /\ pc # "returned"
      OBVIOUS
  <2> QED
      BY <2>1, <2>2, <2>3, <2>4, <2>6, <2>7, <2>8, <2>9, CallGoes
<1> QED
    BY <1>1, <1>2 DEF Start

LEMMA JoinedKeeps == ASSUME SchedInv, NEW c \in Calls, Joined(c) PROVE SchedInv'
<1> USE DEF Joined
<1>1. CASE Return(c)
    BY <1>1, CallReturns DEF At
<1>2. CASE Goto(c, "acquire") /\ UNCHANGED wg
  <2>1. call' \in [Calls -> CallRecord \cup {NoCall}] /\ OnlyPlace(c, "acquire")
      BY <1>2, GotoMoves DEF At, SchedInv, CallPC
  <2>2. RunAt(c, "none")
      BY NoRunYet DEF At
  <2>3. PoolInv' /\ closer' = closer
      BY PoolFixed DEF SchedInv, poolVars
  <2>4. wg' \in SUBSET (Calls \X {"start", "run"}) /\ \A b \in Calls : <<b, "run">> \in wg => <<b, "run">> \in wg'
      BY <1>2 DEF SchedInv, SchedTypeOK
  <2> DEFINE pc == "acquire"
  <2>5. pc \in {"new", "join", "acquire", "returned"} /\ pc # "returned"
      OBVIOUS
  <2>6. \A b \in Calls : /\ call'[b].pc = IF b = c THEN pc ELSE call[b].pc
                         /\ b # c \/ ~RunAt(c, "none") => SameCall(b)
      BY <2>1 DEF OnlyPlace
  <2>7. call[c].pc = "join"
      BY DEF At
  <2> HIDE DEF pc
  <2> QED
      BY <2>1, <2>2, <2>3, <2>4, <2>5, <2>6, <2>7, CallGoes
<1> QED
    BY <1>1, <1>2

LEMMA GiveUpKeeps == ASSUME SchedInv, NEW c \in Calls, GiveUp(c) PROVE SchedInv'
BY CallReturns DEF GiveUp, At

LEMMA HandoffKeeps == ASSUME SchedInv, NEW c \in Calls, Handoff(c) PROVE SchedInv'
BY CallReturns DEF Handoff, At

-------------------------------------------------------------------------------
(* Slots. *)

LEMMA SlotsFinite == ASSUME SchedTypeOK PROVE IsFiniteSet(slots) /\ IsFiniteSet(Calls)
<1>1. IsFiniteSet(Calls)
    BY FS_Interval DEF Calls
<1> QED
    BY <1>1, FS_Subset DEF SchedTypeOK

LEMMA AddedOne ==
    ASSUME NEW S, IsFiniteSet(S), NEW x
    PROVE  /\ Cardinality(S) \in Nat /\ Cardinality(S \cup {x}) \in Nat
           /\ Cardinality(S \cup {x}) <= Cardinality(S) + 1
<1>1. /\ IsFiniteSet(S \cup {x})
      /\ Cardinality(S \cup {x}) = IF x \in S THEN Cardinality(S) ELSE Cardinality(S) + 1
    BY FS_AddElement
<1>2. Cardinality(S) \in Nat /\ Cardinality(S \cup {x}) \in Nat
    BY <1>1, FS_CardinalityType
<1> QED
    BY <1>1, <1>2

\* Taking a free slot.
LEMMA SlotTaken ==
    ASSUME SchedInv, NEW c \in Calls, Cardinality(slots) < MaxConcurrent, slots' = slots \cup {c},
           \A b \in Calls : Holding(b)' <=> b = c \/ Holding(b)
    PROVE  SlotsAccounted'
<1>1. slots' = {b \in Calls : Holding(b)'}
    BY DEF SchedInv, SlotsAccounted
<1>2. Cardinality(slots') <= MaxConcurrent
  <2>1. Cardinality(slots) \in Nat /\ Cardinality(slots') \in Nat /\ Cardinality(slots') <= Cardinality(slots) + 1
      BY SlotsFinite, AddedOne DEF SchedInv
  <2> QED
      BY <2>1
<1> QED
    BY <1>1, <1>2 DEF SlotsAccounted

\* Giving one back: the first in the queue has it, if there is one.
LEMMA SlotGiven ==
    ASSUME SchedInv, NEW c \in Calls, Holding(c), GiveBack(c),
           \A b \in Calls : Holding(b)' <=> (Holding(b) /\ b # c) \/ (slotq # <<>> /\ b = Head(slotq))
    PROVE  SlotsAccounted'
<1>1. c \in slots /\ IsFiniteSet(slots) /\ Cardinality(slots) \in Nat /\ Cardinality(slots) <= MaxConcurrent
    BY SlotsFinite, FS_CardinalityType DEF SchedInv, SlotsAccounted
<1>2. IsFiniteSet(slots \ {c}) /\ Cardinality(slots \ {c}) = Cardinality(slots) - 1
    BY <1>1, FS_RemoveElement
<1>3. CASE slotq = <<>>
  <2>1. slots' = slots \ {c}
      BY <1>3 DEF GiveBack
  <2>2. slots' = {b \in Calls : Holding(b)'}
      BY <1>3, <2>1 DEF SchedInv, SlotsAccounted
  <2> QED
      BY <1>1, <1>2, <2>1, <2>2 DEF SlotsAccounted
<1>4. CASE slotq # <<>>
  <2>1. slots' = (slots \ {c}) \cup {Head(slotq)} /\ Head(slotq) \in Calls
      BY <1>4, HeadTailProperties DEF GiveBack, SchedInv, SchedTypeOK
  <2>2. slots' = {b \in Calls : Holding(b)'}
      BY <1>4, <2>1 DEF SchedInv, SlotsAccounted
  <2>3. Cardinality(slots') <= Cardinality(slots \ {c}) + 1 /\ Cardinality(slots') \in Nat
      BY <1>1, <1>2, <2>1, AddedOne
  <2> QED
      BY <1>1, <1>2, <2>2, <2>3 DEF SlotsAccounted
<1> QED
    BY <1>3, <1>4

\* The first in the queue is a call blocked there, and once.
LEMMA FirstQueued ==
    ASSUME SchedInv, slotq # <<>>
    PROVE  /\ Head(slotq) \in Calls /\ At(Head(slotq), "queued") /\ RunAt(Head(slotq), "none")
           /\ \A b \in Calls : At(b, "queued") /\ b # Head(slotq) <=> \E i \in 1..Len(Tail(slotq)) : Tail(slotq)[i] = b
           /\ \A i, j \in 1..Len(Tail(slotq)) : Tail(slotq)[i] = Tail(slotq)[j] => i = j
           /\ Tail(slotq) \in Seq(Calls)
<1>1. /\ Head(slotq) = slotq[1] /\ Head(slotq) \in Calls /\ Tail(slotq) \in Seq(Calls)
      /\ Len(slotq) \in Nat /\ Len(slotq) >= 1 /\ Len(Tail(slotq)) = Len(slotq) - 1
      /\ \A i \in 1..Len(Tail(slotq)) : Tail(slotq)[i] = slotq[i + 1]
    BY HeadTailProperties, EmptySeq, LenProperties DEF SchedInv, SchedTypeOK
<1>2. At(Head(slotq), "queued")
    BY <1>1 DEF SchedInv, QueueTyped, At
<1>3. \A i, j \in 1..Len(Tail(slotq)) : Tail(slotq)[i] = Tail(slotq)[j] => i = j
    BY <1>1 DEF SchedInv, QueueTyped
<1>4. ASSUME NEW b \in Calls
      PROVE  At(b, "queued") /\ b # Head(slotq) <=> \E i \in 1..Len(Tail(slotq)) : Tail(slotq)[i] = b
  <2>1. ASSUME NEW i \in 1..Len(Tail(slotq)), Tail(slotq)[i] = b PROVE At(b, "queued") /\ b # Head(slotq)
    <3>1. i + 1 \in 1..Len(slotq) /\ slotq[i + 1] = b /\ 1 \in 1..Len(slotq) /\ i + 1 # 1
        BY <1>1, <2>1
    <3> QED
        BY <1>1, <3>1 DEF SchedInv, QueueTyped, At
  <2>2. ASSUME At(b, "queued"), b # Head(slotq) PROVE \E i \in 1..Len(Tail(slotq)) : Tail(slotq)[i] = b
    <3>1. PICK i \in 1..Len(slotq) : slotq[i] = b
        BY <2>2 DEF SchedInv, QueueTyped, At
    <3>2. i - 1 \in 1..Len(Tail(slotq)) /\ (i - 1) + 1 = i
        BY <1>1, <2>2, <3>1
    <3> QED
        BY <1>1, <3>1, <3>2
  <2> QED
      BY <2>1, <2>2
<1> QED
    BY <1>1, <1>2, <1>3, <1>4, NoRunYet DEF At

LEMMA AcquireManualKeeps == ASSUME SchedInv, NEW c \in Calls, AcquireManual(c) PROVE SchedInv'
<1> USE DEF AcquireManual
<1>1. CASE Return(c) /\ UNCHANGED slots
    BY <1>1, CallReturns DEF At
<1>2. CASE Cardinality(slots) < MaxConcurrent /\ slots' = slots \cup {c} /\ Goto(c, "track") /\ UNCHANGED wg
  <2>1. call' \in [Calls -> CallRecord \cup {NoCall}] /\ OnlyPlace(c, "track") /\ call[c].pc = "acquire"
      BY <1>2, GotoMoves DEF At, SchedInv, CallPC
  <2>2. RunAt(c, "none")
      BY NoRunYet DEF At
  <2>3. PoolInv' /\ closer' = closer
      BY PoolFixed DEF SchedInv, poolVars
  <2>4. SchedTypeOK'
      BY <1>2, <2>1 DEF SchedInv, SchedTypeOK
  <2>5. QueueTyped'
      BY <2>1, QueueSame DEF SchedInv, OnlyPlace, At
  <2>6. Paired'
      BY <2>1, <2>2 DEF SchedInv, OnlyPlace, Paired, At, RunAt, SameCall
  <2>7. SlotsAccounted'
      BY <1>2, <2>1, SlotTaken DEF OnlyPlace, Holding
  <2>8. WaitsOnce'
      BY <2>1, WaitsSame DEF SchedInv, OnlyPlace, SameCall, Waits
  <2>9. RunsCounted' /\ StoppedIsQuiet' /\ ClaimsKept'
      BY <1>2, <2>1, <2>3, RunsAside DEF OnlyPlace
  <2> QED
      BY <2>3, <2>4, <2>5, <2>6, <2>7, <2>8, <2>9 DEF SchedInv
<1> QED
    BY <1>1, <1>2

-------------------------------------------------------------------------------
(* The queue and the waiting marks. *)

\* Joining the queue.
LEMMA QueueAppended ==
    ASSUME SchedInv, NEW c \in Calls, ~At(c, "queued"), slotq' = Append(slotq, c),
           \A b \in Calls : At(b, "queued")' <=> b = c \/ At(b, "queued")
    PROVE  QueueTyped' /\ slotq' \in Seq(Calls)
<1>1. /\ slotq' \in Seq(Calls) /\ Len(slotq) \in Nat /\ Len(slotq') = Len(slotq) + 1
      /\ \A i \in 1..Len(slotq) : slotq'[i] = slotq[i]
      /\ slotq'[Len(slotq) + 1] = c
    BY AppendProperties, LenProperties DEF SchedInv, SchedTypeOK
<1>2. \A b \in Calls : At(b, "queued") <=> \E i \in 1..Len(slotq) : slotq[i] = b
    BY DEF SchedInv, QueueTyped, At
<1>3. \A i, j \in 1..Len(slotq) : slotq[i] = slotq[j] => i = j
    BY DEF SchedInv, QueueTyped
<1>4. \A b \in Calls : At(b, "queued")' <=> \E i \in 1..Len(slotq') : slotq'[i] = b
    BY <1>1, <1>2
<1>5. \A i \in 1..Len(slotq) : slotq[i] # c
    BY <1>2
<1>6. \A i, j \in 1..Len(slotq') : slotq'[i] = slotq'[j] => i = j
    BY <1>1, <1>3, <1>5
<1> QED
    BY <1>1, <1>4, <1>6 DEF QueueTyped, At

\* A call marks its worker as waited for: no other call waits for it.
LEMMA WaitBegins ==
    ASSUME SchedInv, NEW c \in Calls, Key(c) \notin waiting, waiting' = waiting \cup {Key(c)},
           \A b \in Calls : SameCall(b) /\ (Waits(b)' <=> b = c \/ Waits(b))
    PROVE  WaitsOnce'
<1>1. waiting = {Key(b) : b \in {b \in Calls : Waits(b)}}
    BY DEF SchedInv, WaitsOnce
<1>2. \A b \in Calls : Waits(b) => Key(b) # Key(c)
    BY <1>1
<1>3. \A b \in Calls : Key(b)' = Key(b)
    BY DEF SameCall
<1>4. waiting' = {Key(b)' : b \in {b \in Calls : Waits(b)'}}
    BY <1>1, <1>3
<1>5. \A a, b \in Calls : Waits(a)' /\ Waits(b)' /\ Key(a)' = Key(b)' => a = b
    BY <1>2, <1>3 DEF SchedInv, WaitsOnce
<1> QED
    BY <1>4, <1>5 DEF WaitsOnce

\* And takes the mark away: it was the only one.
LEMMA WaitEnds ==
    ASSUME SchedInv, NEW c \in Calls, Waits(c), waiting' = waiting \ {Key(c)},
           \A b \in Calls : (b # c => SameCall(b)) /\ (Waits(b)' <=> b # c /\ Waits(b))
    PROVE  WaitsOnce'
<1>1. waiting = {Key(b) : b \in {b \in Calls : Waits(b)}}
    BY DEF SchedInv, WaitsOnce
<1>2. \A b \in Calls : Waits(b) /\ b # c => Key(b) # Key(c)
    BY DEF SchedInv, WaitsOnce
<1>3. \A b \in Calls : b # c => Key(b)' = Key(b)
    BY DEF SameCall
<1>4. waiting' = {Key(b)' : b \in {b \in Calls : Waits(b)'}}
    BY <1>1, <1>2, <1>3
<1>5. \A a, b \in Calls : Waits(a)' /\ Waits(b)' /\ Key(a)' = Key(b)' => a = b
    BY <1>3 DEF SchedInv, WaitsOnce
<1> QED
    BY <1>4, <1>5 DEF WaitsOnce

LEMMA AcquireScheduledKeeps == ASSUME SchedInv, NEW c \in Calls, AcquireScheduled(c) PROVE SchedInv'
<1> USE DEF AcquireScheduled
<1>1. CASE Return(c) /\ UNCHANGED <<waiting, slots, slotq>>
    BY <1>1, CallReturns DEF At
<1>2. CASE Key(c) \notin waiting /\ waiting' = waiting \cup {Key(c)} /\ SelectSlot(c) /\ UNCHANGED wg
  <2>1. PICK pc \in {"granted", "dropped", "queued"} :
           /\ Goto(c, pc)
           /\ IF pc = "granted" THEN Cardinality(slots) < MaxConcurrent /\ slots' = slots \cup {c} ELSE slots' = slots
           /\ IF pc = "queued" THEN slotq' = Append(slotq, c) ELSE slotq' = slotq
      BY <1>2 DEF SelectSlot
  <2>2. call' \in [Calls -> CallRecord \cup {NoCall}] /\ OnlyPlace(c, pc) /\ call[c].pc = "acquire"
      BY <2>1, GotoMoves DEF At, SchedInv, CallPC
  <2>3. RunAt(c, "none") /\ call[c] \in CallRecord
      BY <2>2, NoRunYet, Full DEF At, SchedInv
  <2>4. PoolInv' /\ closer' = closer
      BY PoolFixed DEF SchedInv, poolVars
  <2>5. QueueTyped' /\ slotq' \in Seq(Calls)
    <3>1. CASE pc = "queued"
        BY <2>1, <2>2, <3>1, QueueAppended DEF OnlyPlace, At
    <3>2. CASE pc # "queued"
        BY <2>1, <2>2, <3>2, QueueSame DEF SchedInv, SchedTypeOK, OnlyPlace, At
    <3> QED
        BY <3>1, <3>2
  <2>6. SchedTypeOK'
    <3>1. Key(c) \in Dirs \X Workers
        BY <2>3 DEF Key, CallRecord
    <3> QED
        BY <1>2, <2>1, <2>2, <2>5, <3>1 DEF SchedInv, SchedTypeOK
  <2>7. Paired'
      BY <2>2, <2>3 DEF SchedInv, OnlyPlace, Paired, At, RunAt, SameCall
  <2>8. SlotsAccounted'
    <3>1. CASE pc = "granted"
        BY <2>1, <2>2, <3>1, SlotTaken DEF OnlyPlace, Holding
    <3>2. CASE pc # "granted"
        BY <2>1, <2>2, <3>2, SlotsSame DEF SchedInv, OnlyPlace, Holding
    <3> QED
        BY <3>1, <3>2
  <2>9. WaitsOnce'
      BY <1>2, <2>1, <2>2, WaitBegins DEF OnlyPlace, SameCall, Waits
  <2>10. RunsCounted' /\ StoppedIsQuiet' /\ ClaimsKept'
      BY <1>2, <2>2, <2>4, RunsAside DEF OnlyPlace
  <2> QED
      BY <2>4, <2>5, <2>6, <2>7, <2>8, <2>9, <2>10 DEF SchedInv
<1> QED
    BY <1>1, <1>2

\* A sequence without its i-th element.
LEMMA Without ==
    ASSUME NEW S, NEW s \in Seq(S), NEW i \in 1..Len(s)
    PROVE  LET t == SubSeq(s, 1, i - 1) \o SubSeq(s, i + 1, Len(s)) IN
           /\ t \in Seq(S) /\ Len(t) = Len(s) - 1
           /\ \A j \in 1..i - 1 : t[j] = s[j]
           /\ \A j \in i..Len(s) - 1 : t[j] = s[j + 1]
<1> DEFINE u == SubSeq(s, 1, i - 1)
<1> DEFINE v == SubSeq(s, i + 1, Len(s))
<1> DEFINE t == u \o v
<1>1. Len(s) \in Nat /\ i \in Nat /\ i >= 1 /\ i <= Len(s) /\ \A j \in 1..Len(s) : s[j] \in S
    BY LenProperties, ElementOfSeq
<1>2. u \in Seq(S) /\ Len(u) = i - 1 /\ \A j \in 1..i - 1 : u[j] = s[j]
    BY <1>1, SubSeqProperties
<1>3. v \in Seq(S) /\ Len(v) = Len(s) - i /\ \A j \in 1..Len(s) - i : v[j] = s[j + i]
    BY <1>1, SubSeqProperties
<1> HIDE DEF u, v
<1>4. /\ t \in Seq(S) /\ Len(t) = Len(u) + Len(v)
      /\ \A j \in 1..Len(u) + Len(v) : t[j] = IF j <= Len(u) THEN u[j] ELSE v[j - Len(u)]
    BY <1>2, <1>3, ConcatProperties
<1> HIDE DEF t
<1>5. ASSUME NEW j \in 1..i - 1 PROVE t[j] = s[j]
  <2>1. j \in 1..Len(u) + Len(v) /\ j <= Len(u)
      BY <1>1, <1>2, <1>3
  <2>2. t[j] = u[j]
      BY <1>4, <2>1
  <2> QED
      BY <1>2, <2>2
<1>6. ASSUME NEW j \in i..Len(s) - 1 PROVE t[j] = s[j + 1]
  <2> DEFINE k == j - (i - 1)
  <2>1. j \in 1..Len(u) + Len(v) /\ ~(j <= Len(u)) /\ j - Len(u) = k /\ k \in 1..Len(s) - i /\ k + i = j + 1
      BY <1>1, <1>2, <1>3
  <2>2. t[j] = v[k]
      BY <1>4, <2>1
  <2>3. v[k] = s[k + i]
      BY <1>3, <2>1
  <2> QED
      BY <2>1, <2>2, <2>3
<1>7. Len(t) = Len(s) - 1 /\ t \in Seq(S)
    BY <1>1, <1>2, <1>3, <1>4
<1> QED
    BY <1>5, <1>6, <1>7 DEF t, u, v

\* Leaving the queue from the i-th place.
LEMMA QueueWithout ==
    ASSUME SchedInv, NEW c \in Calls, NEW i \in 1..Len(slotq), slotq[i] = c,
           slotq' = SubSeq(slotq, 1, i - 1) \o SubSeq(slotq, i + 1, Len(slotq)),
           \A b \in Calls : At(b, "queued")' <=> b # c /\ At(b, "queued")
    PROVE  QueueTyped' /\ slotq' \in Seq(Calls)
<1>1. slotq \in Seq(Calls) /\ Len(slotq) \in Nat /\ i \in Nat /\ i >= 1 /\ i <= Len(slotq)
    BY LenProperties DEF SchedInv, SchedTypeOK
<1>2. /\ slotq' \in Seq(Calls) /\ Len(slotq') = Len(slotq) - 1
      /\ \A j \in 1..i - 1 : slotq'[j] = slotq[j]
      /\ \A j \in i..Len(slotq) - 1 : slotq'[j] = slotq[j + 1]
    BY <1>1, Without
<1>3. \A b \in Calls : At(b, "queued") <=> \E j \in 1..Len(slotq) : slotq[j] = b
    BY DEF SchedInv, QueueTyped, At
<1>4. \A j, k \in 1..Len(slotq) : slotq[j] = slotq[k] => j = k
    BY DEF SchedInv, QueueTyped
<1> DEFINE From(j) == IF j < i THEN j ELSE j + 1
<1>5. \A j \in 1..Len(slotq) - 1 : From(j) \in 1..Len(slotq) /\ From(j) # i /\ slotq'[j] = slotq[From(j)]
  <2> TAKE j \in 1..Len(slotq) - 1
  <2>1. CASE j < i
    <3>1. j \in 1..i - 1 /\ From(j) = j /\ j \in 1..Len(slotq)
        BY <1>1, <2>1
    <3>2. slotq'[j] = slotq[j]
        BY <1>2, <3>1
    <3> QED
        BY <2>1, <3>1, <3>2
  <2>2. CASE ~(j < i)
    <3>1. j \in i..Len(slotq) - 1 /\ From(j) = j + 1 /\ j + 1 \in 1..Len(slotq) /\ j + 1 # i
        BY <1>1, <2>2
    <3> QED
        BY <1>1, <1>2, <3>1
  <2> QED
      BY <2>1, <2>2
<1>6. \A k \in 1..Len(slotq) : k # i => \E j \in 1..Len(slotq) - 1 : From(j) = k
  <2> SUFFICES ASSUME NEW k \in 1..Len(slotq), k # i PROVE \E j \in 1..Len(slotq) - 1 : From(j) = k
      OBVIOUS
  <2>1. CASE k < i
    <3>1. k \in 1..Len(slotq) - 1 /\ From(k) = k
        BY <1>1, <2>1
    <3> QED
        BY <3>1
  <2>2. CASE k > i
    <3>1. k - 1 \in 1..Len(slotq) - 1 /\ From(k - 1) = k
        BY <1>1, <2>2
    <3> QED
        BY <3>1
  <2> QED
      BY <1>1, <2>1, <2>2
<1>7. \A j, k \in 1..Len(slotq) - 1 : From(j) = From(k) => j = k
    BY <1>1
<1> HIDE DEF From
<1>8. ASSUME NEW b \in Calls PROVE At(b, "queued")' <=> \E j \in 1..Len(slotq) - 1 : slotq'[j] = b
  <2>1. ASSUME NEW j \in 1..Len(slotq) - 1, slotq'[j] = b PROVE b # c /\ At(b, "queued")
    <3>1. From(j) \in 1..Len(slotq) /\ From(j) # i /\ slotq[From(j)] = b
        BY <1>5, <2>1
    <3> QED
        BY <1>3, <1>4, <3>1
  <2>2. ASSUME b # c, At(b, "queued") PROVE \E j \in 1..Len(slotq) - 1 : slotq'[j] = b
    <3>1. PICK k \in 1..Len(slotq) : slotq[k] = b /\ k # i
        BY <1>3, <2>2
    <3>2. PICK j \in 1..Len(slotq) - 1 : From(j) = k
        BY <1>6, <3>1
    <3> QED
        BY <1>5, <3>1, <3>2
  <2> QED
      BY <2>1, <2>2
<1>9. ASSUME NEW j \in 1..Len(slotq) - 1, NEW k \in 1..Len(slotq) - 1, slotq'[j] = slotq'[k] PROVE j = k
  <2>1. From(j) \in 1..Len(slotq) /\ From(k) \in 1..Len(slotq) /\ slotq[From(j)] = slotq[From(k)]
      BY <1>5, <1>9
  <2>2. From(j) = From(k)
      BY <1>4, <2>1
  <2> QED
      BY <1>7, <2>2
<1> QED
    BY <1>2, <1>8, <1>9 DEF QueueTyped, At

LEMMA DropKeeps == ASSUME SchedInv, NEW c \in Calls, Drop(c) PROVE SchedInv'
<1> USE DEF Drop
<1>1. call' \in [Calls -> CallRecord \cup {NoCall}] /\ OnlyPlace(c, "dropped") /\ call[c].pc = "queued"
    BY GotoMoves DEF At, SchedInv, CallPC
<1>2. RunAt(c, "none") /\ Scheduled(c)
    BY <1>1, NoRunYet DEF SchedInv, Paired
<1>3. PoolInv' /\ closer' = closer
    BY PoolFixed DEF SchedInv, poolVars
<1>4. QueueTyped' /\ slotq' \in Seq(Calls)
    BY <1>1, QueueWithout DEF OnlyPlace, At
<1>5. SchedTypeOK'
    BY <1>1, <1>4 DEF SchedInv, SchedTypeOK
<1>6. Paired'
    BY <1>1, <1>2 DEF SchedInv, OnlyPlace, Paired, At, RunAt, SameCall
<1>7. SlotsAccounted'
    BY <1>1, SlotsSame DEF SchedInv, OnlyPlace, Holding
<1>8. WaitsOnce'
    BY <1>1, WaitsSame DEF SchedInv, OnlyPlace, SameCall, Waits
<1>9. RunsCounted' /\ StoppedIsQuiet' /\ ClaimsKept'
    BY <1>1, <1>3, RunsAside DEF OnlyPlace
<1> QED
    BY <1>3, <1>4, <1>5, <1>6, <1>7, <1>8, <1>9 DEF SchedInv

LEMMA StopWaitingKeeps == ASSUME SchedInv, NEW c \in Calls, StopWaiting(c) PROVE SchedInv'
<1> USE DEF StopWaiting
<1>1. call[c].pc \in {"granted", "dropped"}
    BY DEF At
<1>2. RunAt(c, "none") /\ Scheduled(c) /\ Waits(c)
    BY <1>1, NoRunYet DEF SchedInv, Paired, Waits
<1>3. PoolInv' /\ closer' = closer
    BY PoolFixed DEF SchedInv, poolVars
<1>4. PICK pc \in {"track", "new"} :
         /\ call' \in [Calls -> CallRecord \cup {NoCall}]
         /\ pc = "track" <=> call[c].pc = "granted"
         /\ \A b \in Calls : call'[b].pc = (IF b = c THEN pc ELSE call[b].pc) /\ (b # c => SameCall(b))
         /\ wg' \in SUBSET (Calls \X {"start", "run"}) /\ \A b \in Calls : <<b, "run">> \in wg => <<b, "run">> \in wg'
  <2>1. CASE At(c, "granted") /\ Goto(c, "track") /\ UNCHANGED wg
      BY <2>1, GotoMoves DEF At, SchedInv, SchedTypeOK, CallPC, OnlyPlace
  <2>2. CASE At(c, "dropped") /\ Return(c)
    <3>1. call' \in [Calls -> CallRecord \cup {NoCall}] /\ OnlyReturned(c)
        BY <2>2, ReturnedMoves DEF SchedInv, At, Return
    <3>2. wg' \in SUBSET (Calls \X {"start", "run"}) /\ \A b \in Calls : <<b, "run">> \in wg => <<b, "run">> \in wg'
        BY <2>2 DEF Return, SchedInv, SchedTypeOK
    <3> QED
        BY <1>2, <2>2, <3>1, <3>2 DEF OnlyReturned, Over, At
  <2> QED
      BY <2>1, <2>2
<1>5. SchedTypeOK'
    BY <1>4 DEF SchedInv, SchedTypeOK
<1>6. QueueTyped'
    BY <1>1, <1>4, QueueSame DEF SchedInv, At
<1>7. Paired'
    BY <1>2, <1>4 DEF SchedInv, Paired, At, RunAt, SameCall
<1>8. SlotsAccounted'
    BY <1>1, <1>2, <1>4, SlotsSame DEF SchedInv, Holding, RunAt
<1>9. WaitsOnce'
    BY <1>2, <1>4, WaitEnds DEF SameCall, Waits
<1>10. RunsCounted' /\ StoppedIsQuiet' /\ ClaimsKept'
    BY <1>2, <1>3, <1>4, RunsAside
<1> QED
    BY <1>3, <1>5, <1>6, <1>7, <1>8, <1>9, <1>10 DEF SchedInv

-------------------------------------------------------------------------------
(* A slot given back: by track when the scheduler has stopped, and by a run. *)

\* The places of the calls once the first of the queue is woken.
Awake(b) == IF slotq # <<>> /\ b = Head(slotq) THEN "granted" ELSE call[b].pc

LEMMA WokenMoves ==
    ASSUME SchedInv, NEW f, f = Woken(call)
    PROVE  /\ f \in [Calls -> CallRecord \cup {NoCall}]
           /\ \A b \in Calls : f[b].pc = Awake(b)
           /\ \A b \in Calls : slotq # <<>> /\ b = Head(slotq) =>
                  /\ f[b].dir = call[b].dir /\ f[b].worker = call[b].worker
                  /\ f[b].kind = call[b].kind /\ f[b].inst = call[b].inst
           /\ \A b \in Calls : ~(slotq # <<>> /\ b = Head(slotq)) => f[b] = call[b]
<1>1. CASE slotq = <<>>
    BY <1>1 DEF Woken, Awake, SchedInv, SchedTypeOK
<1>2. CASE slotq # <<>>
  <2> DEFINE h == Head(slotq)
  <2>1. h \in Calls /\ call[h] \in CallRecord
      BY <1>2, FirstQueued, Full DEF SchedInv, At
  <2> HIDE DEF h
  <2>2. f = [call EXCEPT ![h].pc = "granted"]
      BY <1>2 DEF Woken, h
  <2>3. [call[h] EXCEPT !.pc = "granted"] \in CallRecord
      BY <2>1 DEF CallRecord, CallPC
  <2>4. \A b \in Calls : f[b] = IF b = h THEN [call[h] EXCEPT !.pc = "granted"] ELSE call[b]
      BY <2>1, <2>2 DEF SchedInv, SchedTypeOK
  <2>5. f \in [Calls -> CallRecord \cup {NoCall}]
      BY <2>1, <2>2, <2>3 DEF SchedInv, SchedTypeOK
  <2>6. [call[h] EXCEPT !.pc = "granted"].pc = "granted"
      BY <2>1 DEF CallRecord
  <2>7. \A b \in Calls : b = h => /\ f[b].dir = call[b].dir /\ f[b].worker = call[b].worker
                                  /\ f[b].kind = call[b].kind /\ f[b].inst = call[b].inst
      BY <2>1, <2>4 DEF CallRecord
  <2> QED
      BY <1>2, <2>4, <2>5, <2>6, <2>7 DEF Awake, h
<1> QED
    BY <1>1, <1>2

\* What becomes of the queue, the slots and the waiting marks.
LEMMA GivenBack ==
    ASSUME SchedInv, NEW c \in Calls, Holding(c), call[c].pc \in {"track", "handoff", "returned", "new"},
           GiveBack(c), waiting' = waiting,
           \A b \in Calls : b # c => call'[b].pc = Awake(b) /\ SameCall(b) /\ run'[b] = run[b],
           call'[c].pc \in {"handoff", "returned", "new"}, run'[c].pc \in {"none", "leave"}
    PROVE  /\ QueueTyped' /\ slotq' \in Seq(Calls) /\ slots' \in SUBSET Calls
           /\ SlotsAccounted' /\ WaitsOnce'
<1>1. slotq # <<>> => Head(slotq) # c /\ Head(slotq) \in Calls
    BY FirstQueued DEF At
<1>2. \A b \in Calls : call'[b].pc = "queued" <=> call[b].pc = "queued" /\ ~(slotq # <<>> /\ b = Head(slotq))
    BY DEF Awake
<1>3. QueueTyped' /\ slotq' \in Seq(Calls)
  <2>1. CASE slotq = <<>>
    <3>1. slotq' = slotq /\ slotq \in Seq(Calls) /\ QueueTyped
        BY <2>1 DEF GiveBack, SchedInv, SchedTypeOK
    <3> QED
        BY <1>2, <2>1, <3>1 DEF QueueTyped
  <2>2. CASE slotq # <<>>
    <3>1. slotq' = Tail(slotq)
        BY <2>2 DEF GiveBack
    <3>2. \A b \in Calls : call'[b].pc = "queued" <=> \E i \in 1..Len(slotq') : slotq'[i] = b
        BY <1>2, <2>2, <3>1, FirstQueued DEF At
    <3> QED
        BY <2>2, <3>1, <3>2, FirstQueued DEF QueueTyped
  <2> QED
      BY <2>1, <2>2
<1>4. slots' \in SUBSET Calls
    BY <1>1 DEF GiveBack, SchedInv, SchedTypeOK
<1>5. \A b \in Calls : Holding(b)' <=> (Holding(b) /\ b # c) \/ (slotq # <<>> /\ b = Head(slotq))
  <2> TAKE b \in Calls
  <2>1. CASE b = c
      BY <1>1, <2>1 DEF Holding
  <2>2. CASE b # c /\ slotq # <<>> /\ b = Head(slotq)
      BY <2>2 DEF Holding, Awake
  <2>3. CASE b # c /\ ~(slotq # <<>> /\ b = Head(slotq))
      BY <2>3 DEF Holding, Awake
  <2> QED
      BY <2>1, <2>2, <2>3
<1>6. SlotsAccounted'
    BY <1>5, SlotGiven
<1>7. \A b \in Calls : (Waits(b)' <=> Waits(b)) /\ (Waits(b) => Key(b)' = Key(b))
  <2> TAKE b \in Calls
  <2>1. CASE b = c
      BY <2>1 DEF Waits
  <2>2. CASE b # c /\ slotq # <<>> /\ b = Head(slotq)
    <3>1. call[b].pc = "queued" /\ call'[b].pc = "granted"
        BY <2>2, FirstQueued DEF At, Awake
    <3> QED
        BY <2>2, <3>1 DEF Waits, SameCall
  <2>3. CASE b # c /\ ~(slotq # <<>> /\ b = Head(slotq))
      BY <2>3 DEF Waits, SameCall, Awake
  <2> QED
      BY <2>1, <2>2, <2>3
<1>8. WaitsOnce'
    BY <1>7, WaitsSame DEF SchedInv
<1> QED
    BY <1>3, <1>4, <1>6, <1>8

\* The run of the call is handed off, and the scheduler has not stopped.
LEMMA TrackedKeeps ==
    ASSUME SchedInv, NEW c \in Calls, Track(c), ~base, wg' = wg \cup {<<c, "run">>},
           Goto(c, "handoff"), RunGoto(c, "begin"), UNCHANGED <<slots, slotq>>
    PROVE  SchedInv'
<1>1. call' \in [Calls -> CallRecord \cup {NoCall}] /\ OnlyPlace(c, "handoff") /\ call[c].pc = "track"
    BY GotoMoves DEF Track, At, SchedInv, CallPC
<1>2. run' \in [Calls -> RunRecord] /\ \A b \in Calls : run'[b].pc = IF b = c THEN "begin" ELSE run[b].pc
    BY RunMoves DEF SchedInv, RunPC
<1>3. RunAt(c, "none")
    BY <1>1, NoRunYet
<1>4. UNCHANGED <<poolVars, base, cron, waiting, running>>
    BY DEF Track
<1>5. PoolInv' /\ closer' = closer /\ closer = "no"
    BY <1>4, PoolFixed DEF SchedInv, poolVars, PoolInv, Closing
<1>6. SchedTypeOK'
    BY <1>1, <1>2, <1>4 DEF SchedInv, SchedTypeOK
<1>7. QueueTyped'
    BY <1>1, QueueSame DEF SchedInv, OnlyPlace, At
<1>8. Paired'
    BY <1>1, <1>2 DEF SchedInv, OnlyPlace, Paired, At, RunAt, SameCall
<1>9. SlotsAccounted'
    BY <1>1, <1>2, SlotsSame DEF SchedInv, OnlyPlace, Holding
<1>10. WaitsOnce'
    BY <1>1, <1>4, WaitsSame DEF SchedInv, OnlyPlace, SameCall, Waits
<1>11. RunsCounted'
    BY <1>2 DEF SchedInv, RunsCounted, RunAt
<1>12. StoppedIsQuiet'
    BY <1>5 DEF StoppedIsQuiet
<1>13. ClaimsKept'
    BY <1>1, <1>2, <1>4, ClaimsSame DEF SchedInv, OnlyPlace, SameCall, Claimed
<1> QED
    BY <1>5, <1>6, <1>7, <1>8, <1>9, <1>10, <1>11, <1>12, <1>13 DEF SchedInv

LEMMA TrackKeeps == ASSUME SchedInv, NEW c \in Calls, Track(c) PROVE SchedInv'
<1>1. CASE ~base /\ wg' = wg \cup {<<c, "run">>} /\ Goto(c, "handoff") /\ RunGoto(c, "begin") /\ UNCHANGED <<slots, slotq>>
    BY <1>1, TrackedKeeps
<1>2. CASE /\ base /\ GiveBack(c) /\ call' = Returned(Woken(call), c)
           /\ wg' = wg \ {<<c, "start">>} /\ UNCHANGED run
  <2>1. At(c, "track") /\ UNCHANGED <<poolVars, base, cron, waiting, running>> /\ RunAt(c, "none")
      BY NoRunYet DEF Track, At
  <2> DEFINE f == Woken(call)
  <2>2. call' = [f EXCEPT ![c] = NoCall]
      BY <1>2, <2>1 DEF Returned
  <2>3. /\ f \in [Calls -> CallRecord \cup {NoCall}]
        /\ \A b \in Calls : f[b].pc = Awake(b)
        /\ \A b \in Calls : slotq # <<>> /\ b = Head(slotq) =>
               /\ f[b].dir = call[b].dir /\ f[b].worker = call[b].worker
               /\ f[b].kind = call[b].kind /\ f[b].inst = call[b].inst
        /\ \A b \in Calls : ~(slotq # <<>> /\ b = Head(slotq)) => f[b] = call[b]
      BY WokenMoves
  <2> HIDE DEF f
  <2>4. call' \in [Calls -> CallRecord \cup {NoCall}] /\ \A b \in Calls : call'[b] = IF b = c THEN NoCall ELSE f[b]
      BY <2>2, <2>3
  <2>5. call'[c].pc = "new"
      BY <2>4 DEF NoCall
  <2>6. \A b \in Calls : b # c => call'[b].pc = Awake(b) /\ SameCall(b) /\ run'[b] = run[b]
      BY <1>2, <2>3, <2>4 DEF SameCall, Key, Claim, Scheduled
  <2>7. Holding(c)
      BY <2>1 DEF Holding, At
  <2>8. /\ QueueTyped' /\ slotq' \in Seq(Calls) /\ slots' \in SUBSET Calls
        /\ SlotsAccounted' /\ WaitsOnce'
      BY <1>2, <2>1, <2>5, <2>6, <2>7, GivenBack DEF At, RunAt
  <2>9. PoolInv' /\ closer' = closer
      BY <2>1, PoolFixed DEF SchedInv, poolVars
  <2>10. SchedTypeOK'
      BY <1>2, <2>1, <2>4, <2>8 DEF SchedInv, SchedTypeOK
  <2>11. Paired'
    <3> SUFFICES ASSUME NEW b \in Calls
                 PROVE  /\ ~RunAt(b, "none")' => call'[b].pc \in {"handoff", "returned"}
                        /\ At(b, "returned")' => ~RunAt(b, "none")'
                        /\ call'[b].pc \in {"queued", "granted", "dropped"} => Scheduled(b)'
        BY DEF Paired
    <3>1. CASE b = c
        BY <1>2, <2>1, <2>5, <3>1 DEF RunAt, At
    <3>2. CASE b # c /\ slotq # <<>> /\ b = Head(slotq)
        BY <2>6, <3>2, <1>2, FirstQueued DEF Awake, RunAt, At, SchedInv, Paired, SameCall
    <3>3. CASE b # c /\ ~(slotq # <<>> /\ b = Head(slotq))
        BY <2>6, <3>3, <1>2 DEF Awake, RunAt, At, SchedInv, Paired, SameCall
    <3> QED
        BY <3>1, <3>2, <3>3
  <2>12. RunsCounted' /\ StoppedIsQuiet' /\ ClaimsKept'
      BY <1>2, <2>1, <2>6, <2>9, RunsAside
  <2> QED
      BY <2>8, <2>9, <2>10, <2>11, <2>12 DEF SchedInv
<1> QED
    BY <1>1, <1>2 DEF Track

-------------------------------------------------------------------------------
(* The steps of a run. *)

\* One that only moves the run on, with the claims it leaves.
LEMMA RunGoes ==
    ASSUME SchedInv, NEW c \in Calls, ~RunAt(c, "none"),
           UNCHANGED <<poolVars, base, cron, slots, slotq, waiting, wg, call>>,
           run' \in [Calls -> RunRecord], running' \in SUBSET (Dirs \X Opens \X Workers), ClaimsKept',
           NEW pc \in {"going", "release", "exit"}, RunAt(c, "begin") \/ RunAt(c, "going") \/ RunAt(c, "release"),
           \A b \in Calls : run'[b].pc = IF b = c THEN pc ELSE run[b].pc
    PROVE  SchedInv'
<1>1. PoolInv' /\ closer' = closer
    BY PoolFixed DEF SchedInv, poolVars
<1>2. SchedTypeOK'
    BY DEF SchedInv, SchedTypeOK
<1>3. QueueTyped'
    BY DEF SchedInv, QueueTyped
<1>4. Paired'
    BY DEF SchedInv, Paired, RunAt, At, Scheduled
<1>5. SlotsAccounted'
    BY SlotsSame DEF SchedInv, Holding, RunAt
<1>6. WaitsOnce'
    BY WaitsSame DEF SchedInv, Waits, Scheduled, Key
<1>7. RunsCounted'
    BY RunsSame DEF SchedInv, RunAt
<1>8. StoppedIsQuiet'
    BY <1>1, QuietSame DEF SchedInv, RunAt
<1> QED
    BY <1>1, <1>2, <1>3, <1>4, <1>5, <1>6, <1>7, <1>8 DEF SchedInv

\* A run that works on a claimed worker has its call still there.
LEMMA SameClaims ==
    ASSUME UNCHANGED call
    PROVE  \A b \in Calls : Claim(b)' = Claim(b)
BY DEF Claim

LEMMA RunRefusedKeeps == ASSUME SchedInv, NEW c \in Calls, RunRefused(c) PROVE SchedInv'
<1> USE DEF RunRefused
<1>1. run' \in [Calls -> RunRecord] /\ \A b \in Calls : run'[b].pc = IF b = c THEN "exit" ELSE run[b].pc
    BY RunMoves DEF SchedInv, RunPC
<1>2. ClaimsKept'
    BY <1>1, SameClaims, ClaimsSame DEF SchedInv, Claimed
<1>3. "exit" \in {"going", "release", "exit"} /\ ~RunAt(c, "none") /\ running' \in SUBSET (Dirs \X Opens \X Workers)
    BY DEF RunAt, SchedInv, SchedTypeOK
<1> QED
    BY <1>1, <1>2, <1>3, RunGoes

LEMMA RunEndKeeps == ASSUME SchedInv, NEW c \in Calls, RunEnd(c) PROVE SchedInv'
<1> USE DEF RunEnd
<1>1. run' \in [Calls -> RunRecord] /\ \A b \in Calls : run'[b].pc = IF b = c THEN "release" ELSE run[b].pc
    BY RunMoves DEF SchedInv, RunPC
<1>2. ClaimsKept'
    BY <1>1, SameClaims, ClaimsSame DEF SchedInv, Claimed, RunAt
<1>3. "release" \in {"going", "release", "exit"} /\ ~RunAt(c, "none") /\ running' \in SUBSET (Dirs \X Opens \X Workers)
    BY DEF RunAt, SchedInv, SchedTypeOK
<1> QED
    BY <1>1, <1>2, <1>3, RunGoes

\* The worker was not claimed: so no run of it holds a claim.
LEMMA RunClaimKeeps == ASSUME SchedInv, NEW c \in Calls, RunClaim(c) PROVE SchedInv'
<1> USE DEF RunClaim
<1>1. CASE Claim(c) \in running /\ RunGoto(c, "exit") /\ UNCHANGED running
  <2>1. run' \in [Calls -> RunRecord] /\ \A b \in Calls : run'[b].pc = IF b = c THEN "exit" ELSE run[b].pc
      BY <1>1, RunMoves DEF SchedInv, RunPC
  <2>2. ClaimsKept'
      BY <1>1, <2>1, SameClaims, ClaimsSame DEF SchedInv, Claimed
  <2>3. "exit" \in {"going", "release", "exit"} /\ ~RunAt(c, "none") /\ running' \in SUBSET (Dirs \X Opens \X Workers)
      BY <1>1 DEF RunAt, SchedInv, SchedTypeOK
  <2> QED
      BY <2>1, <2>2, <2>3, RunGoes
<1>2. CASE Claim(c) \notin running /\ Begun(c)
  <2>1. PICK pc \in {"going", "release"} :
           run' \in [Calls -> RunRecord] /\ \A b \in Calls : run'[b].pc = IF b = c THEN pc ELSE run[b].pc
    <3>1. CASE run' = [run EXCEPT ![c] = [pc |-> "going", started |-> TRUE]]
      <4>1. \A b \in Calls : run'[b] = IF b = c THEN [pc |-> "going", started |-> TRUE] ELSE run[b]
          BY <3>1 DEF SchedInv, SchedTypeOK
      <4>2. run' \in [Calls -> RunRecord]
          BY <3>1 DEF SchedInv, SchedTypeOK, RunRecord, RunPC
      <4> QED
          BY <4>1, <4>2
    <3>2. CASE RunGoto(c, "release")
        BY <3>2, RunMoves DEF SchedInv, RunPC
    <3> QED
        BY <1>2, <3>1, <3>2 DEF Begun
  <2>2. call[c] \in CallRecord
      BY Full DEF SchedInv, Paired, RunAt, At
  <2>3. running' = running \cup {Claim(c)} /\ running' \in SUBSET (Dirs \X Opens \X Workers)
      BY <1>2, <2>2 DEF Begun, Claim, CallRecord, SchedInv, SchedTypeOK
  <2>4. \A b \in Calls : Claimed(b)' <=> b = c \/ (Claimed(b) /\ b # c)
      BY <2>1 DEF Claimed
  <2>5. \A b \in Calls : Claimed(b) => Claim(b) # Claim(c)
      BY <1>2 DEF SchedInv, ClaimsKept
  <2>6. ClaimsKept'
      BY <2>3, <2>4, <2>5, SameClaims DEF SchedInv, ClaimsKept
  <2>7. ~RunAt(c, "none") /\ pc \in {"going", "release", "exit"}
      BY DEF RunAt
  <2> QED
      BY <2>1, <2>3, <2>6, <2>7, RunGoes
<1> QED
    BY <1>1, <1>2

LEMMA RunReleaseKeeps == ASSUME SchedInv, NEW c \in Calls, RunRelease(c) PROVE SchedInv'
<1> USE DEF RunRelease
<1>1. run' \in [Calls -> RunRecord] /\ \A b \in Calls : run'[b].pc = IF b = c THEN "exit" ELSE run[b].pc
    BY RunMoves DEF SchedInv, RunPC
<1>2. \A b \in Calls : Claimed(b)' => Claimed(b) /\ b # c
    BY <1>1 DEF Claimed
<1>3. Claimed(c)
    BY DEF Claimed, RunAt
<1>4. ClaimsKept'
    BY <1>2, <1>3, SameClaims DEF SchedInv, ClaimsKept
<1>5. "exit" \in {"going", "release", "exit"} /\ ~RunAt(c, "none") /\ running' \in SUBSET (Dirs \X Opens \X Workers)
    BY DEF RunAt, SchedInv, SchedTypeOK
<1> QED
    BY <1>1, <1>4, <1>5, RunGoes

LEMMA RunExitKeeps == ASSUME SchedInv, NEW c \in Calls, RunExit(c) PROVE SchedInv'
<1> USE DEF RunExit
<1>1. run' \in [Calls -> RunRecord] /\ \A b \in Calls : run'[b].pc = IF b = c THEN "leave" ELSE run[b].pc
    BY RunMoves DEF SchedInv, RunPC
<1>2. ~RunAt(c, "none") /\ Holding(c)
    BY DEF RunAt, Holding
<1>3. call[c].pc \in {"handoff", "returned"}
    BY <1>2 DEF SchedInv, Paired
<1>4. /\ call' \in [Calls -> CallRecord \cup {NoCall}]
      /\ \A b \in Calls : call'[b].pc = Awake(b)
      /\ \A b \in Calls : slotq # <<>> /\ b = Head(slotq) =>
             /\ call'[b].dir = call[b].dir /\ call'[b].worker = call[b].worker
             /\ call'[b].kind = call[b].kind /\ call'[b].inst = call[b].inst
      /\ \A b \in Calls : ~(slotq # <<>> /\ b = Head(slotq)) => call'[b] = call[b]
    BY WokenMoves
<1>5. \A b \in Calls : SameCall(b)
    BY <1>4 DEF SameCall, Key, Claim, Scheduled
<1>6. slotq # <<>> => Head(slotq) # c
    BY <1>3, FirstQueued DEF At
<1>7. call'[c].pc = call[c].pc /\ run'[c].pc = "leave"
    BY <1>1, <1>4, <1>6
<1>8. \A b \in Calls : b # c => run'[b] = run[b]
    BY DEF RunGoto, SchedInv, SchedTypeOK
<1>9. /\ QueueTyped' /\ slotq' \in Seq(Calls) /\ slots' \in SUBSET Calls
      /\ SlotsAccounted' /\ WaitsOnce'
    BY <1>2, <1>3, <1>4, <1>5, <1>7, <1>8, GivenBack
<1>10. PoolInv' /\ closer' = closer
    BY PoolFixed DEF SchedInv, poolVars
<1>11. SchedTypeOK'
    BY <1>1, <1>4, <1>9 DEF SchedInv, SchedTypeOK
<1>12. Paired'
  <2> SUFFICES ASSUME NEW b \in Calls
               PROVE  /\ ~RunAt(b, "none")' => call'[b].pc \in {"handoff", "returned"}
                      /\ At(b, "returned")' => ~RunAt(b, "none")'
                      /\ call'[b].pc \in {"queued", "granted", "dropped"} => Scheduled(b)'
      BY DEF Paired
  <2>1. CASE b = c
      BY <1>3, <1>7, <2>1 DEF RunAt, At
  <2>2. CASE b # c /\ slotq # <<>> /\ b = Head(slotq)
      BY <1>4, <1>5, <1>8, <2>2, FirstQueued DEF Awake, RunAt, At, SchedInv, Paired, SameCall
  <2>3. CASE b # c /\ ~(slotq # <<>> /\ b = Head(slotq))
      BY <1>4, <1>5, <1>8, <2>3 DEF Awake, RunAt, At, SchedInv, Paired, SameCall
  <2> QED
      BY <2>1, <2>2, <2>3
<1>13. RunsCounted' /\ StoppedIsQuiet'
    BY <1>1, <1>2, <1>10, RunsSame, QuietSame DEF SchedInv, RunAt
<1>14. ClaimsKept'
    BY <1>1, <1>5, ClaimsSame DEF SchedInv, Claimed, SameCall
<1> QED
    BY <1>9, <1>10, <1>11, <1>12, <1>13, <1>14 DEF SchedInv

\* The run is over; a call that has returned is forgotten with it.
LEMMA RunLeaveKeeps == ASSUME SchedInv, NEW c \in Calls, RunLeave(c) PROVE SchedInv'
<1> USE DEF RunLeave
<1>1. run' \in [Calls -> RunRecord] /\ \A b \in Calls : run'[b] = IF b = c THEN NoRun ELSE run[b]
    BY DEF SchedInv, SchedTypeOK, NoRun, RunRecord, RunPC
<1>2. run[c].pc = "leave" /\ run'[c].pc = "none"
    BY <1>1 DEF RunAt, NoRun
<1>3. call[c].pc \in {"handoff", "returned"}
    BY <1>2 DEF SchedInv, Paired, RunAt
<1>4. call' \in [Calls -> CallRecord \cup {NoCall}] /\ \A b \in Calls : b # c => call'[b] = call[b]
    BY DEF SchedInv, SchedTypeOK
<1>5. call'[c].pc \in {"handoff", "new"}
    BY <1>3, <1>4 DEF SchedInv, SchedTypeOK, At, NoCall
<1>6. \A b \in Calls : b # c => SameCall(b)
    BY <1>4 DEF SameCall, Key, Claim, Scheduled
<1>7. PoolInv' /\ closer' = closer
    BY PoolFixed DEF SchedInv, poolVars
<1>8. SchedTypeOK'
    BY <1>1, <1>4 DEF SchedInv, SchedTypeOK
<1>9. QueueTyped'
    BY <1>3, <1>4, <1>5, QueueSame DEF SchedInv, At
<1>10. Paired'
    BY <1>1, <1>2, <1>4, <1>5, <1>6 DEF SchedInv, Paired, RunAt, At, SameCall
<1>11. SlotsAccounted'
    BY <1>1, <1>2, <1>3, <1>4, <1>5, SlotsSame DEF SchedInv, Holding
<1>12. WaitsOnce'
    BY <1>3, <1>4, <1>5, <1>6, WaitsSame DEF SchedInv, Waits, SameCall
<1>13. RunsCounted' /\ StoppedIsQuiet'
    BY <1>1, <1>2, <1>7, RunsSame, QuietSame DEF SchedInv, RunAt
<1>14. ClaimsKept'
    BY <1>1, <1>2, <1>6, ClaimsSame DEF SchedInv, Claimed, SameCall
<1> QED
    BY <1>7, <1>8, <1>9, <1>10, <1>11, <1>12, <1>13, <1>14 DEF SchedInv

-------------------------------------------------------------------------------
(* The theorems. *)

LEMMA InitSched == Init => SchedInv
<1> SUFFICES ASSUME Init PROVE SchedInv
    OBVIOUS
<1> USE DEF Init
<1>1. PoolInv
    BY PoolInit0
<1>2. \A c \in Calls : call[c].pc = "new" /\ run[c].pc = "none"
    BY DEF NoCall
<1>3. SchedTypeOK
  <2>1. slotq \in Seq(Calls)
      BY EmptySeq
  <2>2. call \in [Calls -> CallRecord \cup {NoCall}]
      OBVIOUS
  <2>3. run \in [Calls -> RunRecord]
      BY DEF RunRecord, RunPC
  <2> QED
      BY <2>1, <2>2, <2>3 DEF SchedTypeOK
<1>4. QueueTyped
    BY <1>2 DEF QueueTyped
<1>5. {c \in Calls : Holding(c)} = {} /\ \A c \in Calls : ~Waits(c)
    BY <1>2 DEF Holding, Waits
<1>6. SlotsAccounted
    BY <1>5, FS_EmptySet DEF SlotsAccounted
<1>7. WaitsOnce
    BY <1>5 DEF WaitsOnce
<1>8. Paired /\ RunsCounted /\ StoppedIsQuiet /\ ClaimsKept
    BY <1>2 DEF Paired, RunsCounted, StoppedIsQuiet, ClaimsKept, RunAt, At, Claimed
<1> QED
    BY <1>1, <1>3, <1>4, <1>6, <1>7, <1>8 DEF SchedInv

LEMMA NextSched == SchedInv /\ [Next]_allVars => SchedInv'
<1> SUFFICES ASSUME SchedInv, [Next]_allVars PROVE SchedInv'
    OBVIOUS
<1>1. ASSUME NEW c \in Calls, CallStep(c) PROVE SchedInv'
    BY <1>1, JoinedKeeps, AcquireManualKeeps, AcquireScheduledKeeps, DropKeeps, StopWaitingKeeps,
       TrackKeeps, HandoffKeeps DEF CallStep
<1>2. ASSUME NEW c \in Calls, RunStep(c) PROVE SchedInv'
    BY <1>2, RunRefusedKeeps, RunClaimKeeps, RunEndKeeps, RunReleaseKeeps, RunExitKeeps, RunLeaveKeeps
    DEF RunStep
<1>3. CASE \E c \in Calls, d \in Dirs, w \in Workers, k \in Kinds : Start(c, d, w, k)
    BY <1>3, StartKeeps
<1>4. CASE \E c \in Calls : CallStep(c) \/ GiveUp(c) \/ RunStep(c)
    BY <1>1, <1>2, <1>4, GiveUpKeeps
<1>5. CASE ContextDone \/ StopCancels \/ StopWaits \/ PoolStep
    BY <1>5, ContextDoneKeeps, StopCancelsKeeps, StopWaitsKeeps, PoolStepKeeps
<1>6. CASE UNCHANGED allVars
    BY <1>6, StutterKeeps
<1> QED
    BY <1>3, <1>4, <1>5, <1>6 DEF Next

\* What the other theorems rest on, true after every step.
THEOREM SchedulerInvariant == Spec => []SchedInv
BY InitSched, NextSched, PTL DEF Spec

(* Every variable of the pool and the scheduler keeps its type, and a call   *)
(* stands in the slots' queue exactly while it is blocked there, once        *)
(* (scheduler.go:200-347, server.go:85-180).                                 *)
THEOREM SchedulerTyped == Spec => []TypeOK
<1>1. SchedInv => TypeOK
    BY DEF SchedInv, SchedTypeOK, PoolInv, TypeOK
<1> QED
    BY <1>1, SchedulerInvariant, PTL

(* What a start takes, a slot and a waiting mark, it gives back on every     *)
(* path, whichever of the calls, runs and the scheduler's stop come first;   *)
(* at most MaxConcurrent slots are taken (scheduler.go:223-347).             *)
THEOREM NoSlotLeaks == Spec => []StartsAccounted
<1>1. SchedInv => StartsAccounted
    BY DEF SchedInv, StartsAccounted
<1> QED
    BY <1>1, SchedulerInvariant, PTL

(* No run is left and none begins once stop has returned, so Close closes no *)
(* workspace under a run (Server.Close, server.go:85).                       *)
THEOREM StopIsQuiet == Spec => []StoppedIsQuiet
<1>1. SchedInv => StoppedIsQuiet
    BY DEF SchedInv
<1> QED
    BY <1>1, SchedulerInvariant, PTL

(* On one open workspace no two runs of a worker go at once (the claim under *)
(* runsMu, app/workers.go:227-243).                                          *)
THEOREM OneRunAtATime == Spec => []OneRunPerWorkspace
<1>1. SchedInv => OneRunPerWorkspace
    BY DEF SchedInv, ClaimsKept, Claimed, OneRunPerWorkspace, Working
<1> QED
    BY <1>1, SchedulerInvariant, PTL

(* Each directory has one attempt in flight and one open workspace at most,  *)
(* and none is open once Close has returned, whoever opens, fails and closes *)
(* meanwhile (server.go:85-180).                                             *)
THEOREM PoolKept == Spec => []PoolSound
<1>1. SchedInv => PoolSound
  <2> SUFFICES ASSUME PoolInv PROVE PoolSound
      BY DEF SchedInv
  <2>1. SharedOpening
      BY DEF PoolInv
  <2>2. ASSUME closer = "done", NEW d \in Dirs, NEW i \in Opens PROVE ws[<<d, i>>] \notin {"open", "draining"}
    <3>1. workspaces[d] = 0 /\ ws[<<d, i>>] # "draining"
        BY <2>2 DEF PoolInv, Closing
    <3>2. {j \in Opens : ws[<<d, j>>] = "open"} = {}
        BY <3>1 DEF PoolInv, SharedOpening
    <3> QED
        BY <3>1, <3>2
  <2>3. ASSUME closer = "done" PROVE \A o \in Dirs \X Opens : ws[o] \notin {"open", "draining"}
      BY <2>2, <2>3
  <2> QED
      BY <2>1, <2>3 DEF PoolSound, NoneOpenAfterClose
<1> QED
    BY <1>1, SchedulerInvariant, PTL
==============================================================================
