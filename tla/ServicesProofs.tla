----------------------------- MODULE ServicesProofs -----------------------------
(***************************************************************************)
(* Proofs about parts of the service that share no state: the manager of   *)
(* background processes, the environments of scripts, the queue of hooks,  *)
(* a run of the agent loop, the events of a session, the diagnostic log,   *)
(* the MCP servers, the terminal front end with its readers, the way of a  *)
(* worker run's and a turn's events to those who follow them, and what     *)
(* workers, scripts of skills, fetches and forged tools may do.  Each has  *)
(* an inductive invariant of its own, and one lemma for each group of its  *)
(* actions.                                                                *)
(***************************************************************************)
EXTENDS Processes, PyEnvs, AgentLoop, EventStore, LogSink, MCPServers, Repl, TurnStream, ScriptTools, TLAPS,
        FiniteSetTheorems, SequenceTheorems

-------------------------------------------------------------------------------
\* Background processes (Processes).

ProcessPlaces == {"unborn", "running", "exited", "finished", "done"}

\* Closers that have refused new processes, and one that has its list.
ProcessInv ==
    /\ process \in [Ids -> ProcessPlaces]
    /\ cancelled \subseteq Started /\ tracked \subseteq Started /\ refusing \in BOOLEAN
    /\ \E n \in 0 .. MaxStarts : Started = 1 .. n
    /\ closer \in [Closers -> [pc : {"idle", "refusing", "cancelling", "waiting", "returned"},
                               found : SUBSET Started]]
    /\ RunningTracked
    /\ \A c \in Closers :
          /\ closer[c].pc # "idle" => refusing
          /\ closer[c].pc = "cancelling" => Alive \subseteq closer[c].found
          /\ closer[c].pc \in {"waiting", "returned"} => Alive \subseteq cancelled

\* Sets of processes are finite.
LEMMA IdsFinite == \A S : S \subseteq Ids => IsFiniteSet(S) /\ Cardinality(S) \in Nat
<1>1. IsFiniteSet(Ids)
    BY FS_Interval, ProcessAssumption DEF Ids
<1> QED
    BY <1>1, FS_Subset, FS_CardinalityType

\* The process to start is a new one.
LEMMA NextIsNew ==
    ASSUME \E n \in 0 .. MaxStarts : Started = 1 .. n, Cardinality(Started) + 1 \in Ids
    PROVE  \E n \in 0 .. MaxStarts : /\ Started = 1 .. n /\ Cardinality(Started) = n
                                     /\ n + 1 \in 0 .. MaxStarts /\ n + 1 \notin Started
<1>1. PICK n \in 0 .. MaxStarts : Started = 1 .. n
    OBVIOUS
<1>2. Cardinality(1 .. n) = n
    BY <1>1, FS_Interval, ProcessAssumption
<1> QED
    BY <1>1, <1>2, ProcessAssumption DEF Ids

\* The invariant holds of a manager without processes.
LEMMA ProcessInvInit == ProcessInit => ProcessInv
<1> SUFFICES ASSUME ProcessInit PROVE ProcessInv
    OBVIOUS
<1>1. Started = {} /\ Alive = {} /\ cancelled = {} /\ tracked = {} /\ refusing = FALSE
    BY DEF ProcessInit, Started, Alive
<1>2. 1 .. 0 = {} /\ 0 \in 0 .. MaxStarts
    BY ProcessAssumption
<1>3. Cardinality(Alive) <= MaxRunning
    BY <1>1, FS_EmptySet, ProcessAssumption
<1>4. process \in [Ids -> ProcessPlaces]
    BY DEF ProcessInit, ProcessPlaces
<1>5. closer \in [Closers -> [pc : {"idle", "refusing", "cancelling", "waiting", "returned"},
                              found : SUBSET Started]]
      /\ \A c \in Closers : closer[c].pc = "idle"
    BY <1>1 DEF ProcessInit
<1> QED
    BY <1>1, <1>2, <1>3, <1>4, <1>5 DEF ProcessInv, RunningTracked

\* A process more.
LEMMA StartKeeps ==
    ASSUME ProcessInv, NEW starts \in BOOLEAN, StartProcess(starts)
    PROVE  ProcessInv'
<1>1. PICK n \in 0 .. MaxStarts : /\ Started = 1 .. n /\ Cardinality(Started) = n
                                  /\ n + 1 \in 0 .. MaxStarts /\ n + 1 \notin Started
    BY NextIsNew DEF StartProcess, ProcessInv
<1>2. /\ ~refusing /\ Cardinality(Counted) < MaxRunning /\ n + 1 \in Ids
      /\ UNCHANGED <<cancelled, refusing, closer>>
      /\ IF starts THEN /\ tracked' = (tracked \ Pruned) \cup {n + 1}
                        /\ process' = [process EXCEPT ![n + 1] = "running"]
                   ELSE tracked' = tracked \ Pruned /\ process' = process
    BY <1>1 DEF StartProcess, Accepting
<1>3. \A c \in Closers : closer[c].pc = "idle"
    BY <1>2 DEF ProcessInv
<1>4. Alive \cap Pruned = {} /\ Alive \subseteq Counted /\ Counted \subseteq Ids
    BY DEF ProcessInv, RunningTracked, Pruned, Finished, Counted, Alive, Started
<1>5. IsFiniteSet(Counted) /\ IsFiniteSet(Alive) /\ n + 1 \notin Alive
  <2>1. Counted \subseteq Ids /\ Alive \subseteq Ids /\ Alive \subseteq Started
      BY <1>4 DEF Alive, Started
  <2> QED
      BY <1>1, <2>1, IdsFinite
<1>6. Cardinality(Alive) <= Cardinality(Counted) /\ Cardinality(Counted) \in Nat
      /\ Cardinality(Alive) \in Nat
    BY <1>4, <1>5, FS_Subset, FS_CardinalityType
<1>7. CASE starts
  <2>1. /\ process' \in [Ids -> ProcessPlaces] /\ process'[n + 1] = "running"
        /\ \A p \in Ids : p # n + 1 => process'[p] = process[p]
      BY <1>2, <1>7 DEF ProcessInv, ProcessPlaces
  <2>2. Started' = Started \cup {n + 1} /\ Alive' = Alive \cup {n + 1}
      BY <1>2, <2>1 DEF Started, Alive
  <2>3. Started' = 1 .. (n + 1)
      BY <1>1, <2>2, ProcessAssumption
  <2>4. Cardinality(Alive') <= MaxRunning
    <3>1. Cardinality(Alive \cup {n + 1}) = Cardinality(Alive) + 1
        BY <1>5, FS_AddElement
    <3>2. Cardinality(Alive) < MaxRunning /\ Cardinality(Alive) \in Nat /\ MaxRunning \in Nat
      <4>1. Cardinality(Counted) < MaxRunning
          BY <1>2
      <4> QED
          BY <1>6, <4>1, ProcessAssumption
    <3> QED
        BY <2>2, <3>1, <3>2
  <2>5. Alive' \subseteq tracked'
      BY <1>2, <1>4, <1>7, <2>2 DEF ProcessInv, RunningTracked
  <2>6. cancelled' \subseteq Started' /\ tracked' \subseteq Started'
      BY <1>2, <1>7, <2>2 DEF ProcessInv
  <2>7. closer' \in [Closers -> [pc : {"idle", "refusing", "cancelling", "waiting", "returned"},
                                 found : SUBSET Started']]
    <3>1. UNCHANGED closer /\ Started \subseteq Started'
        BY <1>2, <2>2
    <3>2. closer \in [Closers -> [pc : {"idle", "refusing", "cancelling", "waiting", "returned"},
                                  found : SUBSET Started]]
        BY DEF ProcessInv
    <3> QED
        BY <3>1, <3>2
  <2> QED
      BY <1>1, <1>2, <1>3, <2>1, <2>3, <2>4, <2>5, <2>6, <2>7 DEF ProcessInv, RunningTracked
<1>8. CASE ~starts
  <2>1. UNCHANGED <<process, closer, cancelled, refusing>> /\ tracked' = tracked \ Pruned
      BY <1>2, <1>8
  <2>2. Started' = Started /\ Alive' = Alive
      BY <2>1 DEF Started, Alive
  <2> QED
      BY <1>4, <2>1, <2>2 DEF ProcessInv, RunningTracked
<1> QED
    BY <1>7, <1>8

\* A process ends, is noticed to have ended, or its channel is closed.
LEMMA PlaceKeeps ==
    ASSUME ProcessInv, NEW p \in Ids, Exit(p) \/ MarkFinished(p) \/ CloseDone(p)
    PROVE  ProcessInv'
<1>1. PICK q \in {"exited", "finished", "done"} : process' = [process EXCEPT ![p] = q]
    BY DEF Exit, MarkFinished, CloseDone
<1>2. process[p] # "unborn" /\ UNCHANGED <<tracked, refusing, closer>>
      /\ cancelled' \in {cancelled, cancelled \cup {p}}
    BY DEF Exit, MarkFinished, CloseDone
<1>3. process' \in [Ids -> ProcessPlaces] /\ Started' = Started /\ Alive' = Alive \ {p}
    BY <1>1, <1>2 DEF ProcessInv, ProcessPlaces, Started, Alive
<1>4. cancelled' \subseteq Started /\ cancelled \subseteq cancelled'
    BY <1>2 DEF ProcessInv, Started
<1>5. Cardinality(Alive') <= MaxRunning
  <2>1. IsFiniteSet(Alive)
      BY IdsFinite DEF Alive
  <2>2. Cardinality(Alive') <= Cardinality(Alive) /\ Cardinality(Alive) \in Nat
        /\ Cardinality(Alive') \in Nat
      BY <1>3, <2>1, FS_Subset, FS_CardinalityType
  <2> QED
      BY <2>2, ProcessAssumption DEF ProcessInv, RunningTracked
<1> QED
    BY <1>2, <1>3, <1>4, <1>5 DEF ProcessInv, RunningTracked

\* Processes are killed, one or all.
LEMMA ShutdownKeeps ==
    ASSUME ProcessInv,
           \/ \E p \in Ids : Kill(p)
           \/ \E c \in Closers : Refuse(c) \/ Find(c) \/ CancelAll(c) \/ ShutdownReturns(c)
    PROVE  ProcessInv'
<1>1. UNCHANGED <<process, tracked>> /\ Started' = Started /\ Alive' = Alive
    BY DEF Kill, Refuse, Find, CancelAll, ShutdownReturns, Started, Alive
<1>2. RunningTracked'
    BY <1>1 DEF ProcessInv, RunningTracked
<1>3. ASSUME NEW p \in Ids, Kill(p) PROVE ProcessInv'
    BY <1>1, <1>2, <1>3 DEF Kill, ProcessInv
<1>4. ASSUME NEW c \in Closers, Refuse(c) PROVE ProcessInv'
    BY <1>1, <1>2, <1>4 DEF Refuse, At, ProcessInv
<1>5. ASSUME NEW c \in Closers, Find(c) PROVE ProcessInv'
    BY <1>1, <1>2, <1>5 DEF Find, At, ProcessInv, RunningTracked
<1>6. ASSUME NEW c \in Closers, CancelAll(c) PROVE ProcessInv'
    BY <1>1, <1>2, <1>6 DEF CancelAll, At, ProcessInv
<1>7. ASSUME NEW c \in Closers, ShutdownReturns(c) PROVE ProcessInv'
    BY <1>1, <1>2, <1>7 DEF ShutdownReturns, At, ProcessInv
<1> QED
    BY <1>3, <1>4, <1>5, <1>6, <1>7

\* Every step of the manager keeps the invariant.
LEMMA ProcessInvStep == ProcessInv /\ [ProcessNext]_processVars => ProcessInv'
<1>1. CASE UNCHANGED processVars
    BY <1>1 DEF processVars, ProcessInv, RunningTracked, Started, Alive
<1> QED
    BY <1>1, StartKeeps, PlaceKeeps, ShutdownKeeps DEF ProcessNext

-------------------------------------------------------------------------------
\* A shell command behind its hooks (Processes).

BeforeRun == {"called", "hooks", "asking", "starting"}

WhatHooksDo == HookEnds \cup {PassedOver}

EachLetItThrough == \A i \in 1 .. Len(hooked) : LetThrough(i)
AllBeforeDid == \A i \in 1 .. Len(hooked) - 1 : LetThrough(i)
LastDid == LetThrough(Len(hooked))

HookedInOrder ==
    /\ hooked \in Seq(WhatHooksDo) /\ Len(hooked) <= Len(ordered.hooks) /\ Len(ordered.hooks) \in Nat
    /\ AllBeforeDid
    /\ shell.at # "returned" => EachLetItThrough

ShellTyped ==
    shell \in [at : BeforeRun \cup {"running", "ended", "returned"}, came : SUBSET {"cancelled", "asked", "approved", "late"},
               child : {"none", "background", "running", "exited", "killed"},
               exit : {-1, 0, 1, 2}, code : {-1, 0, 1, 2},
               error : {"none", "plan mode", "blocked by hook", "invalid", "blocked by policy", "denied", "failed", "timed out", "cancelled"}]

(* What a hook or the policy says is settled before the next step of the     *)
(* call, and a command that has ended, not before, has an end to tell.       *)
ShellInv ==
    /\ HookedInOrder /\ ShellTyped /\ ordered.verdict \in {"deny", "auto", "ask"}
    /\ shell.at = "hooks" => ~Is("planned")
    /\ shell.at \in {"called", "hooks"} => ~Came("asked")
    /\ shell.at \in {"asking", "starting", "running", "ended"} \/ Came("asked") \/ shell.child # "none" =>
           /\ ~Is("planned") /\ ~Is("invalid") /\ ordered.verdict \in {"auto", "ask"}
           /\ Len(hooked) = Len(ordered.hooks) /\ EachLetItThrough
    /\ shell.at = "asking" => ordered.verdict = "ask"
    /\ shell.at \in {"starting", "running", "ended"} \/ shell.child # "none" => ordered.verdict = "auto" \/ Came("approved")
    /\ Came("asked") => ordered.verdict = "ask"
    /\ shell.at \in BeforeRun => shell.child = "none" /\ shell.error = "none" /\ ~Came("late")
    /\ shell.child = "running" <=> shell.at = "running"
    /\ shell.child = "background" => Is("background") /\ shell.at = "returned"
    /\ shell.at \in {"running", "ended"} => ~Is("background") /\ shell.error \in {"none", "failed"}
    /\ shell.at = "running" => shell.error = "none"
    /\ shell.at = "ended" /\ shell.error = "none" => shell.child \in {"exited", "killed"}
    /\ shell.at = "returned" =>
           /\ shell.error = "none" =>
                  IF Is("background") THEN shell.child = "background"
                  ELSE shell.child \in {"exited", "killed"} /\ shell.code = shell.exit /\ ~Came("late") /\ ~Came("cancelled")
           /\ shell.error = "timed out" => Came("late") /\ ~Came("cancelled")
           /\ shell.error = "cancelled" => Came("cancelled")
           /\ shell.error = "blocked by hook" => ~LastDid

(* A command that begins has met no hook yet. *)
LEMMA ShellBegins == ShellInit => ShellInv
<1> SUFFICES ASSUME ShellInit PROVE ShellInv
    OBVIOUS
<1>1. PICK n \in 0 .. MaxHooks : ordered.hooks \in [1 .. n -> PreHooks]
    BY DEF ShellInit, ShellOrders
<1>2. Len(ordered.hooks) \in Nat /\ ordered.verdict \in {"deny", "auto", "ask"}
    BY <1>1 DEF ShellInit, ShellOrders
<1>3. hooked = <<>> /\ Len(hooked) = 0 /\ hooked \in Seq(WhatHooksDo)
    BY DEF ShellInit
<1>4. HookedInOrder
    BY <1>2, <1>3 DEF HookedInOrder, AllBeforeDid, EachLetItThrough
<1>5. ShellTyped
    BY DEF ShellInit, ShellTyped, BeforeRun
<1> QED
    BY <1>2, <1>4, <1>5 DEF ShellInit, ShellInv, BeforeRun, Came, Is

(* The invariant says what is told of a command. *)
LEMMA ShellSays == ShellInv => ShellTold
BY DEF ShellInv, ShellTold, EachLetItThrough, AllBeforeDid, LastDid, HookedInOrder

(* A step that leaves the hooks alone leaves what they said. *)
LEMMA HooksAlone ==
  ASSUME ShellInv, ordered' = ordered, hooked' = hooked, shell.at = "returned" => shell'.at = "returned"
  PROVE  /\ HookedInOrder' /\ EachLetItThrough' = EachLetItThrough /\ LastDid' = LastDid
         /\ Len(hooked') = Len(hooked) /\ Len(ordered'.hooks) = Len(ordered.hooks)
<1>1. EachLetItThrough' = EachLetItThrough /\ AllBeforeDid' = AllBeforeDid /\ LastDid' = LastDid
    BY DEF EachLetItThrough, AllBeforeDid, LastDid, LetThrough
<1> QED
    BY <1>1 DEF ShellInv, HookedInOrder

(* What a hook does is settled as it ends, and lets the call through unless  *)
(* it ends it.                                                               *)
LEMMA HookSettled ==
  ASSUME ShellInv, shell.at = "hooks", Len(hooked) < Len(ordered.hooks), NEW end \in WhatHooksDo,
         hooked' = Append(hooked, end), ordered' = ordered
  PROVE  /\ hooked' \in Seq(WhatHooksDo) /\ Len(hooked') <= Len(ordered'.hooks) /\ Len(ordered'.hooks) \in Nat
         /\ AllBeforeDid'
         /\ LastDid' <=> LetsThrough(NextHook, end)
         /\ EachLetItThrough' <=> LastDid'
<1>1. hooked \in Seq(WhatHooksDo) /\ Len(hooked) \in Nat /\ Len(ordered.hooks) \in Nat
    BY DEF ShellInv, HookedInOrder
<1>2. /\ hooked' \in Seq(WhatHooksDo) /\ Len(hooked') = Len(hooked) + 1
      /\ \A i \in 1 .. Len(hooked) : hooked'[i] = hooked[i]
      /\ hooked'[Len(hooked) + 1] = end
    BY <1>1
<1>3. ASSUME NEW i \in 1 .. Len(hooked) PROVE LetThrough(i)'
  <2>1. LetThrough(i)
      BY <1>3 DEF ShellInv, HookedInOrder, EachLetItThrough
  <2>2. hooked'[i] = hooked[i]
      BY <1>2
  <2> QED
      BY <2>1, <2>2 DEF LetThrough
<1>4. AllBeforeDid'
    BY <1>1, <1>2, <1>3 DEF AllBeforeDid
<1>5. LastDid' <=> LetsThrough(NextHook, end)
    BY <1>1, <1>2 DEF LastDid, LetThrough, NextHook
<1>6. EachLetItThrough' <=> LastDid'
    BY <1>1, <1>2, <1>3 DEF EachLetItThrough, LastDid
<1> QED
    BY <1>1, <1>2, <1>4, <1>5, <1>6

LEMMA ShellStep == ShellInv /\ [ShellNext]_shellVars => ShellInv'
<1> SUFFICES ASSUME ShellInv, [ShellNext]_shellVars PROVE ShellInv'
    OBVIOUS
<1> USE DEF BeforeRun, Is, Came, Over
<1>1. CASE BeginsCall
  <2>1. HookedInOrder' /\ EachLetItThrough' = EachLetItThrough /\ LastDid' = LastDid
      BY <1>1, HooksAlone DEF BeginsCall
  <2> QED
      BY <1>1, <2>1 DEF ShellInv, BeginsCall, ShellTyped
<1>2. CASE CancelTurn
  <2>1. HookedInOrder' /\ EachLetItThrough' = EachLetItThrough /\ LastDid' = LastDid
      BY <1>2, HooksAlone DEF CancelTurn
  <2> QED
      BY <1>2, <2>1 DEF ShellInv, CancelTurn, ShellTyped
<1>3. CASE PassHook
  <2>1. PassedOver \in WhatHooksDo /\ LetsThrough(NextHook, PassedOver)
      BY <1>3 DEF PassHook, WhatHooksDo, LetsThrough
  <2>2. HookedInOrder'
      BY <1>3, <2>1, HookSettled DEF PassHook, HookedInOrder
  <2> QED
      BY <1>3, <2>2 DEF PassHook, ShellInv, ShellTyped
<1>4. ASSUME NEW end \in HookEnds, RunHook(end) PROVE ShellInv'
  <2>0. end \in WhatHooksDo
      BY DEF WhatHooksDo
  <2>1. /\ shell.at = "hooks" /\ Len(hooked) < Len(ordered.hooks) /\ "for it" \in NextHook
        /\ hooked' = Append(hooked, end) /\ ordered' = ordered
      BY <1>4 DEF RunHook
  <2>2. /\ hooked' \in Seq(WhatHooksDo) /\ Len(hooked') <= Len(ordered'.hooks) /\ Len(ordered'.hooks) \in Nat
        /\ AllBeforeDid' /\ (LastDid' <=> LetsThrough(NextHook, end)) /\ (EachLetItThrough' <=> LastDid')
      BY <2>0, <2>1, HookSettled
  <2>3. end.ended \in {"exit 2", "prints block", "exit 0", "fails"} /\ end.time \in {"left", "over"}
      BY DEF HookEnds
  <2>4. LetsThrough(NextHook, end) <=> ~(HookBlocks(end) \/ (HookFails(end) /\ "fail closed" \in NextHook))
      BY <2>1, <2>3 DEF LetsThrough, HookBlocks, HookFails
  <2>5. CASE LetsThrough(NextHook, end)
    <3>1. shell' = shell
        BY <1>4, <2>4, <2>5 DEF RunHook
    <3> QED
        BY <2>1, <2>2, <2>5, <3>1 DEF ShellInv, HookedInOrder, ShellTyped
  <2>6. CASE ~LetsThrough(NextHook, end)
    <3>1. shell' = Over("blocked by hook", 0)
        BY <1>4, <2>4, <2>6 DEF RunHook
    <3> QED
        BY <2>1, <2>2, <2>6, <3>1 DEF ShellInv, HookedInOrder, ShellTyped
  <2> QED
      BY <2>5, <2>6
<1>5. CASE JudgeCommand
  <2>1. HookedInOrder' /\ EachLetItThrough' = EachLetItThrough /\ LastDid' = LastDid
      BY <1>5, HooksAlone DEF JudgeCommand
  <2> QED
      BY <1>5, <2>1 DEF ShellInv, JudgeCommand, ShellTyped, HookedInOrder
<1>6. CASE AnswerCommand
  <2>1. HookedInOrder' /\ EachLetItThrough' = EachLetItThrough /\ LastDid' = LastDid
      BY <1>6, HooksAlone DEF AnswerCommand
  <2>2. shell.at = "asking" /\ ordered' = ordered /\ hooked' = hooked
      BY <1>6 DEF AnswerCommand
  <2>3. CASE shell' = Over("denied", 0)
      BY <2>1, <2>2, <2>3 DEF ShellInv, ShellTyped
  <2>4. CASE shell' = [shell EXCEPT !.at = "starting", !.came = @ \cup {"approved"}]
      BY <2>1, <2>2, <2>4 DEF ShellInv, ShellTyped
  <2> QED
      BY <1>6, <2>3, <2>4 DEF AnswerCommand
<1>7. CASE StartCommand
  <2>1. HookedInOrder' /\ EachLetItThrough' = EachLetItThrough /\ LastDid' = LastDid
      BY <1>7, HooksAlone DEF StartCommand
  <2>2. shell.at = "starting" /\ ordered' = ordered /\ hooked' = hooked
      BY <1>7 DEF StartCommand
  <2>3. CASE shell' = Over("failed", 0)
      BY <2>1, <2>2, <2>3 DEF ShellInv, ShellTyped
  <2>4. CASE Is("background") /\ shell' = [Over("none", 0) EXCEPT !.child = "background"]
      BY <2>1, <2>2, <2>4 DEF ShellInv, ShellTyped
  <2>5. CASE ~Is("background") /\ shell' = [shell EXCEPT !.at = "ended", !.exit = 1, !.error = "failed"]
      BY <2>1, <2>2, <2>5 DEF ShellInv, ShellTyped
  <2>6. CASE ~Is("background") /\ shell' = [shell EXCEPT !.at = "running", !.child = "running"]
      BY <2>1, <2>2, <2>6 DEF ShellInv, ShellTyped
  <2> QED
      BY <1>7, <2>3, <2>4, <2>5, <2>6 DEF StartCommand
<1>8. CASE DeadlinePasses
  <2>1. HookedInOrder' /\ EachLetItThrough' = EachLetItThrough /\ LastDid' = LastDid
      BY <1>8, HooksAlone DEF DeadlinePasses
  <2>2. /\ ordered' = ordered /\ hooked' = hooked
        /\ shell' = [shell EXCEPT !.came = @ \cup {"late"}]
      BY <1>8 DEF DeadlinePasses
  <2>3. CASE shell.at = "running"
      BY <2>1, <2>2, <2>3 DEF ShellInv, ShellTyped
  <2>4. CASE shell.at = "ended"
      BY <2>1, <2>2, <2>4 DEF ShellInv, ShellTyped
  <2> QED
      BY <1>8, <2>3, <2>4 DEF DeadlinePasses
<1>9. CASE CommandEnds
  <2>1. HookedInOrder' /\ EachLetItThrough' = EachLetItThrough /\ LastDid' = LastDid
      BY <1>9, HooksAlone DEF CommandEnds
  <2>2. shell.at = "running" /\ ordered' = ordered /\ hooked' = hooked
      BY <1>9 DEF CommandEnds
  <2>3. ASSUME NEW exit \in {0, 2}, shell' = [shell EXCEPT !.at = "ended", !.child = "exited", !.exit = exit]
        PROVE  ShellInv'
      BY <2>1, <2>2, <2>3 DEF ShellInv, ShellTyped
  <2>4. CASE shell' = [shell EXCEPT !.at = "ended", !.child = "exited", !.exit = 1, !.error = "failed"]
      BY <2>1, <2>2, <2>4 DEF ShellInv, ShellTyped
  <2>5. CASE shell' = [shell EXCEPT !.at = "ended", !.child = "killed", !.exit = -1]
      BY <2>1, <2>2, <2>5 DEF ShellInv, ShellTyped
  <2> QED
      BY <1>9, <2>3, <2>4, <2>5 DEF CommandEnds
<1>10. CASE TellCommand
  <2>1. HookedInOrder' /\ EachLetItThrough' = EachLetItThrough /\ LastDid' = LastDid
      BY <1>10, HooksAlone DEF TellCommand
  <2> QED
      BY <1>10, <2>1 DEF ShellInv, TellCommand, ShellTyped
<1>11. CASE UNCHANGED shellVars
  <2>1. HookedInOrder' /\ EachLetItThrough' = EachLetItThrough /\ LastDid' = LastDid
      BY <1>11, HooksAlone DEF shellVars
  <2>2. ShellTyped' = ShellTyped /\ shell' = shell /\ ordered' = ordered /\ hooked' = hooked
      BY <1>11 DEF shellVars, ShellTyped
  <2> QED
      BY <2>1, <2>2 DEF ShellInv
<1> QED
    BY <1>1, <1>2, <1>3, <1>4, <1>5, <1>6, <1>7, <1>8, <1>9, <1>10, <1>11 DEF ShellNext

(* For every number of processes and callers of Shutdown: a process that     *)
(* runs is in the manager's map, no more run than the limit, and a Shutdown  *)
(* that has cancelled leaves none running that wasn't cancelled and starts   *)
(* no more (background.go:78-142 and 243-253).  And for any number of hooks, *)
(* each blocking, failing or late as it may: a command runs only past all of *)
(* them, the policy and the user, and what is told of it is so               *)
(* (shell.go:73-180, scripthooks.go:271-350).                                *)
THEOREM NoProcessEscapes == ProcessSpec /\ ShellSpec => []NoneEscapes
<1>1. ProcessInv => RunningTracked /\ ShutdownKills
    BY DEF ProcessInv, ShutdownKills
<1>2. ProcessInv /\ ShellInv => NoneEscapes
    BY <1>1, ShellSays DEF NoneEscapes
<1> QED
    BY <1>2, ProcessInvInit, ProcessInvStep, ShellBegins, ShellStep, PTL DEF ProcessSpec, ShellSpec

-------------------------------------------------------------------------------
\* Environments of scripts (PyEnvs).

Clearing == {"clearing", "cleaning"}
Building == {"making", "venv", "packages", "marker"}
Working == Clearing \cup Building \cup {"removing", "touching"}

\* What is in the directory while a call is at a place of its work.
InPlace(pc, e) ==
    /\ pc \in Clearing => "marker" \notin e
    /\ pc = "making" => e = {}
    /\ pc = "venv" => e = {"dir"}
    /\ pc = "packages" => e = {"dir", "venv"}
    /\ pc = "marker" => e = {"dir", "venv", "packages"}
    /\ pc = "touching" => e = Whole

EnvShape ==
    /\ env \subseteq Whole
    /\ script \in [Scripts -> [pc : Working \cup {"idle", "using"}, manager : Managers, whole : BOOLEAN]]
    /\ envLock \in [Managers -> Scripts \cup {NoScript}]
    /\ \A s \in Scripts : script[s].pc \in Working => Holds(s)
    /\ \A m \in Managers : envLock[m] # NoScript =>
          script[envLock[m]].manager = m /\ script[envLock[m]].pc \in Working

\* A marker is in a whole environment, unless a removal is under way.
MarkedIsWhole ==
    /\ \A s \in Scripts : script[s].pc \in Working => InPlace(script[s].pc, env)
    /\ \A s \in Scripts : script[s].pc = "using" => script[s].whole
    /\ (\A s \in Scripts : script[s].pc \notin Working) /\ "marker" \in env => env = Whole

EnvInv == EnvShape /\ (spoiled \/ MarkedIsWhole)

OneManager == \A m, n \in Managers : m = n

\* Calls of one manager work one at a time.
LEMMA OneWorks ==
    ASSUME OneManager, EnvShape, NEW s \in Scripts, NEW u \in Scripts,
           script[s].pc \in Working, script[u].pc \in Working
    PROVE  s = u
<1>1. script[s].manager = script[u].manager
    BY DEF OneManager, EnvShape
<1> QED
    BY <1>1 DEF EnvShape, Holds

\* The invariant holds without an environment.
LEMMA EnvInvInit == EnvInit => EnvInv
<1> SUFFICES ASSUME EnvInit PROVE EnvInv
    OBVIOUS
<1>1. \A s \in Scripts : /\ script[s].pc = "idle" /\ script[s].manager \in Managers
                         /\ script[s] = Unused(script[s].manager)
    BY DEF EnvInit, Unused
<1>2. script \in [Scripts -> [pc : Working \cup {"idle", "using"}, manager : Managers, whole : BOOLEAN]]
  <2>1. \A m \in Managers :
            Unused(m) \in [pc : Working \cup {"idle", "using"}, manager : Managers, whole : BOOLEAN]
      BY DEF Unused
  <2> QED
      BY <2>1 DEF EnvInit
<1>3. "idle" \notin Working
    BY DEF Working, Clearing, Building
<1> QED
    BY <1>1, <1>2, <1>3 DEF EnvInit, EnvInv, EnvShape, MarkedIsWhole

\* A working call goes on to another place of its work, alone.
LEMMA GoesOn ==
    ASSUME OneManager, EnvInv, NEW s \in Scripts, script[s].pc \in Working,
           NEW q \in Working, script' = [script EXCEPT ![s].pc = q],
           UNCHANGED <<envLock, spoiled>>, env' \subseteq Whole,
           ~spoiled /\ InPlace(script[s].pc, env) => InPlace(q, env')
    PROVE  EnvInv'
<1>1. /\ script'[s].pc = q /\ script'[s].manager = script[s].manager
      /\ script'[s].whole = script[s].whole
      /\ \A u \in Scripts : u # s => script'[u] = script[u]
      /\ script' \in [Scripts -> [pc : Working \cup {"idle", "using"}, manager : Managers, whole : BOOLEAN]]
    BY DEF EnvInv, EnvShape
<1>2. EnvShape'
  <2>1. \A u \in Scripts : script'[u].manager = script[u].manager
        /\ (script'[u].pc \in Working <=> script[u].pc \in Working)
      BY <1>1
  <2> QED
      BY <1>1, <2>1 DEF EnvInv, EnvShape, Holds
<1>3. ~spoiled => MarkedIsWhole'
  <2> SUFFICES ASSUME ~spoiled, MarkedIsWhole PROVE MarkedIsWhole'
      BY DEF EnvInv
  <2>1. \A u \in Scripts : u # s => script[u].pc \notin Working
      BY OneWorks DEF EnvInv
  <2>2. InPlace(q, env')
      BY DEF MarkedIsWhole
  <2>3. "using" \notin Working
      BY DEF Working, Clearing, Building
  <2>4. \A u \in Scripts : script'[u].pc \in Working => u = s
      BY <1>1, <2>1
  <2>5. \A u \in Scripts : script'[u].pc \in Working => InPlace(script'[u].pc, env')
      BY <1>1, <2>2, <2>4
  <2> QED
      BY <1>1, <2>3, <2>5 DEF MarkedIsWhole
<1> QED
    BY <1>2, <1>3 DEF EnvInv

\* A call takes its manager's lock.
LEMMA LockEnvKeeps ==
    ASSUME OneManager, EnvInv, NEW s \in Scripts, Ensure(s) \/ RemoveEnv(s)
    PROVE  EnvInv'
<1>1. PICK q \in {ReadMarker, "removing"} : LockEnv(s, q)
    BY DEF Ensure, RemoveEnv
<1>2. /\ script[s].pc = "idle" /\ envLock[script[s].manager] = NoScript
      /\ envLock' = [envLock EXCEPT ![script[s].manager] = s]
      /\ script' = [script EXCEPT ![s].pc = q]
      /\ UNCHANGED <<env, spoiled>>
    BY <1>1 DEF LockEnv, Goes
<1>3. q \in Working /\ "idle" \notin Working /\ "using" \notin Working
    BY DEF ReadMarker, Working, Clearing, Building
<1>4. /\ script'[s].pc = q /\ script'[s].manager = script[s].manager
      /\ script'[s].whole = script[s].whole
      /\ \A u \in Scripts : u # s => script'[u] = script[u]
      /\ script' \in [Scripts -> [pc : Working \cup {"idle", "using"}, manager : Managers, whole : BOOLEAN]]
    BY <1>2, <1>3 DEF EnvInv, EnvShape
<1>5. \A u \in Scripts : script[u].pc \notin Working
    BY <1>2, <1>3, EnvAssumption DEF EnvInv, EnvShape, Holds, OneManager
<1>6. EnvShape'
    BY <1>2, <1>3, <1>4, <1>5 DEF EnvInv, EnvShape, Holds, OneManager
<1>7. ~spoiled => MarkedIsWhole'
  <2> SUFFICES ASSUME ~spoiled PROVE MarkedIsWhole'
      OBVIOUS
  <2>1. "marker" \in env => env = Whole
      BY <1>5 DEF EnvInv, MarkedIsWhole
  <2>2. InPlace(q, env')
      BY <1>2, <2>1 DEF InPlace, ReadMarker, Clearing
  <2> QED
      BY <1>3, <1>4, <1>5, <2>2 DEF EnvInv, MarkedIsWhole
<1> QED
    BY <1>2, <1>6, <1>7 DEF EnvInv

\* A step of building an environment.
LEMMA WorkKeeps ==
    ASSUME OneManager, EnvInv, NEW s \in Scripts,
           \/ Cleared(s) \/ Made(s) \/ MakeVenv(s) \/ Install(s) \/ WriteMarker(s) \/ BuildFails(s)
    PROVE  EnvInv'
<1> USE DEF Goes, Builds, Working, Clearing, Building, Whole
<1>0. env \subseteq Whole
    BY DEF EnvInv, EnvShape
<1>1. CASE Cleared(s)
    BY <1>0, <1>1, GoesOn DEF Cleared, InPlace
<1>2. CASE Made(s)
    BY <1>0, <1>2, GoesOn DEF Made, InPlace
<1>3. CASE MakeVenv(s)
    BY <1>0, <1>3, GoesOn DEF MakeVenv, InPlace
<1>4. CASE Install(s)
    BY <1>0, <1>4, GoesOn DEF Install, InPlace
<1>5. CASE WriteMarker(s)
    BY <1>0, <1>5, GoesOn DEF WriteMarker, InPlace
<1>6. CASE BuildFails(s)
    BY <1>0, <1>6, GoesOn DEF BuildFails, InPlace
<1> QED
    BY <1>1, <1>2, <1>3, <1>4, <1>5, <1>6

\* An entry of the directory is removed.
LEMMA RemoveEntryKeeps ==
    ASSUME OneManager, EnvInv, NEW s \in Scripts, RemoveEntry(s)
    PROVE  EnvInv'
<1>1. /\ script[s].pc \in {"clearing", "removing", "cleaning"} /\ env' \subseteq env
      /\ UNCHANGED <<envLock, script, cuts, spoiled>>
    BY DEF RemoveEntry
<1>2. script' = [script EXCEPT ![s].pc = script[s].pc]
    BY <1>1 DEF EnvInv, EnvShape
<1>3. env' \subseteq Whole
    BY <1>1 DEF EnvInv, EnvShape
<1> QED
    BY <1>1, <1>2, <1>3, GoesOn DEF InPlace, Working, Clearing

\* A call gives its lock back.
LEMMA LockReturned ==
    ASSUME OneManager, EnvShape, NEW s \in Scripts, script[s].pc \in Working,
           NEW q \in {"idle", "using"}, NEW w \in BOOLEAN,
           script' = [script EXCEPT ![s] = [script[s] EXCEPT !.pc = q, !.whole = w]],
           Release(s), env' \subseteq Whole
    PROVE  /\ EnvShape' /\ script'[s].pc = q /\ script'[s].whole = w
           /\ \A u \in Scripts : u # s => script'[u] = script[u]
           /\ \A u \in Scripts : script'[u].pc \notin Working
<1>0. "idle" \notin Working /\ "using" \notin Working
    BY DEF Working, Clearing, Building
<1>1. /\ script'[s].pc = q /\ script'[s].manager = script[s].manager /\ script'[s].whole = w
      /\ \A u \in Scripts : u # s => script'[u] = script[u]
      /\ script' \in [Scripts -> [pc : Working \cup {"idle", "using"}, manager : Managers, whole : BOOLEAN]]
  <2> DEFINE k == [script[s] EXCEPT !.pc = q, !.whole = w]
  <2>1. /\ k \in [pc : Working \cup {"idle", "using"}, manager : Managers, whole : BOOLEAN]
        /\ k.pc = q /\ k.manager = script[s].manager /\ k.whole = w
        /\ script' = [script EXCEPT ![s] = k]
      BY DEF EnvShape
  <2> HIDE DEF k
  <2> QED
      BY <2>1 DEF EnvShape
<1>2. \A u \in Scripts : script'[u].pc \notin Working
    BY <1>0, <1>1, OneWorks
<1>3. envLock' \in [Managers -> Scripts \cup {NoScript}] /\ \A m \in Managers : envLock'[m] = NoScript
    BY DEF Release, EnvShape, OneManager
<1> QED
    BY <1>1, <1>2, <1>3 DEF EnvShape, Holds

\* A finished environment is given to its script.
LEMMA TouchKeeps ==
    ASSUME OneManager, EnvInv, NEW s \in Scripts, Touch(s)
    PROVE  EnvInv'
<1> DEFINE w == env' = Whole
<1>1. /\ script[s].pc = "touching" /\ Release(s) /\ UNCHANGED <<cuts, spoiled>>
      /\ env' = IF "dir" \in env THEN env \cup {"marker"} ELSE env
      /\ script' = [script EXCEPT ![s] = [script[s] EXCEPT !.pc = "using", !.whole = w]]
    BY DEF Touch
<1>2. script[s].pc \in Working /\ EnvShape /\ env' \subseteq Whole
    BY <1>1 DEF Working, EnvInv, EnvShape, Whole
<1>3. w \in BOOLEAN
    OBVIOUS
<1>4. ~spoiled => env' = Whole
    BY <1>1, <1>2 DEF EnvInv, MarkedIsWhole, InPlace, Clearing, Whole
<1> HIDE DEF w
<1>5. /\ EnvShape' /\ script'[s].pc = "using" /\ script'[s].whole = w
      /\ \A u \in Scripts : u # s => script'[u] = script[u]
      /\ \A u \in Scripts : script'[u].pc \notin Working
    BY <1>1, <1>2, <1>3, LockReturned
<1>6. ~spoiled => MarkedIsWhole'
    BY <1>4, <1>5 DEF EnvInv, MarkedIsWhole, w
<1> QED
    BY <1>1, <1>5, <1>6 DEF EnvInv

\* A removal returns, whether or not it removed everything.
LEMMA RemoveReturnsKeeps ==
    ASSUME OneManager, EnvInv, NEW s \in Scripts, RemoveReturns(s)
    PROVE  EnvInv'
<1>1. /\ script' = [script EXCEPT ![s].pc = "idle"] /\ Release(s) /\ env' = env
      /\ script[s].pc \in {"clearing", "removing", "cleaning"}
    BY DEF RemoveReturns, Goes
<1>6. ~spoiled' => ~spoiled /\ (script[s].pc = "removing" => env = {})
  <2>1. CASE env = {} /\ spoiled' = spoiled
      BY <2>1
  <2>2. CASE spoiled' = (spoiled \/ script[s].pc = "removing")
      BY <2>2
  <2> QED
      BY <2>1, <2>2 DEF RemoveReturns
<1>2. script[s].pc \in Working /\ EnvShape /\ env' \subseteq Whole /\ script[s].whole \in BOOLEAN
    BY <1>1 DEF Working, Clearing, EnvInv, EnvShape
<1>3. script' = [script EXCEPT ![s] = [script[s] EXCEPT !.pc = "idle", !.whole = script[s].whole]]
  <2>1. [script[s] EXCEPT !.pc = "idle"] = [script[s] EXCEPT !.pc = "idle", !.whole = script[s].whole]
      BY <1>2 DEF EnvShape
  <2> QED
      BY <1>1, <2>1
<1>4. /\ EnvShape' /\ script'[s].pc = "idle"
      /\ \A u \in Scripts : u # s => script'[u] = script[u]
      /\ \A u \in Scripts : script'[u].pc \notin Working
    BY <1>1, <1>2, <1>3, LockReturned
<1>5. ~spoiled' => "marker" \notin env'
  <2> SUFFICES ASSUME ~spoiled' PROVE "marker" \notin env
      BY <1>1
  <2>1. CASE script[s].pc = "removing"
      BY <1>6, <2>1
  <2>2. CASE script[s].pc \in Clearing
      BY <1>2, <1>6, <2>2 DEF EnvInv, MarkedIsWhole, InPlace
  <2> QED
      BY <1>1, <2>1, <2>2 DEF Clearing
<1>7. ~spoiled' => MarkedIsWhole'
    BY <1>1, <1>4, <1>5, <1>6 DEF EnvInv, MarkedIsWhole
<1> QED
    BY <1>4, <1>7 DEF EnvInv

\* A script ends.
LEMMA ScriptEndsKeeps ==
    ASSUME EnvInv, NEW s \in Scripts, ScriptEnds(s)
    PROVE  EnvInv'
<1>0. "idle" \notin Working /\ "using" \notin Working
    BY DEF Working, Clearing, Building
<1>1. /\ script[s].pc = "using" /\ UNCHANGED <<env, envLock, spoiled>>
      /\ script' = [script EXCEPT ![s] = Unused(script[s].manager)]
    BY DEF ScriptEnds
<1>2. /\ script'[s].pc = "idle" /\ script'[s].manager = script[s].manager
      /\ \A u \in Scripts : u # s => script'[u] = script[u]
      /\ script' \in [Scripts -> [pc : Working \cup {"idle", "using"}, manager : Managers, whole : BOOLEAN]]
    BY <1>1 DEF EnvInv, EnvShape, Unused
<1>3. EnvShape'
    BY <1>0, <1>1, <1>2 DEF EnvInv, EnvShape, Holds
<1>4. MarkedIsWhole => MarkedIsWhole'
    BY <1>0, <1>1, <1>2 DEF MarkedIsWhole, InPlace
<1> QED
    BY <1>1, <1>3, <1>4 DEF EnvInv

\* The process ends in the middle of any of it.
LEMMA EndProcessKeeps ==
    ASSUME EnvInv, EndProcess
    PROVE  EnvInv'
<1>0. "idle" \notin Working /\ "using" \notin Working
    BY DEF Working, Clearing, Building
<1>1. /\ script' = [s \in Scripts |-> Unused(script[s].manager)]
      /\ envLock' = [m \in Managers |-> NoScript]
      /\ spoiled' = (spoiled \/ \E s \in Scripts : script[s].pc = "removing")
      /\ env' = env
    BY DEF EndProcess
<1>2. /\ script' \in [Scripts -> [pc : Working \cup {"idle", "using"}, manager : Managers, whole : BOOLEAN]]
      /\ \A s \in Scripts : script'[s].pc = "idle"
    BY <1>1 DEF EnvInv, EnvShape, Unused
<1>3. EnvShape'
    BY <1>0, <1>1, <1>2 DEF EnvInv, EnvShape
<1>4. ~spoiled' => ("marker" \in env => env = Whole)
  <2> SUFFICES ASSUME ~spoiled, \A s \in Scripts : script[s].pc # "removing", "marker" \in env
               PROVE  env = Whole
      BY <1>1
  <2>1. CASE \A s \in Scripts : script[s].pc \notin Working
      BY <2>1 DEF EnvInv, MarkedIsWhole
  <2>2. ASSUME NEW s \in Scripts, script[s].pc \in Working PROVE env = Whole
      BY <2>2 DEF EnvInv, MarkedIsWhole, InPlace, Working, Clearing, Building
  <2> QED
      BY <2>1, <2>2
<1>5. ~spoiled' => MarkedIsWhole'
    BY <1>0, <1>1, <1>2, <1>4 DEF MarkedIsWhole
<1> QED
    BY <1>3, <1>5 DEF EnvInv

\* Every step of the environments' calls keeps the invariant.
LEMMA EnvInvStep == OneManager /\ EnvInv /\ [EnvNext]_envVars => EnvInv'
<1>1. CASE UNCHANGED envVars
    BY <1>1 DEF envVars, EnvInv, EnvShape, MarkedIsWhole, InPlace, Holds
<1> QED
    BY <1>1, LockEnvKeeps, WorkKeeps, RemoveEntryKeeps, TouchKeeps, RemoveReturnsKeeps,
       ScriptEndsKeeps, EndProcessKeeps DEF EnvNext

(* For every set of scripts: with one manager of environments to a process, as*)
(* in every program of the repository, a script is only ever given a whole   *)
(* environment, however builds, removals and ends of the process interleave, *)
(* unless a removal of an environment was cut short (pyenv's Ensure and Remove).*)
THEOREM EnvironmentsWhole ==
    ASSUME OneManager PROVE EnvSpec => []UsedWholeUnlessSpoiled
<1>1. EnvInv => UsedWholeUnlessSpoiled
    BY DEF EnvInv, MarkedIsWhole, UsedWholeUnlessSpoiled, UsedWhole
<1>2. EnvInv /\ [EnvNext]_envVars => EnvInv'
    BY EnvInvStep
<1> QED
    BY <1>1, <1>2, EnvInvInit, PTL DEF EnvSpec

-------------------------------------------------------------------------------
\* The queue of post_tool hooks (Processes).

InHand == IF worker = "busy" THEN 1 ELSE 0

\* A sequence of consecutive numbers, after the first n.
From(n, s) == s \in Seq(Nat) /\ \A i \in 1 .. Len(s) : s[i] = n + i

\* Every number told is handled, in hand or in the queue, in order.
NothingLost ==
    /\ From(0, told) /\ From(0, handled)
    /\ From(Len(handled) + InHand, queue)
    /\ Len(told) = Len(handled) + InHand + Len(queue)
    /\ worker = "busy" => current = Len(handled) + 1

TellerRecord == [pc : {"idle", "event", "flush", "waiting", "flushed"}, marker : Nat]

HookInv ==
    /\ started \in {"no", "jobs", "all"} /\ worker \in {"none", "idle", "busy", "ended"}
    /\ closed \in BOOLEAN /\ open \in BOOLEAN
    /\ teller \in [Tellers -> TellerRecord]
    /\ ender \in [Enders -> {"idle", "draining", "killing", "returned"}]
    /\ NothingLost
    /\ worker = "none" <=> started # "all"
    /\ started # "all" => told = <<>>
    /\ ~open => closed
    /\ worker = "ended" => queue = <<>> /\ closed
    /\ \A e \in Enders : /\ ender[e] # "idle" => closed
                         /\ ender[e] = "returned" => queue = <<>> /\ worker # "busy"
    /\ \A t \in Tellers : teller[t].pc = "flushed" => teller[t].marker <= Len(handled)

\* The empty sequence.
LEMMA FromNone == \A n \in Nat : From(n, <<>>) /\ Len(<<>>) = 0
BY EmptySeq DEF From

\* The next number at the end.
LEMMA FromAppend ==
    ASSUME NEW n \in Nat, NEW s, From(n, s)
    PROVE  From(n, Append(s, n + Len(s) + 1)) /\ Len(Append(s, n + Len(s) + 1)) = Len(s) + 1
<1>1. s \in Seq(Nat) /\ Len(s) \in Nat
    BY LenProperties DEF From
<1>2. n + Len(s) + 1 \in Nat
    BY <1>1
<1> DEFINE u == Append(s, n + Len(s) + 1)
<1>3. /\ u \in Seq(Nat) /\ Len(u) = Len(s) + 1 /\ (\A i \in 1 .. Len(s) : u[i] = s[i])
      /\ u[Len(s) + 1] = n + Len(s) + 1
    BY <1>1, <1>2, AppendProperties
<1> HIDE DEF u
<1>4. ASSUME NEW i \in 1 .. Len(u) PROVE u[i] = n + i
  <2>1. i \in 1 .. Len(s) \/ i = Len(s) + 1
      BY <1>1, <1>3
  <2>2. CASE i \in 1 .. Len(s)
      BY <1>3, <2>2 DEF From
  <2>3. CASE i = Len(s) + 1
      BY <1>1, <1>3, <2>3
  <2> QED
      BY <2>1, <2>2, <2>3
<1>5. From(n, u) /\ Len(u) = Len(s) + 1
    BY <1>3, <1>4 DEF From
<1> QED
    BY <1>5 DEF u

\* The first number is taken away.
LEMMA FromTail ==
    ASSUME NEW n \in Nat, NEW s, From(n, s), s # <<>>
    PROVE  Head(s) = n + 1 /\ From(n + 1, Tail(s)) /\ Len(Tail(s)) = Len(s) - 1
<1>1. s \in Seq(Nat) /\ Len(s) \in Nat \ {0}
    BY EmptySeq DEF From
<1>2. Head(s) = s[1]
    BY <1>1
<1>3. Tail(s) \in Seq(Nat) /\ Len(Tail(s)) = Len(s) - 1 /\ \A i \in 1 .. Len(Tail(s)) : Tail(s)[i] = s[i + 1]
    BY <1>1, HeadTailProperties
<1>4. \A i \in 1 .. Len(Tail(s)) : Tail(s)[i] = (n + 1) + i
    BY <1>1, <1>3 DEF From
<1> QED
    BY <1>1, <1>2, <1>3, <1>4 DEF From

\* What is queued and handled is counted by naturals.
LEMMA Lengths ==
    ASSUME NothingLost
    PROVE  /\ Len(told) \in Nat /\ Len(handled) \in Nat /\ Len(queue) \in Nat /\ InHand \in {0, 1}
           /\ told \in Seq(Nat) /\ handled \in Seq(Nat) /\ queue \in Seq(Nat)
           /\ queue = <<>> <=> Len(queue) = 0
BY LenProperties, EmptySeq DEF NothingLost, From, InHand

\* The invariant holds before anything is told.
LEMMA HookInvInit == HookInit => HookInv
<1> SUFFICES ASSUME HookInit PROVE HookInv
    OBVIOUS
<1>1. NothingLost
    BY FromNone DEF HookInit, NothingLost, InHand
<1>2. teller \in [Tellers -> TellerRecord] /\ \A t \in Tellers : teller[t].pc = "idle"
    BY DEF HookInit, Quiet, TellerRecord
<1> QED
    BY <1>1, <1>2 DEF HookInit, HookInv

\* A caller's new place.
LEMMA TellerMoves ==
    ASSUME HookInv, NEW t \in Tellers, NEW k \in TellerRecord, teller' = [teller EXCEPT ![t] = k],
           k.pc = "flushed" => k.marker <= Len(handled)
    PROVE  /\ teller' \in [Tellers -> TellerRecord]
           /\ \A u \in Tellers : teller'[u].pc = "flushed" => teller'[u].marker <= Len(handled)
BY DEF HookInv

\* Steps that leave the queue alone, and what was told and handled.
LEMMA CallersKeep ==
    ASSUME HookInv,
           \/ StartPost
           \/ \E e \in Enders : CloseQueue(e) \/ DrainTimeout(e) \/ CloseReturns(e)
           \/ \E t \in Tellers : \/ \E pc \in {"event", "flush"} : Arrive(t, pc)
                                 \/ FlushReturns(t) \/ AfterFlush(t)
           \/ UNCHANGED hookVars
    PROVE  HookInv'
<1>0. Len(<<>>) = 0
    OBVIOUS
<1>1. CASE StartPost
  <2>1. UNCHANGED <<closed, queue, open, current, killed, teller, ender, told, markers, handled>>
        /\ worker # "busy" /\ worker' # "busy"
      BY <1>1 DEF StartPost, HookInv
  <2>2. NothingLost'
      BY <2>1 DEF HookInv, NothingLost, InHand
  <2> QED
      BY <1>1, <2>1, <2>2 DEF StartPost, HookInv
<1>2. ASSUME NEW e \in Enders, CloseQueue(e) PROVE HookInv'
  <2>1. UNCHANGED <<started, queue, worker, current, killed, teller, told, markers, handled>>
      BY <1>2 DEF CloseQueue
  <2>2. NothingLost'
      BY <2>1 DEF HookInv, NothingLost, InHand
  <2>3. started # "all" => queue = <<>> /\ worker # "busy"
      BY <1>0, Lengths DEF HookInv, NothingLost
  <2>4. open' \in BOOLEAN /\ (~open' => closed') /\ closed' = TRUE
      BY <1>2 DEF CloseQueue
  <2> QED
      BY <1>2, <2>1, <2>2, <2>3, <2>4 DEF CloseQueue, HookInv
<1>3. ASSUME NEW e \in Enders, DrainTimeout(e) \/ CloseReturns(e) PROVE HookInv'
  <2>1. UNCHANGED <<started, closed, queue, open, worker, current, teller, told, markers, handled>>
      BY <1>3 DEF DrainTimeout, CloseReturns
  <2>2. NothingLost'
      BY <2>1 DEF HookInv, NothingLost, InHand
  <2> QED
      BY <1>3, <2>1, <2>2 DEF DrainTimeout, CloseReturns, HookInv
<1>4. ASSUME NEW t \in Tellers,
             \/ \E pc \in {"event", "flush"} : Arrive(t, pc)
             \/ FlushReturns(t) \/ AfterFlush(t)
      PROVE  HookInv'
  <2>1. UNCHANGED <<started, closed, queue, open, worker, current, killed, ender, told, markers, handled>>
      BY <1>4 DEF Arrive, FlushReturns, AfterFlush
  <2>2. NothingLost'
      BY <2>1 DEF HookInv, NothingLost, InHand
  <2>3. \A m \in ToSet(handled) : m <= Len(handled)
    <3>1. handled \in Seq(Nat) /\ DOMAIN handled = 1 .. Len(handled)
        BY Lengths, LenProperties DEF HookInv
    <3>2. \A i \in 1 .. Len(handled) : handled[i] = i /\ i <= Len(handled)
        BY <3>1, LenProperties DEF HookInv, NothingLost, From
    <3> QED
        BY <3>1, <3>2 DEF ToSet
  <2>4. teller[t] \in TellerRecord /\ Quiet \in TellerRecord /\ Quiet.pc = "idle"
      BY DEF HookInv, Quiet, TellerRecord
  <2>5. PICK k \in TellerRecord : /\ teller' = [teller EXCEPT ![t] = k]
                                  /\ k.pc = "flushed" => k.marker <= Len(handled)
    <3>1. ASSUME NEW pc \in {"event", "flush", "flushed"}, teller' = [teller EXCEPT ![t].pc = pc],
                 pc = "flushed" => teller[t].marker \in ToSet(handled)
          PROVE  \E k \in TellerRecord : /\ teller' = [teller EXCEPT ![t] = k]
                                         /\ k.pc = "flushed" => k.marker <= Len(handled)
      <4> DEFINE k == [teller[t] EXCEPT !.pc = pc]
      <4>1. k \in TellerRecord /\ k.pc = pc /\ k.marker = teller[t].marker
          BY <2>4 DEF TellerRecord
      <4>2. teller' = [teller EXCEPT ![t] = k]
          BY <3>1
      <4> HIDE DEF k
      <4> QED
          BY <2>3, <3>1, <4>1, <4>2
    <3>2. CASE \E pc \in {"event", "flush"} : Arrive(t, pc)
        BY <3>1, <3>2 DEF Arrive
    <3>3. CASE FlushReturns(t) \/ AfterFlush(t)
        BY <2>4, <3>1, <3>3 DEF FlushReturns, AfterFlush
    <3> QED
        BY <1>4, <3>2, <3>3
  <2>6. /\ teller' \in [Tellers -> TellerRecord]
        /\ \A u \in Tellers : teller'[u].pc = "flushed" => teller'[u].marker <= Len(handled)
      BY <2>5, TellerMoves
  <2> QED
      BY <2>1, <2>2, <2>6 DEF HookInv
<1>5. CASE UNCHANGED hookVars
    BY <1>5 DEF hookVars, HookInv, NothingLost, InHand
<1> QED
    BY <1>1, <1>2, <1>3, <1>4, <1>5

\* A number is queued or not, and none is lost.
LEMMA EnqueueKeeps ==
    ASSUME HookInv, UNCHANGED <<handled, worker, current>>,
           UNCHANGED <<told, queue>> \/ Enqueue
    PROVE  NothingLost'
<1>1. CASE UNCHANGED <<told, queue>>
    BY <1>1 DEF HookInv, NothingLost, InHand
<1>2. CASE Enqueue
  <2> DEFINE n == Len(handled) + InHand
  <2>1. /\ told' = Append(told, 0 + Len(told) + 1) /\ queue' = Append(queue, n + Len(queue) + 1)
        /\ n \in Nat
      BY <1>2, Lengths DEF Enqueue, Number, HookInv, NothingLost
  <2>2. From(0, told') /\ Len(told') = Len(told) + 1
      BY <2>1, FromAppend DEF HookInv, NothingLost
  <2>3. From(n, queue') /\ Len(queue') = Len(queue) + 1
      BY <2>1, FromAppend DEF HookInv, NothingLost
  <2>4. InHand' = InHand /\ n \in Nat /\ Len(told) \in Nat /\ Len(queue) \in Nat /\ Len(told) = n + Len(queue)
      BY Lengths DEF InHand, HookInv, NothingLost
  <2>5. Len(handled') + InHand' = n /\ From(0, handled') /\ (worker' = "busy" => current' = Len(handled') + 1)
      BY <2>4 DEF HookInv, NothingLost
  <2>6. Len(told') = n + Len(queue')
      BY <2>2, <2>3, <2>4
  <2> HIDE DEF n
  <2> QED
      BY <2>2, <2>3, <2>5, <2>6 DEF NothingLost
<1> QED
    BY <1>1, <1>2

\* An event, or a marker, is queued or not taken.
LEMMA TellKeeps ==
    ASSUME HookInv, NEW t \in Tellers, Tell(t) \/ Mark(t)
    PROVE  HookInv'
<1>1. /\ UNCHANGED <<started, closed, open, worker, current, killed, ender, handled>>
      /\ started = "all"
      /\ UNCHANGED <<told, queue>> \/ (Enqueue /\ ~closed)
    BY DEF Tell, Mark, Taken
<1>2. NothingLost'
    BY <1>1, EnqueueKeeps
<1>3. PICK k \in TellerRecord : teller' = [teller EXCEPT ![t] = k] /\ k.pc # "flushed"
  <2>1. Number \in Nat
      BY Lengths DEF HookInv, Number
  <2>2. Quiet \in TellerRecord /\ Quiet.pc = "idle"
      BY DEF Quiet, TellerRecord
  <2>3. [pc |-> "waiting", marker |-> Number] \in TellerRecord
      BY <2>1 DEF TellerRecord
  <2> QED
      BY <2>2, <2>3 DEF Tell, Mark
<1>4. /\ teller' \in [Tellers -> TellerRecord]
      /\ \A u \in Tellers : teller'[u].pc = "flushed" => teller'[u].marker <= Len(handled)
    BY <1>3, TellerMoves
<1> QED
    BY <1>1, <1>2, <1>4 DEF HookInv

(* More was handled: those whose marker has been keep it so.                 *)
LEMMA MoreHandled ==
    ASSUME HookInv, NothingLost', worker' # "busy", Len(handled') = Len(handled) + 1,
           UNCHANGED <<started, closed, open, teller, ender, told>>, started = "all",
           worker' \in {"idle", "busy"}, queue = <<>> => queue' = <<>>
    PROVE  HookInv'
<1>1. \A t \in Tellers : teller[t].marker \in Nat
    BY DEF HookInv, TellerRecord
<1>2. Len(handled) \in Nat
    BY Lengths DEF HookInv
<1>3. \A t \in Tellers : teller'[t].pc = "flushed" => teller'[t].marker <= Len(handled')
    BY <1>1, <1>2 DEF HookInv
<1> QED
    BY <1>3 DEF HookInv

\* The worker takes a job, finishes its hooks, or ends.
LEMMA WorkerKeeps ==
    ASSUME HookInv, TakeJob \/ HooksEnd \/ WorkerEnds
    PROVE  HookInv'
<1> DEFINE h == Len(handled)
<1>0. h \in Nat /\ NothingLost
    BY Lengths DEF HookInv
<1>1. CASE TakeJob
  <2>1. /\ worker = "idle" /\ queue # <<>> /\ queue' = Tail(queue)
        /\ UNCHANGED <<started, closed, open, killed, teller, ender, told, markers>>
      BY <1>1 DEF TakeJob
  <2>2. Head(queue) = h + 1 /\ From(h + 1, Tail(queue)) /\ Len(Tail(queue)) = Len(queue) - 1
      BY <1>0, <2>1, FromTail DEF NothingLost, InHand
  <2>3. CASE handled' = Append(handled, Head(queue)) /\ UNCHANGED <<worker, current>>
    <3>1. From(0, handled') /\ Len(handled') = h + 1
        BY <1>0, <2>2, <2>3, FromAppend DEF NothingLost
    <3>2. /\ Len(handled') + InHand' = h + 1 /\ InHand = 0 /\ InHand' = 0 /\ Len(handled) + InHand = h
          /\ Len(queue') = Len(queue) - 1 /\ Len(queue) \in Nat /\ worker' # "busy"
        BY <1>0, <2>1, <2>2, <2>3, <3>1, Lengths DEF InHand
    <3>4. NothingLost'
        BY <1>0, <2>1, <2>2, <2>3, <3>1, <3>2 DEF NothingLost
    <3> QED
        BY <2>1, <2>3, <3>1, <3>2, <3>4, MoreHandled DEF HookInv
  <2>4. CASE worker' = "busy" /\ current' = Head(queue) /\ UNCHANGED handled
    <3>2. /\ Len(handled') + InHand' = h + 1 /\ InHand = 0 /\ InHand' = 1 /\ Len(handled) + InHand = h
          /\ Len(queue') = Len(queue) - 1 /\ Len(queue) \in Nat /\ current' = h + 1
        BY <1>0, <2>1, <2>2, <2>4, Lengths DEF InHand
    <3>1. NothingLost'
        BY <1>0, <2>1, <2>2, <2>4, <3>2 DEF NothingLost
    <3> QED
        BY <1>0, <2>1, <2>4, <3>1 DEF HookInv
  <2> QED
      BY <1>1, <2>3, <2>4 DEF TakeJob
<1>2. CASE HooksEnd
  <2>1. /\ worker = "busy" /\ handled' = Append(handled, h + 1) /\ worker' = "idle"
        /\ UNCHANGED <<started, closed, queue, open, killed, teller, ender, told, markers>>
      BY <1>0, <1>2 DEF HooksEnd, NothingLost
  <2>2. From(0, handled') /\ Len(handled') = h + 1
      BY <1>0, <2>1, FromAppend DEF NothingLost
  <2>3. NothingLost'
      BY <1>0, <2>1, <2>2, Lengths DEF NothingLost, InHand
  <2> QED
      BY <2>1, <2>2, <2>3, MoreHandled DEF HookInv
<1>3. CASE WorkerEnds
  <2>1. /\ worker = "idle" /\ queue = <<>> /\ ~open /\ worker' = "ended"
        /\ UNCHANGED <<started, closed, queue, open, current, killed, teller, ender, told, markers, handled>>
      BY <1>3 DEF WorkerEnds
  <2>2. NothingLost'
      BY <1>0, <2>1 DEF NothingLost, InHand
  <2> QED
      BY <2>1, <2>2 DEF HookInv
<1> QED
    BY <1>1, <1>2, <1>3

\* Every step of the queue keeps the invariant.
LEMMA HookInvStep == HookInv /\ [HookNext]_hookVars => HookInv'
BY CallersKeep, TellKeeps, WorkerKeeps DEF HookNext

(* For every set of callers and size of the queue: once Close has returned,  *)
(* every event that was taken has been handled, in order, and none will be; and*)
(* when flush says so, everything queued before it has been handled          *)
(* (scripthooks.go:133-150 and 187-237).                                     *)
THEOREM QueueTellsTruly == HookSpec => []QueueToldTruly
<1>1. HookInv => QueueToldTruly
  <2> SUFFICES ASSUME HookInv PROVE QueueToldTruly
      OBVIOUS
  <2>1. ASSUME NEW e \in Enders, ender[e] = "returned" PROVE closed /\ worker # "busy" /\ handled = told
    <3>1. closed /\ worker # "busy" /\ Len(queue) = 0
        BY <2>1, Lengths DEF HookInv
    <3>2. Len(handled) = Len(told) /\ \A i \in 1 .. Len(handled) : handled[i] = told[i]
        BY <3>1, Lengths DEF HookInv, NothingLost, InHand, From
    <3> QED
        BY <3>1, <3>2, Lengths, SeqEqual DEF HookInv
  <2>2. ASSUME NEW t \in Tellers, teller[t].pc = "flushed"
        PROVE  1 .. teller[t].marker \subseteq ToSet(handled)
    <3>1. teller[t].marker \in Nat /\ teller[t].marker <= Len(handled) /\ Len(handled) \in Nat
          /\ DOMAIN handled = 1 .. Len(handled)
      <4>1. handled \in Seq(Nat) /\ Len(handled) \in Nat
          BY Lengths DEF HookInv
      <4>2. DOMAIN handled = 1 .. Len(handled)
          BY <4>1, LenProperties
      <4>3. teller[t].marker \in Nat
          BY DEF HookInv, TellerRecord
      <4> QED
          BY <2>2, <4>1, <4>2, <4>3 DEF HookInv
    <3>2. \A i \in 1 .. teller[t].marker : i \in DOMAIN handled /\ handled[i] = i
        BY <3>1 DEF HookInv, NothingLost, From
    <3> QED
        BY <3>2 DEF ToSet
  <2> QED
      BY <2>1, <2>2 DEF QueueToldTruly, ClosedIsQuiet, FlushedIsHandled
<1> QED
    BY <1>1, HookInvInit, HookInvStep, PTL DEF HookSpec

-------------------------------------------------------------------------------
\* A run of the agent loop (AgentLoop).

\* The least-number principle.
LEMMA LeastNumber ==
    ASSUME NEW S, S \subseteq Nat, S # {}
    PROVE  \E n \in S : \A k \in S : n <= k
<1> DEFINE T == {0..n : n \in S}
           R == StrictSubsetOrdering(Nat)
<1>1. T \subseteq FiniteSubsetsOf(Nat) /\ T # {}
  <2>1. \A n \in S : 0..n \in SUBSET Nat /\ IsFiniteSet(0..n)
      BY FS_Interval
  <2> QED
      BY <2>1 DEF FiniteSubsetsOf
<1>2. IsWellFoundedOn(R, FiniteSubsetsOf(Nat))
    BY FS_StrictSubsetOrderingWellFounded
<1> HIDE DEF T
<1>3. PICK s \in T : \A u \in T : ~(<<u, s>> \in R)
    BY <1>1, <1>2, WFMin
<1>4. PICK n \in S : s = 0..n
    BY <1>3 DEF T
<1>5. ASSUME NEW k \in S, k < n PROVE FALSE
  <2>1. 0..k \in T
      BY DEF T
  <2>2. n \in 0..n /\ n \notin 0..k
      BY <1>5
  <2>3. 0..k \subseteq 0..n /\ 0..k \in SUBSET Nat /\ 0..n \in SUBSET Nat
      BY <1>5
  <2> QED
      BY <1>3, <1>4, <2>1, <2>2, <2>3 DEF StrictSubsetOrdering
<1> QED
    BY <1>5

AgentRecord == [pc : {"none", "calling", "answering", "tools"}, caller : Nat, depth : 0 .. MaxSubagentDepth,
                queued : Seq({"tool", "agent"}), plain : Nat]

\* Only an agent that runs tool calls has any.
OwnTools(r) == r.pc # "tools" => r.queued = <<>> /\ r.plain = 0

\* b is one level under an agent that runs tool calls, its caller.
Under(agents, b) ==
    LET a == agents[b].caller IN
    a \in Nodes /\ agents[a].pc = "tools" /\ agents[b].depth = agents[a].depth + 1

LoopInv ==
    /\ loop \in [Nodes -> AgentRecord]
    /\ turns \in Nat /\ modelCalls \in Nat /\ modelCalls <= turns /\ modelCalls <= MaxTurns
    /\ loop[Root].caller = 0
    /\ \A a \in Nodes : OwnTools(loop[a])
    /\ \A b \in Nodes \ {Root} : loop[b].pc # "none" => Under(loop, b)

\* What the invariant says of one agent.
LEMMA AgentFacts ==
    ASSUME LoopInv, NEW a \in Nodes
    PROVE  /\ loop[a] \in AgentRecord /\ OwnTools(loop[a])
           /\ loop[a].pc \in {"none", "calling", "answering", "tools"} /\ loop[a].plain \in Nat
           /\ loop[a].caller \in Nat /\ loop[a].queued \in Seq({"tool", "agent"})
           /\ loop[a].depth \in 0 .. MaxSubagentDepth
           /\ Root \in Nodes /\ 0 \notin Nodes /\ Nodes \subseteq Nat
BY LoopAssumption DEF LoopInv, AgentRecord, Nodes, Root

\* An agent that runs no tool calls has no sub-agents.
LEMMA NoChildren ==
    ASSUME LoopInv, NEW a \in Nodes, loop[a].pc # "tools"
    PROVE  \A b \in Nodes : loop[b].pc # "none" => loop[b].caller # a
BY AgentFacts DEF LoopInv, Under

\* The run's first agent outlives all it calls.
LEMMA RootStays ==
    ASSUME LoopInv, NEW a \in Nodes, loop[a].pc # "none"
    PROVE  loop[Root].pc # "none"
<1> DEFINE S == {loop[b].depth : b \in Present}
<1>1. S # {} /\ S \subseteq Nat
  <2>1. a \in Present /\ \A b \in Present : loop[b].depth \in Nat
      BY AgentFacts, LoopAssumption DEF Present
  <2> QED
      BY <2>1
<1> HIDE DEF S
<1>2. PICK n \in S : \A k \in S : n <= k
    BY <1>1, LeastNumber
<1>3. PICK b \in Present : loop[b].depth = n
    BY <1>2 DEF S
<1>4. CASE b = Root
    BY <1>3, <1>4 DEF Present
<1>5. CASE b # Root
  <2>1. loop[b].caller \in Present /\ loop[b].depth = loop[loop[b].caller].depth + 1
      BY <1>3, <1>5 DEF LoopInv, Under, Present
  <2>2. loop[loop[b].caller].depth \in S /\ loop[loop[b].caller].depth \in Nat
      BY <2>1, AgentFacts, LoopAssumption DEF S, Present
  <2> QED
      BY <1>1, <1>2, <1>3, <2>1, <2>2
<1> QED
    BY <1>4, <1>5

\* The invariant holds of a run that begins.
LEMMA LoopInvInit == LoopInit => LoopInv
<1> SUFFICES ASSUME LoopInit PROVE LoopInv
    OBVIOUS
<1>1. <<>> \in Seq({"tool", "agent"}) /\ 0 \in 0 .. MaxSubagentDepth /\ Root \in Nodes
    BY LoopAssumption DEF Root, Nodes
<1>2. Absent \in AgentRecord /\ [Absent EXCEPT !.pc = "calling"] \in AgentRecord
    BY <1>1 DEF Absent, AgentRecord
<1>3. loop \in [Nodes -> AgentRecord]
    BY <1>2 DEF LoopInit
<1> QED
    BY <1>1, <1>3, LoopAssumption DEF LoopInit, LoopInv, OwnTools, Absent

\* An agent goes on in its place.
LEMMA AgentMoves ==
    ASSUME LoopInv, NEW a \in Nodes, loop[a].pc # "none", NEW k \in AgentRecord,
           loop' = [loop EXCEPT ![a] = k],
           k.pc # "none", k.caller = loop[a].caller, k.depth = loop[a].depth, OwnTools(k),
           loop[a].pc = "tools" => k.pc = "tools" \/ \A b \in Nodes : loop[b].pc # "none" => loop[b].caller # a,
           turns' \in Nat, modelCalls' \in Nat, modelCalls' <= turns', modelCalls' <= MaxTurns
    PROVE  LoopInv'
<1>1. loop' \in [Nodes -> AgentRecord] /\ loop'[a] = k /\ \A b \in Nodes \ {a} : loop'[b] = loop[b]
    BY DEF LoopInv
<1>2. \A b \in Nodes : OwnTools(loop'[b])
    BY <1>1 DEF LoopInv
<1>3. \A b \in Nodes : /\ loop'[b].caller = loop[b].caller /\ loop'[b].depth = loop[b].depth
                       /\ loop'[b].pc # "none" => loop[b].pc # "none"
    BY <1>1
<1>4. ASSUME NEW b \in Nodes \ {Root}, loop'[b].pc # "none" PROVE Under(loop', b)
  <2> DEFINE c == loop[b].caller
  <2>1. c \in Nodes /\ loop[c].pc = "tools" /\ loop[b].depth = loop[c].depth + 1 /\ loop[b].pc # "none"
      BY <1>3, <1>4 DEF LoopInv, Under
  <2>2. loop'[c].pc = "tools"
      BY <1>1, <2>1, NoChildren
  <2> QED
      BY <1>3, <2>1, <2>2 DEF Under
<1>5. loop'[Root].caller = 0
    BY <1>3, AgentFacts DEF LoopInv
<1> QED
    BY <1>1, <1>2, <1>3, <1>4, <1>5 DEF LoopInv

\* An agent without sub-agents ends.
LEMMA AgentLeaves ==
    ASSUME LoopInv, NEW a \in Nodes, loop[a].pc # "none", loop[a].pc # "tools", Leaves(a),
           turns' \in Nat, modelCalls' = modelCalls, modelCalls <= turns'
    PROVE  LoopInv'
<1>1. Absent \in AgentRecord /\ Absent.pc = "none" /\ Absent.caller = 0 /\ OwnTools(Absent)
    BY LoopAssumption DEF Absent, AgentRecord, OwnTools
<1>2. loop' \in [Nodes -> AgentRecord] /\ loop'[a] = Absent /\ \A b \in Nodes \ {a} : loop'[b] = loop[b]
    BY <1>1 DEF Leaves, LoopInv
<1>3. \A b \in Nodes : OwnTools(loop'[b])
    BY <1>1, <1>2 DEF LoopInv
<1>4. ASSUME NEW b \in Nodes \ {Root}, loop'[b].pc # "none" PROVE Under(loop', b)
  <2>1. b # a /\ loop'[b] = loop[b]
      BY <1>1, <1>2, <1>4
  <2>2. Under(loop, b) /\ loop[b].caller # a
      BY <1>4, <2>1, NoChildren DEF LoopInv
  <2> QED
      BY <1>2, <2>1, <2>2 DEF Under
<1> QED
    BY <1>1, <1>2, <1>3, <1>4, AgentFacts DEF LoopInv

\* A sub-agent starts in its caller's tool call.
LEMMA SubagentStarts ==
    ASSUME LoopInv, NEW a \in Nodes, StartAgent(a)
    PROVE  LoopInv'
<1> DEFINE k == [loop[a] EXCEPT !.queued = Tail(@)]
<1>1. loop[a].queued # <<>> /\ loop[a].pc = "tools"
    BY AgentFacts DEF StartAgent, OwnTools
<1>2. Tail(loop[a].queued) \in Seq({"tool", "agent"})
    BY <1>1, AgentFacts, HeadTailProperties
<1>3. /\ k \in AgentRecord /\ k.pc = "tools" /\ k.caller = loop[a].caller /\ k.depth = loop[a].depth
      /\ OwnTools(k)
    BY <1>1, <1>2, AgentFacts DEF AgentRecord, OwnTools
<1>4. turns' = turns /\ modelCalls' = modelCalls
    BY DEF StartAgent
<1>5. CASE loop[a].depth >= MaxSubagentDepth
  <2>1. loop' = [loop EXCEPT ![a] = k]
      BY <1>5 DEF StartAgent
  <2> HIDE DEF k
  <2> QED
      BY <1>1, <1>3, <1>4, <2>1, AgentMoves DEF LoopInv
<1>6. CASE ~(loop[a].depth >= MaxSubagentDepth)
  <2> DEFINE b == CHOOSE b \in Nodes \ Present : \A n \in Nodes \ Present : b <= n
             m1 == [Absent EXCEPT !.pc = "calling"]
             m2 == [m1 EXCEPT !.caller = a]
             m == [m2 EXCEPT !.depth = loop[a].depth + 1]
  <2>1. b \in Nodes /\ loop[b].pc = "none"
    <3>1. Nodes \ Present # {} /\ Nodes \ Present \subseteq Nat
        BY <1>6, AgentFacts DEF StartAgent, Present
    <3>2. \E c \in Nodes \ Present : \A n \in Nodes \ Present : c <= n
        BY <3>1, LeastNumber
    <3> QED
        BY <3>2 DEF Present
  <2>2. loop' = [[loop EXCEPT ![a] = k] EXCEPT ![b] = m]
      BY <1>6 DEF StartAgent
  <2> HIDE DEF b, k
  <2>3. m \in AgentRecord /\ m.pc = "calling" /\ m.caller = a /\ m.depth = loop[a].depth + 1 /\ OwnTools(m)
    <3>1. loop[a].depth + 1 \in 0 .. MaxSubagentDepth /\ a \in Nat /\ <<>> \in Seq({"tool", "agent"})
        BY <1>6, AgentFacts, LoopAssumption
    <3>0. Absent \in AgentRecord /\ Absent.queued = <<>> /\ Absent.plain = 0
        BY <3>1, LoopAssumption DEF Absent, AgentRecord
    <3>2. m1 \in AgentRecord /\ m1.pc = "calling" /\ m1.queued = <<>> /\ m1.plain = 0
        BY <3>0 DEF AgentRecord
    <3> HIDE DEF m1
    <3>3. m2 \in AgentRecord /\ m2.pc = "calling" /\ m2.caller = a /\ m2.queued = <<>> /\ m2.plain = 0
        BY <3>1, <3>2 DEF AgentRecord
    <3> HIDE DEF m2
    <3> QED
        BY <3>1, <3>3 DEF AgentRecord, OwnTools
  <2> HIDE DEF m, m1, m2
  <2>4. b # a /\ b # Root
      BY <1>1, <2>1, RootStays
  <2>5. /\ loop' \in [Nodes -> AgentRecord] /\ loop'[a] = k /\ loop'[b] = m
        /\ \A c \in Nodes \ {a, b} : loop'[c] = loop[c]
      BY <1>3, <2>1, <2>2, <2>3, <2>4 DEF LoopInv
  <2>6. \A c \in Nodes : OwnTools(loop'[c])
      BY <1>3, <2>3, <2>5 DEF LoopInv
  <2>7. ASSUME NEW c \in Nodes \ {Root}, loop'[c].pc # "none" PROVE Under(loop', c)
    <3>1. CASE c = b
        BY <1>3, <2>3, <2>5, <3>1 DEF Under
    <3>2. CASE c # b
      <4> DEFINE d == loop[c].caller
      <4>1. loop[c].pc # "none" /\ loop'[c].caller = d /\ loop'[c].depth = loop[c].depth
          BY <1>1, <1>3, <2>5, <2>7, <3>2
      <4>2. d \in Nodes /\ loop[d].pc = "tools" /\ loop[c].depth = loop[d].depth + 1
          BY <4>1 DEF LoopInv, Under
      <4>3. loop'[d].pc = "tools" /\ loop'[d].depth = loop[d].depth
          BY <1>3, <2>1, <2>5, <4>2
      <4> QED
          BY <4>1, <4>2, <4>3 DEF Under
    <3> QED
        BY <3>1, <3>2
  <2>8. loop'[Root].caller = 0
      BY <1>3, <2>4, <2>5, AgentFacts DEF LoopInv
  <2> QED
      BY <1>4, <2>5, <2>6, <2>7, <2>8 DEF LoopInv
<1> QED
    BY <1>5, <1>6

\* The other steps of an agent.
LEMMA AgentGoesOn ==
    ASSUME LoopInv, NEW a \in Nodes,
           \/ CallModel(a) \/ ModelAnswers(a)
           \/ \E batch \in Answers : ModelCallsTools(a, batch)
           \/ StartTool(a) \/ ToolEnds(a) \/ BatchEnds(a)
    PROVE  LoopInv'
<1>0. turns \in Nat /\ modelCalls \in Nat /\ modelCalls <= turns /\ modelCalls <= MaxTurns /\ MaxTurns \in Nat
    BY LoopAssumption DEF LoopInv
<1>1. CASE CallModel(a)
  <2>1. loop[a].pc = "calling" /\ turns' = turns + 1
      BY <1>1 DEF CallModel
  <2>2. CASE WithinBudget(a)
    <3> DEFINE k == [loop[a] EXCEPT !.pc = "answering"]
    <3>1. modelCalls' = modelCalls + 1 /\ loop' = [loop EXCEPT ![a] = k] /\ turns < MaxTurns
        BY <1>1, <2>2 DEF CallModel, WithinBudget
    <3>2. /\ k \in AgentRecord /\ k.pc = "answering" /\ k.caller = loop[a].caller /\ k.depth = loop[a].depth
          /\ OwnTools(k)
        BY <2>1, AgentFacts DEF AgentRecord, OwnTools
    <3> HIDE DEF k
    <3>3. turns' \in Nat /\ modelCalls' \in Nat /\ modelCalls' <= turns' /\ modelCalls' <= MaxTurns
        BY <1>0, <2>1, <3>1
    <3> QED
        BY <2>1, <3>1, <3>2, <3>3, AgentMoves
  <2>3. CASE ~WithinBudget(a)
      BY <1>0, <1>1, <2>1, <2>3, AgentLeaves DEF CallModel
  <2> QED
      BY <2>2, <2>3
<1>2. CASE ModelAnswers(a)
    BY <1>0, <1>2, AgentLeaves DEF ModelAnswers
<1>3. ASSUME NEW batch \in Answers, ModelCallsTools(a, batch) PROVE LoopInv'
  <2> DEFINE k == [[loop[a] EXCEPT !.pc = "tools"] EXCEPT !.queued = batch]
  <2>1. loop[a].pc = "answering" /\ loop' = [loop EXCEPT ![a] = k] /\ turns' = turns /\ modelCalls' = modelCalls
      BY <1>3 DEF ModelCallsTools
  <2>2. batch \in Seq({"tool", "agent"})
    <3>1. PICK n \in 1 .. MaxBatch : batch \in [1 .. n -> {"tool", "agent"}]
        BY DEF Answers
    <3> QED
        BY <3>1, SeqDef
  <2>3. /\ k \in AgentRecord /\ k.pc = "tools" /\ k.caller = loop[a].caller /\ k.depth = loop[a].depth
        /\ OwnTools(k)
      BY <2>2, AgentFacts DEF AgentRecord, OwnTools
  <2> HIDE DEF k
  <2> QED
      BY <1>0, <2>1, <2>3, AgentMoves
<1>4. CASE StartTool(a)
  <2> DEFINE m == [loop[a] EXCEPT !.queued = Tail(@)]
             k == [m EXCEPT !.plain = @ + 1]
  <2>1. /\ loop[a].queued # <<>> /\ loop' = [loop EXCEPT ![a] = k] /\ turns' = turns /\ modelCalls' = modelCalls
        /\ loop[a].pc = "tools"
      BY <1>4, AgentFacts DEF StartTool, OwnTools
  <2>2. Tail(loop[a].queued) \in Seq({"tool", "agent"})
      BY <2>1, AgentFacts, HeadTailProperties
  <2>3. m \in AgentRecord /\ m.pc = "tools" /\ m.caller = loop[a].caller /\ m.depth = loop[a].depth
      BY <2>1, <2>2, AgentFacts DEF AgentRecord
  <2> HIDE DEF m
  <2>4. /\ k \in AgentRecord /\ k.pc = "tools" /\ k.caller = loop[a].caller /\ k.depth = loop[a].depth
        /\ OwnTools(k)
      BY <2>3 DEF AgentRecord, OwnTools
  <2> HIDE DEF k
  <2> QED
      BY <1>0, <2>1, <2>4, AgentMoves
<1>5. CASE ToolEnds(a)
  <2> DEFINE k == [loop[a] EXCEPT !.plain = @ - 1]
  <2>1. /\ loop[a].plain > 0 /\ loop' = [loop EXCEPT ![a] = k] /\ turns' = turns /\ modelCalls' = modelCalls
      BY <1>5 DEF ToolEnds
  <2>4. loop[a].pc = "tools" /\ loop[a].plain - 1 \in Nat
      BY <2>1, AgentFacts DEF OwnTools
  <2>5. k \in AgentRecord /\ k.pc = "tools" /\ k.caller = loop[a].caller /\ k.depth = loop[a].depth
      BY <2>4, AgentFacts DEF AgentRecord
  <2>3. /\ k \in AgentRecord /\ k.pc = "tools" /\ k.caller = loop[a].caller /\ k.depth = loop[a].depth
        /\ OwnTools(k)
      BY <2>5 DEF OwnTools
  <2> HIDE DEF k
  <2> QED
      BY <1>0, <2>1, <2>3, <2>4, AgentMoves
<1>6. CASE BatchEnds(a)
  <2> DEFINE k == [loop[a] EXCEPT !.pc = "calling"]
  <2>1. /\ loop[a].pc = "tools" /\ loop[a].queued = <<>> /\ InFlight(a) = 0
        /\ loop' = [loop EXCEPT ![a] = k] /\ turns' = turns /\ modelCalls' = modelCalls
      BY <1>6 DEF BatchEnds
  <2>2. loop[a].plain = 0 /\ Children(a) = {}
    <3>1. IsFiniteSet(Children(a))
      <4>1. IsFiniteSet(1 .. MaxLive)
          BY FS_Interval, LoopAssumption
      <4> QED
          BY <4>1, FS_Subset DEF Children, Present, Nodes
    <3>2. Cardinality(Children(a)) \in Nat
        BY <3>1, FS_CardinalityType
    <3>3. Cardinality(Children(a)) = 0 /\ loop[a].plain = 0
        BY <2>1, <3>2, AgentFacts DEF InFlight
    <3> QED
        BY <3>1, <3>3, FS_EmptySet
  <2>3. /\ k \in AgentRecord /\ k.pc = "calling" /\ k.caller = loop[a].caller /\ k.depth = loop[a].depth
        /\ OwnTools(k)
      BY <2>1, <2>2, AgentFacts DEF AgentRecord, OwnTools
  <2> HIDE DEF k
  <2>4. \A b \in Nodes : loop[b].pc # "none" => loop[b].caller # a
      BY <2>2 DEF Children, Present
  <2> QED
      BY <1>0, <2>1, <2>3, <2>4, AgentMoves
<1> QED
    BY <1>1, <1>2, <1>3, <1>4, <1>5, <1>6

\* Every step of a run keeps the invariant.
LEMMA LoopInvStep == LoopInv /\ [LoopNext]_loopVars => LoopInv'
<1>1. ASSUME LoopInv, UNCHANGED loopVars PROVE LoopInv'
    BY <1>1 DEF loopVars, LoopInv, OwnTools, Under
<1> QED
    BY <1>1, SubagentStarts, AgentGoesOn DEF LoopNext

\* The deepest agent doesn't wait for another.
LEMMA DeepestGoesOn == LoopInv => NeverWaitsOnItself
<1> SUFFICES ASSUME LoopInv, Present # {} PROVE \E a \in Present : CanGoOn(a)
    BY DEF NeverWaitsOnItself
<1> DEFINE S == {MaxSubagentDepth - loop[b].depth : b \in Present}
<1>1. S # {} /\ S \subseteq Nat
  <2>1. \A b \in Present : loop[b].depth \in 0 .. MaxSubagentDepth
      BY AgentFacts DEF Present
  <2>2. \A b \in Present : MaxSubagentDepth - loop[b].depth \in Nat
      BY <2>1, LoopAssumption
  <2> QED
      BY <2>2
<1> HIDE DEF S
<1>2. PICK n \in S : \A k \in S : n <= k
    BY <1>1, LeastNumber
<1>3. PICK a \in Present : MaxSubagentDepth - loop[a].depth = n
    BY <1>2 DEF S
<1>4. a \in Nodes /\ loop[a].pc # "none" /\ loop[a].depth \in Nat
    BY AgentFacts, LoopAssumption DEF Present
<1>5. Children(a) = {}
  <2>1. ASSUME NEW b \in Children(a) PROVE FALSE
    <3>1. b \in Present /\ b \in Nodes /\ loop[b].caller = a /\ b # Root
        BY <1>4, <2>1, AgentFacts DEF Children, Present, LoopInv
    <3>2. loop[b].depth = loop[a].depth + 1 /\ loop[b].depth \in Nat
        BY <3>1, AgentFacts, LoopAssumption DEF LoopInv, Under, Present
    <3>3. n <= MaxSubagentDepth - loop[b].depth
        BY <1>2, <3>1 DEF S
    <3> QED
        BY <1>3, <1>4, <3>2, <3>3, LoopAssumption
  <2> QED
      BY <2>1
<1>6. CASE loop[a].pc = "tools" /\ ~(loop[a].plain > 0)
  <2>1. InFlight(a) = 0
      BY <1>4, <1>5, <1>6, AgentFacts, FS_EmptySet DEF InFlight
  <2> QED
      BY <1>6, <2>1, LoopAssumption DEF CanGoOn, HasPlace
<1>7. CASE ~(loop[a].pc = "tools" /\ ~(loop[a].plain > 0))
    BY <1>4, <1>7, AgentFacts DEF CanGoOn
<1> QED
    BY <1>6, <1>7

(* For every limit and number of agents: a run never waits on itself, makes no*)
(* more model calls than its limit allows, and an agent never outlives the one*)
(* that called it (engine.go:400-408, 658-662 and 728-736).                  *)
THEOREM RunsEndByThemselves == LoopSpec => []RunBounded
<1>1. LoopInv => RunWithinLimits
    BY NoChildren DEF LoopInv, RunWithinLimits, Children, Present
<1> QED
    BY <1>1, DeepestGoesOn, LoopInvInit, LoopInvStep, PTL DEF LoopSpec, RunBounded

-------------------------------------------------------------------------------
\* A conversation that is compacted (AgentLoop).

LogEntries ==
    [kind : {"user", "reply", "summary"}, at : Nat, from : Nat, to : Nat, excluded : SUBSET Nat, told : SUBSET Nat]

\* Where turns start, and the starts from one on.
TurnStarts(log) == {i \in DOMAIN log : log[i].kind = "user"}
SinceStart(starts, i) == {j \in starts : j >= i}
KeptFrom(starts) == {i \in starts : Cardinality(SinceStart(starts, i)) = KeepTurns}

LEMMA CutBegins == ASSUME NEW log PROVE CutOf(log) = IF KeptFrom(TurnStarts(log)) = {} THEN 0 ELSE CHOOSE i \in KeptFrom(TurnStarts(log)) : TRUE
BY DEF CutOf, KeptFrom, TurnStarts, SinceStart

\* Where the log is cut a turn starts, so many before its end.
LEMMA CutIsStart ==
    ASSUME NEW log \in Seq(LogEntries)
    PROVE  /\ CutOf(log) \in Nat
           /\ CutOf(log) # 0 => CutOf(log) \in KeptFrom(TurnStarts(log)) /\ CutOf(log) \in 1 .. Len(log)
           /\ KeptFrom(TurnStarts(log)) # {} => CutOf(log) # 0
<1>1. TurnStarts(log) \subseteq 1 .. Len(log) /\ Len(log) \in Nat
    BY DEF TurnStarts
<1>2. KeptFrom(TurnStarts(log)) \subseteq 1 .. Len(log)
    BY <1>1 DEF KeptFrom
<1> QED
    BY <1>1, <1>2, CutBegins

\* An event that starts no turn moves no cut.
LEMMA CutStays ==
    ASSUME NEW log \in Seq(LogEntries), NEW e \in LogEntries, e.kind # "user"
    PROVE  CutOf(Append(log, e)) = CutOf(log)
<1>1. TurnStarts(Append(log, e)) = TurnStarts(log)
    BY DEF TurnStarts
<1>2. CutOf(log) = IF KeptFrom(TurnStarts(log)) = {} THEN 0 ELSE CHOOSE i \in KeptFrom(TurnStarts(log)) : TRUE
    BY CutBegins
<1>3. CutOf(Append(log, e)) =
          IF KeptFrom(TurnStarts(Append(log, e))) = {} THEN 0 ELSE CHOOSE i \in KeptFrom(TurnStarts(Append(log, e))) : TRUE
    BY CutBegins
<1> QED
    BY <1>1, <1>2, <1>3

\* A turn that starts moves the cut on.
LEMMA CutMoves ==
    ASSUME NEW log \in Seq(LogEntries), NEW e \in LogEntries, e.kind = "user", CutOf(log) # 0
    PROVE  CutOf(Append(log, e)) # 0 /\ CutOf(Append(log, e)) >= CutOf(log)
<1> DEFINE n == Len(log) + 1
           S == TurnStarts(log)
           T == TurnStarts(Append(log, e))
           first == CutOf(log)
           next == CutOf(Append(log, e))
<1>1. /\ n \in Nat /\ S \subseteq Nat /\ T = S \cup {n} /\ \A i \in S : i < n
    BY DEF TurnStarts
<1>2. IsFiniteSet(S)
  <2>1. S \in SUBSET (1 .. Len(log)) /\ IsFiniteSet(1 .. Len(log))
    <3>1. Len(log) \in Int /\ 1 \in Int /\ DOMAIN log = 1 .. Len(log)
        OBVIOUS
    <3> QED
        BY <3>1, FS_Interval DEF TurnStarts
  <2> QED
      BY <2>1, FS_Subset
<1>3. first \in S /\ first \in Nat /\ Cardinality(SinceStart(S, first)) = KeepTurns
    BY CutIsStart DEF KeptFrom
<1>4. Append(log, e) \in Seq(LogEntries)
    OBVIOUS
<1> HIDE DEF n, S, T
<1>5. IsFiniteSet(SinceStart(S, first)) /\ SinceStart(S, first) \subseteq S
  <2>1. SinceStart(S, first) \in SUBSET S
      BY DEF SinceStart
  <2> QED
      BY <1>2, <2>1, FS_Subset
<1>6. KeepTurns \in Nat \ {0}
    BY KeepAssumption
<1>7. KeptFrom(T) # {}
  <2> DEFINE rest == SinceStart(S, first) \ {first}
             R == rest \cup {n}
  <2>1. IsFiniteSet(rest) /\ Cardinality(rest) = KeepTurns - 1
    <3>1. first \in SinceStart(S, first)
        BY <1>3 DEF SinceStart
    <3> QED
        BY <1>3, <1>5, <3>1, FS_RemoveElement
  <2>2. Cardinality(R) = KeepTurns
    <3>1. n \notin rest
        BY <1>1, <1>5
    <3> HIDE DEF rest
    <3>2. Cardinality(rest \cup {n}) = Cardinality(rest) + 1
        BY <2>1, <3>1, FS_AddElement
    <3> QED
        BY <1>6, <2>1, <3>2
  <2>3. R \subseteq Nat /\ R # {} /\ R \subseteq T
      BY <1>1, <1>5
  <2>4. PICK m \in R : \A k \in R : m <= k
      BY <2>3, LeastNumber
  <2>5. SinceStart(T, m) = R
    <3>1. ASSUME NEW j \in R PROVE j \in SinceStart(T, m)
        BY <2>3, <2>4, <3>1 DEF SinceStart
    <3>2. ASSUME NEW j \in SinceStart(T, m) PROVE j \in R
      <4>1. j \in T /\ j >= m
          BY DEF SinceStart
      <4>2. CASE j = n
          BY <4>2
      <4>3. CASE j \in S
        <5>1. m \in rest
            BY <1>1, <2>4, <4>1, <4>3
        <5>2. m \in Nat /\ m >= first /\ m # first
            BY <1>1, <1>5, <5>1 DEF SinceStart
        <5> QED
            BY <1>1, <1>3, <4>1, <4>3, <5>2 DEF SinceStart
      <4> QED
          BY <1>1, <4>1, <4>2, <4>3
    <3> QED
        BY <3>1, <3>2
  <2> QED
      BY <2>2, <2>3, <2>4, <2>5 DEF KeptFrom
<1>8. next # 0 /\ next \in T /\ next \in Nat /\ Cardinality(SinceStart(T, next)) = KeepTurns
    BY <1>4, <1>7, CutIsStart DEF KeptFrom, T
<1>9. ASSUME next < first PROVE FALSE
  <2>1. SinceStart(S, first) \cup {n} \subseteq SinceStart(T, next)
    <3>1. ASSUME NEW j \in SinceStart(S, first) PROVE j \in SinceStart(T, next)
        BY <1>1, <1>3, <1>8, <1>9, <3>1 DEF SinceStart
    <3>2. n \in SinceStart(T, next)
        BY <1>1, <1>3, <1>8, <1>9 DEF SinceStart
    <3> QED
        BY <3>1, <3>2
  <2>2. IsFiniteSet(SinceStart(T, next))
    <3>1. IsFiniteSet(T)
        BY <1>1, <1>2, FS_AddElement
    <3>2. SinceStart(T, next) \in SUBSET T
        BY DEF SinceStart
    <3> QED
        BY <3>1, <3>2, FS_Subset
  <2>3. Cardinality(SinceStart(S, first) \cup {n}) = KeepTurns + 1
    <3>1. n \notin SinceStart(S, first)
        BY <1>1, <1>5
    <3> QED
        BY <1>3, <1>5, <3>1, FS_AddElement
  <2>4. Cardinality(SinceStart(S, first) \cup {n}) <= Cardinality(SinceStart(T, next))
      BY <2>1, <2>2, FS_Subset
  <2> QED
      BY <1>6, <1>8, <2>3, <2>4
<1> QED
    BY <1>3, <1>8, <1>9


\* Its times are numbers up to some time, and where a Compact has cut it.
LogTyped ==
    /\ session \in Seq(LogEntries) /\ clock \in Nat
    /\ \E end \in Nat : \A i \in DOMAIN session : session[i].at <= end
    /\ compacter \in [Compacters -> [pc : {"idle", "summarising"}, copied : Nat, cut : Nat]]

\* What came since a Compact copied the log is later than all it copied, and it
\* has cut no further than it would be cut now.
Cutting(v) ==
    v.pc = "summarising" =>
        /\ v.cut \in 2 .. v.copied /\ v.copied <= Len(session)
        /\ CutOf(session) # 0 /\ v.cut <= CutOf(session)
        /\ \A e \in Raw(session) : e > v.copied => \A i \in 1 .. v.copied : session[i].at < session[e].at

\* What came after a summary is later than all it ranges over.
SummariesPast ==
    \A s \in Summaries(session) :
        /\ session[s].to < clock /\ CutOf(session) # 0
        /\ \A e \in Raw(session) : e > s => session[s].to < session[e].at

CompactionInv ==
    LogTyped /\ (\A c \in Compacters : Cutting(compacter[c])) /\ SummariesPast /\ NothingDropped /\ LastTurnKept

LEMMA CompactionBegins == CompactionInit => CompactionInv
<1> SUFFICES ASSUME CompactionInit PROVE CompactionInv
    OBVIOUS
<1>1. session = <<>> /\ clock = 1
    BY DEF CompactionInit
<1>2. Summaries(session) = {} /\ Raw(session) = {}
    BY <1>1 DEF Summaries, Raw
<1>3. AtRestC \in [pc : {"idle", "summarising"}, copied : Nat, cut : Nat] /\ AtRestC.pc = "idle"
    BY DEF AtRestC
<1>4. LogTyped
  <2>1. session \in Seq(LogEntries) /\ DOMAIN session = {}
      BY <1>1
  <2>2. compacter \in [Compacters -> [pc : {"idle", "summarising"}, copied : Nat, cut : Nat]]
      BY <1>3 DEF CompactionInit
  <2> QED
      BY <1>1, <2>1, <2>2 DEF LogTyped
<1>5. \A c \in Compacters : Cutting(compacter[c])
    BY <1>3 DEF Cutting, CompactionInit
<1> QED
    BY <1>2, <1>4, <1>5 DEF CompactionInv, SummariesPast, NothingDropped, LastTurnKept

\* The least and the greatest of the numbers up to one.
LEMMA FirstAndLast ==
    ASSUME NEW end \in Nat, NEW S, S \subseteq 0 .. end, S # {}
    PROVE  Min(S) \in S /\ Max(S) \in S /\ \A x \in S : Min(S) <= x /\ x <= Max(S)
<1>0. S \subseteq Nat /\ \A k \in S : end - k \in Nat
    OBVIOUS
<1>1. PICK n \in S : \A k \in S : n <= k
    BY <1>0, LeastNumber
<1>2. \E m \in S : \A k \in S : m >= k
  <2> DEFINE T == {end - k : k \in S}
  <2>1. T \subseteq Nat /\ T # {}
      BY <1>0
  <2>2. PICK t \in T : \A k \in T : t <= k
      BY <2>1, LeastNumber
  <2>3. PICK m \in S : t = end - m
      BY <2>2
  <2>4. \A k \in S : end - m <= end - k
      BY <2>2, <2>3
  <2> HIDE DEF T
  <2> QED
      BY <2>3, <2>4
<1>3. Max(S) \in S /\ \A x \in S : x <= Max(S)
    BY <1>2 DEF Max
<1>4. Min(S) \in S /\ \A x \in S : Min(S) <= x
    BY <1>1 DEF Min
<1> QED
    BY <1>3, <1>4

\* Steps that leave the log alone, and let no time go back while it is summarised.
LEMMA LogStays ==
    ASSUME CompactionInv, session' = session, clock' \in Nat, clock' >= clock \/ Summaries(session) = {},
           compacter' \in [Compacters -> [pc : {"idle", "summarising"}, copied : Nat, cut : Nat]],
           \A c \in Compacters : Cutting(compacter'[c])
    PROVE  CompactionInv'
<1>1. /\ Summaries(session') = Summaries(session) /\ Raw(session') = Raw(session) /\ CutOf(session') = CutOf(session)
      /\ NothingDropped' /\ LastTurnKept'
    BY DEF CompactionInv, NothingDropped, LastTurnKept
<1>2. LogTyped'
    BY DEF CompactionInv, LogTyped
<1>3. SummariesPast'
  <2>1. \A s \in Summaries(session) : session[s].to \in Nat
    <3>1. \A s \in DOMAIN session : session[s] \in LogEntries
        BY DEF CompactionInv, LogTyped
    <3> QED
        BY <3>1 DEF Summaries, LogEntries
  <2> QED
      BY <1>1, <2>1 DEF CompactionInv, LogTyped, SummariesPast
<1>4. \A c \in Compacters : Cutting(compacter[c])'
    BY <1>1 DEF Cutting
<1> QED
    BY <1>1, <1>2, <1>3, <1>4 DEF CompactionInv

\* A turn's event: later than all that a Compact under way has copied.
LEMMA TurnEventKeeps == ASSUME CompactionInv, NEW kind \in Kinds, TurnEvent(kind) PROVE CompactionInv'
<1> DEFINE n == Len(session) + 1
           e == Event(kind, clock)
<1>1. /\ session \in Seq(LogEntries) /\ clock \in Nat /\ n \in Nat
      /\ session' = Append(session, e) /\ clock' = clock + 1 /\ compacter' = compacter
      /\ \A c \in Compacters : CaughtUp(compacter[c].copied)
    BY DEF CompactionInv, LogTyped, TurnEvent, Ticks
<1>2. e \in LogEntries /\ e.at = clock /\ e.kind = kind /\ kind # "summary" /\ kind \in {"user", "reply"}
    BY <1>1 DEF Event, LogEntries, Kinds
<1> HIDE DEF e
<1>3. /\ session' \in Seq(LogEntries) /\ Len(session') = n /\ session'[n] = e
      /\ DOMAIN session' = DOMAIN session \cup {n} /\ DOMAIN session = 1 .. Len(session)
      /\ \A i \in DOMAIN session : session'[i] = session[i]
    BY <1>1, <1>2
<1>4. Summaries(session') = Summaries(session) /\ Raw(session') = Raw(session) \cup {n}
    BY <1>2, <1>3 DEF Summaries, Raw
<1>5. /\ CutOf(session) \in Nat /\ CutOf(session') \in Nat
      /\ CutOf(session) # 0 => CutOf(session') # 0 /\ CutOf(session') >= CutOf(session)
  <2>1. CutOf(session) \in Nat /\ CutOf(session') \in Nat
      BY <1>1, <1>3, CutIsStart
  <2>2. CASE kind = "user"
      BY <1>1, <1>2, <2>1, <2>2, CutMoves
  <2>3. CASE kind = "reply"
      BY <1>1, <1>2, <2>1, <2>3, CutStays
  <2> QED
      BY <1>2, <2>1, <2>2, <2>3
<1>6. /\ Summaries(session) \subseteq DOMAIN session /\ Raw(session) \subseteq DOMAIN session
      /\ n \notin DOMAIN session /\ \A i \in DOMAIN session : i \in Nat /\ i < n /\ session[i] \in LogEntries
    BY <1>1, <1>3 DEF Summaries, Raw
<1>7. LogTyped'
  <2>1. PICK end \in Nat : \A i \in DOMAIN session : session[i].at <= end
      BY DEF CompactionInv, LogTyped
  <2>2. \A i \in DOMAIN session' : session'[i].at <= end + clock
      BY <1>1, <1>2, <1>3, <1>6, <2>1 DEF LogEntries
  <2>3. end + clock \in Nat
      BY <1>1
  <2> QED
      BY <1>1, <1>3, <2>2, <2>3 DEF CompactionInv, LogTyped
<1>8. ASSUME NEW s \in Summaries(session) PROVE session'[s] = session[s] /\ session[s].to < clock /\ session[s].to \in Nat /\ CutOf(session) # 0
    BY <1>3, <1>6 DEF CompactionInv, SummariesPast, LogEntries
<1>9. SummariesPast'
  <2>1. ASSUME NEW s \in Summaries(session')
        PROVE  /\ session'[s].to < clock' /\ CutOf(session') # 0
               /\ \A x \in Raw(session') : x > s => session'[s].to < session'[x].at
    <3>0. s \in Summaries(session)
        BY <1>4
    <3>1. session'[s].to < clock' /\ CutOf(session') # 0
      <4>1. session'[s] = session[s] /\ session[s].to < clock /\ session[s].to \in Nat /\ CutOf(session) # 0
          BY <1>8, <3>0
      <4> QED
          BY <1>1, <1>5, <4>1
    <3>2. ASSUME NEW x \in Raw(session'), x > s PROVE session'[s].to < session'[x].at
      <4>1. CASE x = n
          BY <1>2, <1>3, <1>4, <1>8, <4>1
      <4>2. CASE x \in Raw(session)
          BY <1>3, <1>4, <1>6, <1>8, <3>2, <4>2 DEF CompactionInv, SummariesPast
      <4> QED
          BY <1>4, <4>1, <4>2
    <3> QED
        BY <3>1, <3>2
  <2> QED
      BY <2>1 DEF SummariesPast
<1>10. ASSUME NEW c \in Compacters PROVE Cutting(compacter[c])'
  <2> DEFINE v == compacter[c]
  <2>1. compacter'[c] = v /\ v \in [pc : {"idle", "summarising"}, copied : Nat, cut : Nat] /\ Cutting(v)
      BY <1>1 DEF CompactionInv, LogTyped
  <2> SUFFICES ASSUME v.pc = "summarising"
               PROVE  /\ v.cut \in 2 .. v.copied /\ v.copied <= Len(session')
                      /\ CutOf(session') # 0 /\ v.cut <= CutOf(session')
                      /\ \A x \in Raw(session') : x > v.copied => \A i \in 1 .. v.copied : session'[i].at < session'[x].at
      BY <2>1 DEF Cutting
  <2>2. /\ v.cut \in 2 .. v.copied /\ v.copied <= Len(session) /\ CutOf(session) # 0 /\ v.cut <= CutOf(session)
        /\ \A x \in Raw(session) : x > v.copied => \A i \in 1 .. v.copied : session[i].at < session[x].at
      BY <2>1 DEF Cutting
  <2> HIDE DEF v
  <2>3. 1 .. v.copied \subseteq DOMAIN session /\ v.copied \in Nat /\ v.cut \in Nat
      BY <1>3, <2>1, <2>2
  <2>4. v.copied <= Len(session') /\ CutOf(session') # 0 /\ v.cut <= CutOf(session')
      BY <1>1, <1>3, <1>5, <2>2, <2>3
  <2>5. ASSUME NEW x \in Raw(session'), x > v.copied, NEW i \in 1 .. v.copied PROVE session'[i].at < session'[x].at
    <3>1. session'[i] = session[i] /\ session[i].at < clock
        BY <1>1, <1>3, <2>3 DEF CaughtUp, v
    <3>2. CASE x = n
        BY <1>2, <1>3, <3>1, <3>2
    <3>3. CASE x \in Raw(session)
        BY <1>3, <1>6, <2>2, <2>5, <3>1, <3>3
    <3> QED
        BY <1>4, <3>2, <3>3
  <2> QED
      BY <2>2, <2>4, <2>5
<1>11. ASSUME NEW s \in Summaries(session'), NEW x \in Raw(session'), Hides(session', s, x)
       PROVE  x \in Raw(session) /\ Hides(session, s, x) /\ session'[s] = session[s]
  <2>1. s \in Summaries(session) /\ session'[s] = session[s]
      BY <1>4, <1>8
  <2>2. x # n
      BY <1>1, <1>2, <1>3, <1>8, <1>11, <2>1 DEF Hides, InRange
  <2>3. x \in Raw(session) /\ session'[x] = session[x]
      BY <1>3, <1>4, <1>6, <2>2
  <2> QED
      BY <1>11, <2>1, <2>3 DEF Hides, InRange
<1>12. NothingDropped'
    BY <1>4, <1>11 DEF CompactionInv, NothingDropped
<1>13. LastTurnKept'
  <2>1. ASSUME CutOf(session') # 0, NEW x \in CutOf(session') .. Len(session'), NEW s \in Summaries(session'), x \in Raw(session')
        PROVE  ~Hides(session', s, x)
    <3> SUFFICES ASSUME Hides(session', s, x) PROVE FALSE
        OBVIOUS
    <3>1. x \in Raw(session) /\ Hides(session, s, x) /\ s \in Summaries(session)
        BY <1>4, <1>11, <2>1
    <3>2. CutOf(session) # 0 /\ CutOf(session') >= CutOf(session)
        BY <1>5, <1>8, <3>1
    <3>3. x \in CutOf(session) .. Len(session)
        BY <1>1, <1>3, <1>5, <1>6, <2>1, <3>1, <3>2
    <3> QED
        BY <3>1, <3>2, <3>3 DEF CompactionInv, LastTurnKept
  <2> QED
      BY <2>1 DEF LastTurnKept
<1> QED
    BY <1>7, <1>9, <1>10, <1>12, <1>13 DEF CompactionInv


\* A summary is appended: what it hides it was told, and nothing that was to be
\* kept.
LEMMA SummaryKeeps == ASSUME CompactionInv, NEW c \in Compacters, AppendSummary(c) PROVE CompactionInv'
<1> DEFINE v == compacter[c]
           log == SubSeq(session, 1, v.copied)
           window == 1 .. v.cut - 1
           times == {log[i].at : i \in window}
           from == Min(times)
           to == Max(times)
           shown == TranscriptEvents(log, window)
           e == [kind |-> "summary", at |-> clock, from |-> from, to |-> to,
                 excluded |-> Excluded(log, window, from, to), told |-> ToldBy(log, shown)]
           n == Len(session) + 1
<1>1. /\ session \in Seq(LogEntries) /\ clock \in Nat /\ n \in Nat /\ clock' = clock + 1
      /\ compacter \in [Compacters -> [pc : {"idle", "summarising"}, copied : Nat, cut : Nat]]
      /\ compacter' = [compacter EXCEPT ![c] = AtRestC]
      /\ v.pc = "summarising" /\ Cutting(v)
    BY DEF CompactionInv, LogTyped, AppendSummary, Ticks
<1>2. session' = IF clock > to THEN Append(session, e) ELSE session
    BY DEF AppendSummary
<1>3. /\ v.cut \in 2 .. v.copied /\ v.copied <= Len(session) /\ CutOf(session) # 0 /\ v.cut <= CutOf(session)
      /\ \A x \in Raw(session) : x > v.copied => \A i \in 1 .. v.copied : session[i].at < session[x].at
      /\ v.copied \in Nat /\ v.cut \in Nat
    BY <1>1 DEF Cutting
<1>4. /\ compacter' \in [Compacters -> [pc : {"idle", "summarising"}, copied : Nat, cut : Nat]]
      /\ AtRestC.pc = "idle" /\ compacter'[c] = AtRestC /\ \A d \in Compacters : d # c => compacter'[d] = compacter[d]
  <2>1. AtRestC \in [pc : {"idle", "summarising"}, copied : Nat, cut : Nat] /\ AtRestC.pc = "idle"
      BY DEF AtRestC
  <2> QED
      BY <1>1, <2>1
<1>5. \A d \in Compacters : Cutting(compacter'[d])
    BY <1>4 DEF CompactionInv, Cutting
<1>6. CASE ~(clock > to)
  <2>1. session' = session
      BY <1>2, <1>6
  <2> HIDE DEF v, log, window, times, from, to, shown, e
  <2>2. clock' \in Nat /\ clock' >= clock
      BY <1>1
  <2> QED
      BY <1>4, <1>5, <2>1, <2>2, LogStays
<1>7. CASE clock > to
  <2> HIDE DEF v
  <2>1. /\ DOMAIN session = 1 .. Len(session) /\ \A i \in DOMAIN session : i \in Nat /\ i < n /\ session[i] \in LogEntries
        /\ DOMAIN log = 1 .. v.copied /\ \A i \in 1 .. v.copied : log[i] = session[i]
        /\ 1 .. v.copied \subseteq DOMAIN session /\ window \subseteq 1 .. v.copied /\ 1 \in window
      BY <1>1, <1>3
  <2>2. Summaries(log) = Summaries(session) \cap (1 .. v.copied) /\ Raw(log) = Raw(session) \cap (1 .. v.copied)
      BY <2>1 DEF Summaries, Raw
  <2> HIDE DEF log, window
  <2>3. PICK end \in Nat : \A i \in DOMAIN session : session[i].at <= end
      BY DEF CompactionInv, LogTyped
  <2>4. /\ from \in Nat /\ to \in Nat
        /\ \A i \in window : from <= session[i].at /\ session[i].at <= to
        /\ \E i \in window : to = session[i].at
    <3>0. \A i \in window : log[i] = session[i] /\ session[i] \in LogEntries /\ session[i].at <= end
        BY <2>1, <2>3
    <3>1. times \subseteq 0 .. end /\ times # {} /\ \A i \in window : log[i].at = session[i].at
      <4>1. \A i \in window : log[i].at = session[i].at /\ session[i].at \in 0 .. end
          BY <2>3, <3>0 DEF LogEntries
      <4> QED
          BY <2>1, <4>1
    <3> HIDE DEF times
    <3>2. from \in times /\ to \in times /\ \A x \in times : from <= x /\ x <= to
        BY <2>3, <3>1, FirstAndLast
    <3>3. \A i \in window : session[i].at \in times
        BY <3>1 DEF times
    <3>4. \A x \in times : \E i \in window : x = session[i].at
        BY <3>1 DEF times
    <3> HIDE DEF from, to
    <3>5. from \in Nat /\ to \in Nat
        BY <2>3, <3>1, <3>2
    <3>6. \A i \in window : from <= session[i].at /\ session[i].at <= to
        BY <3>2, <3>3
    <3>7. \E i \in window : to = session[i].at
        BY <3>2, <3>4
    <3> QED
        BY <3>5, <3>6, <3>7
  <2> HIDE DEF from, to
  <2>5. /\ e \in LogEntries /\ e.kind = "summary" /\ e.at = clock /\ e.from = from /\ e.to = to
        /\ e.excluded = Excluded(log, window, from, to) /\ e.told = ToldBy(log, shown)
    <3>1. Raw(log) \subseteq Nat /\ \A s \in Summaries(log) : log[s].told \subseteq Nat
      <4>1. \A s \in Summaries(log) : log[s] \in LogEntries
          BY <2>1, <2>2 DEF Summaries
      <4> QED
          BY <2>1, <2>2, <4>1 DEF LogEntries
    <3>2. Excluded(log, window, from, to) \in SUBSET Nat /\ ToldBy(log, shown) \in SUBSET Nat
        BY <3>1 DEF Excluded, ToldBy
    <3> QED
        BY <1>1, <2>4, <3>2 DEF LogEntries
  <2> HIDE DEF e, shown
  <2>6. /\ session' = Append(session, e) /\ session' \in Seq(LogEntries) /\ Len(session') = n /\ session'[n] = e
        /\ DOMAIN session' = DOMAIN session \cup {n} /\ n \notin DOMAIN session
        /\ \A i \in DOMAIN session : session'[i] = session[i]
      BY <1>1, <1>2, <1>7, <2>1, <2>5
  <2>7. /\ Summaries(session') = Summaries(session) \cup {n} /\ Raw(session') = Raw(session)
        /\ Summaries(session) \subseteq DOMAIN session /\ Raw(session) \subseteq DOMAIN session
      BY <2>5, <2>6 DEF Summaries, Raw
  <2>8. CutOf(session') = CutOf(session) /\ CutOf(session) \in Nat
    <3>1. e.kind # "user"
        BY <2>5
    <3> QED
        BY <1>1, <2>5, <2>6, <3>1, CutStays, CutIsStart
  \* A summary of the window says what it ranges over is before it.
  <2>9. ASSUME NEW s \in window \cap Summaries(log), NEW x \in Raw(session), InRange(session[s], session[x]) PROVE x < s
    <3>1. s \in Summaries(session) /\ s \in Nat /\ x \in Nat /\ s # x
        BY <2>1, <2>2, <2>7, <2>9 DEF Raw
    <3>2. session[s].to \in Nat /\ session[x].at \in Nat
        BY <2>1, <2>7, <3>1 DEF LogEntries
    <3>3. ~(x > s)
        BY <2>9, <3>1, <3>2 DEF CompactionInv, SummariesPast, InRange
    <3> QED
        BY <3>1, <3>3
  <2>10. ASSUME NEW x \in Raw(session), from <= session[x].at, session[x].at <= to, x \notin e.excluded
         PROVE  x \in window /\ x \in e.told
    <3>1. x \in DOMAIN session /\ x \in Nat /\ session[x].at \in Nat
        BY <2>1, <2>7 DEF LogEntries
    <3>2. x <= v.copied
      <4>1. PICK i \in window : to = session[i].at
          BY <2>4
      <4>2. i \in 1 .. v.copied
          BY <2>1
      <4> QED
          BY <1>3, <2>4, <2>10, <3>1, <4>1, <4>2
    <3>3. x \in Raw(log) /\ log[x] = session[x] /\ x \in 1 .. v.copied
        BY <1>3, <2>1, <2>2, <3>1, <3>2
    <3>4. x \in window
      <4> SUFFICES ASSUME x \notin window PROVE FALSE
          OBVIOUS
      <4>1. PICK s \in window \cap Summaries(log) : InRange(log[s], log[x])
          BY <2>5, <2>10, <3>3 DEF Excluded
      <4>2. log[s] = session[s]
          BY <2>1
      <4>3. x < s
          BY <2>9, <3>3, <4>1, <4>2
      <4> QED
          BY <1>3, <3>1, <3>3, <4>3 DEF window
    <3>5. CASE \A s \in window \cap Summaries(log) : ~Hides(log, s, x)
      <4>1. x \in RawOnly(log, window)
          BY <3>3, <3>4, <3>5 DEF RawOnly, Raw
      <4> QED
          BY <2>5, <3>3, <3>4, <4>1 DEF ToldBy, TranscriptEvents, shown
    <3>6. CASE \E s \in window \cap Summaries(log) : Hides(log, s, x)
      <4>1. PICK s \in window \cap Summaries(log) : Hides(log, s, x)
          BY <3>6
      <4>2. log[s] = session[s] /\ s \in Summaries(session)
          BY <2>1, <2>2
      <4>3. x \in log[s].told
          BY <3>3, <4>1, <4>2 DEF CompactionInv, NothingDropped, Hides
      <4>4. s \in shown \cap Summaries(log)
          BY <4>1 DEF shown, TranscriptEvents
      <4> QED
          BY <2>5, <3>4, <4>3, <4>4 DEF ToldBy
    <3> QED
        BY <3>5, <3>6
  <2>11. ASSUME NEW s \in Summaries(session'), NEW x \in Raw(session'), Hides(session', s, x)
         PROVE  IF s = n THEN x \in window /\ x \in e.told ELSE s \in Summaries(session) /\ session'[s] = session[s] /\ Hides(session, s, x)
    <3>1. x \in Raw(session) /\ session'[x] = session[x]
        BY <2>6, <2>7
    <3>2. CASE s = n
        BY <2>5, <2>6, <2>10, <2>11, <3>1, <3>2 DEF Hides, InRange
    <3>3. CASE s # n
        BY <2>6, <2>7, <2>11, <3>1, <3>3 DEF Hides, InRange
    <3> QED
        BY <3>2, <3>3
  <2>12. NothingDropped'
    <3>1. ASSUME NEW s \in Summaries(session'), NEW x \in Raw(session'), Hides(session', s, x) PROVE x \in session'[s].told
      <4>1. CASE s = n
          BY <2>6, <2>11, <3>1, <4>1
      <4>2. CASE s # n
          BY <2>7, <2>11, <3>1, <4>2 DEF CompactionInv, NothingDropped
      <4> QED
          BY <4>1, <4>2
    <3> QED
        BY <3>1 DEF NothingDropped
  <2>13. LastTurnKept'
    <3>1. ASSUME NEW x \in CutOf(session') .. Len(session'), NEW s \in Summaries(session'), x \in Raw(session')
          PROVE  ~Hides(session', s, x)
      <4> SUFFICES ASSUME Hides(session', s, x) PROVE FALSE
          OBVIOUS
      <4>1. x \in Raw(session) /\ x \in Nat /\ x >= CutOf(session) /\ x \in CutOf(session) .. Len(session)
        <5>1. x \in Raw(session) /\ x \in DOMAIN session
            BY <2>7, <3>1
        <5> QED
            BY <2>1, <2>8, <3>1, <5>1
      <4>2. CASE s = n
        <5>1. x \in window
            BY <2>11, <3>1, <4>2
        <5> QED
            BY <1>3, <2>8, <4>1, <5>1 DEF window
      <4>3. CASE s # n
        <5>1. s \in Summaries(session) /\ Hides(session, s, x)
            BY <2>11, <3>1, <4>3
        <5> QED
            BY <1>3, <4>1, <5>1 DEF CompactionInv, LastTurnKept
      <4> QED
          BY <4>2, <4>3
    <3> QED
        BY <3>1 DEF LastTurnKept
  <2>14. SummariesPast'
    <3>1. ASSUME NEW s \in Summaries(session')
          PROVE  /\ session'[s].to < clock' /\ CutOf(session') # 0
                 /\ \A x \in Raw(session') : x > s => session'[s].to < session'[x].at
      <4>1. CASE s = n
        <5>1. session'[s].to < clock' /\ CutOf(session') # 0
            BY <1>1, <1>3, <1>7, <2>4, <2>5, <2>6, <2>8, <4>1
        <5>2. \A x \in Raw(session') : ~(x > s)
            BY <2>1, <2>7, <4>1
        <5> QED
            BY <5>1, <5>2
      <4>2. CASE s \in Summaries(session)
        <5>1. session'[s] = session[s] /\ session[s].to \in Nat /\ session[s].to < clock
            BY <2>1, <2>6, <2>7, <4>2 DEF CompactionInv, SummariesPast, LogEntries
        <5>2. session'[s].to < clock' /\ CutOf(session') # 0
            BY <1>1, <1>3, <2>8, <5>1
        <5>3. ASSUME NEW x \in Raw(session'), x > s PROVE session'[s].to < session'[x].at
          <6>1. x \in Raw(session) /\ session'[x] = session[x]
              BY <2>6, <2>7
          <6> QED
              BY <4>2, <5>1, <5>3, <6>1 DEF CompactionInv, SummariesPast
        <5> QED
            BY <5>2, <5>3
      <4> QED
          BY <2>7, <4>1, <4>2
    <3> QED
        BY <3>1 DEF SummariesPast
  <2>15. LogTyped'
    <3>1. \A i \in DOMAIN session' : session'[i].at <= end + clock
        BY <1>1, <2>1, <2>3, <2>5, <2>6 DEF LogEntries
    <3>2. end + clock \in Nat
        BY <1>1
    <3>3. \E b \in Nat : \A i \in DOMAIN session' : session'[i].at <= b
        BY <3>1, <3>2
    <3>4. clock' \in Nat
        BY <1>1
    <3> QED
        BY <1>4, <2>6, <3>3, <3>4 DEF LogTyped
  <2>16. ASSUME NEW d \in Compacters PROVE Cutting(compacter[d])'
    <3>1. CASE d = c
        BY <1>4, <3>1 DEF Cutting
    <3>2. CASE d # c
      <4>1. compacter'[d] = compacter[d] /\ Cutting(compacter[d]) /\ compacter[d] \in [pc : {"idle", "summarising"}, copied : Nat, cut : Nat]
          BY <1>1, <1>4, <3>2 DEF CompactionInv
      <4> SUFFICES ASSUME compacter[d].pc = "summarising"
                   PROVE  /\ compacter[d].cut \in 2 .. compacter[d].copied /\ compacter[d].copied <= Len(session')
                          /\ CutOf(session') # 0 /\ compacter[d].cut <= CutOf(session')
                          /\ \A x \in Raw(session') : x > compacter[d].copied =>
                                 \A i \in 1 .. compacter[d].copied : session'[i].at < session'[x].at
          BY <4>1 DEF Cutting
      <4>2. /\ compacter[d].cut \in 2 .. compacter[d].copied /\ compacter[d].copied <= Len(session)
            /\ CutOf(session) # 0 /\ compacter[d].cut <= CutOf(session)
            /\ \A x \in Raw(session) : x > compacter[d].copied =>
                   \A i \in 1 .. compacter[d].copied : session[i].at < session[x].at
          BY <4>1 DEF Cutting
      <4>3. 1 .. compacter[d].copied \subseteq DOMAIN session /\ compacter[d].copied <= Len(session')
          BY <1>1, <2>1, <2>6, <4>1, <4>2
      <4> QED
          BY <2>6, <2>7, <2>8, <4>2, <4>3
    <3> QED
        BY <3>1, <3>2
  <2> QED
      BY <2>12, <2>13, <2>14, <2>15, <2>16 DEF CompactionInv
<1> QED
    BY <1>6, <1>7


LEMMA CompactionStep == CompactionInv /\ [CompactionNext]_compactionVars => CompactionInv'
<1> SUFFICES ASSUME CompactionInv, [CompactionNext]_compactionVars PROVE CompactionInv'
    OBVIOUS
<1>0. /\ clock \in Nat /\ compacter \in [Compacters -> [pc : {"idle", "summarising"}, copied : Nat, cut : Nat]]
      /\ session \in Seq(LogEntries) /\ \A c \in Compacters : Cutting(compacter[c])
    BY DEF CompactionInv, LogTyped
<1>1. CASE TickClock
    BY <1>0, <1>1, LogStays DEF TickClock, Ticks
<1>2. CASE SetClockBack
    BY <1>0, <1>2, LogStays DEF SetClockBack
<1>3. CASE \E kind \in Kinds : TurnEvent(kind)
    BY <1>3, TurnEventKeeps
<1>4. ASSUME NEW c \in Compacters, CopySession(c) PROVE CompactionInv'
  <2> DEFINE v == [pc |-> "summarising", copied |-> Len(session), cut |-> CutOf(session)]
  <2>1. /\ CutOf(session) > 1 /\ compacter' = [compacter EXCEPT ![c] = v] /\ session' = session /\ clock' = clock
      BY <1>4 DEF CopySession
  <2>2. CutOf(session) \in 1 .. Len(session) /\ CutOf(session) # 0 /\ Len(session) \in Nat
    <3>1. CutOf(session) \in Nat
        BY <1>0, CutIsStart
    <3>2. CutOf(session) # 0
        BY <2>1, <3>1
    <3> QED
        BY <1>0, <3>2, CutIsStart
  <2>3. v \in [pc : {"idle", "summarising"}, copied : Nat, cut : Nat]
      BY <2>2
  <2>4. Cutting(v)
    <3>1. \A x \in Raw(session) : ~(x > Len(session))
        BY <1>0 DEF Raw
    <3> QED
        BY <2>1, <2>2, <3>1 DEF Cutting
  <2> HIDE DEF v
  <2>5. compacter' \in [Compacters -> [pc : {"idle", "summarising"}, copied : Nat, cut : Nat]]
        /\ \A d \in Compacters : Cutting(compacter'[d])
    <3>1. \A d \in Compacters : compacter'[d] = IF d = c THEN v ELSE compacter[d]
        BY <1>0, <2>1
    <3>2. compacter' \in [Compacters -> [pc : {"idle", "summarising"}, copied : Nat, cut : Nat]]
        BY <1>0, <2>1, <2>3
    <3> QED
        BY <1>0, <2>4, <3>1, <3>2
  <2> QED
      BY <1>0, <2>1, <2>5, LogStays
<1>5. ASSUME NEW c \in Compacters, SummaryFails(c) PROVE CompactionInv'
  <2>1. compacter' = [compacter EXCEPT ![c] = AtRestC] /\ session' = session /\ clock' = clock
      BY <1>5 DEF SummaryFails
  <2>2. AtRestC \in [pc : {"idle", "summarising"}, copied : Nat, cut : Nat] /\ Cutting(AtRestC)
      BY DEF AtRestC, Cutting
  <2>3. compacter' \in [Compacters -> [pc : {"idle", "summarising"}, copied : Nat, cut : Nat]]
        /\ \A d \in Compacters : Cutting(compacter'[d])
    <3>1. \A d \in Compacters : compacter'[d] = IF d = c THEN AtRestC ELSE compacter[d]
        BY <1>0, <2>1
    <3>2. compacter' \in [Compacters -> [pc : {"idle", "summarising"}, copied : Nat, cut : Nat]]
        BY <1>0, <2>1, <2>2
    <3> QED
        BY <1>0, <2>2, <3>1, <3>2
  <2> QED
      BY <1>0, <2>1, <2>3, LogStays
<1>6. CASE \E c \in Compacters : AppendSummary(c)
    BY <1>6, SummaryKeeps
<1>7. CASE UNCHANGED compactionVars
    BY <1>0, <1>7, LogStays DEF compactionVars
<1> QED
    BY <1>1, <1>2, <1>3, <1>4, <1>5, <1>6, <1>7 DEF CompactionNext

(* For any log, clock, number of turns kept and calls of Compact that overlap *)
(* with each other and with turns: an event a summary hides was told to it,   *)
(* itself or by a summary before, and the last turns stay as they are         *)
(* (compact.go).                                                              *)
THEOREM NothingIsForgotten == CompactionSpec => []CompactionKeeps
<1>1. CompactionInv => CompactionKeeps
    BY DEF CompactionInv, CompactionKeeps
<1> QED
    BY <1>1, CompactionBegins, CompactionStep, PTL DEF CompactionSpec

-------------------------------------------------------------------------------
\* The events of a session (EventStore).

\* A sequence of events without one twice.
Once(s) == s \in Seq(Nat) /\ \A i, j \in 1 .. Len(s) : s[i] = s[j] => i = j

\* No event.
LEMMA OnceNone == Once(<<>>) /\ ToSet(<<>>) = {}
BY EmptySeq DEF Once, ToSet

\* The events of a sequence by their places.
LEMMA OnceDomain ==
    ASSUME NEW s, Once(s)
    PROVE  Len(s) \in Nat /\ DOMAIN s = 1 .. Len(s) /\ ToSet(s) = {s[i] : i \in 1 .. Len(s)}
BY LenProperties DEF Once, ToSet

\* A new event at the end.
LEMMA OnceAppend ==
    ASSUME NEW s, Once(s), NEW e \in Nat, e \notin ToSet(s)
    PROVE  Once(Append(s, e)) /\ ToSet(Append(s, e)) = ToSet(s) \cup {e}
<1> DEFINE t == Append(s, e)
           n == Len(s)
<1>1. n \in Nat /\ ToSet(s) = {s[i] : i \in 1 .. n}
    BY OnceDomain
<1>2. t \in Seq(Nat) /\ Len(t) = n + 1 /\ t[n + 1] = e /\ \A i \in 1 .. n : t[i] = s[i]
    BY <1>1, AppendProperties DEF Once
<1> HIDE DEF t
<1>3. Once(t)
  <2> SUFFICES ASSUME NEW i \in 1 .. n + 1, NEW j \in 1 .. n + 1, t[i] = t[j] PROVE i = j
      BY <1>2 DEF Once
  <2>1. CASE i \in 1 .. n /\ j \in 1 .. n
      BY <1>2, <2>1 DEF Once
  <2>2. CASE i = n + 1 /\ j = n + 1
      BY <2>2
  <2>3. CASE (i = n + 1 /\ j \in 1 .. n) \/ (j = n + 1 /\ i \in 1 .. n)
      BY <1>1, <1>2, <2>3
  <2> QED
      BY <1>1, <2>1, <2>2, <2>3
<1>4. ToSet(t) = {t[i] : i \in 1 .. n + 1}
    BY <1>2, <1>3, OnceDomain
<1>5. ToSet(t) = ToSet(s) \cup {e}
    BY <1>1, <1>2, <1>4
<1> QED
    BY <1>3, <1>5 DEF t

\* The first event is taken away.
LEMMA OnceTail ==
    ASSUME NEW s, Once(s), s # <<>>
    PROVE  /\ Once(Tail(s)) /\ Head(s) \in Nat /\ Head(s) \notin ToSet(Tail(s))
           /\ ToSet(s) = {Head(s)} \cup ToSet(Tail(s))
<1> DEFINE t == Tail(s)
           n == Len(s)
<1>1. n \in Nat /\ ToSet(s) = {s[i] : i \in 1 .. n} /\ n # 0
    BY OnceDomain, EmptySeq DEF Once
<1>2. t \in Seq(Nat) /\ Len(t) = n - 1 /\ \A i \in 1 .. n - 1 : t[i] = s[i + 1]
    BY HeadTailProperties DEF Once
<1>3. Head(s) = s[1] /\ s[1] \in Nat
    BY <1>1, ElementOfSeq DEF Once
<1> HIDE DEF t
<1>4. Once(t)
  <2> SUFFICES ASSUME NEW i \in 1 .. n - 1, NEW j \in 1 .. n - 1, t[i] = t[j] PROVE i = j
      BY <1>2 DEF Once
  <2>1. i + 1 \in 1 .. n /\ j + 1 \in 1 .. n /\ s[i + 1] = s[j + 1]
      BY <1>1, <1>2
  <2>2. i + 1 = j + 1
      BY <2>1 DEF Once
  <2> QED
      BY <2>2
<1>5. ToSet(t) = {t[i] : i \in 1 .. n - 1}
    BY <1>2, <1>4, OnceDomain
<1>6. Head(s) \notin ToSet(t)
  <2> SUFFICES ASSUME NEW i \in 1 .. n - 1, s[1] = s[i + 1] PROVE FALSE
      BY <1>2, <1>3, <1>5
  <2>1. 1 \in 1 .. n /\ i + 1 \in 1 .. n /\ i + 1 # 1
      BY <1>1
  <2> QED
      BY <2>1 DEF Once
<1>7. ToSet(s) = {Head(s)} \cup ToSet(t)
  <2>1. ASSUME NEW i \in 1 .. n PROVE s[i] \in {s[1]} \cup {t[j] : j \in 1 .. n - 1}
    <3>1. CASE i = 1
        BY <3>1
    <3>2. CASE i # 1
      <4>1. i - 1 \in 1 .. n - 1 /\ t[i - 1] = s[i]
          BY <1>1, <1>2, <3>2
      <4> QED
          BY <4>1
    <3> QED
        BY <3>1, <3>2
  <2>2. ASSUME NEW j \in 1 .. n - 1 PROVE t[j] \in {s[i] : i \in 1 .. n}
    <3>1. j + 1 \in 1 .. n /\ t[j] = s[j + 1]
        BY <1>1, <1>2
    <3> QED
        BY <3>1
  <2>3. s[1] \in {s[i] : i \in 1 .. n}
      BY <1>1
  <2> QED
      BY <1>1, <1>3, <1>5, <2>1, <2>2, <2>3
<1> QED
    BY <1>3, <1>4, <1>6, <1>7 DEF t

\* One event in a sequence of its own.
LEMMA OneAsSequence == \A u : SetToSeq({u}) = <<u>>
<1> SUFFICES ASSUME NEW u PROVE SetToSeq({u}) = <<u>>
    OBVIOUS
<1>1. Cardinality({u}) = 1
    BY FS_Singleton
<1> DEFINE F == {f \in [1 .. 1 -> {u}] : IsInjective(f)}
<1>2. [i \in 1 .. 1 |-> u] \in F
    BY DEF IsInjective
<1>3. SetToSeq({u}) = CHOOSE f \in [1 .. 1 -> {u}] : IsInjective(f)
    BY <1>1 DEF SetToSeq
<1>4. SetToSeq({u}) \in [1 .. 1 -> {u}]
    BY <1>2, <1>3
<1> QED
    BY <1>4

\* Counting one event in such a sequence.
LEMMA TimesOnce ==
    ASSUME NEW s, Once(s), NEW e
    PROVE  TimesIn(e, s) = IF e \in ToSet(s) THEN 1 ELSE 0
<1>1. DOMAIN s = 1 .. Len(s) /\ ToSet(s) = {s[i] : i \in 1 .. Len(s)}
    BY OnceDomain
<1>2. CASE e \in ToSet(s)
  <2>1. PICK i \in 1 .. Len(s) : s[i] = e
      BY <1>1, <1>2
  <2>2. {j \in DOMAIN s : s[j] = e} = {i}
      BY <1>1, <2>1 DEF Once
  <2> QED
      BY <1>2, <2>2, FS_Singleton DEF TimesIn
<1>3. CASE e \notin ToSet(s)
  <2>1. {j \in DOMAIN s : s[j] = e} = {}
      BY <1>1, <1>3
  <2> QED
      BY <1>3, <2>1, FS_EmptySet DEF TimesIn
<1> QED
    BY <1>2, <1>3

LoadRecord == [pc : {"idle", "get", "create", "created", "replaying"}, rest : Seq(Nat)]

\* The events of this process that the file doesn't have.
OnlyHere == unwritten \cup unsaved

\* What memory holds while a call replays the log.
Replaying(memory, log, here, l) ==
    /\ l.pc = "created" => ToSet(memory) = here
    /\ l.pc = "replaying" => /\ Once(l.rest) /\ ToSet(memory) \cap ToSet(l.rest) = {}
                             /\ ToSet(memory) \cup ToSet(l.rest) = ToSet(log) \cup here

EventInv ==
    /\ lastEvent \in Nat /\ load \in [Loaders -> LoadRecord]
    /\ unwritten \cup unsaved \cup ToSet(onDisk) \subseteq 1 .. lastEvent
    /\ Once(onDisk)
    /\ unwritten = {} \/ \E u \in 1 .. lastEvent : unwritten = {u}
    /\ unwritten \cap unsaved = {} /\ ToSet(onDisk) \cap OnlyHere = {}
    /\ loadLock = NoLoader \/ (loadLock \in Loaders /\ load[loadLock].pc \in {"created", "replaying"})
    /\ \A c \in Loaders : load[c].pc \in {"created", "replaying"} => loadLock = c
    /\ inMemory = NoSession => loadLock = NoLoader /\ OnlyHere = {}
    /\ inMemory # NoSession =>
           /\ Once(inMemory)
           /\ loadLock = NoLoader => ToSet(inMemory) = ToSet(onDisk) \cup OnlyHere
           /\ \A c \in Loaders : Replaying(inMemory, onDisk, OnlyHere, load[c])

\* The invariant holds of a session without events.
LEMMA EventInvInit == EventsInit => EventInv
BY OnceNone DEF EventsInit, EventInv, AtRest, LoadRecord, OnlyHere

\* An event is appended to memory, or to the file, or the process restarts.
LEMMA AppendKeeps ==
    ASSUME EventInv, AppendInMemory \/ AppendOnDisk \/ Restart
    PROVE  EventInv'
<1>1. CASE AppendInMemory
  <2> DEFINE e == lastEvent + 1
  <2>1. /\ inMemory # NoSession /\ unwritten = {} /\ e \in Nat /\ lastEvent' = e
        /\ inMemory' = Append(inMemory, e) /\ unwritten' = {e}
        /\ UNCHANGED <<onDisk, loadLock, load, unsaved>>
      BY <1>1 DEF AppendInMemory, EventInv
  <2>2. OnlyHere' = OnlyHere \cup {e} /\ e \notin OnlyHere /\ e \notin ToSet(onDisk)
        /\ 1 .. lastEvent' = 1 .. lastEvent \cup {e}
      BY <2>1 DEF OnlyHere, EventInv
  <2>3. ASSUME NEW c \in Loaders, load[c].pc \in {"created", "replaying"}
        PROVE  e \notin ToSet(inMemory) /\ (load[c].pc = "replaying" => e \notin ToSet(load[c].rest))
      BY <2>1, <2>2, <2>3 DEF EventInv, Replaying
  <2>4. e \notin ToSet(inMemory)
      BY <2>1, <2>2, <2>3 DEF EventInv
  <2>5. Once(inMemory') /\ ToSet(inMemory') = ToSet(inMemory) \cup {e} /\ inMemory' # NoSession
    <3>1. Once(Append(inMemory, e)) /\ ToSet(Append(inMemory, e)) = ToSet(inMemory) \cup {e}
        BY <2>1, <2>4, OnceAppend DEF EventInv
    <3> QED
        BY <2>1, <3>1, EventsAssumption DEF Once
  <2>6. loadLock = NoLoader => ToSet(inMemory') = ToSet(onDisk) \cup OnlyHere'
      BY <2>1, <2>2, <2>5 DEF EventInv
  <2>7. ASSUME NEW c \in Loaders PROVE Replaying(inMemory', onDisk, OnlyHere', load[c])
    <3>1. Replaying(inMemory, onDisk, OnlyHere, load[c])
        BY <2>1 DEF EventInv
    <3> QED
        BY <2>2, <2>3, <2>5, <3>1 DEF Replaying
  <2> HIDE DEF e
  <2>8. /\ e \in 1 .. lastEvent' /\ unwritten' \cap unsaved' = {} /\ ToSet(onDisk') \cap OnlyHere' = {}
        /\ unwritten' \cup unsaved' \cup ToSet(onDisk') \subseteq 1 .. lastEvent'
      BY <2>1, <2>2 DEF EventInv, OnlyHere
  <2>9. \A c \in Loaders : Replaying(inMemory', onDisk', OnlyHere', load'[c])
      BY <2>1, <2>7
  <2> QED
      BY <2>1, <2>5, <2>6, <2>8, <2>9 DEF EventInv
<1>2. CASE AppendOnDisk
  <2>1. /\ unwritten # {} /\ loadLock = NoLoader /\ unwritten' = {}
        /\ UNCHANGED <<inMemory, loadLock, load, lastEvent>>
        /\ inMemory # NoSession
      BY <1>2 DEF AppendOnDisk, LockFree, EventInv, OnlyHere
  <2>2. PICK u \in 1 .. lastEvent : unwritten = {u}
      BY <2>1 DEF EventInv
  <2>3. \A c \in Loaders : load[c].pc \notin {"created", "replaying"}
      BY <2>1, EventsAssumption DEF EventInv
  <2>4. Once(onDisk') /\ OnlyHere' \cap ToSet(onDisk') = {}
        /\ ToSet(onDisk') \cup OnlyHere' = ToSet(onDisk) \cup OnlyHere
    <3>1. CASE Written(TRUE)
      <4>1. onDisk' = onDisk \o <<u>> /\ unsaved' = unsaved
          BY <2>2, <3>1, OneAsSequence DEF Written
      <4>2. u \in Nat /\ u \notin ToSet(onDisk) /\ u \notin unsaved
          BY <2>2 DEF EventInv, OnlyHere
      <4>3. onDisk' = Append(onDisk, u)
          BY <4>1, <4>2, AppendIsConcat DEF EventInv, Once
      <4> QED
        <5>1. Once(onDisk') /\ ToSet(onDisk') = ToSet(onDisk) \cup {u}
            BY <4>2, <4>3, OnceAppend DEF EventInv
        <5>2. OnlyHere' = unsaved /\ OnlyHere = {u} \cup unsaved
            BY <2>1, <2>2, <4>1 DEF OnlyHere
        <5> QED
            BY <4>2, <5>1, <5>2 DEF EventInv
    <3>2. CASE Written(FALSE)
        BY <2>1, <3>2 DEF Written, EventInv, OnlyHere
    <3> QED
        BY <1>2, <3>1, <3>2 DEF AppendOnDisk
  <2>5. unwritten' \cup unsaved' \cup ToSet(onDisk') \subseteq 1 .. lastEvent
      BY <2>4 DEF OnlyHere, EventInv
  <2>6. \A c \in Loaders : Replaying(inMemory', onDisk', OnlyHere', load'[c])
      BY <2>1, <2>3 DEF Replaying
  <2> QED
      BY <2>1, <2>4, <2>5, <2>6 DEF EventInv, OnlyHere
<1>3. CASE Restart
  <2>1. /\ inMemory' = NoSession /\ loadLock' = NoLoader /\ OnlyHere' = {} /\ unwritten' = {} /\ unsaved' = {}
        /\ load' = [c \in Loaders |-> AtRest] /\ UNCHANGED <<onDisk, lastEvent>>
      BY <1>3 DEF Restart, OnlyHere
  <2>2. AtRest \in LoadRecord /\ AtRest.pc = "idle"
      BY DEF AtRest, LoadRecord
  <2> QED
      BY <2>1, <2>2 DEF EventInv
<1> QED
    BY <1>1, <1>2, <1>3

\* A call moves on without touching what is kept.
LEMMA CallMoves ==
    ASSUME EventInv, NEW c \in Loaders, NEW k \in LoadRecord, load' = [load EXCEPT ![c] = k],
           UNCHANGED <<onDisk, unwritten, unsaved, lastEvent>>,
           k.pc \in {"created", "replaying"} <=> loadLock' = c,
           loadLock' # c => loadLock' = NoLoader \/ (loadLock' = loadLock /\ loadLock \in Loaders),
           loadLock # c /\ loadLock # NoLoader => loadLock' = loadLock,
           inMemory' # NoSession, Once(inMemory'),
           loadLock' = NoLoader => ToSet(inMemory') = ToSet(onDisk) \cup OnlyHere,
           Replaying(inMemory', onDisk, OnlyHere, k),
           inMemory' = inMemory \/ loadLock' = c \/ loadLock = c
    PROVE  EventInv'
<1>1. load' \in [Loaders -> LoadRecord] /\ load'[c] = k /\ \A d \in Loaders \ {c} : load'[d] = load[d]
    BY DEF EventInv
<1>2. OnlyHere' = OnlyHere
    BY DEF OnlyHere
<1>3. \A d \in Loaders \ {c} : load[d].pc \in {"created", "replaying"} => loadLock = d
    BY DEF EventInv
<1>4. \A d \in Loaders : load'[d].pc \in {"created", "replaying"} => loadLock' = d
    BY <1>1, <1>3, EventsAssumption
<1>5. loadLock' = NoLoader \/ (loadLock' \in Loaders /\ load'[loadLock'].pc \in {"created", "replaying"})
    BY <1>1 DEF EventInv
<1>6. ASSUME NEW d \in Loaders PROVE Replaying(inMemory', onDisk', OnlyHere', load'[d])
  <2>1. CASE d = c
      BY <1>1, <1>2, <2>1
  <2>2. CASE d # c /\ load[d].pc \in {"created", "replaying"}
    <3>1. inMemory' = inMemory /\ inMemory # NoSession
        BY <1>1, <1>3, <1>4, <2>2
    <3> QED
        BY <1>1, <1>2, <2>2, <3>1 DEF EventInv
  <2>3. CASE d # c /\ load[d].pc \notin {"created", "replaying"}
      BY <1>1, <2>3 DEF Replaying
  <2> QED
      BY <2>1, <2>2, <2>3
<1> QED
    BY <1>1, <1>2, <1>4, <1>5, <1>6 DEF EventInv

\* A call loads the session, or finds it loaded.
LEMMA LoadKeeps ==
    ASSUME EventInv, NEW c \in Loaders,
           \/ Get(c) \/ CreateOrReplay(c) \/ LoadLocked(c)
           \/ ReadLog(c) \/ Replay(c) \/ Replayed(c)
    PROVE  EventInv'
<1>0. /\ load[c] \in LoadRecord /\ AtRest \in LoadRecord /\ AtRest.pc = "idle" /\ c # NoLoader
      /\ load[c].pc \in {"created", "replaying"} <=> loadLock = c
    BY EventsAssumption DEF EventInv, AtRest, LoadRecord
<1>1. CASE (Get(c) \/ CreateOrReplay(c) \/ LoadLocked(c)) /\ inMemory' = inMemory /\ loadLock' = loadLock
  <2>1. PICK k \in LoadRecord : /\ load' = [load EXCEPT ![c] = k]
                                /\ k.pc \notin {"created", "replaying"} /\ loadLock # c
    <3>1. CASE Get(c)
      <4> DEFINE k == [load[c] EXCEPT !.pc = "get"]
      <4>1. k \in LoadRecord /\ k.pc = "get" /\ load' = [load EXCEPT ![c] = k] /\ loadLock # c
          BY <1>0, <3>1 DEF Get, LoadRecord
      <4> QED
          BY <4>1
    <3>2. CASE CreateOrReplay(c)
      <4> DEFINE k == [load[c] EXCEPT !.pc = "create"]
      <4>1. k \in LoadRecord /\ k.pc = "create" /\ load' = [load EXCEPT ![c] = k] /\ loadLock # c
          BY <1>0, <3>2 DEF CreateOrReplay, LoadRecord
      <4> QED
          BY <4>1
    <3>3. CASE LoadLocked(c)
        BY <1>0, <1>1, <3>3 DEF LoadLocked, LockFree
    <3> QED
        BY <1>1, <3>1, <3>2, <3>3
  <2>2. UNCHANGED <<onDisk, unwritten, unsaved, lastEvent>>
      BY <1>1 DEF Get, CreateOrReplay, LoadLocked
  <2>3. load' \in [Loaders -> LoadRecord] /\ load'[c].pc \notin {"created", "replaying"}
        /\ \A d \in Loaders \ {c} : load'[d] = load[d]
      BY <2>1 DEF EventInv
  <2>4. OnlyHere' = OnlyHere
      BY <2>2 DEF OnlyHere
  <2>5. inMemory # NoSession => \A d \in Loaders : Replaying(inMemory, onDisk, OnlyHere, load'[d])
      BY <2>3 DEF EventInv, Replaying
  <2> QED
      BY <1>0, <1>1, <2>1, <2>2, <2>3, <2>4, <2>5 DEF EventInv
<1>2. CASE LoadLocked(c) /\ inMemory = NoSession
  <2> DEFINE k == [load[c] EXCEPT !.pc = "created"]
  <2>1. /\ k \in LoadRecord /\ k.pc = "created" /\ load' = [load EXCEPT ![c] = k] /\ loadLock = NoLoader
        /\ loadLock' = c /\ inMemory' = <<>> /\ UNCHANGED <<onDisk, unwritten, unsaved, lastEvent>>
        /\ OnlyHere = {}
      BY <1>0, <1>2 DEF LoadLocked, LockFree, LoadRecord, EventInv
  <2>2. inMemory' # NoSession /\ Once(inMemory') /\ ToSet(inMemory') = {}
      BY <2>1, OnceNone, EventsAssumption DEF Once
  <2>3. Replaying(inMemory', onDisk, OnlyHere, k)
      BY <2>1, <2>2 DEF Replaying
  <2> HIDE DEF k
  <2> QED
      BY <1>0, <2>1, <2>2, <2>3, CallMoves
<1>3. CASE LoadLocked(c) /\ inMemory # NoSession
    BY <1>1, <1>3 DEF LoadLocked
<1>4. CASE ReadLog(c)
  <2> DEFINE k == [pc |-> "replaying", rest |-> onDisk]
  <2>1. /\ load[c].pc = "created" /\ k \in LoadRecord /\ k.pc = "replaying" /\ load' = [load EXCEPT ![c] = k]
        /\ UNCHANGED <<inMemory, onDisk, loadLock, unwritten, unsaved, lastEvent>>
        /\ loadLock = c /\ inMemory # NoSession /\ Once(inMemory)
      BY <1>0, <1>4 DEF ReadLog, LoadRecord, EventInv, Once
  <2>2. Replaying(inMemory, onDisk, OnlyHere, k)
      BY <2>1 DEF Replaying, EventInv
  <2> HIDE DEF k
  <2> QED
      BY <1>0, <2>1, <2>2, CallMoves
<1>5. CASE Replay(c)
  <2> DEFINE k == [load[c] EXCEPT !.rest = Tail(@)]
             e == Head(load[c].rest)
  <2>1. /\ load[c].pc = "replaying" /\ load[c].rest # <<>> /\ load' = [load EXCEPT ![c] = k]
        /\ inMemory' = Append(inMemory, e)
        /\ UNCHANGED <<onDisk, loadLock, unwritten, unsaved, lastEvent>>
        /\ loadLock = c /\ inMemory # NoSession /\ Once(inMemory)
        /\ Replaying(inMemory, onDisk, OnlyHere, load[c])
      BY <1>0, <1>5 DEF Replay, EventInv
  <2>2. /\ Once(Tail(load[c].rest)) /\ e \in Nat /\ e \notin ToSet(Tail(load[c].rest))
        /\ ToSet(load[c].rest) = {e} \cup ToSet(Tail(load[c].rest))
      BY <2>1, OnceTail DEF Replaying
  <2>3. k \in LoadRecord /\ k.pc = "replaying" /\ k.rest = Tail(load[c].rest)
      BY <1>0, <2>1, <2>2 DEF LoadRecord, Once
  <2> HIDE DEF k, e
  <2>4. e \notin ToSet(inMemory)
      BY <2>1, <2>2 DEF Replaying
  <2>5. Once(inMemory') /\ ToSet(inMemory') = ToSet(inMemory) \cup {e} /\ inMemory' # NoSession
    <3>1. Once(Append(inMemory, e)) /\ ToSet(Append(inMemory, e)) = ToSet(inMemory) \cup {e}
        BY <2>1, <2>2, <2>4, OnceAppend
    <3> QED
        BY <2>1, <3>1, EventsAssumption DEF Once
  <2>6. Replaying(inMemory', onDisk, OnlyHere, k)
      BY <2>1, <2>2, <2>3, <2>5 DEF Replaying
  <2> QED
      BY <1>0, <2>1, <2>3, <2>5, <2>6, CallMoves
<1>6. CASE Replayed(c)
  <2>1. /\ load[c].pc = "replaying" /\ load[c].rest = <<>> /\ load' = [load EXCEPT ![c] = AtRest]
        /\ loadLock' = NoLoader
        /\ UNCHANGED <<inMemory, onDisk, unwritten, unsaved, lastEvent>>
        /\ loadLock = c /\ inMemory # NoSession /\ Once(inMemory)
        /\ Replaying(inMemory, onDisk, OnlyHere, load[c])
      BY <1>0, <1>6 DEF Replayed, EventInv
  <2>2. ToSet(inMemory) = ToSet(onDisk) \cup OnlyHere
      BY <2>1, OnceNone DEF Replaying
  <2>3. Replaying(inMemory, onDisk, OnlyHere, AtRest)
      BY <1>0 DEF Replaying
  <2> QED
      BY <1>0, <2>1, <2>2, <2>3, CallMoves
<1> QED
    BY <1>1, <1>2, <1>3, <1>4, <1>5, <1>6 DEF Get, CreateOrReplay

\* Every step of the event store keeps the invariant.
LEMMA EventInvStep == EventInv /\ [EventsNext]_eventVars => EventInv'
<1>1. ASSUME EventInv, UNCHANGED eventVars PROVE EventInv'
    BY <1>1 DEF eventVars, EventInv, OnlyHere
<1> QED
    BY <1>1, AppendKeeps, LoadKeeps DEF EventsNext

(* For every number of overlapping loads and of events: a session that is    *)
(* loaded shows the model each event that was saved or made by this process  *)
(* exactly once (adkstore.go:62-90 and 108-132).                             *)
THEOREM SessionsShownOnce == EventsSpec => []ReplayedOnce
<1>1. EventInv => ReplayedOnce
  <2> SUFFICES ASSUME EventInv, inMemory # NoSession, loadLock = NoLoader, NEW e \in 1 .. lastEvent
               PROVE  TimesIn(e, inMemory) = (IF e \in ToSet(onDisk) \cup unwritten \cup unsaved THEN 1 ELSE 0)
      BY DEF ReplayedOnce
  <2>1. Once(inMemory) /\ ToSet(inMemory) = ToSet(onDisk) \cup unwritten \cup unsaved
      BY DEF EventInv, OnlyHere
  <2> QED
      BY <2>1, TimesOnce
<1> QED
    BY <1>1, EventInvInit, EventInvStep, PTL DEF EventsSpec

-------------------------------------------------------------------------------
\* The diagnostic log (LogSink).

LogEntry == [kind : {"line", "dropped"}, of : SUBSET Nat]

Before(A, B) == \A a \in A, b \in B : a < b

\* The lines written as such, among those that entries stand for.
AsLines(entries) == UNION {entries[i].of : i \in {j \in DOMAIN entries : entries[j].kind = "line"}}

\* Entries on disk, lost and in the buffer: no line is told of twice.
Filed(disk, lost, buffer) ==
    /\ disk \in Seq(LogEntry) /\ lost \in Seq(LogEntry) /\ buffer \in Seq(LogEntry)
    /\ CountedOnce(disk) /\ CountedOnce(lost) /\ CountedOnce(buffer)
    /\ Told(disk) \cap Told(lost) = {} /\ Told(disk) \cap Told(buffer) = {} /\ Told(lost) \cap Told(buffer) = {}
    /\ LinesInTurn(disk) /\ LinesInTurn(buffer) /\ Before(AsLines(disk), AsLines(buffer))

AllTold(disk, lost, buffer) == Told(disk) \cup Told(lost) \cup Told(buffer)
AllWritten(disk, buffer) == AsLines(disk) \cup AsLines(buffer)

\* The lines queued, in the writer's hand, and on the way to be counted.
Queued(q) == {q[i] : i \in 1 .. Len(q)}
Rising(q) == q \in Seq(Nat) /\ \A i, j \in 1 .. Len(q) : i < j => q[i] < q[j]
Held == IF writer.pc = "writing" THEN {writer.line} ELSE {}
Dropping == {logger[g] : g \in Loggers} \ {0}

\* A line is in one of five places.
Placed(n, all, held, waiting, counted, dropping) ==
    /\ 1 .. n = all \cup held \cup waiting \cup counted \cup dropping
    /\ all \cap held = {} /\ all \cap waiting = {} /\ all \cap counted = {} /\ all \cap dropping = {}
    /\ held \cap waiting = {} /\ held \cap counted = {} /\ held \cap dropping = {}
    /\ waiting \cap counted = {} /\ waiting \cap dropping = {} /\ counted \cap dropping = {}

LogPlaces ==
    /\ lines \in Nat
    /\ Filed(logged, spilt, logFile.buffer)
    /\ Rising(queued)
    /\ Placed(lines, AllTold(logged, spilt, logFile.buffer), Held, Queued(queued), dropped, Dropping)
    /\ Before(AllWritten(logged, logFile.buffer), Held \cup Queued(queued))
    /\ Before(Held, Queued(queued))
    /\ \A g, h \in Loggers : logger[g] = logger[h] /\ logger[g] # 0 => g = h

FileRecord == [day : Nat, buffer : Seq(LogEntry), works : BOOLEAN]

WriterPlaces == {"idle", "writing", "written", "reporting", "flushing", "lastly", "closing", "done"}

LogPhases ==
    /\ logger \in [Loggers -> Nat] /\ shut \in BOOLEAN
    /\ writer \in [pc : WriterPlaces, line : Nat]
    /\ logFile \in FileRecord /\ today \in Nat
    /\ logCloser \in [LogClosers -> {"idle", "waiting", "returned"}]
    /\ WaitsFlushed
    /\ shut => \A g \in Loggers : logger[g] = 0
    /\ writer.pc \in {"lastly", "closing", "done"} => shut /\ queued = <<>>
    /\ writer.pc \in {"closing", "done"} => dropped = {}
    /\ writer.pc = "done" => logFile.buffer = <<>>
    /\ \A e \in LogClosers : logCloser[e] = "returned" => writer.pc = "done"

LogInv == LogPlaces /\ LogPhases

\* What entries tell, by their places.
LEMMA ToldOf ==
    ASSUME NEW s \in Seq(LogEntry)
    PROVE  /\ DOMAIN s = 1 .. Len(s) /\ Len(s) \in Nat
           /\ \A i \in 1 .. Len(s) : s[i] \in LogEntry
           /\ \A n : n \in Told(s) <=> \E i \in 1 .. Len(s) : n \in s[i].of
           /\ \A n : n \in AsLines(s) <=> \E i \in 1 .. Len(s) : s[i].kind = "line" /\ n \in s[i].of
           /\ AsLines(s) \subseteq Told(s)
<1>1. DOMAIN s = 1 .. Len(s) /\ Len(s) \in Nat /\ \A i \in 1 .. Len(s) : s[i] \in LogEntry
    BY LenProperties
<1>2. \A n : n \in Told(s) <=> \E i \in 1 .. Len(s) : n \in s[i].of
    BY <1>1 DEF Told
<1>3. \A n : n \in AsLines(s) <=> \E i \in 1 .. Len(s) : s[i].kind = "line" /\ n \in s[i].of
    BY <1>1 DEF AsLines
<1> QED
    BY <1>1, <1>2, <1>3

\* No entries.
LEMMA ToldNone == /\ <<>> \in Seq(LogEntry) /\ Told(<<>>) = {} /\ AsLines(<<>>) = {}
                  /\ CountedOnce(<<>>) /\ LinesInTurn(<<>>)
<1>1. <<>> \in Seq(LogEntry) /\ Len(<<>>) = 0
    BY EmptySeq
<1>2. \A i \in 1 .. 0 : FALSE
    OBVIOUS
<1>3. DOMAIN <<>> = 1 .. 0
    BY <1>1, LenProperties
<1> QED
    BY <1>1, <1>2, <1>3, ToldOf DEF CountedOnce, LinesInTurn

\* Entries after others.
LEMMA ToldBoth ==
    ASSUME NEW s \in Seq(LogEntry), NEW t \in Seq(LogEntry)
    PROVE  /\ s \o t \in Seq(LogEntry)
           /\ Told(s \o t) = Told(s) \cup Told(t) /\ AsLines(s \o t) = AsLines(s) \cup AsLines(t)
           /\ CountedOnce(s) /\ CountedOnce(t) /\ Told(s) \cap Told(t) = {} => CountedOnce(s \o t)
           /\ LinesInTurn(s) /\ LinesInTurn(t) /\ Before(AsLines(s), AsLines(t)) => LinesInTurn(s \o t)
<1> DEFINE u == s \o t
           m == Len(s)
           n == Len(t)
<1>1. /\ u \in Seq(LogEntry) /\ Len(u) = m + n /\ m \in Nat /\ n \in Nat
      /\ \A i \in 1 .. m + n : u[i] = IF i <= m THEN s[i] ELSE t[i - m]
    BY ConcatProperties, LenProperties
<1> HIDE DEF u
<1>2. /\ \A i \in 1 .. m : i \in 1 .. m + n /\ u[i] = s[i]
      /\ \A i \in 1 .. n : i + m \in 1 .. m + n /\ u[i + m] = t[i]
      /\ \A i \in 1 .. m + n : \/ i \in 1 .. m /\ u[i] = s[i]
                               \/ i > m /\ i - m \in 1 .. n /\ u[i] = t[i - m]
  <2>1. ASSUME NEW i \in 1 .. m PROVE i \in 1 .. m + n /\ u[i] = s[i]
      BY <1>1
  <2>2. ASSUME NEW i \in 1 .. n PROVE i + m \in 1 .. m + n /\ u[i + m] = t[i]
    <3>1. i + m \in 1 .. m + n /\ ~(i + m <= m) /\ (i + m) - m = i
        BY <1>1
    <3> QED
        BY <1>1, <3>1
  <2>3. ASSUME NEW i \in 1 .. m + n
        PROVE  \/ i \in 1 .. m /\ u[i] = s[i]
               \/ i > m /\ i - m \in 1 .. n /\ u[i] = t[i - m]
      BY <1>1
  <2> QED
      BY <2>1, <2>2, <2>3
<1>3. Told(u) = Told(s) \cup Told(t)
  <2>1. ASSUME NEW x \in Told(u) PROVE x \in Told(s) \cup Told(t)
    <3>1. PICK i \in 1 .. m + n : x \in u[i].of
        BY <1>1, <2>1, ToldOf
    <3> QED
        BY <1>2, <3>1, ToldOf
  <2>2. ASSUME NEW x \in Told(s) PROVE x \in Told(u)
    <3>1. PICK i \in 1 .. m : x \in s[i].of
        BY <2>2, ToldOf
    <3>2. i \in 1 .. Len(u) /\ x \in u[i].of
        BY <1>1, <1>2, <3>1
    <3> QED
        BY <1>1, <3>2, ToldOf
  <2>3. ASSUME NEW x \in Told(t) PROVE x \in Told(u)
    <3>1. PICK i \in 1 .. n : x \in t[i].of
        BY <2>3, ToldOf
    <3>2. i + m \in 1 .. Len(u) /\ x \in u[i + m].of
        BY <1>1, <1>2, <3>1
    <3> QED
        BY <1>1, <3>2, ToldOf
  <2> QED
      BY <2>1, <2>2, <2>3
<1>4. AsLines(u) = AsLines(s) \cup AsLines(t)
  <2>1. ASSUME NEW x \in AsLines(u) PROVE x \in AsLines(s) \cup AsLines(t)
    <3>1. PICK i \in 1 .. m + n : u[i].kind = "line" /\ x \in u[i].of
        BY <1>1, <2>1, ToldOf
    <3> QED
        BY <1>2, <3>1, ToldOf
  <2>2. ASSUME NEW x \in AsLines(s) PROVE x \in AsLines(u)
    <3>1. PICK i \in 1 .. m : s[i].kind = "line" /\ x \in s[i].of
        BY <2>2, ToldOf
    <3>2. i \in 1 .. Len(u) /\ u[i].kind = "line" /\ x \in u[i].of
        BY <1>1, <1>2, <3>1
    <3> QED
        BY <1>1, <3>2, ToldOf
  <2>3. ASSUME NEW x \in AsLines(t) PROVE x \in AsLines(u)
    <3>1. PICK i \in 1 .. n : t[i].kind = "line" /\ x \in t[i].of
        BY <2>3, ToldOf
    <3>2. i + m \in 1 .. Len(u) /\ u[i + m].kind = "line" /\ x \in u[i + m].of
        BY <1>1, <1>2, <3>1
    <3> QED
        BY <1>1, <3>2, ToldOf
  <2> QED
      BY <2>1, <2>2, <2>3
<1>5. ASSUME CountedOnce(s), CountedOnce(t), Told(s) \cap Told(t) = {} PROVE CountedOnce(u)
  <2> SUFFICES ASSUME NEW i \in 1 .. m + n, NEW j \in 1 .. m + n, i # j, NEW x \in u[i].of, x \in u[j].of PROVE FALSE
      BY <1>1, ToldOf DEF CountedOnce
  <2>1. CASE i \in 1 .. m /\ j \in 1 .. m
    <3>1. i \in DOMAIN s /\ j \in DOMAIN s /\ u[i] = s[i] /\ u[j] = s[j]
        BY <1>2, <2>1, ToldOf
    <3> QED
        BY <1>5, <3>1 DEF CountedOnce
  <2>2. CASE i > m /\ j > m
    <3>1. /\ i - m \in 1 .. n /\ u[i] = t[i - m] /\ j - m \in 1 .. n /\ u[j] = t[j - m] /\ i - m # j - m
        BY <1>1, <1>2, <2>2
    <3>2. i - m \in DOMAIN t /\ j - m \in DOMAIN t
        BY <3>1, ToldOf
    <3> QED
        BY <1>5, <3>1, <3>2 DEF CountedOnce
  <2>3. CASE i \in 1 .. m /\ j > m
    <3>1. i \in 1 .. m /\ u[i] = s[i] /\ j - m \in 1 .. n /\ u[j] = t[j - m]
        BY <1>1, <1>2, <2>3
    <3>2. x \in Told(s) /\ x \in Told(t)
        BY <3>1, ToldOf
    <3> QED
        BY <1>5, <3>2
  <2>4. CASE i > m /\ j \in 1 .. m
    <3>1. j \in 1 .. m /\ u[j] = s[j] /\ i - m \in 1 .. n /\ u[i] = t[i - m]
        BY <1>1, <1>2, <2>4
    <3>2. x \in Told(s) /\ x \in Told(t)
        BY <3>1, ToldOf
    <3> QED
        BY <1>5, <3>2
  <2> QED
      BY <1>1, <2>1, <2>2, <2>3, <2>4
<1>6. ASSUME LinesInTurn(s), LinesInTurn(t), Before(AsLines(s), AsLines(t)) PROVE LinesInTurn(u)
  <2> SUFFICES ASSUME NEW i \in 1 .. m + n, NEW j \in 1 .. m + n, i < j, u[i].kind = "line", u[j].kind = "line",
                      NEW x \in u[i].of, NEW y \in u[j].of
               PROVE  x < y
      BY <1>1, ToldOf DEF LinesInTurn
  <2>1. CASE i \in 1 .. m /\ j \in 1 .. m
    <3>1. i \in DOMAIN s /\ j \in DOMAIN s /\ u[i] = s[i] /\ u[j] = s[j]
        BY <1>2, <2>1, ToldOf
    <3> QED
        BY <1>6, <3>1 DEF LinesInTurn
  <2>2. CASE i > m /\ j > m
    <3>1. /\ i - m \in 1 .. n /\ u[i] = t[i - m] /\ j - m \in 1 .. n /\ u[j] = t[j - m] /\ i - m < j - m
        BY <1>1, <1>2, <2>2
    <3>2. i - m \in DOMAIN t /\ j - m \in DOMAIN t
        BY <3>1, ToldOf
    <3> QED
        BY <1>6, <3>1, <3>2 DEF LinesInTurn
  <2>3. CASE i \in 1 .. m /\ j > m
    <3>1. i \in 1 .. m /\ u[i] = s[i] /\ j - m \in 1 .. n /\ u[j] = t[j - m]
        BY <1>1, <1>2, <2>3
    <3>2. x \in AsLines(s) /\ y \in AsLines(t)
        BY <3>1, ToldOf
    <3> QED
        BY <1>6, <3>2 DEF Before
  <2> QED
      BY <1>1, <2>1, <2>2, <2>3
<1> QED
    BY <1>1, <1>3, <1>4, <1>5, <1>6 DEF u

\* One more entry.
LEMMA ToldMore ==
    ASSUME NEW s \in Seq(LogEntry), NEW e \in LogEntry, e.of \cap Told(s) = {}, CountedOnce(s)
    PROVE  /\ Append(s, e) \in Seq(LogEntry) /\ CountedOnce(Append(s, e))
           /\ Told(Append(s, e)) = Told(s) \cup e.of
           /\ AsLines(Append(s, e)) = AsLines(s) \cup IF e.kind = "line" THEN e.of ELSE {}
           /\ LinesInTurn(s) /\ (e.kind = "line" => Before(AsLines(s), e.of)) => LinesInTurn(Append(s, e))
<1> DEFINE t == <<e>>
           w == IF e.kind = "line" THEN e.of ELSE {}
<1>1. t \in Seq(LogEntry) /\ Len(t) = 1 /\ t[1] = e /\ Append(s, e) = s \o t
    BY AppendIsConcat
<1> HIDE DEF t
<1>2. /\ \A i \in 1 .. Len(t) : i = 1 /\ t[i] = e
      /\ 1 \in 1 .. Len(t) /\ t[1] = e /\ t \in Seq(LogEntry)
    BY <1>1
<1>3. Told(t) = e.of
  <2>1. \A n : n \in Told(t) <=> n \in e.of
      BY <1>2, ToldOf
  <2> QED
      BY <2>1
<1>4. AsLines(t) = w
  <2>1. CASE e.kind = "line"
    <3>1. \A n : n \in AsLines(t) <=> n \in e.of
        BY <1>2, <2>1, ToldOf
    <3> QED
        BY <2>1, <3>1
  <2>2. CASE e.kind # "line"
      BY <1>1, <1>2, <2>2, ToldOf
  <2> QED
      BY <2>1, <2>2
<1>5. DOMAIN t = 1 .. 1 /\ \A i, j \in 1 .. 1 : i = j /\ ~(i < j)
    BY <1>1, LenProperties
<1>6. CountedOnce(t) /\ LinesInTurn(t)
    BY <1>5 DEF CountedOnce, LinesInTurn
<1>7. (e.kind = "line" => Before(AsLines(s), e.of)) => Before(AsLines(s), w)
    BY DEF Before
<1> HIDE DEF w
<1>8. Told(s) \cap Told(t) = {} /\ ((e.kind = "line" => Before(AsLines(s), e.of)) => Before(AsLines(s), AsLines(t)))
    BY <1>3, <1>4, <1>7
<1>9. /\ s \o t \in Seq(LogEntry) /\ Told(s \o t) = Told(s) \cup Told(t) /\ AsLines(s \o t) = AsLines(s) \cup AsLines(t)
      /\ CountedOnce(s \o t)
      /\ LinesInTurn(s) /\ Before(AsLines(s), AsLines(t)) => LinesInTurn(s \o t)
    BY <1>1, <1>6, <1>8, ToldBoth
<1> QED
    BY <1>1, <1>3, <1>4, <1>8, <1>9 DEF w

\* One more entry in the buffer, or lost.
LEMMA FiledMore ==
    ASSUME NEW d, NEW l, NEW b, Filed(d, l, b), NEW e \in LogEntry, e.of \cap AllTold(d, l, b) = {}
    PROVE  /\ (e.kind = "line" => Before(AllWritten(d, b), e.of)) =>
                  /\ Filed(d, l, Append(b, e))
                  /\ AllTold(d, l, Append(b, e)) = AllTold(d, l, b) \cup e.of
                  /\ AllWritten(d, Append(b, e)) = AllWritten(d, b) \cup IF e.kind = "line" THEN e.of ELSE {}
           /\ Filed(d, Append(l, e), b)
           /\ AllTold(d, Append(l, e), b) = AllTold(d, l, b) \cup e.of
<1> DEFINE w == IF e.kind = "line" THEN e.of ELSE {}
           c == Append(b, e)
           m == Append(l, e)
<1>1. /\ d \in Seq(LogEntry) /\ l \in Seq(LogEntry) /\ b \in Seq(LogEntry)
      /\ CountedOnce(d) /\ CountedOnce(l) /\ CountedOnce(b)
      /\ Told(d) \cap Told(l) = {} /\ Told(d) \cap Told(b) = {} /\ Told(l) \cap Told(b) = {}
      /\ LinesInTurn(d) /\ LinesInTurn(b) /\ Before(AsLines(d), AsLines(b))
    BY DEF Filed
<1>2. e.of \cap Told(d) = {} /\ e.of \cap Told(l) = {} /\ e.of \cap Told(b) = {}
    BY DEF AllTold
<1>3. /\ c \in Seq(LogEntry) /\ CountedOnce(c) /\ Told(c) = Told(b) \cup e.of /\ AsLines(c) = AsLines(b) \cup w
      /\ (e.kind = "line" => Before(AsLines(b), e.of)) => LinesInTurn(c)
    BY <1>1, <1>2, ToldMore
<1>4. m \in Seq(LogEntry) /\ CountedOnce(m) /\ Told(m) = Told(l) \cup e.of
    BY <1>1, <1>2, ToldMore
<1>5. ASSUME e.kind = "line" => Before(AllWritten(d, b), e.of)
      PROVE  LinesInTurn(c) /\ Before(AsLines(d), AsLines(c))
  <2>1. e.kind = "line" => Before(AsLines(b), e.of) /\ Before(AsLines(d), e.of)
      BY <1>5 DEF AllWritten, Before
  <2> QED
      BY <1>1, <1>3, <2>1 DEF Before
<1> HIDE DEF w, c, m
<1>6. AllTold(d, l, c) = AllTold(d, l, b) \cup e.of /\ AllWritten(d, c) = AllWritten(d, b) \cup w
    BY <1>3 DEF AllTold, AllWritten
<1>7. AllTold(d, m, b) = AllTold(d, l, b) \cup e.of
    BY <1>4 DEF AllTold
<1>8. Filed(d, m, b)
    BY <1>1, <1>2, <1>4 DEF Filed
<1>9. (e.kind = "line" => Before(AllWritten(d, b), e.of)) => Filed(d, l, c)
    BY <1>1, <1>2, <1>3, <1>5 DEF Filed
<1> QED
    BY <1>6, <1>7, <1>8, <1>9 DEF w, c, m

\* What a flush makes of the buffer, whether it fails or not.
LEMMA FlushesFile ==
    ASSUME Filed(logged, spilt, logFile.buffer), NEW flush \in Flushes(logFile)
    PROVE  /\ Filed(flush.disk, flush.lost, <<>>)
           /\ AllTold(flush.disk, flush.lost, <<>>) = AllTold(logged, spilt, logFile.buffer)
           /\ AllWritten(flush.disk, <<>>) \subseteq AllWritten(logged, logFile.buffer)
<1> DEFINE b == logFile.buffer
<1>1. /\ logged \in Seq(LogEntry) /\ spilt \in Seq(LogEntry) /\ b \in Seq(LogEntry)
      /\ CountedOnce(logged) /\ CountedOnce(spilt) /\ CountedOnce(b)
      /\ Told(logged) \cap Told(spilt) = {} /\ Told(logged) \cap Told(b) = {} /\ Told(spilt) \cap Told(b) = {}
      /\ LinesInTurn(logged) /\ LinesInTurn(b) /\ Before(AsLines(logged), AsLines(b))
    BY DEF Filed
<1> HIDE DEF b
<1>2. Before(AsLines(logged), {}) /\ Before(AsLines(logged \o b), {})
    BY DEF Before
<1>3. CASE flush.disk = logged /\ flush.lost = spilt \o b
  <2>1. /\ spilt \o b \in Seq(LogEntry) /\ CountedOnce(spilt \o b)
        /\ Told(spilt \o b) = Told(spilt) \cup Told(b)
      BY <1>1, ToldBoth
  <2>2. Filed(logged, spilt \o b, <<>>)
      BY <1>1, <1>2, <2>1, ToldNone DEF Filed
  <2> QED
      BY <1>3, <2>1, <2>2, ToldNone DEF AllTold, AllWritten, b
<1>4. CASE flush.disk = logged \o b /\ flush.lost = spilt
  <2>1. /\ logged \o b \in Seq(LogEntry) /\ CountedOnce(logged \o b) /\ LinesInTurn(logged \o b)
        /\ Told(logged \o b) = Told(logged) \cup Told(b) /\ AsLines(logged \o b) = AsLines(logged) \cup AsLines(b)
      BY <1>1, ToldBoth
  <2>2. Filed(logged \o b, spilt, <<>>)
      BY <1>1, <1>2, <2>1, ToldNone DEF Filed
  <2> QED
      BY <1>4, <2>1, <2>2, ToldNone DEF AllTold, AllWritten, b
<1>5. \/ flush.disk = logged /\ flush.lost = spilt \o b
      \/ flush.disk = logged \o b /\ flush.lost = spilt
    BY DEF Flushes, Flushed, FlushFails, b
<1> QED
    BY <1>3, <1>4, <1>5

\* An entry is written: in the file of the day, or lost if there is none.
LEMMA WritesEntry ==
    ASSUME Filed(logged, spilt, logFile.buffer), logFile \in FileRecord, today \in Nat,
           NEW e \in LogEntry, WriteEntry(e), e.of \cap AllTold(logged, spilt, logFile.buffer) = {},
           e.kind = "line" => Before(AllWritten(logged, logFile.buffer), e.of)
    PROVE  /\ Filed(logged', spilt', logFile'.buffer) /\ logFile' \in FileRecord
           /\ AllTold(logged', spilt', logFile'.buffer) = AllTold(logged, spilt, logFile.buffer) \cup e.of
           /\ AllWritten(logged', logFile'.buffer)
                  \subseteq AllWritten(logged, logFile.buffer) \cup IF e.kind = "line" THEN e.of ELSE {}
<1> DEFINE w == IF e.kind = "line" THEN e.of ELSE {}
           b == logFile.buffer
<1>0. b \in Seq(LogEntry) /\ <<>> \in Seq(LogEntry) /\ Append(b, e) \in Seq(LogEntry) /\ Append(<<>>, e) \in Seq(LogEntry)
    BY ToldNone, AppendProperties DEF FileRecord
<1>1. CASE logFile.day = today
  <2>1. logFile' = [logFile EXCEPT !.buffer = Append(b, e)] /\ UNCHANGED <<logged, spilt>>
      BY <1>1 DEF WriteEntry, InFile
  <2>2. logFile' \in FileRecord /\ logFile'.buffer = Append(b, e)
      BY <1>0, <2>1 DEF FileRecord
  <2> QED
      BY <2>1, <2>2, FiledMore
<1>2. CASE logFile.day # today
  <2>1. PICK flush \in Flushes(logFile) :
            /\ logged' = flush.disk
            /\ \/ spilt' = flush.lost /\ logFile' = InFile(e, [NoFile EXCEPT !.day = today])
               \/ spilt' = Append(flush.lost, e) /\ logFile' = NoFile
      BY <1>2 DEF WriteEntry
  <2> DEFINE d == flush.disk
             l == flush.lost
  <2>2. /\ Filed(d, l, <<>>) /\ AllTold(d, l, <<>>) = AllTold(logged, spilt, b)
        /\ AllWritten(d, <<>>) \subseteq AllWritten(logged, b)
      BY FlushesFile
  <2>3. e.kind = "line" => Before(AllWritten(d, <<>>), e.of)
      BY <2>2 DEF Before
  <2>7. e.of \cap AllTold(d, l, <<>>) = {}
      BY <2>2
  <2> DEFINE none == <<>>
  <2> HIDE DEF d, l, none
  <2>8. Filed(d, l, none) /\ e.of \cap AllTold(d, l, none) = {} /\ (e.kind = "line" => Before(AllWritten(d, none), e.of))
      BY <2>2, <2>3, <2>7 DEF none
  <2>9. /\ Filed(d, l, Append(none, e)) /\ AllTold(d, l, Append(none, e)) = AllTold(d, l, none) \cup e.of
        /\ AllWritten(d, Append(none, e)) = AllWritten(d, none) \cup w
        /\ Filed(d, Append(l, e), none) /\ AllTold(d, Append(l, e), none) = AllTold(d, l, none) \cup e.of
      BY <2>8, FiledMore
  <2>4. /\ Filed(d, l, Append(<<>>, e)) /\ AllTold(d, l, Append(<<>>, e)) = AllTold(d, l, <<>>) \cup e.of
        /\ AllWritten(d, Append(<<>>, e)) = AllWritten(d, <<>>) \cup w
        /\ Filed(d, Append(l, e), <<>>) /\ AllTold(d, Append(l, e), <<>>) = AllTold(d, l, <<>>) \cup e.of
      BY <2>9 DEF none
  <2>5. CASE spilt' = l /\ logFile' = InFile(e, [NoFile EXCEPT !.day = today])
    <3>1. logFile' \in FileRecord /\ logFile'.buffer = Append(<<>>, e)
        BY <1>0, <2>5 DEF InFile, NoFile, FileRecord
    <3> QED
        BY <2>1, <2>2, <2>4, <2>5, <3>1 DEF d
  <2>6. CASE spilt' = Append(l, e) /\ logFile' = NoFile
    <3>1. logFile' \in FileRecord /\ logFile'.buffer = <<>>
        BY <1>0, <2>6 DEF NoFile, FileRecord
    <3> QED
        BY <2>1, <2>2, <2>4, <2>6, <3>1 DEF d
  <2> QED
      BY <2>1, <2>5, <2>6 DEF l
<1> QED
    BY <1>1, <1>2

\* The queue at both its ends.
LEMMA RisingMore ==
    ASSUME NEW q, Rising(q), NEW n \in Nat, \A m \in Queued(q) : m < n
    PROVE  Rising(Append(q, n)) /\ Queued(Append(q, n)) = Queued(q) \cup {n}
<1> DEFINE u == Append(q, n)
           k == Len(q)
<1>1. k \in Nat /\ u \in Seq(Nat) /\ Len(u) = k + 1 /\ (\A i \in 1 .. k : u[i] = q[i]) /\ u[k + 1] = n
    BY LenProperties, AppendProperties DEF Rising
<1> HIDE DEF u
<1>2. \A i \in 1 .. k + 1 : \/ i \in 1 .. k /\ u[i] = q[i] /\ q[i] \in Queued(q)
                            \/ i = k + 1 /\ u[i] = n
    BY <1>1 DEF Queued
<1>3. Rising(u)
  <2> SUFFICES ASSUME NEW i \in 1 .. k + 1, NEW j \in 1 .. k + 1, i < j PROVE u[i] < u[j]
      BY <1>1 DEF Rising
  <2>1. i \in 1 .. k /\ u[i] = q[i] /\ q[i] \in Queued(q)
      BY <1>1, <1>2
  <2>2. CASE j \in 1 .. k
      BY <1>1, <2>1, <2>2 DEF Rising
  <2>3. CASE j = k + 1
      BY <1>1, <2>1, <2>3
  <2>4. k \in Nat
      BY <1>1
  <2> QED
      BY <2>2, <2>3, <2>4
<1>4. Queued(u) = Queued(q) \cup {n}
  <2>1. \A i \in 1 .. k : i \in 1 .. k + 1 /\ q[i] = u[i]
      BY <1>1
  <2>2. k + 1 \in 1 .. k + 1
      BY <1>1
  <2> QED
      BY <1>1, <1>2, <2>1, <2>2 DEF Queued
<1> QED
    BY <1>3, <1>4 DEF u

LEMMA RisingLess ==
    ASSUME NEW q, Rising(q), q # <<>>
    PROVE  /\ Rising(Tail(q)) /\ Head(q) \in Nat /\ Queued(q) = {Head(q)} \cup Queued(Tail(q))
           /\ \A n \in Queued(Tail(q)) : Head(q) < n
<1> DEFINE u == Tail(q)
           k == Len(q)
<1>1. k \in Nat \ {0} /\ u \in Seq(Nat) /\ Len(u) = k - 1 /\ (\A i \in 1 .. k - 1 : u[i] = q[i + 1])
    BY EmptySeq, HeadTailProperties DEF Rising
<1>2. Head(q) = q[1] /\ 1 \in 1 .. k /\ q[1] \in Nat
    BY <1>1, ElementOfSeq DEF Rising
<1> HIDE DEF u
<1>3. \A i \in 1 .. k - 1 : i + 1 \in 1 .. k /\ 1 < i + 1 /\ u[i] = q[i + 1]
    BY <1>1
<1>4. \A i \in 1 .. k : i = 1 \/ (i - 1 \in 1 .. k - 1 /\ u[i - 1] = q[i])
  <2> SUFFICES ASSUME NEW i \in 1 .. k, i # 1 PROVE i - 1 \in 1 .. k - 1 /\ u[i - 1] = q[i]
      OBVIOUS
  <2>1. i - 1 \in 1 .. k - 1 /\ (i - 1) + 1 = i
      BY <1>1
  <2> QED
      BY <1>1, <2>1
<1>5. Rising(u)
  <2> SUFFICES ASSUME NEW i \in 1 .. k - 1, NEW j \in 1 .. k - 1, i < j PROVE u[i] < u[j]
      BY <1>1 DEF Rising
  <2>1. i + 1 \in 1 .. k /\ j + 1 \in 1 .. k /\ i + 1 < j + 1
      BY <1>1
  <2> QED
      BY <1>3, <2>1 DEF Rising
<1>6. Queued(q) = {q[1]} \cup Queued(u)
  <2>1. Queued(u) = {u[i] : i \in 1 .. k - 1}
      BY <1>1 DEF Queued
  <2>2. ASSUME NEW n \in Queued(q) PROVE n \in {q[1]} \cup Queued(u)
      BY <1>4, <2>1, <2>2 DEF Queued
  <2>3. ASSUME NEW n \in Queued(u) PROVE n \in Queued(q)
      BY <1>3, <2>1, <2>3 DEF Queued
  <2> QED
      BY <1>2, <2>2, <2>3 DEF Queued
<1>7. \A n \in Queued(u) : q[1] < n
    BY <1>1, <1>2, <1>3 DEF Queued, Rising
<1> QED
    BY <1>2, <1>5, <1>6, <1>7 DEF u

\* The line that the queue's state gives the next logged line.
LEMMA LogLinePlaces ==
    ASSUME LogInv, NEW g \in Loggers, LogLine(g)
    PROVE  LogPlaces'
<1> DEFINE n == lines + 1
           all == AllTold(logged, spilt, logFile.buffer)
           asLines == AllWritten(logged, logFile.buffer)
<1>1. /\ lines \in Nat /\ n \in Nat /\ Rising(queued) /\ logger \in [Loggers -> Nat] /\ logger[g] = 0
      /\ Filed(logged, spilt, logFile.buffer)
      /\ Placed(lines, all, Held, Queued(queued), dropped, Dropping)
      /\ Before(asLines, Held \cup Queued(queued)) /\ Before(Held, Queued(queued))
      /\ \A h, i \in Loggers : logger[h] = logger[i] /\ logger[h] # 0 => h = i
    BY DEF LogInv, LogPlaces, LogPhases, LogLine
<1>2. asLines \subseteq all
    BY <1>1, ToldOf DEF AllWritten, AllTold, Filed
<1> HIDE DEF all, asLines
<1>3. /\ n \notin 1 .. lines /\ n # 0 /\ 1 .. n = (1 .. lines) \cup {n} /\ \A m \in 1 .. lines : m < n
    BY <1>1
<1> HIDE DEF n
<1>4. all \cup Held \cup Queued(queued) \cup dropped \cup Dropping = 1 .. lines
    BY <1>1 DEF Placed
<1>5. UNCHANGED <<dropped, Held>> /\ all' = all /\ asLines' = asLines /\ UNCHANGED <<logged, spilt, logFile>>
    BY DEF LogLine, Held, all, asLines
<1>6. CASE shut
    BY <1>1, <1>5, <1>6 DEF LogLine, LogPlaces, Dropping, all, asLines
<1>7. CASE lines' = n /\ queued' = Append(queued, n) /\ UNCHANGED logger
  <2>1. Rising(queued') /\ Queued(queued') = Queued(queued) \cup {n}
      BY <1>1, <1>3, <1>4, <1>7, RisingMore
  <2>2. Placed(n, all, Held, Queued(queued) \cup {n}, dropped, Dropping)
      BY <1>1, <1>3, <1>4 DEF Placed
  <2>3. Before(asLines, Held \cup Queued(queued) \cup {n}) /\ Before(Held, Queued(queued) \cup {n})
      BY <1>1, <1>2, <1>3, <1>4 DEF Before
  <2>4. Dropping' = Dropping
      BY <1>7 DEF Dropping
  <2> QED
      BY <1>1, <1>5, <1>7, <2>1, <2>2, <2>3, <2>4 DEF LogPlaces, all, asLines
<1>8. CASE lines' = n /\ logger' = [logger EXCEPT ![g] = n] /\ UNCHANGED queued
  <2>1. Dropping' = Dropping \cup {n}
      BY <1>1, <1>3, <1>8 DEF Dropping
  <2>2. Placed(n, all, Held, Queued(queued), dropped, Dropping \cup {n})
      BY <1>1, <1>3, <1>4 DEF Placed
  <2>3. \A h \in Loggers : logger[h] # n
      BY <1>1, <1>3, <1>4 DEF Dropping
  <2>4. \A h, i \in Loggers : logger'[h] = logger'[i] /\ logger'[h] # 0 => h = i
      BY <1>1, <1>8, <2>3
  <2> QED
      BY <1>1, <1>5, <1>8, <2>1, <2>2, <2>4 DEF LogPlaces, all, asLines
<1> QED
    BY <1>6, <1>7, <1>8 DEF LogLine, n

\* A dropped line is counted.
LEMMA CountDroppedPlaces ==
    ASSUME LogInv, NEW g \in Loggers, CountDropped(g)
    PROVE  LogPlaces'
<1> DEFINE n == logger[g]
<1>1. /\ n # 0 /\ logger \in [Loggers -> Nat] /\ n \in Dropping
      /\ dropped' = dropped \cup {n} /\ logger' = [logger EXCEPT ![g] = 0]
      /\ UNCHANGED <<lines, queued, writer, logged, spilt, logFile>>
    BY DEF CountDropped, LogInv, LogPhases, Dropping
<1>2. Dropping' = Dropping \ {n}
    BY <1>1 DEF Dropping, LogInv, LogPlaces
<1>3. Placed(lines, AllTold(logged, spilt, logFile.buffer), Held, Queued(queued), dropped \cup {n}, Dropping \ {n})
    BY <1>1 DEF LogInv, LogPlaces, Placed
<1>4. Held' = Held /\ \A h, i \in Loggers : logger'[h] = logger'[i] /\ logger'[h] # 0 => h = i
    BY <1>1 DEF Held, LogInv, LogPlaces
<1> QED
    BY <1>1, <1>2, <1>3, <1>4 DEF LogInv, LogPlaces

\* The writer takes a line.
LEMMA TakeLinePlaces ==
    ASSUME LogInv, TakeLine
    PROVE  LogPlaces'
<1> DEFINE n == Head(queued)
<1>1. /\ queued # <<>> /\ queued' = Tail(queued) /\ Held = {} /\ Rising(queued)
      /\ UNCHANGED <<lines, dropped, logger, logged, spilt, logFile>>
    BY DEF TakeLine, Held, LogInv, LogPlaces
<1>2. Held' = {n}
    BY DEF TakeLine, Held
<1>3. /\ Rising(queued') /\ Queued(queued) = {n} \cup Queued(queued') /\ \A m \in Queued(queued') : n < m /\ n \in Nat
      /\ n \notin Queued(queued')
  <2>1. /\ Rising(queued') /\ Queued(queued) = {n} \cup Queued(queued') /\ n \in Nat
        /\ \A m \in Queued(queued') : n < m
      BY <1>1, RisingLess
  <2> QED
      BY <2>1
<1>4. Dropping' = Dropping
    BY <1>1 DEF Dropping
<1> HIDE DEF n
<1>5. Placed(lines, AllTold(logged, spilt, logFile.buffer), {n}, Queued(queued'), dropped, Dropping)
    BY <1>1, <1>3 DEF LogInv, LogPlaces, Placed
<1>6. /\ Before(AllWritten(logged, logFile.buffer), {n} \cup Queued(queued')) /\ Before({n}, Queued(queued'))
    BY <1>1, <1>3 DEF LogInv, LogPlaces, Before
<1> QED
    BY <1>1, <1>2, <1>3, <1>4, <1>5, <1>6 DEF LogInv, LogPlaces

\* It writes the line, or the count of the dropped ones.
LEMMA WritesPlaces ==
    ASSUME LogInv, WriteLine \/ ReportDropped
    PROVE  LogPlaces' /\ logFile' \in FileRecord
<1> DEFINE all == AllTold(logged, spilt, logFile.buffer)
           asLines == AllWritten(logged, logFile.buffer)
<1>1. /\ lines \in Nat /\ Filed(logged, spilt, logFile.buffer) /\ logFile \in FileRecord /\ today \in Nat
      /\ Placed(lines, all, Held, Queued(queued), dropped, Dropping)
      /\ Before(asLines, Held \cup Queued(queued)) /\ Before(Held, Queued(queued))
    BY DEF LogInv, LogPlaces, LogPhases
<1>2. UNCHANGED <<lines, queued, logger>> /\ Held' = {} /\ Dropping' = Dropping
  <2>1. UNCHANGED <<lines, queued, logger>>
      BY DEF WriteLine, ReportDropped
  <2>2. writer'.pc # "writing"
      BY DEF WriteLine, ReportDropped, LogInv, LogPhases
  <2> QED
      BY <2>1, <2>2 DEF Held, Dropping
<1>3. CASE WriteLine
  <2> DEFINE e == Line(writer.line)
  <2>1. writer.pc = "writing" /\ Held = {writer.line} /\ WriteEntry(e) /\ dropped' = dropped
      BY <1>3 DEF WriteLine, Held
  <2>2. e \in LogEntry /\ e.of = Held /\ e.kind = "line"
    <3>1. writer.line \in Nat
        BY DEF LogInv, LogPhases
    <3> QED
        BY <2>1, <3>1 DEF Line, LogEntry
  <2> HIDE DEF e
  <2>3. e.of \cap all = {} /\ Before(asLines, e.of)
      BY <1>1, <2>2 DEF Placed, Before
  <2>4. /\ Filed(logged', spilt', logFile'.buffer) /\ logFile' \in FileRecord
        /\ AllTold(logged', spilt', logFile'.buffer) = all \cup Held
        /\ AllWritten(logged', logFile'.buffer) \subseteq asLines \cup Held
      BY <1>1, <2>1, <2>2, <2>3, WritesEntry
  <2> HIDE DEF all, asLines
  <2>5. Placed(lines, all \cup Held, {}, Queued(queued), dropped, Dropping)
      BY <1>1 DEF Placed
  <2>6. Before(AllWritten(logged', logFile'.buffer), {} \cup Queued(queued)) /\ Before({}, Queued(queued))
      BY <1>1, <2>4 DEF Before
  <2> QED
      BY <1>1, <1>2, <2>1, <2>4, <2>5, <2>6 DEF LogInv, LogPlaces
<1>4. CASE ReportDropped /\ dropped # {}
  <2> DEFINE e == Report(dropped)
  <2>1. Held = {} /\ WriteEntry(e) /\ dropped' = {}
      BY <1>4 DEF ReportDropped, Held
  <2>2. e \in LogEntry /\ e.of = dropped /\ e.kind = "dropped"
    <3>1. dropped \subseteq Nat
        BY <1>1 DEF Placed
    <3> QED
        BY <3>1 DEF Report, LogEntry
  <2> HIDE DEF e
  <2>3. e.of \cap all = {}
      BY <1>1, <2>2 DEF Placed
  <2>4. /\ Filed(logged', spilt', logFile'.buffer) /\ logFile' \in FileRecord
        /\ AllTold(logged', spilt', logFile'.buffer) = all \cup dropped
        /\ AllWritten(logged', logFile'.buffer) \subseteq asLines
      BY <1>1, <2>1, <2>2, <2>3, WritesEntry
  <2> HIDE DEF all, asLines
  <2>5. Placed(lines, all \cup dropped, {}, Queued(queued), {}, Dropping)
      BY <1>1, <2>1 DEF Placed
  <2>6. Before(AllWritten(logged', logFile'.buffer), {} \cup Queued(queued)) /\ Before({}, Queued(queued))
      BY <1>1, <2>4 DEF Before
  <2> QED
      BY <1>1, <1>2, <2>1, <2>4, <2>5, <2>6 DEF LogInv, LogPlaces
<1>5. CASE ReportDropped /\ dropped = {}
  <2>1. Held = {} /\ UNCHANGED <<dropped, logFile, logged, spilt>>
      BY <1>5 DEF ReportDropped, Held
  <2> QED
      BY <1>1, <1>2, <2>1 DEF LogInv, LogPlaces
<1> QED
    BY <1>3, <1>4, <1>5

\* It flushes.
LEMMA FlushPlaces ==
    ASSUME LogInv, Flush
    PROVE  LogPlaces' /\ logFile' \in FileRecord /\ logFile'.buffer = <<>>
<1> DEFINE all == AllTold(logged, spilt, logFile.buffer)
           asLines == AllWritten(logged, logFile.buffer)
<1>1. PICK flush \in Flushes(logFile) :
          /\ logged' = flush.disk /\ spilt' = flush.lost
          /\ logFile' = IF writer.pc = "closing" THEN NoFile
                        ELSE [logFile EXCEPT !.buffer = <<>>, !.works = flush.works]
    BY DEF Flush
<1>2. flush.works \in BOOLEAN /\ logFile \in FileRecord
  <2>1. flush = Flushed(logFile) \/ flush = FlushFails(logFile)
      BY DEF Flushes
  <2>2. flush.works \in BOOLEAN
    <3>1. \/ flush = [disk |-> logged, lost |-> spilt \o logFile.buffer, works |-> FALSE]
          \/ flush = [disk |-> logged \o logFile.buffer, lost |-> spilt, works |-> TRUE]
        BY <2>1, Zenon DEF Flushed, FlushFails
    <3>2. ASSUME NEW a, NEW b, NEW c \in BOOLEAN, flush = [disk |-> a, lost |-> b, works |-> c]
          PROVE  flush.works \in BOOLEAN
        BY <3>2
    <3> QED
        BY <3>1, <3>2, Zenon
  <2> QED
      BY <2>2 DEF LogInv, LogPhases
<1>3. logFile' \in FileRecord /\ logFile'.buffer = <<>>
    BY <1>1, <1>2, ToldNone DEF FileRecord, NoFile
<1>4. /\ Filed(logged', spilt', logFile'.buffer)
      /\ AllTold(logged', spilt', logFile'.buffer) = all
      /\ AllWritten(logged', logFile'.buffer) \subseteq asLines
    BY <1>1, <1>3, FlushesFile DEF LogInv, LogPlaces
<1>5. Before(asLines, Held \cup Queued(queued))
    BY DEF LogInv, LogPlaces
<1>6. UNCHANGED <<lines, queued, logger, dropped>> /\ Held' = Held /\ Dropping' = Dropping
    BY DEF Flush, Held, Dropping
<1> HIDE DEF asLines
<1>7. Before(AllWritten(logged', logFile'.buffer), Held \cup Queued(queued))
    BY <1>4, <1>5 DEF Before
<1> QED
    BY <1>3, <1>4, <1>6, <1>7 DEF LogInv, LogPlaces

\* Every step keeps the lines in their places.
LEMMA LogPlacesStep ==
    ASSUME LogInv, [LogNext]_logVars
    PROVE  LogPlaces'
<1>1. ASSUME NextDay \/ LookForMore \/ NoMoreLines \/ (\E e \in LogClosers : CloseLog(e) \/ LogClosed(e)) \/ UNCHANGED logVars
      PROVE  LogPlaces'
  <2>1. UNCHANGED <<lines, queued, logger, dropped, logged, spilt, logFile>>
      BY <1>1 DEF NextDay, LookForMore, NoMoreLines, CloseLog, LogClosed, logVars
  <2>2. Held' = Held
      BY <1>1 DEF NextDay, LookForMore, Commit, NoMoreLines, CloseLog, LogClosed, logVars, Held, LogInv, LogPhases
  <2>3. Dropping' = Dropping
      BY <2>1 DEF Dropping
  <2> QED
      BY <2>1, <2>2, <2>3 DEF LogInv, LogPlaces
<1> QED
    BY <1>1, LogLinePlaces, CountDroppedPlaces, TakeLinePlaces, WritesPlaces, FlushPlaces DEF LogNext

\* Steps of loggers and of calls of Close keep the phases.
LEMMA CallersPhases ==
    ASSUME LogInv, \/ \E g \in Loggers : LogLine(g) \/ CountDropped(g)
                   \/ \E e \in LogClosers : CloseLog(e) \/ LogClosed(e)
                   \/ NextDay \/ UNCHANGED logVars
    PROVE  LogPhases'
<1>0. LogPhases /\ lines \in Nat /\ Rising(queued)
    BY DEF LogInv, LogPlaces
<1>1. ASSUME NEW g \in Loggers, LogLine(g) PROVE LogPhases'
  <2>1. UNCHANGED <<shut, dropped, writer, today, logFile, logged, spilt, logCloser>>
      BY <1>1 DEF LogLine
  <2>2. CASE shut
      BY <1>0, <1>1, <2>1, <2>2 DEF LogLine, LogPhases, WaitsFlushed
  <2>3. CASE ~shut
    <3>1. logger' \in [Loggers -> Nat]
        BY <1>0, <1>1 DEF LogLine, LogPhases
    <3>2. queued' = <<>> => queued = <<>>
      <4>1. Append(queued, lines + 1) # <<>>
          BY <1>0, AppendProperties DEF Rising
      <4> QED
          BY <1>1, <4>1 DEF LogLine
    <3>3. writer.pc \notin {"lastly", "closing", "done"}
        BY <1>0, <2>3 DEF LogPhases
    <3> QED
        BY <1>0, <2>1, <2>3, <3>1, <3>2, <3>3 DEF LogPhases, WaitsFlushed
  <2> QED
      BY <2>2, <2>3
<1>2. ASSUME NEW g \in Loggers, CountDropped(g) PROVE LogPhases'
  <2>1. ~shut /\ writer.pc \notin {"lastly", "closing", "done"}
      BY <1>0, <1>2 DEF CountDropped, LogPhases
  <2>2. logger' \in [Loggers -> Nat]
      BY <1>0, <1>2 DEF CountDropped, LogPhases
  <2> QED
      BY <1>0, <1>2, <2>1, <2>2 DEF CountDropped, LogPhases, WaitsFlushed
<1>3. ASSUME NEW e \in LogClosers, CloseLog(e) \/ LogClosed(e) PROVE LogPhases'
    BY <1>0, <1>3 DEF CloseLog, LogClosed, LogPhases, WaitsFlushed
<1>4. ASSUME NextDay \/ UNCHANGED logVars PROVE LogPhases'
    BY <1>0, <1>4 DEF NextDay, logVars, LogPhases, WaitsFlushed
<1> QED
    BY <1>1, <1>2, <1>3, <1>4

\* So do those of the writer.
LEMMA WriterPhases ==
    ASSUME LogInv, TakeLine \/ WriteLine \/ LookForMore \/ NoMoreLines \/ ReportDropped \/ Flush
    PROVE  LogPhases'
<1>0. /\ LogPhases /\ Rising(queued) /\ writer.pc # "done"
    BY DEF LogInv, LogPlaces, TakeLine, WriteLine, LookForMore, NoMoreLines, ReportDropped, Flush
<1>1. CASE TakeLine
  <2>1. Head(queued) \in Nat
      BY <1>0, <1>1, RisingLess DEF TakeLine
  <2>2. writer' \in [pc : WriterPlaces, line : Nat] /\ writer'.pc = "writing"
      BY <1>1, <2>1 DEF TakeLine, WriterPlaces
  <2> QED
      BY <1>0, <1>1, <2>2 DEF TakeLine, LogPhases, WaitsFlushed
<1>2. CASE WriteLine
  <2>1. logFile' \in FileRecord
      BY <1>2, WritesPlaces
  <2>2. writer' \in [pc : WriterPlaces, line : Nat] /\ writer'.pc = "written"
      BY <1>2 DEF WriteLine, WriterPlaces
  <2> QED
      BY <1>0, <1>2, <2>1, <2>2 DEF WriteLine, LogPhases, WaitsFlushed
<1>3. CASE LookForMore
  <2>1. writer' \in [pc : WriterPlaces, line : Nat] /\ writer'.pc = IF queued = <<>> THEN "reporting" ELSE "idle"
      BY <1>0, <1>3 DEF LookForMore, Commit, LogPhases, WriterPlaces
  <2> QED
      BY <1>0, <1>3, <2>1 DEF LookForMore, LogPhases, WaitsFlushed
<1>4. CASE NoMoreLines
  <2>1. writer' \in [pc : WriterPlaces, line : Nat] /\ writer'.pc = "lastly"
      BY <1>0, <1>4 DEF NoMoreLines, LogPhases, WriterPlaces
  <2> QED
      BY <1>0, <1>4, <2>1 DEF NoMoreLines, LogPhases, WaitsFlushed
<1>5. CASE ReportDropped
  <2>1. logFile' \in FileRecord
      BY <1>5, WritesPlaces
  <2>2. writer' \in [pc : WriterPlaces, line : Nat] /\ writer'.pc = IF writer.pc = "lastly" THEN "closing" ELSE "flushing"
      BY <1>0, <1>5 DEF ReportDropped, LogPhases, WriterPlaces
  <2> QED
      BY <1>0, <1>5, <2>1, <2>2 DEF ReportDropped, LogPhases, WaitsFlushed
<1>6. CASE Flush
  <2>1. logFile' \in FileRecord /\ logFile'.buffer = <<>>
      BY <1>6, FlushPlaces
  <2>2. writer' \in [pc : WriterPlaces, line : Nat] /\ writer'.pc = IF writer.pc = "closing" THEN "done" ELSE "idle"
      BY <1>0, <1>6 DEF Flush, LogPhases, WriterPlaces
  <2> QED
      BY <1>0, <1>6, <2>1, <2>2 DEF Flush, LogPhases, WaitsFlushed
<1> QED
    BY <1>1, <1>2, <1>3, <1>4, <1>5, <1>6

\* The invariant holds of an empty log.
LEMMA LogInvInit == LogInit => LogInv
<1> SUFFICES ASSUME LogInit PROVE LogInv
    OBVIOUS
<1>1. /\ logged = <<>> /\ spilt = <<>> /\ logFile = NoFile /\ queued = <<>> /\ lines = 0 /\ dropped = {}
      /\ logger = [g \in Loggers |-> 0] /\ writer = [pc |-> "idle", line |-> 0] /\ logFile.buffer = <<>>
    BY DEF LogInit, NoFile
<1>2. Filed(logged, spilt, logFile.buffer) /\ AllTold(logged, spilt, logFile.buffer) = {}
      /\ AllWritten(logged, logFile.buffer) = {}
    BY <1>1, ToldNone DEF Filed, AllTold, AllWritten, Before
<1>3. Rising(queued) /\ Queued(queued) = {}
    BY <1>1, EmptySeq DEF Rising, Queued
<1>4. Held = {} /\ Dropping = {} /\ 1 .. 0 = {}
    BY <1>1 DEF Held, Dropping
<1>5. LogPlaces
    BY <1>1, <1>2, <1>3, <1>4 DEF LogPlaces, Placed, Before
<1>6. logFile \in FileRecord
    BY <1>1, ToldNone DEF NoFile, FileRecord
<1>7. writer \in [pc : WriterPlaces, line : Nat] /\ writer.pc = "idle" /\ logger \in [Loggers -> Nat] /\ shut = FALSE
    BY <1>1 DEF LogInit, WriterPlaces
<1>8. today \in Nat /\ logCloser = [e \in LogClosers |-> "idle"]
    BY DEF LogInit
<1>9. LogPhases
    BY <1>1, <1>6, <1>7, <1>8 DEF LogPhases, WaitsFlushed
<1> QED
    BY <1>5, <1>9 DEF LogInv

\* Every step of the log keeps the invariant.
LEMMA LogInvStep == LogInv /\ [LogNext]_logVars => LogInv'
BY LogPlacesStep, CallersPhases, WriterPhases DEF LogNext, LogInv

(* For every number of loggers and of calls of Close, and every size of the   *)
(* queue: once Close has returned every line that was logged is in the file, *)
(* once and in order, or in one report of dropped ones, or the disk has lost *)
(* it, and no line waits in the buffer while the writer waits for another    *)
(* one (logfile.go:86-129).                                                  *)
THEOREM LogTellsTruly == LogSpec => []LogTruthful
<1>1. LogInv => LogTruthful
  <2> SUFFICES ASSUME LogInv PROVE LogTruthful
      OBVIOUS
  <2>1. ASSUME NEW e \in LogClosers, logCloser[e] = "returned"
        PROVE  /\ Told(logged \o spilt) = 1 .. lines /\ CountedOnce(logged \o spilt) /\ LinesInTurn(logged)
    <3>1. /\ writer.pc = "done" /\ queued = <<>> /\ dropped = {} /\ logFile.buffer = <<>>
          /\ \A g \in Loggers : logger[g] = 0
        BY <2>1 DEF LogInv, LogPhases
    <3>2. Held = {} /\ Queued(queued) = {} /\ Dropping = {}
        BY <3>1 DEF Held, Queued, Dropping
    <3>3. AllTold(logged, spilt, logFile.buffer) = Told(logged) \cup Told(spilt)
        BY <3>1, ToldNone DEF AllTold
    <3>4. 1 .. lines = Told(logged) \cup Told(spilt)
        BY <3>1, <3>2, <3>3 DEF LogInv, LogPlaces, Placed
    <3> QED
        BY <3>4, ToldBoth DEF LogInv, LogPlaces, Filed
  <2> QED
      BY <2>1 DEF LogInv, LogPhases, LogTruthful, ClosedTellsAll
<1> QED
    BY <1>1, LogInvInit, LogInvStep, PTL DEF LogSpec

-------------------------------------------------------------------------------
\* MCP servers as the agents see them (MCPServers).

AgentPlaces == {"idle", "listing", "recording", "asking", "calling"}

McpAgentRecord == [pc : AgentPlaces, server : Servers \cup {NoServer}, name : SUBSET ToolNames,
                asked : Servers \cup {NoServer}, trial : BOOLEAN, offered : SUBSET (Servers \X ToolNames)]

\* Who makes a call has a server; a tool that is offered is its owner's.
AgentKept(a) ==
    /\ agent[a].pc # "idle" => agent[a].server \in Servers
    /\ agent[a].pc \in {"asking", "calling"} => agent[a].asked = agent[a].server
    /\ \A s \in Servers, n \in ToolNames :
           <<s, n>> \in agent[a].offered => owner[n] = s /\ n \notin Reserved

McpInv ==
    /\ serverHealth \in [Servers -> Breakers] /\ \A s \in Servers : serverHealth[s].trial => serverHealth[s].open
    /\ owner \in [ToolNames -> Servers \cup {NoServer}]
    /\ agent \in [Agents -> McpAgentRecord]
    /\ \A a \in Agents : AgentKept(a)
    /\ ServerTrialsReport

\* A breaker stays one, and only an open one has a trial out.
LEMMA BreakerKept ==
    ASSUME NEW b \in Breakers, b.trial => b.open
    PROVE  /\ Allowed(b) \in Breakers /\ Allowed(b).trial = b.open /\ Allowed(b).open = b.open
           /\ Success(b) \in Breakers /\ Success(b).trial = FALSE
           /\ Failure(b) \in Breakers /\ Failure(b).trial = FALSE
           /\ Elapsed(b) \in Breakers /\ Elapsed(b).trial = b.trial /\ Elapsed(b).open = b.open
<1>0. /\ b.failures \in 0 .. MaxStreak /\ b.open \in BOOLEAN /\ b.trial \in BOOLEAN
      /\ b.left \in 0 .. MaxCooldown /\ b.cooldown \in 0 .. MaxCooldown
      /\ MaxStreak \in Nat \ {0} /\ MaxCooldown \in Nat /\ InitialCooldown \in 0 .. MaxCooldown
    BY BreakerAssumption DEF Breakers, MaxStreak
<1>1. Allowed(b) \in Breakers /\ Allowed(b).trial = b.open /\ Allowed(b).open = b.open
    BY DEF Breakers, Allowed
<1>2. Success(b) \in Breakers /\ Success(b).trial = FALSE
    BY <1>0 DEF Breakers, Success
<1>3. Streak(b) \in 0 .. MaxStreak
    BY <1>0 DEF Streak, Lower
<1>4. ASSUME NEW c \in 0 .. MaxCooldown PROVE Reopened(b, c) \in Breakers /\ Reopened(b, c).trial = FALSE
    BY <1>3 DEF Breakers, Reopened
<1>5. Failure(b) \in Breakers /\ Failure(b).trial = FALSE
  <2>1. CASE b.open /\ b.trial
    <3>1. Lower(2 * b.cooldown, MaxCooldown) \in 0 .. MaxCooldown
        BY <1>0 DEF Lower
    <3>2. Failure(b) = Reopened(b, Lower(2 * b.cooldown, MaxCooldown))
        BY <2>1 DEF Failure
    <3> QED
        BY <1>4, <3>1, <3>2
  <2>2. CASE ~b.open /\ Streak(b) >= Threshold
    <3>1. Failure(b) = Reopened(b, InitialCooldown)
        BY <2>2 DEF Failure
    <3> QED
        BY <1>0, <1>4, <3>1
  <2>3. CASE ~(b.open /\ b.trial) /\ ~(~b.open /\ Streak(b) >= Threshold)
    <3>1. Failure(b) = [b EXCEPT !.failures = Streak(b)]
        BY <2>3 DEF Failure
    <3>2. b.trial = FALSE
        BY <1>0, <2>3
    <3> QED
        BY <1>3, <3>1, <3>2 DEF Breakers
  <2> QED
      BY <2>1, <2>2, <2>3
<1>6. Elapsed(b) \in Breakers /\ Elapsed(b).trial = b.trial /\ Elapsed(b).open = b.open
  <2>1. (IF b.left > 0 THEN b.left - 1 ELSE 0) \in 0 .. MaxCooldown
      BY <1>0
  <2> QED
      BY <2>1 DEF Breakers, Elapsed
<1> QED
    BY <1>1, <1>2, <1>5, <1>6

\* An agent moves to another place, with the breakers as they are then.
LEMMA AgentSteps ==
    ASSUME McpInv, NEW a \in Agents, NEW r \in McpAgentRecord, agent' = [agent EXCEPT ![a] = r],
           owner' \in [ToolNames -> Servers \cup {NoServer}],
           \A n \in ToolNames : owner[n] # NoServer => owner'[n] = owner[n],
           r.pc # "idle" => r.server \in Servers,
           r.pc \in {"asking", "calling"} => r.asked = r.server,
           \A s \in Servers, n \in ToolNames : <<s, n>> \in r.offered => owner'[n] = s /\ n \notin Reserved,
           serverHealth' \in [Servers -> Breakers],
           \A s \in Servers : serverHealth'[s].trial =>
               /\ serverHealth'[s].open
               /\ \/ serverHealth[s].trial /\ ~(agent[a].server = s /\ agent[a].trial /\ agent[a].pc \in {"listing", "calling"})
                  \/ r.server = s /\ r.trial /\ r.pc \in {"listing", "calling"}
    PROVE  McpInv'
<1>1. agent' \in [Agents -> McpAgentRecord] /\ agent'[a] = r /\ \A b \in Agents \ {a} : agent'[b] = agent[b]
    BY DEF McpInv
<1>2. ASSUME NEW b \in Agents PROVE AgentKept(b)'
  <2>1. CASE b = a
      BY <1>1, <2>1 DEF AgentKept
  <2>2. CASE b # a
    <3>1. \A s \in Servers, n \in ToolNames : <<s, n>> \in agent[b].offered => owner'[n] = s /\ n \notin Reserved
        BY McpAssumption DEF McpInv, AgentKept
    <3> QED
        BY <1>1, <2>2, <3>1 DEF McpInv, AgentKept
  <2> QED
      BY <2>1, <2>2
<1>3. ServerTrialsReport'
  <2> SUFFICES ASSUME NEW s \in Servers, serverHealth'[s].trial
               PROVE  \E b \in Agents : agent'[b].server = s /\ agent'[b].trial /\ agent'[b].pc \in {"listing", "calling"}
      BY DEF ServerTrialsReport
  <2>1. CASE r.server = s /\ r.trial /\ r.pc \in {"listing", "calling"}
      BY <1>1, <2>1
  <2>2. CASE serverHealth[s].trial /\ ~(agent[a].server = s /\ agent[a].trial /\ agent[a].pc \in {"listing", "calling"})
    <3>1. PICK b \in Agents : agent[b].server = s /\ agent[b].trial /\ agent[b].pc \in {"listing", "calling"}
        BY <2>2 DEF McpInv, ServerTrialsReport
    <3> QED
        BY <1>1, <2>2, <3>1
  <2> QED
      BY <2>1, <2>2
<1> QED
    BY <1>1, <1>2, <1>3 DEF McpInv

\* The invariant holds of servers nobody has called.
LEMMA McpInvInit == McpInit => McpInv
<1> SUFFICES ASSUME McpInit PROVE McpInv
    OBVIOUS
<1>1. New \in Breakers /\ New.trial = FALSE
    BY BreakerAssumption DEF New, Breakers, MaxStreak
<1>2. AgentAtRest \in McpAgentRecord /\ AgentAtRest.pc = "idle" /\ AgentAtRest.offered = {}
    BY DEF AgentAtRest, McpAgentRecord, AgentPlaces
<1> QED
    BY <1>1, <1>2 DEF McpInit, McpInv, AgentKept, ServerTrialsReport

\* The tools of the other servers, offered as they were.
LEMMA OffersKept ==
    ASSUME McpInv, NEW a \in Agents, NEW s \in Servers
    PROVE  /\ OffersNothing(a, s) \in SUBSET (Servers \X ToolNames)
           /\ OffersNothing(a, s) \subseteq agent[a].offered
           /\ \A n \in ToolNames : <<s, n>> \notin OffersNothing(a, s)
BY DEF OffersNothing, McpInv, McpAgentRecord

\* An agent's own step.
LEMMA AgentActs ==
    ASSUME McpInv, NEW a \in Agents,
           \/ ListFails(a) \/ Record(a) \/ Denied(a) \/ Run(a) \/ RunEnds(a)
           \/ \E s \in Servers : ListTools(a, s)
           \/ \E names \in SUBSET ToolNames : ListAnswers(a, names)
           \/ \E t \in agent[a].offered : Approve(a, t)
    PROVE  McpInv'
<1> DEFINE me == agent[a]
           s == me.server
           trialOut(t) == me.server = t /\ me.trial /\ me.pc \in {"listing", "calling"}
<1>1. /\ serverHealth \in [Servers -> Breakers] /\ (\A t \in Servers : serverHealth[t].trial => serverHealth[t].open)
      /\ owner \in [ToolNames -> Servers \cup {NoServer}]
      /\ me \in McpAgentRecord /\ AgentKept(a)
    BY DEF McpInv
<1>2. /\ me.pc # "idle" => s \in Servers
      /\ \A t \in Servers, n \in ToolNames : <<t, n>> \in me.offered => owner[n] = t /\ n \notin Reserved
    BY <1>1 DEF AgentKept
<1>3. ASSUME UNCHANGED serverHealth, ~(me.trial /\ me.pc \in {"listing", "calling"})
      PROVE  /\ serverHealth' \in [Servers -> Breakers]
             /\ \A t \in Servers : serverHealth'[t].trial => serverHealth'[t].open /\ serverHealth[t].trial /\ ~trialOut(t)
    BY <1>1, <1>3
<1>4. ASSUME s \in Servers, NEW b \in Breakers, b.trial = FALSE, Outcome(a, b)
      PROVE  /\ serverHealth' \in [Servers -> Breakers]
             /\ \A t \in Servers : serverHealth'[t].trial => serverHealth'[t].open /\ serverHealth[t].trial /\ ~trialOut(t)
    BY <1>1, <1>4 DEF Outcome
<1>5. ASSUME NEW t \in Servers, serverHealth' = [serverHealth EXCEPT ![t] = Allowed(serverHealth[t])],
             ~(me.trial /\ me.pc \in {"listing", "calling"})
      PROVE  /\ serverHealth' \in [Servers -> Breakers]
             /\ \A u \in Servers : serverHealth'[u].trial =>
                    /\ serverHealth'[u].open
                    /\ (serverHealth[u].trial /\ ~trialOut(u)) \/ (u = t /\ serverHealth[t].open)
  <2>1. Allowed(serverHealth[t]) \in Breakers /\ Allowed(serverHealth[t]).trial = serverHealth[t].open
        /\ Allowed(serverHealth[t]).open = serverHealth[t].open
      BY <1>1, BreakerKept
  <2> QED
      BY <1>1, <1>5, <2>1
<1>6. \A t \in Servers : Success(serverHealth[t]) \in Breakers /\ Success(serverHealth[t]).trial = FALSE
                        /\ Failure(serverHealth[t]) \in Breakers /\ Failure(serverHealth[t]).trial = FALSE
    BY <1>1, BreakerKept
<1>7. ASSUME ListFails(a) PROVE McpInv'
  <2> DEFINE r == [me EXCEPT !.pc = "idle", !.trial = FALSE, !.offered = OffersNothing(a, s)]
  <2>1. s \in Servers /\ agent' = [agent EXCEPT ![a] = r] /\ Outcome(a, Failure(serverHealth[s])) /\ owner' = owner
      BY <1>2, <1>7 DEF ListFails
  <2>2. r \in McpAgentRecord /\ r.pc = "idle" /\ r.offered \subseteq me.offered
      BY <1>1, <2>1, OffersKept DEF McpAgentRecord, AgentPlaces
  <2>3. \A t \in Servers, n \in ToolNames : <<t, n>> \in r.offered => owner'[n] = t /\ n \notin Reserved
      BY <1>2, <2>1, <2>2
  <2> HIDE DEF r
  <2> QED
      BY <1>1, <1>4, <1>6, <2>1, <2>2, <2>3, AgentSteps
<1>8. ASSUME Record(a) PROVE McpInv'
  <2> DEFINE claims == Takes(s, me.name)
             r == [me EXCEPT !.pc = "idle", !.name = {}, !.offered = OffersNothing(a, s) \cup {<<s, n>> : n \in claims}]
  <2>1. /\ s \in Servers /\ agent' = [agent EXCEPT ![a] = r] /\ serverHealth' = serverHealth /\ me.pc = "recording"
        /\ owner' = [n \in ToolNames |-> IF n \in claims THEN s ELSE owner[n]]
      BY <1>2, <1>8 DEF Record
  <2>2. claims \subseteq ToolNames \ Reserved /\ \A n \in claims : owner[n] \in {s, NoServer}
      BY <1>1 DEF Takes, McpAgentRecord
  <2> HIDE DEF claims
  <2>3. r \in McpAgentRecord /\ r.pc = "idle"
    <3>1. OffersNothing(a, s) \cup {<<s, n>> : n \in claims} \in SUBSET (Servers \X ToolNames)
        BY <2>1, <2>2, OffersKept
    <3> QED
        BY <1>1, <3>1 DEF McpAgentRecord, AgentPlaces
  <2>4. r.offered = OffersNothing(a, s) \cup {<<s, n>> : n \in claims}
      BY <1>1 DEF McpAgentRecord
  <2>5. ASSUME NEW t \in Servers, NEW n \in ToolNames, <<t, n>> \in r.offered
        PROVE  owner'[n] = t /\ n \notin Reserved
    <3>1. CASE <<t, n>> \in OffersNothing(a, s)
      <4>1. t # s /\ owner[n] = t /\ n \notin Reserved
          BY <1>2, <2>1, <3>1, OffersKept
      <4>2. n \notin claims
          BY <2>2, <4>1, McpAssumption
      <4> QED
          BY <2>1, <4>1, <4>2
    <3>2. CASE t = s /\ n \in claims
        BY <2>1, <2>2, <3>2
    <3> QED
        BY <2>4, <2>5, <3>1, <3>2
  <2>6. owner' \in [ToolNames -> Servers \cup {NoServer}] /\ \A n \in ToolNames : owner[n] # NoServer => owner'[n] = owner[n]
      BY <1>1, <2>1, <2>2
  <2> HIDE DEF r
  <2>7. ~(me.trial /\ me.pc \in {"listing", "calling"})
      BY <2>1
  <2> QED
      BY <1>1, <1>3, <2>1, <2>3, <2>5, <2>6, <2>7, AgentSteps
<1>9. ASSUME NEW r \in McpAgentRecord, agent' = [agent EXCEPT ![a] = r], r.offered = me.offered, UNCHANGED owner,
             r.pc # "idle" => r.server \in Servers, r.pc \in {"asking", "calling"} => r.asked = r.server,
             serverHealth' \in [Servers -> Breakers],
             \A t \in Servers : serverHealth'[t].trial =>
                 serverHealth'[t].open /\ ((serverHealth[t].trial /\ ~trialOut(t))
                                          \/ (r.server = t /\ r.trial /\ r.pc \in {"listing", "calling"}))
      PROVE  McpInv'
  <2>1. /\ owner' \in [ToolNames -> Servers \cup {NoServer}]
        /\ \A n \in ToolNames : owner[n] # NoServer => owner'[n] = owner[n]
        /\ \A t \in Servers, n \in ToolNames : <<t, n>> \in r.offered => owner'[n] = t /\ n \notin Reserved
      BY <1>1, <1>2, <1>9
  <2>2. \A t \in Servers : serverHealth'[t].trial =>
               /\ serverHealth'[t].open
               /\ \/ serverHealth[t].trial
                     /\ ~(agent[a].server = t /\ agent[a].trial /\ agent[a].pc \in {"listing", "calling"})
                  \/ r.server = t /\ r.trial /\ r.pc \in {"listing", "calling"}
      BY <1>9
  <2> QED
      BY <1>9, <2>1, <2>2, AgentSteps
<1>10. ASSUME NEW t \in Servers, ListTools(a, t) PROVE McpInv'
  <2>1. CASE Allows(serverHealth[t])
    <3> DEFINE r == [me EXCEPT !.pc = "listing", !.server = t, !.trial = serverHealth[t].open]
    <3>1. agent' = [agent EXCEPT ![a] = r] /\ owner' = owner /\ me.pc = "idle"
          /\ serverHealth' = [serverHealth EXCEPT ![t] = Allowed(serverHealth[t])]
        BY <1>1, <1>10, <2>1 DEF ListTools
    <3>2. r \in McpAgentRecord /\ r.pc = "listing" /\ r.server = t /\ r.trial = serverHealth[t].open /\ r.offered = me.offered
        BY <1>1 DEF McpAgentRecord, AgentPlaces, Breakers
    <3> HIDE DEF r
    <3> QED
        BY <1>5, <1>9, <3>1, <3>2
  <2>2. CASE ~Allows(serverHealth[t])
    <3> DEFINE r == [me EXCEPT !.offered = OffersNothing(a, t)]
    <3>1. agent' = [agent EXCEPT ![a] = r] /\ owner' = owner /\ me.pc = "idle" /\ serverHealth' = serverHealth
        BY <1>1, <1>10, <2>2 DEF ListTools
    <3>2. r \in McpAgentRecord /\ r.pc = "idle" /\ r.offered \subseteq me.offered
        BY <1>1, <3>1, OffersKept DEF McpAgentRecord
    <3>3. \A u \in Servers, n \in ToolNames : <<u, n>> \in r.offered => owner'[n] = u /\ n \notin Reserved
        BY <1>2, <3>1, <3>2
    <3> HIDE DEF r
    <3> QED
        BY <1>1, <1>3, <3>1, <3>2, <3>3, AgentSteps
  <2> QED
      BY <2>1, <2>2
<1>11. ASSUME NEW names \in SUBSET ToolNames, ListAnswers(a, names) PROVE McpInv'
  <2> DEFINE r == [me EXCEPT !.pc = "recording", !.trial = FALSE, !.name = names]
  <2>1. s \in Servers /\ agent' = [agent EXCEPT ![a] = r] /\ Outcome(a, Success(serverHealth[s])) /\ owner' = owner
      BY <1>2, <1>11 DEF ListAnswers
  <2>2. r \in McpAgentRecord /\ r.pc = "recording" /\ r.offered = me.offered /\ r.server = s
      BY <1>1 DEF McpAgentRecord, AgentPlaces
  <2> HIDE DEF r
  <2> QED
      BY <1>4, <1>6, <1>9, <2>1, <2>2
<1>12. ASSUME NEW t \in me.offered, Approve(a, t) PROVE McpInv'
  <2> DEFINE r == [me EXCEPT !.pc = "asking", !.server = t[1], !.name = {t[2]}, !.asked = owner[t[2]]]
  <2>1. agent' = [agent EXCEPT ![a] = r] /\ owner' = owner /\ serverHealth' = serverHealth /\ me.pc = "idle"
    <3>1. /\ agent' = [agent EXCEPT ![a].pc = "asking", ![a].server = t[1], ![a].name = {t[2]}, ![a].asked = owner[t[2]]]
          /\ owner' = owner /\ serverHealth' = serverHealth /\ me.pc = "idle"
        BY <1>12 DEF Approve
    <3>2. DOMAIN agent = Agents
        BY DEF McpInv
    <3>3. agent'[a] = r /\ \A b \in Agents \ {a} : agent'[b] = agent[b]
        BY <3>1, <3>2
    <3>4. agent' = [b \in Agents |-> agent'[b]]
        BY <3>1, <3>2
    <3> QED
        BY <3>1, <3>2, <3>3, <3>4
  <2>2. t[1] \in Servers /\ t[2] \in ToolNames /\ owner[t[2]] = t[1]
    <3>1. t \in Servers \X ToolNames
        BY <1>1 DEF McpAgentRecord
    <3>2. t = <<t[1], t[2]>> /\ t[1] \in Servers /\ t[2] \in ToolNames
        BY <3>1
    <3> QED
        BY <1>2, <3>2
  <2>3. r \in McpAgentRecord /\ r.pc = "asking" /\ r.offered = me.offered /\ r.server = t[1] /\ r.asked = t[1]
      BY <1>1, <2>2 DEF McpAgentRecord, AgentPlaces
  <2> HIDE DEF r
  <2> QED
      BY <1>3, <1>9, <2>1, <2>2, <2>3
<1>13. ASSUME Returned(a), owner' = owner, serverHealth' \in [Servers -> Breakers],
              \A t \in Servers : serverHealth'[t].trial => serverHealth'[t].open /\ serverHealth[t].trial /\ ~trialOut(t)
       PROVE  McpInv'
  <2> DEFINE r == [AgentAtRest EXCEPT !.offered = me.offered]
  <2>1. agent' = [agent EXCEPT ![a] = r]
      BY <1>13 DEF Returned
  <2>2. r \in McpAgentRecord /\ r.pc = "idle" /\ r.offered = me.offered
      BY <1>1 DEF AgentAtRest, McpAgentRecord, AgentPlaces
  <2> HIDE DEF r
  <2> QED
      BY <1>9, <1>13, <2>1, <2>2
<1>14. ASSUME Denied(a) PROVE McpInv'
    BY <1>3, <1>13, <1>14 DEF Denied
<1>15. ASSUME Run(a) PROVE McpInv'
  <2>1. CASE Allows(serverHealth[s])
    <3> DEFINE r == [me EXCEPT !.pc = "calling", !.trial = serverHealth[s].open]
    <3>1. /\ agent' = [agent EXCEPT ![a] = r] /\ owner' = owner /\ me.pc = "asking" /\ s \in Servers
          /\ serverHealth' = [serverHealth EXCEPT ![s] = Allowed(serverHealth[s])]
      <4>1. /\ agent' = [agent EXCEPT ![a].pc = "calling", ![a].trial = serverHealth[s].open] /\ owner' = owner
            /\ me.pc = "asking" /\ serverHealth' = [serverHealth EXCEPT ![s] = Allowed(@)]
          BY <1>15, <2>1 DEF Run
      <4>2. DOMAIN agent = Agents
          BY DEF McpInv
      <4>3. agent'[a] = r /\ \A b \in Agents \ {a} : agent'[b] = agent[b]
          BY <4>1, <4>2
      <4>4. agent' = [agent EXCEPT ![a] = r]
        <5>1. agent' = [b \in Agents |-> agent'[b]]
            BY <4>1, <4>2
        <5> QED
            BY <4>2, <4>3, <5>1
      <4> QED
          BY <1>2, <4>1, <4>4
    <3>2. /\ r \in McpAgentRecord /\ r.pc = "calling" /\ r.server = s /\ r.trial = serverHealth[s].open
          /\ r.offered = me.offered /\ r.asked = s
        BY <1>1, <3>1 DEF McpAgentRecord, AgentPlaces, Breakers, AgentKept
    <3> HIDE DEF r
    <3> QED
        BY <1>5, <1>9, <3>1, <3>2
  <2>2. CASE ~Allows(serverHealth[s])
      BY <1>3, <1>13, <1>15, <2>2 DEF Run
  <2> QED
      BY <2>1, <2>2
<1>16. ASSUME RunEnds(a) PROVE McpInv'
  <2>1. s \in Servers /\ Returned(a) /\ owner' = owner
        /\ (Outcome(a, Success(serverHealth[s])) \/ Outcome(a, Failure(serverHealth[s])))
      BY <1>2, <1>16 DEF RunEnds
  <2> QED
      BY <1>4, <1>6, <1>13, <2>1
<1> QED
    BY <1>7, <1>8, <1>10, <1>11, <1>12, <1>14, <1>15, <1>16

\* Every step keeps the invariant.
LEMMA McpInvStep == McpInv /\ [McpNext]_mcpVars => McpInv'
<1> SUFFICES ASSUME McpInv, [McpNext]_mcpVars PROVE McpInv'
    OBVIOUS
<1>1. CASE ServerTick
  <2>1. /\ serverHealth' = [s \in Servers |-> Elapsed(serverHealth[s])] /\ UNCHANGED <<owner, agent>>
      BY <1>1 DEF ServerTick
  <2>2. \A s \in Servers : /\ Elapsed(serverHealth[s]) \in Breakers
                           /\ Elapsed(serverHealth[s]).trial = serverHealth[s].trial
                           /\ Elapsed(serverHealth[s]).open = serverHealth[s].open
      BY BreakerKept DEF McpInv
  <2>3. serverHealth' \in [Servers -> Breakers] /\ \A s \in Servers : serverHealth'[s].trial = serverHealth[s].trial
                                                 /\ serverHealth'[s].open = serverHealth[s].open
      BY <2>1, <2>2
  <2> QED
      BY <2>1, <2>3 DEF McpInv, AgentKept, ServerTrialsReport
<1>2. CASE UNCHANGED mcpVars
    BY <1>2 DEF mcpVars, McpInv, AgentKept, ServerTrialsReport
<1> QED
    BY <1>1, <1>2, AgentActs DEF McpNext

\* The connection to one server: its processes are gone or the last one.
TransportInv ==
    /\ server \in [Commands -> {"none", "running", "dead"}]
    /\ latest \in 0 .. MaxServers /\ cur \in {0, latest} /\ refuses \in BOOLEAN /\ (cur # latest => refuses)
    /\ connecting \in {"no", "built", "started"} /\ (connecting # "no" => latest \in Commands)
    /\ \A c \in Commands : server[c] = "running" => c = latest /\ (cur = latest \/ connecting = "started")
    /\ closing.pc \in {"open", "taken", "stdio", "closed"}
    /\ closing.pc # "open" => refuses
    /\ closing.pc = "closed" => \A c \in Commands : server[c] = "running" => connecting = "started"

\* A process ends, and nothing else happens to any.
LEMMA TransportInvStep == TransportInv /\ [TransportNext]_transportVars => TransportInv'
<1> SUFFICES ASSUME TransportInv, [TransportNext]_transportVars PROVE TransportInv'
    OBVIOUS
<1> USE TransportAssumption DEF Commands
<1>0. \A c \in Commands \cup {0} : /\ Stopped(c) \in [Commands -> {"none", "running", "dead"}]
                                  /\ \A d \in Commands : Stopped(c)[d] = "running" => server[d] = "running" /\ d # c
    BY DEF Stopped, TransportInv
<1>1. CASE Build
  <2>1. latest + 1 \in Commands /\ latest + 1 # 0 /\ cur \in Commands \cup {0}
      BY <1>1 DEF Build, TransportInv
  <2>2. \A c \in Commands : server'[c] = "running" => FALSE
      BY <1>0, <1>1, <2>1 DEF Build, TransportInv
  <2> QED
      BY <1>0, <1>1, <2>1, <2>2 DEF Build, TransportInv
<1>2. CASE StartServer
    BY <1>2 DEF StartServer, TransportInv
<1>3. CASE Register
    BY <1>3 DEF Register, TransportInv
<1>4. CASE TakeConns
    BY <1>4 DEF TakeConns, TransportInv
<1>5. CASE CloseConns
    BY <1>5 DEF CloseConns, TransportInv
<1>6. CASE CloseProcess
  <2>1. closing'.pc = "closed" \/ closing'.pc = closing.pc
      BY <1>6 DEF CloseProcess
  <2> QED
      BY <1>0, <1>6, <2>1 DEF CloseProcess, TransportInv
<1>7. CASE \E c \in Commands : ServerDies(c) \/ ConnClosed(c)
    BY <1>7 DEF ServerDies, ConnClosed, TransportInv
<1>8. CASE UNCHANGED transportVars
    BY <1>8 DEF transportVars, TransportInv
<1> QED
    BY <1>1, <1>2, <1>3, <1>4, <1>5, <1>6, <1>7, <1>8 DEF TransportNext

(* For every set of servers, tools and agents, and any number of reconnects: *)
(* the user is asked about the server that will run the call, no tool that    *)
(* is offered shadows a built-in one, a breaker's trial has a call or listing *)
(* that will report; and with no connect under way at most one process of a   *)
(* server runs, and none once the connections are closed                      *)
(* (mcp.go:81-150, 340-352, 366-412 and 534-541).                             *)
THEOREM ServersStayUsable == McpSpec /\ TransportSpec => []ServersKept
<1>1. McpInv => ServersUsable
  <2>1. ASSUME McpInv, NEW a \in Agents, NEW t \in agent[a].offered PROVE t[2] \notin Reserved
    <3>1. t \in Servers \X ToolNames
        BY <2>1 DEF McpInv, McpAgentRecord
    <3>2. t = <<t[1], t[2]>> /\ t[1] \in Servers /\ t[2] \in ToolNames
        BY <3>1
    <3> QED
        BY <2>1, <3>2 DEF McpInv, AgentKept
  <2> QED
      BY <2>1 DEF McpInv, AgentKept, ServersUsable, AskedAboutRunner
<1>2. TransportInv => ServersEnd
  <2> SUFFICES ASSUME TransportInv, connecting = "no"
               PROVE  LET going == {c \in Commands : server[c] = "running"}
                      IN IF closing.pc = "closed" THEN going = {} ELSE Cardinality(going) <= 1
      BY DEF ServersEnd
  <2> DEFINE going == {c \in Commands : server[c] = "running"}
  <2>1. closing.pc = "closed" => going = {}
      BY DEF TransportInv
  <2>2. going \subseteq {latest}
      BY DEF TransportInv
  <2>3. IsFiniteSet({latest}) /\ Cardinality({latest}) = 1
      BY FS_Singleton
  <2>4. Cardinality(going) <= 1
      BY <2>2, <2>3, FS_Subset
  <2> QED
      BY <2>1, <2>4
<1>3. TransportInit => TransportInv
  <2> SUFFICES ASSUME TransportInit PROVE TransportInv
      OBVIOUS
  <2>1. server \in [Commands -> {"none", "running", "dead"}] /\ \A c \in Commands : server[c] # "running"
      BY DEF TransportInit
  <2>2. /\ cur = 0 /\ latest = 0 /\ refuses = FALSE /\ connecting = "no" /\ closing.pc = "open"
        /\ 0 \in 0 .. MaxServers
      BY TransportAssumption DEF TransportInit
  <2> QED
      BY <2>1, <2>2 DEF TransportInv
<1> QED
    BY <1>1, <1>2, <1>3, McpInvInit, McpInvStep, TransportInvStep, PTL DEF McpSpec, TransportSpec, ServersKept

-------------------------------------------------------------------------------
\* Lines without a terminal (TerminalInput).

LineInv ==
    /\ typed \in Nat /\ got \in Nat
    /\ pending \in [pc : {"none", "reading", "ready"}, line : Nat]
    /\ taken \in Seq(Nat) /\ \A i \in 1 .. Len(taken) : taken[i] = i
    /\ pending.pc = "ready" => pending.line = got
    /\ got = Len(taken) + (IF pending.pc = "ready" THEN 1 ELSE 0)

\* Every step keeps the lines in order.
LEMMA LineInvStep == LineInv /\ [LineNext]_lineVars => LineInv'
<1> SUFFICES ASSUME LineInv, [LineNext]_lineVars PROVE LineInv'
    OBVIOUS
<1>0. Len(taken) \in Nat
    BY LenProperties DEF LineInv
<1>1. CASE LineArrives
  <2>1. /\ pending.pc = "reading" /\ got' = got + 1 /\ pending' = [pc |-> "ready", line |-> got']
        /\ UNCHANGED <<typed, taken>>
      BY <1>1 DEF LineArrives
  <2>2. /\ pending' \in [pc : {"none", "reading", "ready"}, line : Nat] /\ pending'.pc = "ready" /\ pending'.line = got'
        /\ got' \in Nat
      BY <2>1 DEF LineInv
  <2> QED
      BY <1>0, <2>1, <2>2 DEF LineInv
<1>2. ASSUME NEW a \in Askers, Answered(a) PROVE LineInv'
  <2> DEFINE n == Len(taken)
  <2>1. /\ pending.pc = "ready" /\ taken' = Append(taken, n + 1) /\ pending' = NoRead /\ UNCHANGED <<typed, got>>
        /\ got = n + 1
      BY <1>0, <1>2 DEF Answered, LineInv
  <2>2. /\ taken' \in Seq(Nat) /\ Len(taken') = n + 1 /\ taken'[n + 1] = n + 1
        /\ \A i \in 1 .. n : taken'[i] = taken[i]
      BY <1>0, <2>1, AppendProperties DEF LineInv
  <2>3. \A i \in 1 .. Len(taken') : taken'[i] = i
    <3>1. \A i \in 1 .. n + 1 : i \in 1 .. n \/ i = n + 1
        BY <1>0
    <3> QED
        BY <2>2, <3>1 DEF LineInv
  <2>4. pending' \in [pc : {"none", "reading", "ready"}, line : Nat] /\ pending'.pc = "none"
      BY <2>1 DEF NoRead
  <2> QED
      BY <1>0, <2>1, <2>2, <2>3, <2>4 DEF LineInv
<1>3. ASSUME NEW a \in Askers, TakeTurn(a) PROVE LineInv'
  <2>1. /\ UNCHANGED <<typed, got, taken>>
        /\ pending' = IF pending.pc = "none" THEN [pc |-> "reading", line |-> 0] ELSE pending
      BY <1>3 DEF TakeTurn, NoRead
  <2> QED
      BY <2>1 DEF LineInv
<1>4. CASE Type \/ (\E a \in Askers : Ask(a) \/ AskCancelled(a)) \/ UNCHANGED lineVars
  <2>1. UNCHANGED <<got, pending, taken>> /\ typed' \in Nat
      BY <1>4 DEF Type, Ask, AskCancelled, LeavesRead, lineVars, LineInv
  <2> QED
      BY <2>1 DEF LineInv
<1> QED
    BY <1>1, <1>2, <1>3, <1>4 DEF LineNext

\* Prompts that have paused the watcher, or found none.
Shown == {p \in Prompts : prompt[p] \in {"waiting", "editing", "resuming"}}

KeyInv ==
    /\ watching \in {"off", "entering", "polling", "paused", "steering", "done"}
    /\ keyMode \in BOOLEAN /\ (keyMode => watching = "polling")
    /\ prompt \in [Prompts -> {"idle", "pausing", "waiting", "editing", "resuming"}]
    /\ editor \in Prompts \cup {Steering, NoPrompt}
    /\ editor = Steering => watching = "steering"
    /\ \A p \in Prompts : prompt[p] = "editing" <=> editor = p
    /\ Shown # {} => watching \in {"off", "done", "paused"}
    /\ watching = "paused" => \E p \in Prompts : Shown = {p}

\* Every step of the watcher and of the prompts keeps one reader.
LEMMA KeyInvStep == KeyInv /\ [KeyNext]_keyVars => KeyInv'
<1> SUFFICES ASSUME KeyInv, [KeyNext]_keyVars PROVE KeyInv'
    OBVIOUS
<1>1. CASE WatchKeys \/ (\E works \in BOOLEAN : Enter(works)) \/ KeyTyped \/ WatchEnds \/ StopWatching \/ WatcherStopped
           \/ AskSteer \/ Steered \/ UNCHANGED keyVars
  <2>1. prompt' = prompt /\ Shown' = Shown
      BY <1>1 DEF WatchKeys, Enter, KeyTyped, WatchEnds, StopWatching, WatcherStopped, AskSteer, Steered, keyVars, Shown
  <2>2. CASE WatchKeys
    <3>1. Shown = {}
        BY <2>2 DEF WatchKeys, Shown
    <3> QED
        BY <2>1, <2>2, <3>1 DEF WatchKeys, KeyInv
  <2>3. ASSUME NEW works \in BOOLEAN, Enter(works) PROVE KeyInv'
      BY <2>1, <2>3 DEF Enter, KeyInv
  <2>4. CASE KeyTyped
      BY <2>1, <2>4 DEF KeyTyped, Leave, KeyInv
  <2>5. CASE WatchEnds
      BY <2>1, <2>5 DEF WatchEnds, Leave, KeyInv
  <2>7. CASE StopWatching \/ UNCHANGED keyVars
      BY <2>1, <2>7 DEF StopWatching, keyVars, KeyInv
  <2>8. CASE WatcherStopped
      BY <2>1, <2>8 DEF WatcherStopped, KeyInv
  <2>6. CASE AskSteer \/ Steered
      BY <2>1, <2>6, KeyAssumption DEF AskSteer, Steered, KeyInv
  <2> QED
      BY <1>1, <2>2, <2>3, <2>4, <2>5, <2>6, <2>7, <2>8
<1>2. ASSUME NEW p \in Prompts, Prompt(p) PROVE KeyInv'
  <2>1. CASE watching = "off"
    <3>1. prompt' = [prompt EXCEPT ![p] = "waiting"] /\ UNCHANGED <<watching, keyMode, editor>> /\ prompt[p] = "idle"
        BY <1>2, <2>1 DEF Prompt
    <3> QED
        BY <2>1, <3>1 DEF KeyInv
  <2>2. CASE watching # "off"
    <3>1. prompt' = [prompt EXCEPT ![p] = "pausing"] /\ UNCHANGED <<watching, keyMode, editor>> /\ prompt[p] = "idle"
        BY <1>2, <2>2 DEF Prompt
    <3>2. Shown' = Shown
        BY <3>1 DEF KeyInv, Shown
    <3> QED
        BY <3>1, <3>2 DEF KeyInv
  <2> QED
      BY <2>1, <2>2
<1>3. ASSUME NEW p \in Prompts, Pause(p) PROVE KeyInv'
  <2>1. prompt[p] = "pausing" /\ prompt' = [prompt EXCEPT ![p] = "waiting"] /\ UNCHANGED <<stopping, editor>>
      BY <1>3 DEF Pause
  <2>2. Shown' = Shown \cup {p}
      BY <2>1 DEF KeyInv, Shown
  <2>3. CASE watching = "polling" /\ keyMode' = FALSE /\ watching' = "paused"
      BY <2>1, <2>2, <2>3 DEF KeyInv
  <2>4. CASE watching = "done" /\ UNCHANGED <<keyMode, watching>>
      BY <2>1, <2>2, <2>4 DEF KeyInv
  <2> QED
      BY <1>3, <2>3, <2>4 DEF Pause, Leave
<1>4. ASSUME NEW p \in Prompts, TakeEditor(p) \/ LineRead(p) PROVE KeyInv'
  <2>1. /\ prompt[p] \in {"waiting", "editing"} /\ UNCHANGED <<watching, keyMode>>
        /\ \/ prompt' = [prompt EXCEPT ![p] = "editing"] /\ editor' = p /\ editor = NoPrompt
           \/ prompt' = [prompt EXCEPT ![p] = "resuming"] /\ editor' = NoPrompt /\ editor = p
      BY <1>4 DEF TakeEditor, LineRead, KeyInv
  <2>2. Shown' = Shown
      BY <2>1 DEF KeyInv, Shown
  <2> QED
      BY <2>1, <2>2, KeyAssumption DEF KeyInv
<1>5. ASSUME NEW p \in Prompts, PromptCancelled(p) PROVE KeyInv'
  <2>1. /\ prompt[p] \in {"pausing", "waiting"} /\ UNCHANGED <<watching, keyMode, editor>>
        /\ prompt' = [prompt EXCEPT ![p] = IF prompt[p] = "pausing" THEN "idle" ELSE "resuming"]
      BY <1>5 DEF PromptCancelled
  <2>2. Shown' = Shown
      BY <2>1 DEF KeyInv, Shown
  <2> QED
      BY <2>1, <2>2 DEF KeyInv
<1>6. ASSUME NEW p \in Prompts, Resume(p) PROVE KeyInv'
  <2>1. /\ prompt[p] = "resuming" /\ UNCHANGED <<keyMode, editor>> /\ prompt' = [prompt EXCEPT ![p] = "idle"]
        /\ watching' = IF watching = "paused" THEN "entering" ELSE watching
      BY <1>6 DEF Resume
  <2>2. Shown' = Shown \ {p} /\ p \in Shown
      BY <2>1 DEF KeyInv, Shown
  <2>3. watching = "paused" => Shown' = {}
      BY <2>2 DEF KeyInv
  <2> QED
      BY <2>1, <2>2, <2>3 DEF KeyInv
<1> QED
    BY <1>1, <1>2, <1>3, <1>4, <1>5, <1>6 DEF KeyNext

-------------------------------------------------------------------------------
\* The loop of the terminal front end (Repl).

LoopPlaces == Watched \cup {"shell", "ended", "closed"}

LoopRecord == [at : LoopPlaces, kind : TurnKinds, accepted : BOOLEAN, carries : SUBSET Pictures,
               stopped : BOOLEAN, leaving : BOOLEAN, ending : Endings]

SeenRecord == [typed : Nat, pressed : Nat, cancelled : Nat, owed : SUBSET Pictures,
               started : SUBSET Procs, choice : BOOLEAN, term : BOOLEAN]

\* A press waits as a signal or has cancelled something; a turn that is yet
\* to be accepted carries all that waits, or nothing.
ReplInv ==
    /\ repl \in LoopRecord /\ seen \in SeenRecord
    /\ attached \subseteq Pictures /\ running \subseteq Procs
    /\ signals \in 0 .. 1 /\ seen.cancelled + signals <= seen.pressed
    /\ ImagesWait
    /\ repl.at = "turn" /\ ~repl.accepted /\ repl.carries # {} => attached \subseteq repl.carries
    /\ LeavesNothing

\* What was seen of signals and images stays as it was.
SeenKept ==
    /\ seen' \in SeenRecord
    /\ seen'.pressed = seen.pressed /\ seen'.cancelled = seen.cancelled /\ seen'.owed = seen.owed

\* A place the loop goes to, without anything to carry.
LEMMA GotoPlace ==
    ASSUME NEW place \in LoopPlaces, NEW ending \in Endings, ReplInv
    PROVE  /\ Goto(place) \in LoopRecord /\ Goto(place).at = place /\ Goto(place).carries = {}
           /\ LET r == [Goto(place) EXCEPT !.ending = ending]
              IN r \in LoopRecord /\ r.at = place /\ r.carries = {} /\ r.ending = ending
<1>1. AtPrompt \in LoopRecord
    BY DEF AtPrompt, LoopRecord, LoopPlaces, Watched, TurnKinds, Endings
<1>2. Goto(place) \in LoopRecord /\ Goto(place).at = place /\ Goto(place).carries = {}
    BY <1>1 DEF Goto, AtPrompt, LoopRecord, SeenRecord, ReplInv
<1> QED
    BY <1>2 DEF LoopRecord

\* A turn begins with the images that wait, or none.
LEMMA TurnCarries ==
    ASSUME ReplInv, NEW kind \in TurnKinds, NEW mentions \in SUBSET Pictures
    PROVE  /\ TurnBegins(kind, mentions) \in LoopRecord /\ TurnBegins(kind, mentions).at = "turn"
           /\ TurnBegins(kind, mentions).carries # {} => attached \subseteq TurnBegins(kind, mentions).carries
<1>1. Goto("turn") \in LoopRecord /\ Goto("turn").at = "turn"
    BY GotoPlace DEF LoopPlaces, Watched, Endings
<1>2. Collected(kind, mentions) \in SUBSET Pictures
      /\ (Collected(kind, mentions) # {} => attached \subseteq Collected(kind, mentions))
    BY DEF Collected, ReplInv
<1> QED
    BY <1>1, <1>2 DEF TurnBegins, LoopRecord

\* A line is counted, and an answer noted.
LEMMA CountKept ==
    ASSUME ReplInv
    PROVE  /\ seen' \in {seen, Count} => SeenKept
           /\ \A b \in BOOLEAN : seen' \in {[Count EXCEPT !.choice = b], [seen EXCEPT !.choice = b]}
                                     => SeenKept /\ seen'.choice = b
<1>1. Count \in SeenRecord /\ Count.pressed = seen.pressed /\ Count.cancelled = seen.cancelled /\ Count.owed = seen.owed
    BY DEF ReplInv, SeenRecord, Count
<1> QED
    BY <1>1 DEF ReplInv, SeenRecord, SeenKept

\* The loop goes on to another place.
LEMMA LoopGoesOn ==
    ASSUME ReplInv, UNCHANGED <<attached, signals>>, running' \subseteq running, SeenKept,
           repl' \in LoopRecord, repl'.at # "ended",
           repl'.at = "turn" /\ ~repl'.accepted /\ repl'.carries # {} => attached \subseteq repl'.carries
    PROVE  ReplInv'
BY DEF ReplInv, SeenKept, ImagesWait, LeavesNothing

\* The loop ends, with the processes it leaves accounted for.
LEMMA LoopEnds ==
    ASSUME ReplInv, NEW ending \in Endings, repl' = [Goto("ended") EXCEPT !.ending = ending],
           UNCHANGED <<attached, signals>>, running' \subseteq running, SeenKept,
           ending \in {"clear", "killed", "waited"} => running' = {},
           ending = "killed" => seen'.choice
    PROVE  ReplInv'
<1>1. repl' \in LoopRecord /\ repl'.at = "ended" /\ repl'.carries = {} /\ repl'.ending = ending
    BY GotoPlace DEF LoopPlaces
<1> QED
    BY <1>1 DEF ReplInv, SeenKept, ImagesWait, LeavesNothing

\* The loop goes to a place, or a turn begins, as far as it is seen.
LEMMA NextPlace ==
    ASSUME ReplInv, UNCHANGED <<attached, signals, running>>, seen' \in {seen, Count},
           \/ \E place \in LoopPlaces \ {"turn", "ended"} : repl' = Goto(place)
           \/ \E kind \in TurnKinds, mentions \in SUBSET Pictures : repl' = TurnBegins(kind, mentions)
    PROVE  ReplInv'
<1>1. SeenKept
    BY CountKept
<1>2. CASE \E place \in LoopPlaces \ {"turn", "ended"} : repl' = Goto(place)
  <2>1. PICK place \in LoopPlaces \ {"turn", "ended"} : repl' = Goto(place)
      BY <1>2
  <2>2. "clear" \in Endings
      BY DEF Endings
  <2>3. repl' \in LoopRecord /\ repl'.at \notin {"turn", "ended"}
      BY <2>1, <2>2, GotoPlace
  <2> QED
      BY <1>1, <2>3, LoopGoesOn
<1>3. CASE \E kind \in TurnKinds, mentions \in SUBSET Pictures : repl' = TurnBegins(kind, mentions)
  <2>1. repl' \in LoopRecord /\ repl'.at = "turn" /\ (repl'.carries # {} => attached \subseteq repl'.carries)
      BY <1>3, TurnCarries
  <2> QED
      BY <1>1, <2>1, LoopGoesOn
<1> QED
    BY <1>2, <1>3

\* Ctrl+C is pressed, or what it sent is taken.
LEMMA SignalsKeep ==
    ASSUME ReplInv, PressInterrupt \/ TakeSignal
    PROVE  ReplInv'
<1>1. /\ UNCHANGED <<attached, running>> /\ repl.at # "ended"
      /\ repl' \in {repl, [repl EXCEPT !.stopped = TRUE]}
    BY DEF PressInterrupt, TakeSignal, Watched
<1>2. /\ repl' \in LoopRecord
      /\ repl'.at = repl.at /\ repl'.carries = repl.carries /\ repl'.accepted = repl.accepted
    BY <1>1 DEF ReplInv, LoopRecord
<1>3. /\ signals' \in 0 .. 1 /\ seen' \in SeenRecord /\ seen'.owed = seen.owed
      /\ seen'.cancelled + signals' <= seen'.pressed
  <2>1. CASE PressInterrupt
    <3>1. /\ seen.pressed \in Nat /\ seen.cancelled \in Nat /\ signals \in 0 .. 1
          /\ seen.cancelled + signals <= seen.pressed /\ seen \in SeenRecord
        BY DEF ReplInv, SeenRecord
    <3>2. CASE signals' = 1 /\ seen' = [seen EXCEPT !.pressed = @ + 1]
      <4>1. /\ seen' \in SeenRecord /\ seen'.owed = seen.owed
            /\ seen'.pressed = seen.pressed + 1 /\ seen'.cancelled = seen.cancelled
          BY <3>1, <3>2 DEF SeenRecord
      <4> QED
          BY <3>1, <3>2, <4>1
    <3>3. CASE signals' = signals /\ seen' = [seen EXCEPT !.pressed = @ + 1, !.cancelled = @ + 1]
      <4> DEFINE once == [seen EXCEPT !.pressed = seen.pressed + 1]
      <4>1. once \in SeenRecord /\ once.owed = seen.owed /\ once.pressed = seen.pressed + 1 /\ once.cancelled = seen.cancelled
          BY <3>1 DEF SeenRecord
      <4>2. seen' = [once EXCEPT !.cancelled = seen.cancelled + 1] /\ seen.cancelled + 1 \in Nat
          BY <3>1, <3>3 DEF SeenRecord
      <4> HIDE DEF once
      <4>3. /\ seen' \in SeenRecord /\ seen'.owed = seen.owed
            /\ seen'.pressed = seen.pressed + 1 /\ seen'.cancelled = seen.cancelled + 1
          BY <4>1, <4>2 DEF SeenRecord
      <4> QED
          BY <3>1, <3>3, <4>3
    <3> QED
        BY <2>1, <3>2, <3>3 DEF PressInterrupt
  <2>2. CASE TakeSignal
      BY <2>2 DEF TakeSignal, ReplInv, SeenRecord
  <2> QED
      BY <2>1, <2>2
<1> QED
    BY <1>1, <1>2, <1>3 DEF ReplInv, ImagesWait, LeavesNothing

\* Images are attached, or go with the prompt that was accepted.
LEMMA ImagesKeep ==
    ASSUME ReplInv, AttachLine \/ ClearLine \/ Accepted
    PROVE  ReplInv'
<1>1. CASE AttachLine \/ ClearLine
  <2>1. UNCHANGED <<repl, signals, running>> /\ repl.at = "prompt"
      BY <1>1 DEF AttachLine, ClearLine, Typed
  <2>2. \E images \in SUBSET Pictures : attached' = images /\ seen' = [Count EXCEPT !.owed = images]
    <3>1. CASE AttachLine
      <4>1. PICK image \in Pictures : attached' = attached \cup {image} /\ seen' = [Count EXCEPT !.owed = @ \cup {image}]
          BY <3>1 DEF AttachLine
      <4>2. Count.owed = attached /\ attached \cup {image} \in SUBSET Pictures
          BY DEF Count, ReplInv, SeenRecord, ImagesWait
      <4> QED
          BY <4>1, <4>2
    <3>2. CASE ClearLine
        BY <3>2 DEF ClearLine
    <3> QED
        BY <1>1, <3>1, <3>2
  <2>3. Count \in SeenRecord /\ Count.pressed = seen.pressed /\ Count.cancelled = seen.cancelled
      BY DEF Count, ReplInv, SeenRecord
  <2>4. /\ attached' \subseteq Pictures /\ attached' = seen'.owed /\ seen' \in SeenRecord
        /\ seen'.pressed = seen.pressed /\ seen'.cancelled = seen.cancelled
      BY <2>2, <2>3 DEF SeenRecord
  <2> QED
      BY <2>1, <2>4 DEF ReplInv, ImagesWait, LeavesNothing
<1>2. CASE Accepted
  <2>1. /\ UNCHANGED <<signals, running>> /\ repl.at = "turn" /\ ~repl.accepted
        /\ attached' = (IF repl.carries # {} THEN {} ELSE attached)
        /\ repl' = [repl EXCEPT !.accepted = TRUE] /\ seen' = [seen EXCEPT !.owed = @ \ repl.carries]
      BY <1>2 DEF Accepted
  <2>2. repl' \in LoopRecord /\ repl'.at = "turn" /\ repl'.accepted
      BY <2>1 DEF ReplInv, LoopRecord
  <2>3. /\ seen' \in SeenRecord /\ seen'.owed = seen.owed \ repl.carries
        /\ seen'.pressed = seen.pressed /\ seen'.cancelled = seen.cancelled
      BY <2>1 DEF ReplInv, SeenRecord
  <2>4. attached' = seen'.owed /\ attached' \subseteq Pictures
      BY <2>1, <2>3 DEF ReplInv, ImagesWait
  <2> QED
      BY <2>1, <2>2, <2>3, <2>4 DEF ReplInv, ImagesWait, LeavesNothing
<1> QED
    BY <1>1, <1>2

\* The user wants to leave: nothing runs, or they are asked, or can't be.
LEMMA LeavingKeeps ==
    ASSUME ReplInv, ExitLine \/ InterruptPrompt \/ AnswerExit \/ ForceQuit \/ WaitedAll
    PROVE  ReplInv'
<1>1. UNCHANGED <<attached, signals>>
    BY DEF ExitLine, InterruptPrompt, AnswerExit, ForceQuit, WaitedAll
<1>2. ASSUME NEW mayAsk \in BOOLEAN, ConfirmExit(mayAsk), SeenKept, ~mayAsk => seen'.choice
      PROVE  ReplInv'
  <2>1. CASE running = {} /\ repl' = [Goto("ended") EXCEPT !.ending = "clear"] /\ UNCHANGED running
      BY <1>1, <1>2, <2>1, LoopEnds DEF Endings
  <2>2. CASE ~mayAsk /\ repl' = [Goto("ended") EXCEPT !.ending = "killed"] /\ running' = {}
      BY <1>1, <1>2, <2>2, LoopEnds DEF Endings
  <2>3. CASE repl' = Goto("confirm") /\ UNCHANGED running
    <3>1. repl' \in LoopRecord /\ repl'.at = "confirm"
        BY <2>3, GotoPlace DEF LoopPlaces, Watched, Endings
    <3> QED
        BY <1>1, <1>2, <2>3, <3>1, LoopGoesOn
  <2> QED
      BY <1>2, <2>1, <2>2, <2>3 DEF ConfirmExit
<1>3. CASE ExitLine
    BY <1>2, <1>3, CountKept DEF ExitLine
<1>4. CASE InterruptPrompt
    BY <1>2, <1>4, CountKept DEF InterruptPrompt
<1>5. ASSUME repl' = [Goto("ended") EXCEPT !.ending = "killed"], running' = {}, seen' = [seen EXCEPT !.choice = TRUE]
      PROVE  ReplInv'
    BY <1>1, <1>5, CountKept, LoopEnds DEF Endings
<1>6. CASE AnswerExit
  <2>1. CASE repl' \in {Goto("waiting"), Goto("prompt")} /\ UNCHANGED <<running, seen>>
      BY <1>1, <2>1, NextPlace DEF LoopPlaces, Watched
  <2> QED
      BY <1>5, <1>6, <2>1 DEF AnswerExit
<1>7. CASE ForceQuit
    BY <1>5, <1>7 DEF ForceQuit
<1>8. CASE WaitedAll
    BY <1>1, <1>8, CountKept, LoopEnds DEF WaitedAll, Endings
<1> QED
    BY <1>3, <1>4, <1>6, <1>7, <1>8

\* The loop ends without a question: nobody is asked and nothing is left.
LEMMA EndingKeeps ==
    ASSUME ReplInv, Terminate \/ LoopBroken \/ CloseWorkspace
    PROVE  ReplInv'
<1>1. CASE Terminate
  <2>1. /\ UNCHANGED <<attached, signals, running>> /\ repl.at # "ended"
        /\ repl' = [repl EXCEPT !.stopped = TRUE] /\ seen' = [seen EXCEPT !.term = TRUE]
      BY <1>1 DEF Terminate
  <2>2. /\ repl' \in LoopRecord /\ repl'.at = repl.at /\ repl'.carries = repl.carries /\ repl'.accepted = repl.accepted
        /\ SeenKept
      BY <2>1 DEF ReplInv, LoopRecord, SeenRecord, SeenKept
  <2> QED
      BY <2>1, <2>2, LoopGoesOn DEF ReplInv
<1>2. CASE LoopBroken
  <2> DEFINE ending == IF seen.term THEN "term" ELSE "error"
  <2>1. /\ repl' = [Goto("ended") EXCEPT !.ending = ending] /\ UNCHANGED <<attached, signals, running, seen>>
        /\ ending \in Endings /\ ending \notin {"clear", "killed", "waited"}
      BY <1>2 DEF LoopBroken, Endings
  <2> HIDE DEF ending
  <2> QED
      BY <2>1, CountKept, LoopEnds
<1>3. CASE CloseWorkspace
  <2>1. /\ UNCHANGED <<attached, signals, seen>> /\ running' = {} /\ repl' = [repl EXCEPT !.at = "closed"]
      BY <1>3 DEF CloseWorkspace
  <2>2. repl' \in LoopRecord /\ repl'.at = "closed"
      BY <2>1 DEF ReplInv, LoopRecord, LoopPlaces
  <2> QED
      BY <2>1, <2>2, CountKept, LoopGoesOn
<1> QED
    BY <1>1, <1>2, <1>3

\* Every step of the loop keeps the invariant.
LEMMA ReplInvStep == ReplInv /\ [ReplNext]_replVars => ReplInv'
<1> SUFFICES ASSUME ReplInv, [ReplNext]_replVars PROVE ReplInv'
    OBVIOUS
<1>1. CASE ShellLine \/ ShellEnds \/ NotAccepted
    BY <1>1, NextPlace DEF ShellLine, ShellEnds, NotAccepted, LoopPlaces, Watched
<1>2. CASE TurnLine
  <2>1. UNCHANGED <<attached, signals, running>> /\ seen' = Count
      BY <1>2 DEF TurnLine
  <2>2. CASE repl' = repl
    <3>1. repl.at = "prompt" /\ repl \in LoopRecord
        BY <1>2 DEF TurnLine, Typed, ReplInv
    <3> QED
        BY <2>1, <2>2, <3>1, CountKept, LoopGoesOn
  <2>3. CASE \E kind \in TurnKinds, mentions \in SUBSET Pictures : repl' = TurnBegins(kind, mentions)
      BY <2>1, <2>3, NextPlace
  <2> QED
      BY <1>2, <2>2, <2>3 DEF TurnLine
<1>3. CASE SearchLine \/ SearchDone
    BY <1>3, NextPlace DEF SearchLine, SearchDone, LoopPlaces, Watched, TurnKinds
<1>4. CASE AgentStarts
  <2>1. /\ UNCHANGED <<repl, attached, signals>> /\ repl.at = "turn" /\ running' \subseteq Procs
        /\ \E p \in Procs : seen' = [seen EXCEPT !.started = @ \cup {p}]
      BY <1>4 DEF AgentStarts, ReplInv
  <2>2. SeenKept
      BY <2>1 DEF ReplInv, SeenRecord, SeenKept
  <2> QED
      BY <2>1, <2>2 DEF ReplInv, SeenKept, ImagesWait, LeavesNothing
<1>5. CASE RunningExits \/ UNCHANGED replVars
  <2>1. UNCHANGED <<repl, attached, signals, seen>> /\ running' \subseteq running
      BY <1>5 DEF RunningExits, replVars
  <2> QED
      BY <2>1 DEF ReplInv, ImagesWait, LeavesNothing
<1>6. CASE TurnEnds
    BY <1>6, NextPlace DEF TurnEnds, LoopPlaces, Watched, TurnKinds
<1> QED
    BY <1>1, <1>2, <1>3, <1>4, <1>5, <1>6, SignalsKeep, ImagesKeep, LeavingKeeps, EndingKeeps DEF ReplNext

-------------------------------------------------------------------------------
\* A program given one prompt (OneShot).

\* Before its turn is over the program has told nothing.
NotRunYet ==
    /\ shot.code = ExitOK /\ shot.reported = {} /\ ~Was("asked") /\ ~Was("killed")
    /\ shot.at = "turn" => shot.turn \in {"asked", "accepted"}
    /\ shot.at # "turn" => shot.turn = "none" /\ ~Was("running")

\* A program that ended before its turn has a code that says why.
NotRun ==
    shot.turn = "none" =>
        /\ shot.code \in {ExitFailure, ExitUsage, ExitInterrupted}
        /\ shot.code = ExitInterrupted => Was("signalled")
        /\ shot.reported = {} /\ ~Was("running")

\* Once the turn is over its outcome and the code agree.
HasRun ==
    /\ shot.turn \notin {"asked", "accepted"}
    /\ shot.turn # "none" =>
           /\ shot.code = ExitOK => shot.turn = "done"
           /\ shot.turn = "done" => shot.code = ExitOK \/ (shot.at = "exited" /\ Was("failed") /\ shot.code = ExitFailure)
           /\ shot.at = "exited" /\ shot.code = ExitOK => ~Was("failed")
           /\ shot.code # ExitUsage
           /\ shot.code = ExitMaxTurns <=> shot.turn = "max turns" /\ ~Was("remote")
           /\ shot.code = ExitBlocked => shot.turn = "blocked"
           /\ shot.turn = "blocked" => shot.code = ExitBlocked \/ Was("signalled")
           /\ shot.code = ExitInterrupted => Was("signalled") /\ shot.turn # "done"
           /\ \A code \in shot.reported : code = shot.code \/ (code = ExitOK /\ shot.at = "exited" /\ Was("failed"))
           /\ line.format = "json" <=> shot.reported # {}

ShotInv ==
    /\ ShotTypeOK
    /\ shot.at \in {"opening", "opened", "turn", "leaving", "asking", "waiting", "closing"} => IsOneShot
    /\ shot.at \notin {"start", "exited"} => line.format \in {"text", "json"}
    /\ shot.at \in {"start", "opening", "opened", "turn"} => NotRunYet
    /\ shot.at \in {"leaving", "asking", "waiting", "closing", "exited"} => NotRun /\ HasRun
    /\ Was("failed") => shot.at = "exited"
    /\ shot.at \in {"asking", "waiting"} => Was("asked")
    /\ shot.at = "exited" /\ Was("running") => Was("remote")
    /\ shot.at = "exited" /\ shot.turn = "none" => shot.reported = {}
    /\ shot.at = "session" => ~Was("killed") /\ ~Was("asked")
    /\ Was("killed") => Was("asked") \/ Was("signalled") \/ line.format = "json" \/ ~line.tty \/ ReadsStdin
    /\ Was("asked") => ~ReadsStdin /\ line.format = "text"

\* What the command line is refused with.
LEMMA StartCodes ==
    line \in CommandLines =>
        StartCode \in {ExitOK, ExitUsage, ExitFailure} /\ (StartCode = ExitOK => line.format \in {"text", "json"})
  BY DEF StartCode, PromptCode, ExitOK, ExitUsage, ExitFailure, CommandLines

\* No code stands for two things.
LEMMA CodesDiffer ==
    /\ ExitOK \notin {ExitFailure, ExitUsage, ExitMaxTurns, ExitBlocked, ExitInterrupted}
    /\ ExitFailure \notin {ExitUsage, ExitMaxTurns, ExitBlocked, ExitInterrupted}
    /\ ExitUsage \notin {ExitMaxTurns, ExitBlocked, ExitInterrupted}
    /\ ExitMaxTurns \notin {ExitBlocked, ExitInterrupted}
    /\ ExitBlocked # ExitInterrupted
  BY DEF ExitOK, ExitFailure, ExitUsage, ExitMaxTurns, ExitBlocked, ExitInterrupted

\* The beginning, what the invariant says, and every step.
LEMMA ShotBegins == ShotInit => ShotInv
  BY CodesDiffer DEF ShotInit, ShotInv, ShotTypeOK, NotRunYet, Was

LEMMA ShotSays == ShotInv => ExitTold
  BY CodesDiffer DEF ShotInv, ShotTypeOK, NotRun, HasRun, ExitTold, Was

\* An error before the prompt is run has one of three codes.
LEMMA EarlyCodes ==
    \A err \in {"usage", "failed"} \cup IfSignalled :
        /\ ExitCodeFor(err) \in {ExitFailure, ExitUsage, ExitInterrupted}
        /\ ExitCodeFor(err) = ExitInterrupted => Was("signalled")
  BY CodesDiffer DEF ExitCodeFor, IfSignalled

\* What the end of a turn means for the code.
LEMMA TurnCodes ==
    ASSUME NEW err \in TurnOutcomes, shot.turn \in {"asked", "accepted"}
    PROVE  LET code == TurnCode(AsReturned(err)) IN
           /\ err \in {"none", "failed", "blocked", "max turns", "cancelled"}
           /\ code \in {ExitOK, ExitFailure, ExitMaxTurns, ExitBlocked, ExitInterrupted}
           /\ code = ExitOK <=> err = "none"
           /\ code = ExitMaxTurns <=> err = "max turns" /\ ~Was("remote")
           /\ code = ExitBlocked => err = "blocked"
           /\ err = "blocked" => code = ExitBlocked \/ Was("signalled")
           /\ code = ExitInterrupted => Was("signalled")
  BY CodesDiffer DEF TurnOutcomes, IfSignalled, AsReturned, TurnCode, ExitCodeFor

LEMMA ShotStep == ShotInv /\ [ShotNext]_shotVars => ShotInv'
<1> SUFFICES ASSUME ShotInv, [ShotNext]_shotVars PROVE ShotInv'
    OBVIOUS
<1>0. line \in CommandLines /\ line' = line /\ (IsOneShot' <=> IsOneShot) /\ (ReadsStdin' <=> ReadsStdin)
    BY DEF ShotInv, ShotTypeOK, ShotNext, StartsShot, Signals, OpensBackend, Prepares, PromptAccepted, LeavesProcess, TurnIsOver, LeavesProgram,
           AnswersLeaving, WaitIsOver, Exits, shotVars, IsOneShot, ReadsStdin, HasPrompt
<1>1. CASE StartsShot
    BY CodesDiffer, <1>0, <1>1, StartCodes DEF StartsShot, ShotInv, ShotTypeOK, NotRunYet, NotRun, HasRun, Was
<1>2. CASE Signals
    BY CodesDiffer, <1>0, <1>2 DEF Signals, ShotInv, ShotTypeOK, NotRunYet, NotRun, HasRun, Was
<1>3. CASE OpensBackend
  <2>1. ASSUME NEW err \in {"usage", "failed"} \cup IfSignalled, shot' = [shot EXCEPT !.at = "exited", !.code = ExitCodeFor(err)]
        PROVE  ShotInv'
      BY CodesDiffer, EarlyCodes, <1>0, <1>3, <2>1 DEF OpensBackend, ShotInv, ShotTypeOK, NotRunYet, NotRun, HasRun, Was
  <2>2. ASSUME NEW remote \in {{}, {"remote"}}, shot' = [shot EXCEPT !.at = "opened", !.was = @ \cup remote]
        PROVE  ShotInv'
      BY CodesDiffer, <1>0, <1>3, <2>2 DEF OpensBackend, ShotInv, ShotTypeOK, NotRunYet, NotRun, HasRun, Was
  <2> QED
      BY <1>3, <2>1, <2>2 DEF OpensBackend
<1>4. CASE Prepares
  <2>1. ASSUME NEW err \in {"usage", "failed"} \cup IfSignalled, shot' = [shot EXCEPT !.at = "closing", !.code = ExitCodeFor(err)]
        PROVE  ShotInv'
      BY CodesDiffer, EarlyCodes, <1>0, <1>4, <2>1 DEF Prepares, ShotInv, ShotTypeOK, NotRunYet, NotRun, HasRun, Was
  <2>2. CASE shot' = [shot EXCEPT !.at = "turn", !.turn = "asked"]
      BY CodesDiffer, <1>0, <1>4, <2>2 DEF Prepares, ShotInv, ShotTypeOK, NotRunYet, NotRun, HasRun, Was
  <2> QED
      BY <1>4, <2>1, <2>2 DEF Prepares
<1>5. CASE PromptAccepted
    BY CodesDiffer, <1>0, <1>5 DEF PromptAccepted, ShotInv, ShotTypeOK, NotRunYet, NotRun, HasRun, Was
<1>6. CASE LeavesProcess
    BY CodesDiffer, <1>0, <1>6 DEF LeavesProcess, ShotInv, ShotTypeOK, NotRunYet, NotRun, HasRun, Was
<1>7. CASE TurnIsOver
  <2>1. shot.at = "turn" /\ shot.turn \in {"asked", "accepted"}
      BY <1>7 DEF TurnIsOver, ShotInv, NotRunYet
  <2>2. PICK err \in TurnOutcomes :
            LET code == TurnCode(AsReturned(err)) IN
            shot' = [shot EXCEPT !.at = "leaving", !.turn = IF err = "none" THEN "done" ELSE err, !.code = code,
                                 !.reported = IF line.format = "json" THEN {code} ELSE {}]
      BY <1>7 DEF TurnIsOver
  <2> DEFINE code == TurnCode(AsReturned(err))
             over == IF err = "none" THEN "done" ELSE err
             said == IF line.format = "json" THEN {code} ELSE {}
  <2>3. /\ over \in {"done", "failed", "blocked", "max turns", "cancelled"}
        /\ code \in {ExitOK, ExitFailure, ExitMaxTurns, ExitBlocked, ExitInterrupted}
        /\ code = ExitOK <=> over = "done"
        /\ code = ExitMaxTurns <=> over = "max turns" /\ ~Was("remote")
        /\ code = ExitBlocked => over = "blocked"
        /\ over = "blocked" => code = ExitBlocked \/ Was("signalled")
        /\ code = ExitInterrupted => Was("signalled")
      BY <2>1, TurnCodes
  <2>4. said \subseteq {code} /\ (line.format = "json" <=> said # {})
      OBVIOUS
  <2>5. shot' = [shot EXCEPT !.at = "leaving", !.turn = over, !.code = code, !.reported = said]
      BY <2>2
  <2> HIDE DEF code, over, said
  <2>6. shot.at \in {"opening", "opened", "turn", "leaving"} /\ NotRunYet
      BY <2>1 DEF ShotInv
  <2>7. /\ shot'.at = "leaving" /\ shot'.turn = over /\ shot'.code = code /\ shot'.reported = said
        /\ Was("signalled")' = Was("signalled") /\ Was("remote")' = Was("remote") /\ Was("failed")' = Was("failed")
        /\ Was("running")' = Was("running") /\ Was("asked")' = Was("asked") /\ Was("killed")' = Was("killed")
      BY <1>0, <2>5 DEF ShotInv, ShotTypeOK, Was
  <2>8. HasRun'
      BY CodesDiffer, <1>0, <2>3, <2>4, <2>7 DEF ShotInv, HasRun
  <2>9. NotRun'
      BY <2>3, <2>7 DEF NotRun
  <2>10. ShotTypeOK'
      BY <1>0, <2>3, <2>4, <2>5 DEF ShotInv, ShotTypeOK
  <2>11. ~Was("failed") /\ shot.at \notin {"start", "exited", "session"} /\ IsOneShot' = IsOneShot /\ line' = line
      BY <1>0, <2>1 DEF ShotInv, IsOneShot
  <2>12. IsOneShot /\ line.format \in {"text", "json"}
      BY <2>1 DEF ShotInv
  <2>13. /\ Was("killed")' => Was("asked")' \/ Was("signalled")' \/ line'.format = "json" \/ ~line'.tty \/ ReadsStdin'
         /\ Was("asked")' => ~ReadsStdin' /\ line'.format = "text"
      BY <1>0, <2>7, <2>11 DEF ShotInv, ReadsStdin
  <2>14. /\ IsOneShot' /\ line'.format \in {"text", "json"} /\ ~Was("failed")'
         /\ shot'.at \notin {"start", "opening", "opened", "turn", "asking", "waiting", "closing", "exited", "session"}
      BY <2>7, <2>11, <2>12
  <2> QED
      BY <2>8, <2>9, <2>10, <2>13, <2>14 DEF ShotInv
<1>8. CASE LeavesProgram
  <2>1. CASE Was("remote") \/ ~Was("running")
      BY CodesDiffer, <1>0, <1>8, <2>1 DEF LeavesProgram, ShotInv, ShotTypeOK, NotRunYet, NotRun, HasRun, Was
  <2>2. CASE ~(Was("remote") \/ ~Was("running")) /\ CanAsk
      BY CodesDiffer, <1>0, <1>8, <2>2 DEF LeavesProgram, CanAsk, ShotInv, ShotTypeOK, NotRunYet, NotRun, HasRun, Was
  <2>3. CASE ~(Was("remote") \/ ~Was("running")) /\ ~CanAsk
    <3>1. shot.at = "leaving" /\ shot' = ProcessKilled
        BY <1>8, <2>3 DEF LeavesProgram
    <3>2. Was("signalled") \/ line.format = "json" \/ ~line.tty \/ ReadsStdin
        BY <1>0, <1>8, <2>3, StartCodes DEF LeavesProgram, CanAsk, ShotInv
    <3> QED
        BY CodesDiffer, <1>0, <3>1, <3>2 DEF ProcessKilled, ShotInv, ShotTypeOK, NotRunYet, NotRun, HasRun, Was
  <2> QED
      BY <2>1, <2>2, <2>3
<1>9. CASE AnswersLeaving \/ WaitIsOver
  <2>1. shot.at \in {"asking", "waiting"}
      BY <1>9 DEF AnswersLeaving, WaitIsOver
  <2>2. CASE shot' = ProcessKilled
      BY CodesDiffer, <1>0, <2>1, <2>2 DEF ProcessKilled, ShotInv, ShotTypeOK, NotRunYet, NotRun, HasRun, Was
  <2>3. CASE shot' = [shot EXCEPT !.at = "waiting"]
      BY CodesDiffer, <1>0, <2>1, <2>3 DEF ShotInv, ShotTypeOK, NotRunYet, NotRun, HasRun, Was
  <2>4. CASE shot' = [shot EXCEPT !.at = "closing", !.was = @ \ {"running"}]
      BY CodesDiffer, <1>0, <2>1, <2>4 DEF ShotInv, ShotTypeOK, NotRunYet, NotRun, HasRun, Was
  <2> QED
      BY <1>9, <2>2, <2>3, <2>4 DEF AnswersLeaving, WaitIsOver
<1>10. CASE Exits
  <2>0. shot.at = "closing"
      BY <1>10 DEF Exits
  <2>1. CASE Was("remote") /\ shot' = [shot EXCEPT !.at = "exited"]
      BY CodesDiffer, <1>0, <2>0, <2>1 DEF ShotInv, ShotTypeOK, NotRunYet, NotRun, HasRun, Was
  <2>2. CASE ~Was("remote") /\ shot' = [shot EXCEPT !.at = "exited", !.was = @ \ {"running"}]
      BY CodesDiffer, <1>0, <2>0, <2>2 DEF ShotInv, ShotTypeOK, NotRunYet, NotRun, HasRun, Was
  <2>3. CASE /\ ~Was("remote") /\ shot.code = ExitOK
             /\ shot' = [shot EXCEPT !.at = "exited", !.was = (@ \ {"running"}) \cup {"failed"}, !.code = ExitFailure]
      BY CodesDiffer, <1>0, <2>0, <2>3 DEF ShotInv, ShotTypeOK, NotRunYet, NotRun, HasRun, Was
  <2>4. CASE /\ ~Was("remote") /\ shot.code # ExitOK
             /\ shot' = [shot EXCEPT !.at = "exited", !.was = (@ \ {"running"}) \cup {"failed"}]
      BY CodesDiffer, <1>0, <2>0, <2>4 DEF ShotInv, ShotTypeOK, NotRunYet, NotRun, HasRun, Was
  <2>5. CASE Was("remote")
      BY <1>10, <2>1, <2>5 DEF Exits
  <2>6. CASE ~Was("remote")
    <3>1. PICK failed \in {{}, {"failed"}} :
              shot' = [shot EXCEPT !.at = "exited", !.was = (@ \ {"running"}) \cup failed,
                                   !.code = IF failed # {} /\ shot.code = ExitOK THEN ExitFailure ELSE @]
        BY <1>10, <2>6 DEF Exits
    <3>2. CASE failed = {}
      <4>1. (shot.was \ {"running"}) \cup failed = shot.was \ {"running"}
          BY <3>2
      <4> QED
          BY <2>2, <2>6, <3>1, <3>2, <4>1 DEF ShotInv, ShotTypeOK
    <3>3. CASE failed = {"failed"} /\ shot.code = ExitOK
        BY <2>3, <2>6, <3>1, <3>3 DEF ShotInv, ShotTypeOK
    <3>4. CASE failed = {"failed"} /\ shot.code # ExitOK
        BY <2>4, <2>6, <3>1, <3>4 DEF ShotInv, ShotTypeOK
    <3> QED
        BY <3>2, <3>3, <3>4
  <2> QED
      BY <2>5, <2>6
<1>11. CASE UNCHANGED shotVars
  <2>1. shot' = shot /\ line' = line
      BY <1>11 DEF shotVars
  <2>2. /\ ShotTypeOK' = ShotTypeOK /\ NotRunYet' = NotRunYet
        /\ NotRun' = NotRun /\ HasRun' = HasRun
      BY <2>1 DEF ShotTypeOK, NotRunYet, NotRun, HasRun, Was
  <2> QED
      BY <1>0, <2>1, <2>2 DEF ShotInv, Was
<1> QED
    BY <1>1, <1>2, <1>3, <1>4, <1>5, <1>6, <1>7, <1>8, <1>9, <1>10, <1>11 DEF ShotNext

-------------------------------------------------------------------------------
(* For any number of prompts, lines and processes: no line that was typed is  *)
(* lost or given out of turn, at most one reader has the terminal and it is   *)
(* in the mode that reader needs, an image waits until a prompt takes it, and *)
(* leaving neither abandons a process nor kills one unasked (input.go,        *)
(* keywatch.go, repl.go and attach.go); and the exit code of a program given  *)
(* one prompt says what became of it, on every way to its end (main.go,       *)
(* oneshot.go and exitcode.go).                                               *)
THEOREM TypedInputShared == LineSpec /\ KeySpec /\ ReplSpec /\ ShotSpec => []InputShared
<1>1. LineInit => LineInv
  <2> SUFFICES ASSUME LineInit PROVE LineInv
      OBVIOUS
  <2>1. taken = <<>> /\ taken \in Seq(Nat) /\ Len(taken) = 0
      BY EmptySeq DEF LineInit
  <2> QED
      BY <2>1 DEF LineInit, LineInv, NoRead
<1>2. LineInv => LinesInOrder
  <2> SUFFICES ASSUME LineInv PROVE LinesInOrder
      OBVIOUS
  <2>1. taken = [i \in 1 .. Len(taken) |-> taken[i]] /\ \A i \in 1 .. Len(taken) : taken[i] = i
      BY LenProperties DEF LineInv
  <2>2. taken = [i \in 1 .. Len(taken) |-> i]
      BY <2>1
  <2> QED
      BY <2>2 DEF LineInv, LinesInOrder
<1>3. KeyInit => KeyInv
    BY KeyAssumption DEF KeyInit, KeyInv, Shown
<1>4. KeyInv => OneReader
  <2> SUFFICES ASSUME KeyInv PROVE OneReader
      OBVIOUS
  <2>1. OneReads
    <3>1. ASSUME editor # NoPrompt PROVE watching # "polling"
      <4>1. CASE editor = Steering
          BY <4>1 DEF KeyInv
      <4>2. CASE editor \in Prompts
        <5>1. editor \in Shown
            BY <4>2 DEF KeyInv, Shown
        <5> QED
            BY <5>1 DEF KeyInv
      <4> QED
          BY <3>1, <4>1, <4>2 DEF KeyInv
    <3> QED
        BY <3>1 DEF KeyInv, OneReads
  <2>2. OnePauses
      BY FS_Singleton DEF KeyInv, OnePauses, Shown
  <2> QED
      BY <2>1, <2>2 DEF OneReader
<1>5. ReplInit => ReplInv
  <2> SUFFICES ASSUME ReplInit PROVE ReplInv
      OBVIOUS
  <2>1. PICK given \in SUBSET Pictures :
            /\ attached = given
            /\ seen = [typed |-> 0, pressed |-> 0, cancelled |-> 0, owed |-> given,
                       started |-> {}, choice |-> FALSE, term |-> FALSE]
      BY DEF ReplInit
  <2>2. repl = AtPrompt /\ signals = 0 /\ running = {}
      BY DEF ReplInit
  <2>3. repl \in LoopRecord /\ repl.at = "prompt"
      BY <2>2 DEF AtPrompt, LoopRecord, LoopPlaces, Watched, TurnKinds, Endings
  <2>4. seen \in SeenRecord /\ seen.owed = attached /\ seen.cancelled = 0 /\ seen.pressed = 0
      BY <2>1 DEF SeenRecord
  <2> QED
      BY <2>1, <2>2, <2>3, <2>4 DEF ReplInv, ImagesWait, LeavesNothing
<1>6. ReplInv => ReplSound
  <2> SUFFICES ASSUME ReplInv PROVE ReplSound
      OBVIOUS
  <2>1. signals \in Nat /\ seen.cancelled \in Nat /\ seen.pressed \in Nat /\ seen.cancelled + signals <= seen.pressed
      BY DEF ReplInv, SeenRecord
  <2>2. seen.cancelled <= seen.pressed
      BY <2>1
  <2> QED
      BY <2>2 DEF ReplInv, ReplSound, PressesCount
<1> QED
    BY <1>1, <1>2, <1>3, <1>4, <1>5, <1>6, LineInvStep, KeyInvStep, ReplInvStep, ShotBegins, ShotSays, ShotStep, PTL
    DEF LineSpec, KeySpec, ReplSpec, ShotSpec, InputShared

-------------------------------------------------------------------------------
\* A worker run and who follows it (TurnStream).

WatcherPlaces == {"idle", "refused", "taking", "sending", "waiting", "ended", "failed"}

WatcherRecord == [pc : WatcherPlaces, pending : Seq(Nat), done : BOOLEAN, changed : Nat, sent : Seq(Nat)]

\* What a watcher has sent and is to send begins the run's events, and what it
\* knows of them is as of the change it saw last.
FollowsRun(v) ==
    /\ From(0, v.sent) /\ From(Len(v.sent), v.pending)
    /\ Len(v.sent) + Len(v.pending) <= changed
    /\ v.pc # "sending" /\ v.pc # "failed" => v.pending = <<>>
    /\ v.pc \in {"sending", "waiting"} =>
           /\ Len(v.sent) + Len(v.pending) = v.changed
           /\ v.done => v.changed = changed
           /\ v.changed = changed => v.done = done
    /\ v.pc = "waiting" => ~v.done
    /\ v.pc = "ended" => done /\ Len(v.sent) = changed

\* A reader that has not found the run came when it was gone.
Found(r) ==
    /\ r.pc = "reading" /\ r.found = 0 => run = "gone"
    /\ r.pc = "answered" /\ r.found = 0 => recorded = "lost"

RunInv ==
    /\ run \in {"starting", "going", "recorded", "finished", "gone"}
    /\ recorded \in {"no", "yes", "lost"} /\ (recorded = "no" <=> run \in {"starting", "going"})
    /\ live \in BOOLEAN /\ (live <=> run \in {"going", "recorded", "finished"})
    /\ done \in BOOLEAN /\ (done <=> run \in {"finished", "gone"})
    /\ From(0, events) /\ changed = Len(events) /\ changed \in Nat
    /\ watcher \in [Watchers -> WatcherRecord] /\ \A w \in Watchers : FollowsRun(watcher[w])
    /\ reader \in [Readers -> [pc : {"idle", "reading", "answered"}, found : Nat]] /\ \A r \in Readers : Found(reader[r])

\* What the run's own steps leave as it was.
LEMMA RunSteps ==
    ASSUME RunInv, OnStart \/ OnEvent \/ RecordRun \/ AddFinished \/ Unregister
    PROVE  RunInv'
<1>0. changed \in Nat /\ From(0, events) /\ changed = Len(events)
    BY LenProperties DEF RunInv, From
<1>1. UNCHANGED <<watcher, reader>>
    BY DEF OnStart, OnEvent, RecordRun, AddFinished, Unregister
<1>2. /\ run' \in {"starting", "going", "recorded", "finished", "gone"}
      /\ recorded' \in {"no", "yes", "lost"} /\ (recorded' = "no" <=> run' \in {"starting", "going"})
      /\ live' \in BOOLEAN /\ (live' <=> run' \in {"going", "recorded", "finished"})
      /\ done' \in BOOLEAN /\ (done' <=> run' \in {"finished", "gone"})
      /\ run = "gone" => run' = "gone"
      /\ recorded = "lost" => recorded' = "lost"
  <2>1. CASE OnStart
      BY <2>1 DEF RunInv, OnStart
  <2>2. CASE OnEvent
      BY <2>2 DEF RunInv, OnEvent, Add
  <2>3. CASE RecordRun
      BY <2>3 DEF RunInv, RecordRun
  <2>4. CASE AddFinished
    <3>1. run = "recorded" /\ run' = "finished" /\ done' = (done \/ TRUE) /\ recorded' = recorded /\ live' = live
        BY <2>4 DEF AddFinished, Add
    <3>2. done' = TRUE
        BY <3>1
    <3> QED
        BY <3>1, <3>2 DEF RunInv
  <2>5. CASE Unregister
      BY <2>5 DEF RunInv, Unregister
  <2> QED
      BY <2>1, <2>2, <2>3, <2>4, <2>5
<1>3. From(0, events') /\ changed' = Len(events')
      /\ \/ changed' = changed /\ done' = done
         \/ changed' = changed + 1 /\ done = FALSE
  <2>1. CASE OnEvent \/ AddFinished
    <3>1. events' = Append(events, 0 + Len(events) + 1) /\ changed' = changed + 1 /\ done = FALSE
        BY <1>0, <2>1 DEF OnEvent, AddFinished, Add, RunInv
    <3> QED
        BY <1>0, <3>1, FromAppend
  <2>2. CASE OnStart \/ RecordRun \/ Unregister
      BY <1>0, <2>2 DEF OnStart, RecordRun, Unregister
  <2> QED
      BY <2>1, <2>2
<1>4. ASSUME NEW w \in Watchers PROVE FollowsRun(watcher[w])'
  <2>1. watcher[w] \in WatcherRecord /\ FollowsRun(watcher[w])
      BY DEF RunInv
  <2>2. Len(watcher[w].sent) \in Nat /\ Len(watcher[w].pending) \in Nat
      BY <2>1, LenProperties DEF WatcherRecord
  <2> DEFINE v == watcher[w]
             n == Len(v.sent) + Len(v.pending)
  <2>0. n \in Nat /\ n <= changed /\ v' = v /\ v.changed \in Nat
    <3>1. v' = v /\ v.changed \in Nat
        BY <1>1, <2>1 DEF WatcherRecord
    <3>2. Len(v.sent) + Len(v.pending) <= changed
        BY <2>1 DEF FollowsRun
    <3>3. n \in Nat
      <4>1. \A a, b \in Nat : a + b \in Nat
          OBVIOUS
      <4> QED
          BY <2>2, <4>1
    <3> QED
        BY <3>1, <3>2, <3>3
  <2> HIDE DEF n
  <2>3. n \in Nat /\ n <= changed /\ changed <= changed' /\ v' = v /\ v.changed \in Nat /\ changed' \in Nat
      BY <1>0, <1>3, <2>0
  <2>4. n <= changed'
      BY <1>0, <2>3
  <2>5. v.pc \in {"sending", "waiting"} => n = v.changed /\ v.changed <= changed
      BY <2>1, <2>3 DEF FollowsRun, n
  <2>6. ASSUME v.pc \in {"sending", "waiting"}
        PROVE  (v.done => v.changed = changed') /\ (v.changed = changed' => v.done = done')
    <3>1. (v.done => v.changed = changed /\ done) /\ (v.changed = changed => v.done = done)
        BY <2>1, <2>6 DEF FollowsRun, WatcherRecord
    <3>2. CASE changed' = changed /\ done' = done
        BY <3>1, <3>2
    <3>3. CASE changed' = changed + 1 /\ done = FALSE
        BY <1>0, <2>3, <2>5, <2>6, <3>1, <3>3
    <3> QED
        BY <1>3, <3>2, <3>3
  <2>7. v.pc = "ended" => done' /\ Len(v.sent) = changed'
      BY <1>3, <2>1 DEF FollowsRun
  <2> QED
      BY <2>1, <2>3, <2>4, <2>5, <2>6, <2>7 DEF FollowsRun, n
<1>5. \A r \in Readers : Found(reader[r])'
    BY <1>1, <1>2 DEF Found, RunInv
<1> QED
    BY <1>1, <1>2, <1>3, <1>4, <1>5 DEF RunInv

\* A watcher's next place.
LEMMA WatcherGoes ==
    ASSUME RunInv, NEW w \in Watchers, NEW v \in WatcherRecord, watcher' = [watcher EXCEPT ![w] = v], FollowsRun(v),
           UNCHANGED <<run, recorded, live, events, done, changed, reader>>
    PROVE  RunInv'
<1>1. watcher' \in [Watchers -> WatcherRecord] /\ watcher'[w] = v /\ \A u \in Watchers \ {w} : watcher'[u] = watcher[u]
    BY DEF RunInv
<1>2. \A u \in Watchers : FollowsRun(watcher[u])'
    BY <1>1 DEF RunInv, FollowsRun
<1>3. \A r \in Readers : Found(reader[r])'
    BY DEF RunInv, Found
<1> QED
    BY <1>1, <1>2, <1>3 DEF RunInv

LEMMA WatcherSteps ==
    ASSUME RunInv, NEW w \in Watchers,
           Watch(w) \/ TakePending(w) \/ Send(w) \/ AllSent(w) \/ Wake(w) \/ WatchFails(w)
    PROVE  RunInv'
<1> DEFINE v == watcher[w]
<1>1. /\ v \in WatcherRecord /\ FollowsRun(v) /\ From(0, v.sent) /\ From(Len(v.sent), v.pending)
      /\ changed \in Nat /\ From(0, events) /\ changed = Len(events) /\ events \in Seq(Nat) /\ done \in BOOLEAN
    BY LenProperties DEF RunInv, From, FollowsRun
<1>2. Len(v.sent) \in Nat /\ Len(v.pending) \in Nat /\ (v.pending = <<>> => Len(v.pending) = 0)
    BY <1>1, LenProperties, EmptySeq DEF WatcherRecord
<1>3. UNCHANGED <<run, recorded, live, events, done, changed, reader>>
    BY DEF Watch, TakePending, Send, AllSent, Wake, WatchFails
<1>4. ASSUME NEW pc \in WatcherPlaces, watcher' = [watcher EXCEPT ![w].pc = pc], FollowsRun([v EXCEPT !.pc = pc])
      PROVE  RunInv'
  <2>1. [v EXCEPT !.pc = pc] \in WatcherRecord /\ watcher' = [watcher EXCEPT ![w] = [v EXCEPT !.pc = pc]]
      BY <1>1, <1>4 DEF WatcherRecord
  <2> QED
      BY <1>3, <1>4, <2>1, WatcherGoes
<1>5. CASE Watch(w)
  <2> DEFINE pc == IF live THEN "taking" ELSE "refused"
  <2>1. v.pc = "idle" /\ pc \in {"taking", "refused"} /\ watcher' = [watcher EXCEPT ![w].pc = pc]
      BY <1>5 DEF Watch
  <2> HIDE DEF pc
  <2>2. FollowsRun([v EXCEPT !.pc = pc])
      BY <1>1, <2>1 DEF FollowsRun, WatcherRecord
  <2> QED
      BY <1>4, <2>1, <2>2 DEF WatcherPlaces
<1>6. CASE TakePending(w)
  <2> DEFINE rest == SubSeq(events, Len(v.sent) + 1, Len(events))
             u == [pc |-> "sending", done |-> done, changed |-> changed, sent |-> v.sent, pending |-> rest]
  <2>1. watcher' = [watcher EXCEPT ![w] = u] /\ v.pending = <<>> /\ Len(v.sent) <= Len(events)
    <3>1. watcher' = [watcher EXCEPT ![w] = u] /\ v.pc = "taking"
        BY <1>6 DEF TakePending
    <3>2. v.pending = <<>> /\ Len(v.sent) + 0 <= changed
        BY <1>1, <1>2, <3>1 DEF FollowsRun
    <3> QED
        BY <1>1, <1>2, <3>1, <3>2
  <2>2. rest \in Seq(Nat) /\ Len(rest) = Len(events) - Len(v.sent)
        /\ \A i \in 1 .. Len(rest) : rest[i] = Len(v.sent) + i
    <3>1. /\ Len(v.sent) + 1 \in Int /\ Len(events) \in Int
          /\ \A i \in Len(v.sent) + 1 .. Len(events) : events[i] \in Nat /\ events[i] = i
        BY <1>1, <1>2 DEF From
    <3> DEFINE m == Len(v.sent) + 1
               n == Len(events)
               k == Len(v.sent)
    <3>0. m \in Int /\ n \in Int /\ rest = SubSeq(events, m, n) /\ \A i \in m .. n : events[i] \in Nat
        BY <3>1
    <3> HIDE DEF m, n, k
    <3>2. /\ SubSeq(events, m, n) \in Seq(Nat)
          /\ Len(SubSeq(events, m, n)) = IF m <= n THEN n - m + 1 ELSE 0
          /\ \A i \in 1 .. n - m + 1 : SubSeq(events, m, n)[i] = events[m + i - 1]
        BY <3>0, SubSeqProperties
    <3>3. m = k + 1 /\ k \in Nat /\ k <= n /\ \A i \in m .. n : events[i] = i
        BY <1>2, <2>1, <3>1 DEF m, n, k
    <3> HIDE DEF rest
    <3>4. Len(rest) = n - k /\ Len(rest) = n - m + 1
        BY <3>0, <3>2, <3>3
    <3>5. ASSUME NEW i \in 1 .. Len(rest) PROVE rest[i] = k + i
      <4>1. i \in 1 .. n - m + 1 /\ m + i - 1 \in m .. n /\ m + i - 1 = k + i
          BY <3>0, <3>3, <3>4
      <4> QED
          BY <3>0, <3>2, <3>3, <4>1
    <3> QED
        BY <3>0, <3>2, <3>4, <3>5 DEF k, n
  <2> HIDE DEF rest
  <2>3. u \in WatcherRecord
      BY <1>1, <2>2 DEF WatcherRecord, WatcherPlaces
  <2>4. FollowsRun(u)
      BY <1>1, <1>2, <2>1, <2>2 DEF FollowsRun, From
  <2> HIDE DEF u
  <2> QED
      BY <1>3, <2>1, <2>3, <2>4, WatcherGoes
<1>7. CASE Send(w)
  <2> DEFINE u == [v EXCEPT !.pending = Tail(v.pending), !.sent = Append(v.sent, Head(v.pending))]
  <2>1. watcher' = [watcher EXCEPT ![w] = u] /\ v.pc = "sending" /\ v.pending # <<>>
    <3>1. /\ watcher' = [watcher EXCEPT ![w].pending = Tail(@), ![w].sent = Append(@, Head(watcher[w].pending))]
          /\ v.pc = "sending" /\ v.pending # <<>>
        BY <1>7 DEF Send
    <3>2. DOMAIN watcher = Watchers
        BY DEF RunInv
    <3> QED
        BY <3>1, <3>2
  <2>2. /\ From(Len(v.sent) + 1, Tail(v.pending)) /\ Len(Tail(v.pending)) = Len(v.pending) - 1
        /\ Head(v.pending) = Len(v.sent) + 1
      BY <1>1, <1>2, <2>1, FromTail
  <2>3. From(0, Append(v.sent, 0 + Len(v.sent) + 1)) /\ Len(Append(v.sent, 0 + Len(v.sent) + 1)) = Len(v.sent) + 1
      BY <1>1, FromAppend
  <2>4. 0 + Len(v.sent) + 1 = Head(v.pending)
      BY <1>2, <2>2
  <2>5. /\ u \in WatcherRecord /\ u.sent = Append(v.sent, Head(v.pending)) /\ u.pending = Tail(v.pending)
        /\ u.pc = "sending" /\ u.done = v.done /\ u.changed = v.changed
      BY <1>1, <2>1, <2>2, <2>3, <2>4 DEF WatcherRecord, From
  <2> HIDE DEF u
  <2>6. FollowsRun(u)
    <3>1. From(0, u.sent) /\ Len(u.sent) = Len(v.sent) + 1
        BY <2>3, <2>4, <2>5
    <3>2. From(Len(u.sent), u.pending) /\ Len(u.pending) = Len(v.pending) - 1
        BY <2>2, <2>5, <3>1
    <3>3. Len(u.sent) + Len(u.pending) = Len(v.sent) + Len(v.pending)
      <4> DEFINE a == Len(v.sent)
                 b == Len(v.pending)
      <4>1. a \in Nat /\ b \in Nat /\ Len(u.sent) = a + 1 /\ Len(u.pending) = b - 1
          BY <1>2, <3>1, <3>2
      <4> HIDE DEF a, b
      <4>2. Len(u.sent) + Len(u.pending) = a + b
          BY <4>1
      <4> QED
          BY <4>2 DEF a, b
    <3>4. /\ Len(v.sent) + Len(v.pending) <= changed /\ Len(v.sent) + Len(v.pending) = v.changed
          /\ (v.done => v.changed = changed) /\ (v.changed = changed => v.done = done)
        BY <1>1, <2>1 DEF FollowsRun
    <3> QED
        BY <2>5, <3>1, <3>2, <3>3, <3>4 DEF FollowsRun
  <2> QED
      BY <1>3, <2>1, <2>5, <2>6, WatcherGoes
<1>8. CASE AllSent(w)
  <2> DEFINE pc == IF v.done THEN "ended" ELSE "waiting"
  <2>1. v.pc = "sending" /\ v.pending = <<>> /\ watcher' = [watcher EXCEPT ![w].pc = pc]
      BY <1>8 DEF AllSent, SeenDone
  <2>2. pc \in {"ended", "waiting"} /\ (pc = "ended" <=> v.done)
      OBVIOUS
  <2> HIDE DEF pc
  <2>3. /\ Len(v.sent) + Len(v.pending) = v.changed /\ Len(v.pending) = 0
        /\ (v.done => v.changed = changed) /\ (v.changed = changed => v.done = done)
        /\ v.done \in BOOLEAN /\ v.changed \in Nat
      BY <1>1, <1>2, <2>1 DEF FollowsRun, WatcherRecord
  <2>4. Len(v.sent) = v.changed
      BY <1>2, <2>3
  <2>5. FollowsRun([v EXCEPT !.pc = pc])
      BY <1>1, <1>2, <2>1, <2>2, <2>3, <2>4 DEF FollowsRun, WatcherRecord
  <2> QED
      BY <1>4, <2>1, <2>2, <2>5 DEF WatcherPlaces
<1>9. CASE Wake(w)
  <2>1. FollowsRun([v EXCEPT !.pc = "taking"])
      BY <1>1, <1>2, <1>9 DEF Wake, FollowsRun, WatcherRecord
  <2> QED
      BY <1>4, <1>9, <2>1 DEF Wake, WatcherPlaces
<1>10. CASE WatchFails(w)
  <2>1. FollowsRun([v EXCEPT !.pc = "failed"])
      BY <1>1, <1>2, <1>10 DEF WatchFails, FollowsRun, WatcherRecord
  <2> QED
      BY <1>4, <1>10, <2>1 DEF WatchFails, WatcherPlaces
<1> QED
    BY <1>5, <1>6, <1>7, <1>8, <1>9, <1>10

\* Every step of the run, its watchers and its readers keeps the invariant.
LEMMA RunInvStep == RunInv /\ [RunNext]_runVars => RunInv'
<1> SUFFICES ASSUME RunInv, [RunNext]_runVars PROVE RunInv'
    OBVIOUS
<1>1. ASSUME NEW r \in Readers, NEW q \in [pc : {"idle", "reading", "answered"}, found : Nat],
             reader' = [reader EXCEPT ![r] = q], Found(q),
             UNCHANGED <<run, recorded, live, events, done, changed, watcher>>
      PROVE  RunInv'
  <2>1. /\ reader' \in [Readers -> [pc : {"idle", "reading", "answered"}, found : Nat]]
        /\ \A p \in Readers : Found(reader[p])'
      BY <1>1 DEF RunInv, Found
  <2>2. \A w \in Watchers : FollowsRun(watcher[w])'
      BY <1>1 DEF RunInv, FollowsRun
  <2> QED
      BY <1>1, <2>1, <2>2 DEF RunInv
<1>2. ASSUME NEW r \in Readers, NEW lists \in BOOLEAN, LookLive(r, lists) PROVE RunInv'
  <2> DEFINE q == [pc |-> IF live /\ ~lists THEN "answered" ELSE "reading", found |-> IF live THEN 1 ELSE 0]
  <2>1. q \in [pc : {"idle", "reading", "answered"}, found : Nat] /\ Found(q)
      BY <1>2 DEF LookLive, Found, RunInv
  <2>2. reader' = [reader EXCEPT ![r] = q] /\ UNCHANGED <<run, recorded, live, events, done, changed, watcher>>
      BY <1>2 DEF LookLive
  <2> HIDE DEF q
  <2> QED
      BY <1>1, <2>1, <2>2
<1>3. ASSUME NEW r \in Readers, ReadRuns(r) PROVE RunInv'
  <2> DEFINE q == [reader[r] EXCEPT !.pc = "answered", !.found = reader[r].found + InLog]
  <2>1. reader[r] \in [pc : {"idle", "reading", "answered"}, found : Nat] /\ Found(reader[r]) /\ InLog \in {0, 1}
      BY DEF RunInv, InLog
  <2>2. q \in [pc : {"idle", "reading", "answered"}, found : Nat] /\ q.pc = "answered" /\ q.found = reader[r].found + InLog
    <3>1. reader[r].found + InLog \in Nat
        BY <2>1
    <3> QED
        BY <2>1, <3>1
  <2>3. Found(q)
      BY <1>3, <2>1, <2>2 DEF ReadRuns, Found, InLog, RunInv
  <2>4. reader' = [reader EXCEPT ![r] = q] /\ UNCHANGED <<run, recorded, live, events, done, changed, watcher>>
    <3>1. DOMAIN reader = Readers
        BY DEF RunInv
    <3> QED
        BY <1>3, <3>1 DEF ReadRuns
  <2> HIDE DEF q
  <2> QED
      BY <1>1, <2>2, <2>3, <2>4
<1>4. CASE UNCHANGED runVars
  <2>1. \A w \in Watchers : FollowsRun(watcher[w])'
      BY <1>4 DEF runVars, RunInv, FollowsRun
  <2>2. \A r \in Readers : Found(reader[r])'
      BY <1>4 DEF runVars, RunInv, Found
  <2> QED
      BY <1>4, <2>1, <2>2 DEF runVars, RunInv
<1> QED
    BY <1>2, <1>3, <1>4, RunSteps, WatcherSteps DEF RunNext

\* A sequence of numbers from the first on begins a longer one.
LEMMA FromPrefix ==
    ASSUME NEW s, NEW t, From(0, s), From(0, t), Len(s) <= Len(t)
    PROVE  IsPrefix(s, t) /\ (Len(s) = Len(t) => s = t)
<1>1. s \in Seq(Nat) /\ t \in Seq(Nat) /\ Len(s) \in Nat /\ Len(t) \in Nat
    BY LenProperties DEF From
<1> DEFINE a == SubSeq(s, 1, Len(s))
           b == SubSeq(t, 1, Len(s))
<1>2. /\ \A i \in 1 .. Len(s) : s[i] \in Nat /\ s[i] = i /\ t[i] \in Nat /\ t[i] = i
      /\ 1 \in Int /\ Len(s) \in Int
    BY <1>1 DEF From
<1>3. a \in Seq(Nat) /\ Len(a) = (IF 1 <= Len(s) THEN Len(s) - 1 + 1 ELSE 0)
      /\ \A i \in 1 .. Len(s) - 1 + 1 : a[i] = s[1 + i - 1]
    BY <1>2, SubSeqProperties
<1>4. b \in Seq(Nat) /\ Len(b) = (IF 1 <= Len(s) THEN Len(s) - 1 + 1 ELSE 0)
      /\ \A i \in 1 .. Len(s) - 1 + 1 : b[i] = t[1 + i - 1]
    BY <1>2, SubSeqProperties
<1> HIDE DEF a, b
<1>5. \A i \in 1 .. Len(s) : i \in 1 .. Len(s) - 1 + 1 /\ 1 + i - 1 = i
    BY <1>1
<1>6. Len(a) = Len(b) /\ Len(a) = Len(s)
    BY <1>1, <1>3, <1>4
<1>7. \A i \in 1 .. Len(a) : a[i] = b[i]
    BY <1>2, <1>3, <1>4, <1>5, <1>6
<1>8. a = b
    BY <1>3, <1>4, <1>6, <1>7, SeqEqual
<1>9. Len(s) = Len(t) => s = t
    BY <1>1, <1>2, SeqEqual
<1> QED
    BY <1>8, <1>9 DEF a, b, IsPrefix

\* Whoever follows a run is as the property says.
LEMMA RunsAreFollowed == RunInv => RunsFollowed
<1> SUFFICES ASSUME RunInv PROVE RunsFollowed
    OBVIOUS
<1>1. ASSUME NEW w \in Watchers
      PROVE  /\ IsPrefix(watcher[w].sent, events)
             /\ watcher[w].pc = "ended" => done /\ watcher[w].sent = events
             /\ watcher[w].pc = "waiting" /\ watcher[w].changed = changed => ~done /\ watcher[w].sent = events
  <2> DEFINE v == watcher[w]
  <2>1. /\ v \in WatcherRecord /\ FollowsRun(v) /\ From(0, v.sent) /\ From(0, events) /\ changed = Len(events)
        /\ done \in BOOLEAN
      BY DEF RunInv, FollowsRun
  <2>2. Len(v.sent) \in Nat /\ Len(v.pending) \in Nat /\ (v.pending = <<>> => Len(v.pending) = 0) /\ Len(events) \in Nat
      BY <2>1, LenProperties, EmptySeq DEF WatcherRecord, From
  <2>0. Len(v.sent) + Len(v.pending) <= Len(events)
      BY <2>1 DEF FollowsRun
  <2>3. Len(v.sent) <= Len(events)
    <3> DEFINE a == Len(v.sent)
               b == Len(v.pending)
               c == Len(events)
    <3>1. a \in Nat /\ b \in Nat /\ c \in Nat /\ a + b <= c
        BY <2>0, <2>2
    <3> HIDE DEF a, b, c
    <3>2. a <= c
        BY <3>1
    <3> QED
        BY <3>2 DEF a, c
  <2>4. IsPrefix(v.sent, events) /\ (Len(v.sent) = Len(events) => v.sent = events)
      BY <2>1, <2>3, FromPrefix
  <2>5. v.pc = "ended" => done /\ Len(v.sent) = Len(events)
      BY <2>1 DEF FollowsRun
  <2>6. ASSUME v.pc = "waiting", v.changed = changed PROVE ~done /\ Len(v.sent) = Len(events)
    <3>1. v.pending = <<>> /\ Len(v.sent) + Len(v.pending) = v.changed /\ ~v.done /\ v.done = done
        BY <2>1, <2>6 DEF FollowsRun
    <3> QED
        BY <2>1, <2>2, <2>6, <3>1
  <2> QED
      BY <2>4, <2>5, <2>6
<1>2. StartedIsFound
    BY DEF RunInv, Found, StartedIsFound
<1> QED
    BY <1>1, <1>2 DEF RunsFollowed, WatchersSeeAll

\* The invariant holds before the run starts.
LEMMA RunInvInit == RunInit => RunInv
<1> SUFFICES ASSUME RunInit PROVE RunInv
    OBVIOUS
<1>1. From(0, <<>>) /\ Len(<<>>) = 0 /\ <<>> \in Seq(Nat)
    BY FromNone, EmptySeq
<1>2. events = <<>> /\ changed = 0 /\ done = FALSE
    BY DEF RunInit
<1>3. Looking \in WatcherRecord /\ Looking.sent = <<>> /\ Looking.pending = <<>> /\ Looking.pc = "idle"
    BY <1>1 DEF Looking, WatcherRecord, WatcherPlaces
<1>4. FollowsRun(Looking)
    BY <1>1, <1>2, <1>3 DEF FollowsRun
<1>5. watcher \in [Watchers -> WatcherRecord] /\ \A w \in Watchers : watcher[w] = Looking
    BY <1>3 DEF RunInit
<1>6. reader \in [Readers -> [pc : {"idle", "reading", "answered"}, found : Nat]] /\ \A r \in Readers : reader[r].pc = "idle"
    BY DEF RunInit
<1>7. (\A w \in Watchers : FollowsRun(watcher[w])) /\ \A r \in Readers : Found(reader[r])
    BY <1>4, <1>5, <1>6 DEF Found
<1>8. /\ run = "starting" /\ recorded = "no" /\ live = FALSE
      /\ From(0, events) /\ changed = Len(events) /\ changed \in Nat
    BY <1>1, <1>2 DEF RunInit
<1> QED
    BY <1>2, <1>5, <1>6, <1>7, <1>8 DEF RunInv

-------------------------------------------------------------------------------
\* A turn's events on their way (TurnStream).

StreamEvents ==
    [kind : {"text"}, pieces : Seq(Nat), repeat : BOOLEAN]
      \cup [kind : {"ask"}, request : StreamRequests] \cup [kind : {"finished"}, output : Seq(Nat)]

StreamTyped ==
    /\ message \in [pc : {"between", "streaming", "tools", "stopped"}, pieces : Seq(Nat), said : Nat,
                    kept : Seq(Nat), notes : SUBSET Nat]
    /\ relay \in [streamed : BOOLEAN, output : Seq(Nat)]
    /\ wire \in [events : Seq(StreamEvents), works : BOOLEAN]
    /\ asks \in [StreamRequests -> {"no", "pending", "answered", "gone"}]
    /\ viewer \in [pc : {"reading", "asking", "returned", "broken"}, request : Nat, shown : Seq(Nat), output : Seq(Nat)]
    /\ viewer.pc = "asking" => viewer.request \in StreamRequests

\* An event the client shows has one piece, and this is it.
Fresh(e) == e.kind = "text" /\ ~e.repeat
PieceOf(e) == e.pieces[1]

FreshIn(q) == {i \in DOMAIN q : Fresh(q[i])}
Brought(q) == {PieceOf(q[i]) : i \in FreshIn(q)}

\* The pieces shown and on the way rise, they are the first ones said, and as
\* long as sending works, all of them; k pieces are said, but for notes.
Ordered(s, q, k, notes, works) ==
    /\ notes \subseteq 1 .. k
    /\ \A i \in FreshIn(q) : q[i].pieces = <<PieceOf(q[i])>> /\ PieceOf(q[i]) \in Nat
    /\ \A i, j \in DOMAIN s : i < j => s[i] < s[j]
    /\ \A i, j \in FreshIn(q) : i < j => PieceOf(q[i]) < PieceOf(q[j])
    /\ \A n \in ToSet(s), m \in Brought(q) : n < m
    /\ ToSet(s) \cup Brought(q) \subseteq (1 .. k) \ notes
    /\ \A n \in ToSet(s) \cup Brought(q), m \in (1 .. k) \ notes : m < n => m \in ToSet(s) \cup Brought(q)
    /\ works => (1 .. k) \ notes \subseteq ToSet(s) \cup Brought(q)

\* The text of a message under way has been marked as streamed, and what was
\* said is kept or of that message.
SpokenInv ==
    /\ message.pc \in {"between", "tools"} => ~relay.streamed /\ message.pieces = <<>>
    /\ message.pc = "streaming" => relay.streamed
    /\ ToSet(message.pieces) \subseteq 1 .. message.said
    /\ relay.output = message.kept
    /\ 1 .. message.said \subseteq ToSet(message.kept) \cup ToSet(message.pieces)

\* The end of a turn is sent last and when all was, and it is what is returned.
AllArrives == Said \subseteq ToSet(viewer.shown) \cup Brought(wire.events)

EndInv ==
    /\ \A i \in DOMAIN wire.events : wire.events[i].kind = "finished" =>
           /\ i = Len(wire.events) /\ message.pc = "stopped" /\ AllArrives
           /\ wire.events[i].output = message.kept
    /\ viewer.pc = "returned" =>
           wire.events = <<>> /\ message.pc = "stopped" /\ AllArrives /\ viewer.output = message.kept

AskInv ==
    /\ message.pc = "stopped" => Waiting = {}
    /\ \A r \in Waiting : \/ Cancelled
                          \/ AskEvent(r) \in ToSet(wire.events)
                          \/ viewer.pc = "asking" /\ viewer.request = r

StreamOrdered == Ordered(viewer.shown, wire.events, message.said, message.notes, wire.works)

StreamInv == StreamTyped /\ StreamOrdered /\ SpokenInv /\ EndInv /\ AskInv

\* The places of a sequence with one more at its end, and with one less at its
\* start.
LEMMA AppendPlaces ==
    ASSUME NEW S, NEW s \in Seq(S), NEW e \in S
    PROVE  /\ Append(s, e) \in Seq(S) /\ Len(Append(s, e)) = Len(s) + 1 /\ Len(s) \in Nat
           /\ DOMAIN Append(s, e) = DOMAIN s \cup {Len(s) + 1} /\ DOMAIN s = 1 .. Len(s)
           /\ \A i \in DOMAIN s : Append(s, e)[i] = s[i]
           /\ Append(s, e)[Len(s) + 1] = e
           /\ ToSet(Append(s, e)) = ToSet(s) \cup {e}
<1> DEFINE t == Append(s, e)
<1>1. t \in Seq(S) /\ Len(t) = Len(s) + 1 /\ (\A i \in 1 .. Len(s) : t[i] = s[i]) /\ t[Len(s) + 1] = e
    BY AppendProperties
<1>2. Len(s) \in Nat /\ DOMAIN s = 1 .. Len(s) /\ DOMAIN t = 1 .. Len(t)
    BY <1>1, LenProperties
<1> HIDE DEF t
<1>3. DOMAIN t = DOMAIN s \cup {Len(s) + 1}
    BY <1>1, <1>2
<1>4. ToSet(t) = ToSet(s) \cup {e}
    BY <1>1, <1>2, <1>3 DEF ToSet
<1> QED
    BY <1>1, <1>2, <1>3, <1>4 DEF t

LEMMA TailPlaces ==
    ASSUME NEW S, NEW s \in Seq(S), s # <<>>
    PROVE  /\ Tail(s) \in Seq(S) /\ Len(Tail(s)) = Len(s) - 1 /\ Len(s) \in Nat \ {0} /\ DOMAIN s = 1 .. Len(s)
           /\ DOMAIN Tail(s) = 1 .. Len(s) - 1
           /\ \A i \in DOMAIN Tail(s) : Tail(s)[i] = s[i + 1] /\ i + 1 \in DOMAIN s
           /\ \A i \in DOMAIN s \ {1} : i - 1 \in DOMAIN Tail(s) /\ Tail(s)[i - 1] = s[i]
           /\ Head(s) = s[1] /\ 1 \in DOMAIN s /\ Head(s) \in S
           /\ ToSet(s) = {Head(s)} \cup ToSet(Tail(s))
<1> DEFINE t == Tail(s)
<1>1. t \in Seq(S) /\ Len(t) = Len(s) - 1 /\ (\A i \in 1 .. Len(t) : t[i] = s[i + 1]) /\ Head(s) \in S
    BY HeadTailProperties
<1>2. Len(s) \in Nat \ {0} /\ DOMAIN s = 1 .. Len(s) /\ DOMAIN t = 1 .. Len(t)
    BY <1>1, LenProperties, EmptySeq
<1> HIDE DEF t
<1>3. DOMAIN t = 1 .. Len(s) - 1 /\ 1 \in DOMAIN s /\ (\A i \in DOMAIN t : t[i] = s[i + 1] /\ i + 1 \in DOMAIN s)
    BY <1>1, <1>2
<1>4. \A i \in DOMAIN s \ {1} : i - 1 \in DOMAIN t /\ (i - 1) + 1 = i
    BY <1>2, <1>3
<1>5. Head(s) = s[1]
    OBVIOUS
<1>6. ToSet(s) = {s[1]} \cup ToSet(t)
  <2>1. ASSUME NEW i \in DOMAIN s, i # 1 PROVE s[i] \in {t[j] : j \in DOMAIN t}
      BY <1>3, <1>4, <2>1
  <2> QED
      BY <1>3, <2>1 DEF ToSet
<1> QED
    BY <1>1, <1>2, <1>3, <1>4, <1>5, <1>6 DEF t

\* The start of a sequence.
LEMMA StartPlaces ==
    ASSUME NEW S, NEW s \in Seq(S), NEW n \in 0 .. Len(s)
    PROVE  /\ SubSeq(s, 1, n) \in Seq(S) /\ Len(SubSeq(s, 1, n)) = n
           /\ DOMAIN SubSeq(s, 1, n) = 1 .. n /\ 1 .. n \subseteq DOMAIN s
           /\ \A i \in 1 .. n : SubSeq(s, 1, n)[i] = s[i]
<1> DEFINE t == SubSeq(s, 1, n)
<1>1. Len(s) \in Nat /\ DOMAIN s = 1 .. Len(s) /\ n \in Nat /\ n <= Len(s)
    BY LenProperties
<1>2. 1 .. n \subseteq DOMAIN s /\ \A i \in 1 .. n : s[i] \in S
    BY <1>1, ElementOfSeq
<1>3. /\ t \in Seq(S) /\ Len(t) = (IF 1 <= n THEN n - 1 + 1 ELSE 0)
      /\ \A i \in 1 .. n - 1 + 1 : t[i] = s[1 + i - 1]
    BY <1>1, <1>2, SubSeqProperties
<1> HIDE DEF t
<1>4. Len(t) = n /\ DOMAIN t = 1 .. Len(t)
    BY <1>1, <1>3, LenProperties
<1>5. \A i \in 1 .. n : i \in 1 .. n - 1 + 1 /\ 1 + i - 1 = i
    BY <1>1
<1> QED
    BY <1>2, <1>3, <1>4, <1>5 DEF t

\* Sending an event that is not shown changes nothing of the order.
LEMMA SentUnseen ==
    ASSUME NEW S, NEW s, NEW q \in Seq(S), NEW e \in S, NEW k, NEW notes, NEW works,
           Ordered(s, q, k, notes, works), ~Fresh(e)
    PROVE  Ordered(s, Append(q, e), k, notes, works) /\ Brought(Append(q, e)) = Brought(q)
<1> DEFINE t == Append(q, e)
<1>1. /\ DOMAIN t = DOMAIN q \cup {Len(q) + 1} /\ t[Len(q) + 1] = e /\ \A i \in DOMAIN q : t[i] = q[i]
    BY AppendPlaces
<1> HIDE DEF t
<1>2. FreshIn(t) = FreshIn(q) /\ \A i \in FreshIn(q) : t[i] = q[i]
    BY <1>1 DEF FreshIn
<1>3. Brought(t) = Brought(q)
    BY <1>2 DEF Brought
<1> QED
    BY <1>2, <1>3 DEF Ordered, t

\* The next piece is said, and sent if sending works.
LEMMA SentNext ==
    ASSUME NEW S, NEW s, NEW q \in Seq(S), NEW e \in S, NEW k \in Nat, NEW notes, NEW works \in BOOLEAN,
           Ordered(s, q, k, notes, works), Fresh(e), e.pieces = <<k + 1>>
    PROVE  /\ works => Ordered(s, Append(q, e), k + 1, notes, works)
           /\ ~works => Ordered(s, q, k + 1, notes, works)
<1> DEFINE t == Append(q, e)
<1>1. /\ DOMAIN t = DOMAIN q \cup {Len(q) + 1} /\ t[Len(q) + 1] = e /\ \A i \in DOMAIN q : t[i] = q[i]
      /\ Len(q) \in Nat /\ DOMAIN q = 1 .. Len(q)
    BY AppendPlaces
<1> HIDE DEF t
<1>2. PieceOf(e) = k + 1
    BY DEF PieceOf
<1>3. FreshIn(t) = FreshIn(q) \cup {Len(q) + 1} /\ (\A i \in FreshIn(q) : t[i] = q[i]) /\ FreshIn(q) \subseteq DOMAIN q
    BY <1>1 DEF FreshIn
<1>4. Brought(t) = Brought(q) \cup {k + 1}
    BY <1>1, <1>2, <1>3 DEF Brought
<1>5. 1 .. k + 1 = (1 .. k) \cup {k + 1} /\ k + 1 \notin 1 .. k /\ k + 1 \notin notes
    BY DEF Ordered
<1>6. (1 .. k + 1) \ notes = ((1 .. k) \ notes) \cup {k + 1}
    BY <1>5
<1>7. ToSet(s) \cup Brought(q) \subseteq 1 .. k
    BY DEF Ordered
<1>8. \A i \in FreshIn(t) : t[i].pieces = <<PieceOf(t[i])>> /\ PieceOf(t[i]) \in Nat
    BY <1>1, <1>2, <1>3 DEF Ordered
<1>9. \A i, j \in FreshIn(t) : i < j => PieceOf(t[i]) < PieceOf(t[j])
  <2>1. ASSUME NEW i \in FreshIn(t), NEW j \in FreshIn(t), i < j PROVE PieceOf(t[i]) < PieceOf(t[j])
    <3>1. i \in FreshIn(q) /\ t[i] = q[i]
        BY <1>1, <1>3, <2>1
    <3>2. CASE j \in FreshIn(q)
        BY <1>3, <2>1, <3>1, <3>2 DEF Ordered
    <3>3. CASE j = Len(q) + 1
      <4>1. PieceOf(q[i]) \in 1 .. k
          BY <1>7, <3>1 DEF Brought
      <4>2. PieceOf(t[j]) = k + 1
          BY <1>1, <1>2, <3>3
      <4> QED
          BY <3>1, <4>1, <4>2
    <3> QED
        BY <1>3, <3>2, <3>3
  <2> QED
      BY <2>1
<1>10. \A n \in ToSet(s), m \in Brought(t) : n < m
    BY <1>4, <1>7 DEF Ordered
<1>11. \A n \in ToSet(s) \cup Brought(q), m \in (1 .. k + 1) \ notes : m < n => m \in ToSet(s) \cup Brought(q)
    BY <1>6, <1>7 DEF Ordered
<1>12. ToSet(s) \cup Brought(q) \subseteq (1 .. k + 1) \ notes /\ notes \subseteq 1 .. k + 1
    BY <1>5, <1>6 DEF Ordered
<1>13. CASE works
  <2>1. (1 .. k + 1) \ notes = ToSet(s) \cup Brought(t)
      BY <1>4, <1>6, <1>13 DEF Ordered
  <2> QED
      BY <1>8, <1>9, <1>10, <1>12, <1>13, <2>1 DEF Ordered, t
<1>14. CASE ~works
    BY <1>11, <1>12, <1>14 DEF Ordered
<1> QED
    BY <1>13, <1>14

\* A note that repeats no text is said and not shown.
LEMMA SaidUnseen ==
    ASSUME NEW s, NEW q, NEW k \in Nat, NEW notes, NEW works, Ordered(s, q, k, notes, works)
    PROVE  Ordered(s, q, k + 1, notes \cup {k + 1}, works)
<1>1. 1 .. k + 1 = (1 .. k) \cup {k + 1} /\ k + 1 \notin 1 .. k /\ notes \subseteq 1 .. k
    BY DEF Ordered
<1>2. (1 .. k + 1) \ (notes \cup {k + 1}) = (1 .. k) \ notes /\ notes \cup {k + 1} \subseteq 1 .. k + 1
    BY <1>1
<1> QED
    BY <1>2 DEF Ordered

\* The first event arrives, and is shown or not.
LEMMA ArrivedShown ==
    ASSUME NEW S, NEW s \in Seq(Nat), NEW q \in Seq(S), q # <<>>, NEW k, NEW notes, NEW works,
           Ordered(s, q, k, notes, works), Fresh(q[1])
    PROVE  /\ Ordered(Append(s, PieceOf(q[1])), Tail(q), k, notes, works)
           /\ ToSet(Append(s, PieceOf(q[1]))) \cup Brought(Tail(q)) = ToSet(s) \cup Brought(q)
<1> DEFINE t == Tail(q)
           p == PieceOf(q[1])
           u == Append(s, p)
<1>1. /\ DOMAIN q = 1 .. Len(q) /\ Len(q) \in Nat \ {0} /\ DOMAIN t = 1 .. Len(q) - 1 /\ 1 \in DOMAIN q
      /\ \A i \in DOMAIN t : t[i] = q[i + 1] /\ i + 1 \in DOMAIN q
      /\ \A i \in DOMAIN q \ {1} : i - 1 \in DOMAIN t /\ t[i - 1] = q[i]
    BY TailPlaces
<1>2. 1 \in FreshIn(q) /\ p \in Nat /\ p \in Brought(q)
    BY <1>1 DEF FreshIn, Brought, Ordered
<1> HIDE DEF p
<1>3. /\ DOMAIN u = DOMAIN s \cup {Len(s) + 1} /\ DOMAIN s = 1 .. Len(s) /\ Len(s) \in Nat
      /\ (\A i \in DOMAIN s : u[i] = s[i]) /\ u[Len(s) + 1] = p /\ ToSet(u) = ToSet(s) \cup {p}
    BY <1>2, AppendPlaces
<1> HIDE DEF t, u
<1>4. /\ \A i \in FreshIn(t) : t[i] = q[i + 1] /\ i + 1 \in FreshIn(q) /\ i \in Nat \ {0}
      /\ \A i \in FreshIn(q) \ {1} : i - 1 \in FreshIn(t) /\ t[i - 1] = q[i] /\ i \in Nat
    BY <1>1 DEF FreshIn
<1>5. Brought(q) = {p} \cup Brought(t)
  <2>1. \A i \in FreshIn(t) : PieceOf(t[i]) \in Brought(q)
      BY <1>4 DEF Brought
  <2>2. ASSUME NEW i \in FreshIn(q) PROVE PieceOf(q[i]) \in {p} \cup Brought(t)
    <3>1. CASE i = 1
        BY <3>1 DEF p
    <3>2. CASE i # 1
      <4>1. i - 1 \in FreshIn(t) /\ t[i - 1] = q[i]
          BY <1>4, <3>2
      <4> QED
          BY <4>1 DEF Brought
    <3> QED
        BY <3>1, <3>2
  <2> QED
      BY <1>2, <2>1, <2>2 DEF Brought
<1>6. ToSet(u) \cup Brought(t) = ToSet(s) \cup Brought(q)
    BY <1>3, <1>5
<1>7. \A m \in Brought(t) : p < m
  <2>1. ASSUME NEW i \in FreshIn(t) PROVE p < PieceOf(t[i])
    <3>1. 1 < i + 1 /\ i + 1 \in FreshIn(q) /\ t[i] = q[i + 1]
        BY <1>4
    <3> QED
        BY <1>2, <3>1 DEF Ordered, p
  <2> QED
      BY <2>1 DEF Brought
<1>8. \A n \in ToSet(u), m \in Brought(t) : n < m
    BY <1>3, <1>5, <1>7 DEF Ordered
<1>9. \A i, j \in DOMAIN u : i < j => u[i] < u[j]
  <2>1. ASSUME NEW i \in DOMAIN u, NEW j \in DOMAIN u, i < j PROVE u[i] < u[j]
    <3>1. i \in DOMAIN s /\ u[i] = s[i] /\ s[i] \in ToSet(s)
        BY <1>3, <2>1 DEF ToSet
    <3>2. CASE j \in DOMAIN s
        BY <1>3, <2>1, <3>1, <3>2 DEF Ordered
    <3>3. CASE j = Len(s) + 1
        BY <1>2, <1>3, <3>1, <3>3 DEF Ordered
    <3> QED
        BY <1>3, <3>2, <3>3
  <2> QED
      BY <2>1
<1>10. \A i \in FreshIn(t) : t[i].pieces = <<PieceOf(t[i])>> /\ PieceOf(t[i]) \in Nat
    BY <1>4 DEF Ordered
<1>11. ASSUME NEW i \in FreshIn(t), NEW j \in FreshIn(t), i < j PROVE PieceOf(t[i]) < PieceOf(t[j])
  <2>1. i + 1 < j + 1 /\ i + 1 \in FreshIn(q) /\ j + 1 \in FreshIn(q) /\ t[i] = q[i + 1] /\ t[j] = q[j + 1]
      BY <1>4, <1>11
  <2> QED
      BY <2>1 DEF Ordered
<1>12. /\ notes \subseteq 1 .. k /\ ToSet(u) \cup Brought(t) \subseteq (1 .. k) \ notes
       /\ \A n \in ToSet(u) \cup Brought(t), m \in (1 .. k) \ notes : m < n => m \in ToSet(u) \cup Brought(t)
       /\ works => (1 .. k) \ notes \subseteq ToSet(u) \cup Brought(t)
    BY <1>6 DEF Ordered
<1>13. Ordered(u, t, k, notes, works)
    BY <1>8, <1>9, <1>10, <1>11, <1>12 DEF Ordered
<1>14. u = Append(s, PieceOf(q[1])) /\ t = Tail(q)
    BY DEF u, t, p
<1> QED
    BY <1>6, <1>13, <1>14

LEMMA ArrivedUnseen ==
    ASSUME NEW S, NEW s, NEW q \in Seq(S), q # <<>>, NEW k, NEW notes, NEW works,
           Ordered(s, q, k, notes, works), ~Fresh(q[1])
    PROVE  Ordered(s, Tail(q), k, notes, works) /\ Brought(Tail(q)) = Brought(q)
<1> DEFINE t == Tail(q)
<1>1. /\ DOMAIN q = 1 .. Len(q) /\ Len(q) \in Nat \ {0} /\ DOMAIN t = 1 .. Len(q) - 1
      /\ \A i \in DOMAIN t : t[i] = q[i + 1] /\ i + 1 \in DOMAIN q
      /\ \A i \in DOMAIN q \ {1} : i - 1 \in DOMAIN t /\ t[i - 1] = q[i]
    BY TailPlaces
<1> HIDE DEF t
<1>2. /\ \A i \in FreshIn(t) : t[i] = q[i + 1] /\ i + 1 \in FreshIn(q) /\ i \in Nat
      /\ \A i \in FreshIn(q) : i - 1 \in FreshIn(t) /\ t[i - 1] = q[i]
    BY <1>1 DEF FreshIn
<1>3. Brought(t) = Brought(q)
  <2>1. \A i \in FreshIn(t) : PieceOf(t[i]) \in Brought(q)
      BY <1>2 DEF Brought
  <2>2. ASSUME NEW i \in FreshIn(q) PROVE PieceOf(q[i]) \in Brought(t)
    <3>1. i - 1 \in FreshIn(t) /\ t[i - 1] = q[i]
        BY <1>2
    <3> QED
        BY <3>1 DEF Brought
  <2> QED
      BY <2>1, <2>2 DEF Brought
<1>4. \A i \in FreshIn(t) : t[i].pieces = <<PieceOf(t[i])>> /\ PieceOf(t[i]) \in Nat
    BY <1>2 DEF Ordered
<1>5. ASSUME NEW i \in FreshIn(t), NEW j \in FreshIn(t), i < j PROVE PieceOf(t[i]) < PieceOf(t[j])
  <2>1. i + 1 < j + 1 /\ i + 1 \in FreshIn(q) /\ j + 1 \in FreshIn(q) /\ t[i] = q[i + 1] /\ t[j] = q[j + 1]
      BY <1>2, <1>5
  <2> QED
      BY <2>1 DEF Ordered
<1> QED
    BY <1>3, <1>4, <1>5 DEF Ordered, t

\* What is cut off is the end of what was on the way.
LEMMA CutShort ==
    ASSUME NEW S, NEW s, NEW q \in Seq(S), NEW n \in 0 .. Len(q), NEW k, NEW notes, NEW works,
           Ordered(s, q, k, notes, works)
    PROVE  Ordered(s, SubSeq(q, 1, n), k, notes, FALSE)
<1> DEFINE t == SubSeq(q, 1, n)
<1>1. DOMAIN t = 1 .. n /\ 1 .. n \subseteq DOMAIN q /\ DOMAIN q = 1 .. Len(q) /\ Len(q) \in Nat
      /\ \A i \in 1 .. n : t[i] = q[i]
    BY StartPlaces, LenProperties
<1> HIDE DEF t
<1>2. FreshIn(t) = FreshIn(q) \cap (1 .. n) /\ \A i \in FreshIn(t) : t[i] = q[i]
    BY <1>1 DEF FreshIn
<1>3. Brought(t) \subseteq Brought(q)
    BY <1>2 DEF Brought
<1>4. ASSUME NEW a \in ToSet(s) \cup Brought(t), NEW m \in (1 .. k) \ notes, m < a
      PROVE  m \in ToSet(s) \cup Brought(t)
  <2>1. m \in ToSet(s) \cup Brought(q)
      BY <1>3, <1>4 DEF Ordered
  <2>2. CASE m \in Brought(q) /\ a \in Brought(t)
    <3>1. PICK i \in FreshIn(q) : m = PieceOf(q[i])
        BY <2>2 DEF Brought
    <3>2. PICK j \in FreshIn(t) : a = PieceOf(q[j])
        BY <1>2, <2>2 DEF Brought
    <3>3. i \in 1 .. Len(q) /\ j \in 1 .. n /\ j \in FreshIn(q)
        BY <1>1, <1>2 DEF FreshIn
    <3>4. i <= j
      <4>1. j < i => a < m
          BY <3>1, <3>2, <3>3 DEF Ordered
      <4>2. m \in Nat /\ a \in Nat
          BY <3>1, <3>2, <3>3 DEF Ordered
      <4> QED
          BY <1>4, <3>3, <4>1, <4>2
    <3>5. i \in FreshIn(t)
        BY <1>2, <3>3, <3>4
    <3> QED
        BY <1>2, <3>1, <3>5 DEF Brought
  <2>3. CASE m \in Brought(q) /\ a \in ToSet(s)
    <3>1. a < m /\ a \in 1 .. k /\ m \in 1 .. k
        BY <2>3 DEF Ordered
    <3> QED
        BY <1>4, <3>1
  <2> QED
      BY <2>1, <2>2, <2>3
<1> QED
    BY <1>2, <1>3, <1>4 DEF Ordered, t

\* What sequences joined hold, and how a last event is joined.
LEMMA JoinedPlaces ==
    ASSUME NEW S, NEW s \in Seq(S), NEW t \in Seq(S)
    PROVE  s \o t \in Seq(S) /\ ToSet(s \o t) = ToSet(s) \cup ToSet(t)
<1> DEFINE u == s \o t
<1>1. /\ u \in Seq(S) /\ Len(u) = Len(s) + Len(t)
      /\ \A i \in 1 .. Len(s) + Len(t) : u[i] = IF i <= Len(s) THEN s[i] ELSE t[i - Len(s)]
    BY ConcatProperties
<1>2. /\ Len(s) \in Nat /\ Len(t) \in Nat /\ DOMAIN s = 1 .. Len(s) /\ DOMAIN t = 1 .. Len(t)
      /\ DOMAIN u = 1 .. Len(s) + Len(t)
    BY <1>1, LenProperties
<1> HIDE DEF u
<1>3. ASSUME NEW i \in DOMAIN s PROVE i \in DOMAIN u /\ u[i] = s[i]
    BY <1>1, <1>2
<1>4. ASSUME NEW i \in DOMAIN t PROVE Len(s) + i \in DOMAIN u /\ u[Len(s) + i] = t[i]
  <2> DEFINE a == Len(s)
             b == Len(t)
             j == a + i
  <2>1. a \in Nat /\ b \in Nat /\ i \in 1 .. b /\ \A n \in 1 .. a + b : u[n] = IF n <= a THEN s[n] ELSE t[n - a]
      BY <1>1, <1>2
  <2> HIDE DEF a, b
  <2>2. j \in 1 .. a + b /\ ~(j <= a) /\ j - a = i
      BY <2>1
  <2> QED
      BY <1>2, <2>1, <2>2 DEF a, b
<1>5. ASSUME NEW i \in DOMAIN u PROVE u[i] \in ToSet(s) \cup ToSet(t)
  <2>1. CASE i <= Len(s)
      BY <1>1, <1>2, <2>1 DEF ToSet
  <2>2. CASE ~(i <= Len(s))
    <3>1. i - Len(s) \in DOMAIN t /\ u[i] = t[i - Len(s)]
        BY <1>1, <1>2, <2>2
    <3> QED
        BY <3>1 DEF ToSet
  <2> QED
      BY <2>1, <2>2
<1>6. ToSet(u) = ToSet(s) \cup ToSet(t)
    BY <1>3, <1>4, <1>5 DEF ToSet
<1> QED
    BY <1>1, <1>6 DEF u

LEMMA JoinedOne ==
    ASSUME NEW S, NEW s \in Seq(S), NEW e \in S
    PROVE  /\ s \o <<e>> = Append(s, e) /\ s \o <<>> = s /\ <<>> \o s = s /\ <<e>> \in Seq(S)
           /\ ToSet(<<e>>) = {e} /\ Append(s, e) # <<>> /\ Last(Append(s, e)) = e
<1>1. s \o <<>> = s /\ <<>> \o s = s
    BY ConcatEmptySeq
<1>2. <<e>> \in Seq(S) /\ s \o <<e>> = Append(s, e)
    BY AppendIsConcat
<1>3. ToSet(<<e>>) = {e}
    BY DEF ToSet
<1>4. Len(Append(s, e)) = Len(s) + 1 /\ Append(s, e)[Len(s) + 1] = e /\ Len(s) \in Nat
    BY AppendPlaces
<1>5. Append(s, e) # <<>> /\ Last(Append(s, e)) = e
    BY <1>4, EmptySeq DEF Last
<1> QED
    BY <1>1, <1>2, <1>3, <1>5

\* Two events or none of each, joined to a sequence.
LEMMA JoinedTwo ==
    ASSUME NEW S, NEW s \in Seq(S), NEW e \in S, NEW f \in S
    PROVE  /\ s \o (<<>> \o <<>>) = s /\ s \o (<<e>> \o <<>>) = Append(s, e)
           /\ s \o (<<>> \o <<f>>) = Append(s, f) /\ s \o (<<e>> \o <<f>>) = Append(Append(s, e), f)
<1>1. /\ s \o <<e>> = Append(s, e) /\ s \o <<f>> = Append(s, f) /\ s \o <<>> = s
      /\ <<e>> \in Seq(S) /\ <<f>> \in Seq(S) /\ Append(s, e) \in Seq(S)
    BY JoinedOne, AppendPlaces
<1>2. s \o (<<e>> \o <<f>>) = (s \o <<e>>) \o <<f>>
    BY <1>1, ConcatAssociative
<1>3. Append(s, e) \o <<f>> = Append(Append(s, e), f)
    BY <1>1, JoinedOne
<1>4. <<e>> \o <<>> = <<e>> /\ <<>> \o <<f>> = <<f>> /\ <<>> \o <<>> = <<>>
    BY <1>1, ConcatEmptySeq, EmptySeq
<1> QED
    BY <1>1, <1>2, <1>3, <1>4

\* What an event is by its kind, and the events there are.
LEMMA EventKinds ==
    /\ \A e \in StreamEvents : /\ e.kind \in {"text", "ask", "finished"}
                               /\ e.kind = "text" => e.pieces \in Seq(Nat) /\ e.repeat \in BOOLEAN
                               /\ e.kind = "ask" => e.request \in StreamRequests /\ e = AskEvent(e.request)
                               /\ e.kind = "finished" => e.output \in Seq(Nat)
    /\ \A p \in Seq(Nat), b \in BOOLEAN : TextEvent(p, b) \in StreamEvents /\ (Fresh(TextEvent(p, b)) <=> ~b)
    /\ \A r \in StreamRequests : AskEvent(r) \in StreamEvents /\ ~Fresh(AskEvent(r))
    /\ \A p \in Seq(Nat) : FinishedEvent(p) \in StreamEvents /\ ~Fresh(FinishedEvent(p))
<1>1. \A e \in StreamEvents : /\ e.kind \in {"text", "ask", "finished"}
                              /\ e.kind = "text" => e.pieces \in Seq(Nat) /\ e.repeat \in BOOLEAN
                              /\ e.kind = "finished" => e.output \in Seq(Nat)
    BY DEF StreamEvents
<1>2. ASSUME NEW e \in StreamEvents, e.kind = "ask" PROVE e.request \in StreamRequests /\ e = AskEvent(e.request)
    BY <1>2 DEF StreamEvents, AskEvent
<1>3. \A p \in Seq(Nat), b \in BOOLEAN : TextEvent(p, b) \in StreamEvents
    BY DEF StreamEvents, TextEvent
<1>4. \A p \in Seq(Nat), b \in BOOLEAN : Fresh(TextEvent(p, b)) <=> ~b
    BY DEF Fresh, TextEvent
<1>5. \A r \in StreamRequests : AskEvent(r) \in StreamEvents /\ ~Fresh(AskEvent(r))
    BY DEF StreamEvents, AskEvent, Fresh
<1>6. \A p \in Seq(Nat) : FinishedEvent(p) \in StreamEvents /\ ~Fresh(FinishedEvent(p))
    BY DEF StreamEvents, FinishedEvent, Fresh
<1> QED
    BY <1>1, <1>2, <1>3, <1>4, <1>5, <1>6

\* The state's parts, by their fields.
LEMMA StreamParts ==
    ASSUME StreamTyped
    PROVE  /\ message.pc \in {"between", "streaming", "tools", "stopped"} /\ message.pieces \in Seq(Nat)
           /\ message.said \in Nat /\ message.kept \in Seq(Nat) /\ message.notes \in SUBSET Nat
           /\ relay.streamed \in BOOLEAN /\ relay.output \in Seq(Nat)
           /\ wire.events \in Seq(StreamEvents) /\ wire.works \in BOOLEAN
           /\ viewer.pc \in {"reading", "asking", "returned", "broken"} /\ viewer.request \in Nat
           /\ viewer.shown \in Seq(Nat) /\ viewer.output \in Seq(Nat)
BY DEF StreamTyped

\* One event sent.
LEMMA SendsOne ==
    ASSUME StreamTyped, NEW e \in StreamEvents, SendAll(<<e>>)
    PROVE  /\ wire' \in [events : Seq(StreamEvents), works : BOOLEAN] /\ wire'.works = wire.works
           /\ wire.works => wire'.events = Append(wire.events, e) /\ ToSet(wire'.events) = ToSet(wire.events) \cup {e}
           /\ ~wire.works => wire'.events = wire.events
<1>1. wire \in [events : Seq(StreamEvents), works : BOOLEAN]
    BY DEF StreamTyped
<1>2. wire' = [wire EXCEPT !.events = IF wire.works THEN wire.events \o <<e>> ELSE wire.events]
    BY DEF SendAll
<1>3. wire.events \o <<e>> = Append(wire.events, e)
    BY <1>1, JoinedOne
<1>4. Append(wire.events, e) \in Seq(StreamEvents) /\ ToSet(Append(wire.events, e)) = ToSet(wire.events) \cup {e}
    BY <1>1, AppendPlaces
<1> QED
    BY <1>1, <1>2, <1>3, <1>4

\* While the agent goes on, nothing says that it is finished, and requests are
\* on their way.
LEMMA AgentSpeaks ==
    ASSUME StreamInv, message.pc # "stopped", message'.pc # "stopped", viewer' = viewer, wire'.works = wire.works,
           wire'.events \in Seq(StreamEvents),
           ToSet(wire.events) \subseteq ToSet(wire'.events),
           \A e \in ToSet(wire'.events) : e \in ToSet(wire.events) \/ e.kind # "finished",
           \A r \in Waiting' : r \in Waiting \/ Cancelled \/ AskEvent(r) \in ToSet(wire'.events)
    PROVE  EndInv' /\ AskInv'
<1>1. viewer.pc # "returned" /\ \A i \in DOMAIN wire.events : wire.events[i].kind # "finished"
    BY DEF StreamInv, EndInv
<1>2. \A e \in ToSet(wire'.events) : e.kind # "finished"
    BY <1>1 DEF ToSet
<1>3. \A i \in DOMAIN wire'.events : wire'.events[i].kind # "finished"
    BY <1>2 DEF ToSet
<1>4. Cancelled' = Cancelled
    BY DEF Cancelled
<1>5. \A r \in Waiting' : \/ Cancelled' \/ AskEvent(r) \in ToSet(wire'.events)
                          \/ viewer'.pc = "asking" /\ viewer'.request = r
    BY <1>4 DEF StreamInv, AskInv
<1>6. EndInv'
    BY <1>1, <1>3 DEF EndInv
<1>7. AskInv'
    BY <1>5 DEF AskInv, AskEvent
<1> QED
    BY <1>6, <1>7

LEMMA ChunkKeeps ==
    ASSUME StreamInv, Chunk
    PROVE  StreamInv'
<1> DEFINE k == message.said
           e == TextEvent(<<k + 1>>, FALSE)
           p == Append(message.pieces, k + 1)
<1>1. StreamTyped /\ k \in Nat /\ message.pieces \in Seq(Nat) /\ wire.works \in BOOLEAN /\ wire.events \in Seq(StreamEvents)
    BY StreamParts DEF StreamInv
<1>2. e \in StreamEvents /\ Fresh(e) /\ e.pieces = <<k + 1>> /\ e.kind = "text"
  <2>1. <<k + 1>> \in Seq(Nat)
      BY <1>1, JoinedOne
  <2> QED
      BY <2>1, EventKinds DEF TextEvent
<1>3. /\ message.pc \in {"between", "streaming"} /\ relay' = [relay EXCEPT !.streamed = TRUE] /\ SendAll(<<e>>)
      /\ message' = [message EXCEPT !.pc = "streaming", !.pieces = p, !.said = k + 1] /\ UNCHANGED <<asks, viewer>>
    BY DEF Chunk, NextPiece
<1>4. p \in Seq(Nat) /\ ToSet(p) = ToSet(message.pieces) \cup {k + 1}
    BY <1>1, AppendPlaces
<1>0. k + 1 \in Nat
    BY <1>1
<1> HIDE DEF e, p
<1>5. /\ wire' \in [events : Seq(StreamEvents), works : BOOLEAN] /\ wire'.works = wire.works
      /\ wire.works => wire'.events = Append(wire.events, e) /\ ToSet(wire'.events) = ToSet(wire.events) \cup {e}
      /\ ~wire.works => wire'.events = wire.events
    BY <1>1, <1>2, <1>3, SendsOne
<1>6. /\ message'.pc = "streaming" /\ message'.pieces = p /\ message'.said = k + 1
      /\ message'.kept = message.kept /\ message'.notes = message.notes
      /\ relay'.streamed = TRUE /\ relay'.output = relay.output
    BY <1>1, <1>3 DEF StreamTyped
<1>7. StreamTyped'
  <2>1. message' \in [pc : {"between", "streaming", "tools", "stopped"}, pieces : Seq(Nat), said : Nat,
                      kept : Seq(Nat), notes : SUBSET Nat]
      BY <1>0, <1>1, <1>3, <1>4 DEF StreamTyped
  <2>2. relay' \in [streamed : BOOLEAN, output : Seq(Nat)]
      BY <1>1, <1>3 DEF StreamTyped
  <2> QED
      BY <1>1, <1>3, <1>5, <2>1, <2>2 DEF StreamTyped
<1>8. StreamOrdered'
  <2>1. Ordered(viewer.shown, wire.events, k, message.notes, wire.works)
      BY DEF StreamInv, StreamOrdered
  <2>2. /\ wire.works => Ordered(viewer.shown, Append(wire.events, e), k + 1, message.notes, wire.works)
        /\ ~wire.works => Ordered(viewer.shown, wire.events, k + 1, message.notes, wire.works)
    <3> DEFINE q == wire.events
               w == wire.works
               s == viewer.shown
               notes == message.notes
    <3>1. q \in Seq(StreamEvents) /\ w \in BOOLEAN /\ Ordered(s, q, k, notes, w) /\ k \in Nat
        BY <1>1, <2>1
    <3> HIDE DEF q, w, s, notes, k
    <3>2. /\ w => Ordered(s, Append(q, e), k + 1, notes, w)
          /\ ~w => Ordered(s, q, k + 1, notes, w)
        BY <1>2, <3>1, SentNext
    <3> QED
        BY <3>2 DEF q, w, s, notes
  <2>3. Ordered(viewer.shown, wire'.events, k + 1, message.notes, wire.works)
      BY <1>1, <1>5, <2>2
  <2> QED
      BY <1>3, <1>5, <1>6, <2>3 DEF StreamOrdered
<1>9. SpokenInv'
  <2>1. /\ ToSet(message.pieces) \subseteq 1 .. k /\ relay.output = message.kept
        /\ 1 .. k \subseteq ToSet(message.kept) \cup ToSet(message.pieces)
      BY DEF StreamInv, SpokenInv
  <2>2. 1 .. k + 1 = (1 .. k) \cup {k + 1}
      BY <1>1
  <2>3. ToSet(p) \subseteq 1 .. k + 1 /\ 1 .. k + 1 \subseteq ToSet(message.kept) \cup ToSet(p)
      BY <1>4, <2>1, <2>2
  <2> QED
      BY <1>6, <2>1, <2>3 DEF SpokenInv
<1>10. EndInv' /\ AskInv'
  <2>1. message.pc # "stopped" /\ message'.pc # "stopped" /\ viewer' = viewer
      BY <1>3, <1>6
  <2>2. /\ ToSet(wire.events) \subseteq ToSet(wire'.events)
        /\ \A x \in ToSet(wire'.events) : x \in ToSet(wire.events) \/ x.kind # "finished"
      BY <1>1, <1>2, <1>5
  <2>3. Waiting' = Waiting
      BY <1>3 DEF Waiting
  <2> QED
      BY <1>5, <2>1, <2>2, <2>3, AgentSpeaks
<1> QED
    BY <1>7, <1>8, <1>9, <1>10 DEF StreamInv

\* Both texts of a final response, sent one after the other.
LEMMA SendsTwo ==
    ASSUME StreamTyped, NEW e \in StreamEvents, NEW f \in StreamEvents, NEW b \in BOOLEAN, NEW c \in BOOLEAN,
           SendAll((IF b THEN <<e>> ELSE <<>>) \o (IF c THEN <<f>> ELSE <<>>))
    PROVE  LET t == IF wire.works /\ b THEN Append(wire.events, e) ELSE wire.events
               u == IF wire.works /\ c THEN Append(t, f) ELSE t
           IN  /\ t \in Seq(StreamEvents) /\ u \in Seq(StreamEvents)
               /\ wire' = [events |-> u, works |-> wire.works]
               /\ ToSet(wire.events) \subseteq ToSet(u) /\ ToSet(u) \subseteq ToSet(wire.events) \cup {e, f}
<1> DEFINE q == wire.events
           t == IF wire.works /\ b THEN Append(q, e) ELSE q
           u == IF wire.works /\ c THEN Append(t, f) ELSE t
           x == (IF b THEN <<e>> ELSE <<>>) \o (IF c THEN <<f>> ELSE <<>>)
           v == IF b THEN Append(q, e) ELSE q
<1>1. q \in Seq(StreamEvents) /\ wire.works \in BOOLEAN /\ wire \in [events : Seq(StreamEvents), works : BOOLEAN]
    BY DEF StreamTyped
<1>2. wire' = [wire EXCEPT !.events = IF wire.works THEN q \o x ELSE q]
    BY DEF SendAll
<1>3. q \o x = IF c THEN Append(v, f) ELSE v
  <2>1. /\ q \o (<<>> \o <<>>) = q /\ q \o (<<e>> \o <<>>) = Append(q, e)
        /\ q \o (<<>> \o <<f>>) = Append(q, f) /\ q \o (<<e>> \o <<f>>) = Append(Append(q, e), f)
      BY <1>1, JoinedTwo
  <2>2. CASE b /\ c
    <3>1. x = <<e>> \o <<f>> /\ v = Append(q, e)
        BY <2>2
    <3> QED
        BY <2>1, <2>2, <3>1
  <2>3. CASE b /\ ~c
    <3>1. x = <<e>> \o <<>> /\ v = Append(q, e)
        BY <2>3
    <3> QED
        BY <2>1, <2>3, <3>1
  <2>4. CASE ~b /\ c
    <3>1. x = <<>> \o <<f>> /\ v = q
        BY <2>4
    <3> QED
        BY <2>1, <2>4, <3>1
  <2>5. CASE ~b /\ ~c
    <3>1. x = <<>> \o <<>> /\ v = q
        BY <2>5
    <3> QED
        BY <2>1, <2>5, <3>1
  <2> QED
      BY <2>2, <2>3, <2>4, <2>5
<1> HIDE DEF x
<1>4. wire' = [events |-> IF wire.works THEN q \o x ELSE q, works |-> wire.works]
    BY <1>1, <1>2
<1>5. (IF wire.works THEN q \o x ELSE q) = u
    BY <1>3
<1>6. t \in Seq(StreamEvents) /\ (t = q \/ (t = Append(q, e) /\ ToSet(t) = ToSet(q) \cup {e}))
    BY <1>1, AppendPlaces
<1> HIDE DEF t, q
<1>7. u \in Seq(StreamEvents) /\ (u = t \/ (u = Append(t, f) /\ ToSet(u) = ToSet(t) \cup {f}))
    BY <1>6, AppendPlaces
<1> HIDE DEF u
<1>8. ToSet(q) \subseteq ToSet(u) /\ ToSet(u) \subseteq ToSet(q) \cup {e, f}
    BY <1>6, <1>7
<1> QED
    BY <1>4, <1>5, <1>6, <1>7, <1>8 DEF t, u, q

\* A text with one piece more, and the pieces up to the next ones.
LEMMA OneMore ==
    /\ \A p \in Seq(Nat), n \in Nat :
           /\ p \o <<n>> = Append(p, n) /\ p \o <<n>> \in Seq(Nat) /\ <<n>> \in Seq(Nat) /\ p \o <<>> = p
           /\ ToSet(p \o <<n>>) = ToSet(p) \cup {n} /\ p \o <<n>> # <<>> /\ Last(p \o <<n>>) = n
    /\ \A n \in Nat : 1 .. n + 1 = (1 .. n) \cup {n + 1} /\ 1 .. n + 1 + 1 = (1 .. n) \cup {n + 1, n + 1 + 1}
<1>1. ASSUME NEW p \in Seq(Nat), NEW n \in Nat
      PROVE  /\ p \o <<n>> = Append(p, n) /\ p \o <<n>> \in Seq(Nat) /\ <<n>> \in Seq(Nat) /\ p \o <<>> = p
             /\ ToSet(p \o <<n>>) = ToSet(p) \cup {n} /\ p \o <<n>> # <<>> /\ Last(p \o <<n>>) = n
  <2>1. p \o <<n>> = Append(p, n) /\ p \o <<>> = p
      BY JoinedOne
  <2>2. <<n>> \in Seq(Nat)
      BY JoinedOne
  <2>3. Append(p, n) # <<>> /\ Last(Append(p, n)) = n
    <3>1. Len(Append(p, n)) = Len(p) + 1 /\ Append(p, n)[Len(p) + 1] = n /\ Len(p) \in Nat
        BY AppendPlaces
    <3> QED
        BY <3>1, EmptySeq DEF Last
  <2>4. Append(p, n) \in Seq(Nat) /\ ToSet(Append(p, n)) = ToSet(p) \cup {n}
      BY AppendPlaces
  <2> QED
      BY <2>1, <2>2, <2>3, <2>4
<1>2. \A n \in Nat : 1 .. n + 1 = (1 .. n) \cup {n + 1} /\ 1 .. n + 1 + 1 = (1 .. n) \cup {n + 1, n + 1 + 1}
    OBVIOUS
<1> QED
    BY <1>1, <1>2

\* A message ends: what it says last, and what it was.
LEMMA FinalKeeps ==
    ASSUME StreamInv, NEW pieces \in Seq(Nat), NEW refused \in BOOLEAN, Final(pieces, refused),
           \/ message.pc = "streaming" /\ pieces = message.pieces
           \/ message.pc = "between" /\ (pieces = <<>> \/ pieces = <<message.said + 1>>)
    PROVE  StreamInv'
<1> DEFINE k == message.said
           mark == relay.streamed
           b == pieces # <<>>
           note == k + (IF message.pc = "streaming" THEN 1 ELSE Len(pieces) + 1)
           e == TextEvent(pieces, mark)
           f == TextEvent(<<note>>, mark)
           said == pieces \o (IF refused THEN <<note>> ELSE <<>>)
           last == IF said = <<>> \/ Last(said) <= k THEN k ELSE Last(said)
           notes == IF refused /\ mark THEN message.notes \cup {note} ELSE message.notes
           s == viewer.shown
           q == wire.events
           works == wire.works
           t == IF works /\ b THEN Append(q, e) ELSE q
           u == IF works /\ refused THEN Append(t, f) ELSE t
<1>1. /\ StreamTyped /\ k \in Nat /\ mark \in BOOLEAN /\ works \in BOOLEAN /\ b \in BOOLEAN
      /\ q \in Seq(StreamEvents) /\ message.kept \in Seq(Nat) /\ message.notes \in SUBSET Nat /\ relay.output \in Seq(Nat)
      /\ Len(pieces) \in Nat
    BY StreamParts, LenProperties DEF StreamInv
<1>2. note \in Nat
    BY <1>1
<1>3. /\ relay' = [streamed |-> FALSE, output |-> relay.output \o said]
      /\ SendAll((IF b THEN <<e>> ELSE <<>>) \o (IF refused THEN <<f>> ELSE <<>>))
      /\ message' = [message EXCEPT !.pc = "tools", !.pieces = <<>>, !.kept = message.kept \o said,
                        !.said = last, !.notes = notes]
      /\ UNCHANGED <<asks, viewer>>
  <2>1. (IF pieces = <<>> THEN <<>> ELSE <<e>>) = (IF b THEN <<e>> ELSE <<>>)
      OBVIOUS
  <2> QED
      BY <2>1 DEF Final, Repeats
<1>4. /\ ToSet(message.pieces) \subseteq 1 .. k /\ relay.output = message.kept
      /\ 1 .. k \subseteq ToSet(message.kept) \cup ToSet(message.pieces)
      /\ message.pc = "between" => ~mark /\ message.pieces = <<>>
      /\ message.pc = "streaming" => mark
    BY DEF StreamInv, SpokenInv
<1>5. <<note>> \in Seq(Nat) /\ said \in Seq(Nat) /\ ToSet(said) = ToSet(pieces) \cup (IF refused THEN {note} ELSE {})
      /\ (refused => said # <<>> /\ Last(said) = note) /\ (~refused => said = pieces)
  <2> HIDE DEF note
  <2>1. /\ pieces \o <<note>> \in Seq(Nat) /\ <<note>> \in Seq(Nat) /\ pieces \o <<>> = pieces
        /\ ToSet(pieces \o <<note>>) = ToSet(pieces) \cup {note}
        /\ pieces \o <<note>> # <<>> /\ Last(pieces \o <<note>>) = note
      BY <1>2, OneMore
  <2>2. refused => said = pieces \o <<note>>
      OBVIOUS
  <2>3. ~refused => said = pieces \o <<>>
      OBVIOUS
  <2> HIDE DEF said
  <2>4. CASE refused
      BY <2>1, <2>2, <2>4
  <2>5. CASE ~refused
      BY <2>1, <2>3, <2>5
  <2> QED
      BY <2>4, <2>5
<1>6. e \in StreamEvents /\ f \in StreamEvents /\ (Fresh(e) <=> ~mark) /\ (Fresh(f) <=> ~mark)
      /\ e.pieces = pieces /\ f.pieces = <<note>> /\ e.kind = "text" /\ f.kind = "text"
  <2> HIDE DEF note
  <2>1. e \in StreamEvents /\ f \in StreamEvents /\ (Fresh(e) <=> ~mark) /\ (Fresh(f) <=> ~mark)
      BY <1>1, <1>5, EventKinds
  <2> QED
      BY <2>1 DEF TextEvent
<1> HIDE DEF e, f, said
\* What has been said by then.
<1>7. \/ mark /\ ~refused /\ last = k
      \/ mark /\ refused /\ note = k + 1 /\ last = k + 1
      \/ ~mark /\ ~b /\ ~refused /\ last = k
      \/ ~mark /\ b /\ ~refused /\ pieces = <<k + 1>> /\ last = k + 1
      \/ ~mark /\ ~b /\ refused /\ note = k + 1 /\ last = k + 1
      \/ ~mark /\ b /\ refused /\ pieces = <<k + 1>> /\ note = k + 1 + 1 /\ last = k + 1 + 1
  <2>1. CASE message.pc = "streaming"
    <3>1. mark /\ note = k + 1
        BY <1>4, <2>1
    <3>2. CASE refused
      <4>1. said # <<>> /\ Last(said) = k + 1 /\ ~(k + 1 <= k)
          BY <1>1, <1>5, <3>1, <3>2
      <4> QED
          BY <3>1, <3>2, <4>1
    <3>3. CASE ~refused
      <4>1. said = pieces /\ pieces = message.pieces
          BY <1>5, <2>1, <3>3
      <4>2. said # <<>> => Last(said) \in ToSet(message.pieces)
        <5>1. pieces # <<>> => Len(pieces) \in DOMAIN pieces
            BY LenProperties, EmptySeq
        <5> QED
            BY <4>1, <5>1 DEF Last, ToSet
      <4>3. said # <<>> => Last(said) <= k
          BY <1>1, <1>4, <4>2
      <4> QED
          BY <3>1, <3>3, <4>3
    <3> QED
        BY <3>2, <3>3
  <2>2. CASE message.pc = "between" /\ pieces = <<>>
    <3>1. ~mark /\ ~b /\ Len(pieces) = 0
        BY <1>4, <2>2, EmptySeq
    <3>2. note = k + 1
        BY <1>1, <2>2, <3>1
    <3>3. refused => said # <<>> /\ Last(said) = k + 1 /\ ~(k + 1 <= k)
        BY <1>1, <1>5, <3>2
    <3>4. ~refused => said = <<>>
        BY <1>5, <2>2
    <3>5. CASE refused
        BY <3>1, <3>2, <3>3, <3>5
    <3>6. CASE ~refused
        BY <3>1, <3>4, <3>6
    <3> QED
        BY <3>5, <3>6
  <2>3. CASE message.pc = "between" /\ pieces = <<k + 1>>
    <3>1. ~mark /\ b /\ Len(pieces) = 1 /\ Last(pieces) = k + 1
        BY <1>4, <2>3 DEF Last
    <3>2. note = k + 1 + 1
        BY <1>1, <2>3, <3>1
    <3>3. refused => said # <<>> /\ Last(said) = k + 1 + 1 /\ ~(k + 1 + 1 <= k)
        BY <1>1, <1>5, <3>2
    <3>4. ~refused => said # <<>> /\ Last(said) = k + 1 /\ ~(k + 1 <= k)
      <4>1. ~(k + 1 <= k)
          BY <1>1
      <4>2. ~refused => said = pieces
          BY <1>5
      <4> QED
          BY <3>1, <4>1, <4>2
    <3>5. CASE refused
        BY <2>3, <3>1, <3>2, <3>3, <3>5
    <3>6. CASE ~refused
        BY <2>3, <3>1, <3>4, <3>6
    <3> QED
        BY <3>5, <3>6
  <2> QED
      BY <2>1, <2>2, <2>3
<1> HIDE DEF note, last
<1>8. last \in Nat /\ notes \in SUBSET Nat
    BY <1>1, <1>2, <1>7
<1>9. /\ t \in Seq(StreamEvents) /\ u \in Seq(StreamEvents) /\ wire' = [events |-> u, works |-> works]
      /\ ToSet(q) \subseteq ToSet(u) /\ ToSet(u) \subseteq ToSet(q) \cup {e, f}
  <2> HIDE DEF b
  <2> QED
      BY <1>1, <1>3, <1>6, SendsTwo
<1>10. StreamTyped'
  <2>1. relay.output \o said \in Seq(Nat) /\ message.kept \o said \in Seq(Nat) /\ <<>> \in Seq(Nat)
      BY <1>1, <1>5, JoinedPlaces, EmptySeq
  <2> HIDE DEF notes, works, u
  <2>2. relay' \in [streamed : BOOLEAN, output : Seq(Nat)]
      BY <1>3, <2>1
  <2>3. message' \in [pc : {"between", "streaming", "tools", "stopped"}, pieces : Seq(Nat), said : Nat,
                      kept : Seq(Nat), notes : SUBSET Nat]
      BY <1>1, <1>3, <1>8, <2>1 DEF StreamTyped
  <2>4. wire' \in [events : Seq(StreamEvents), works : BOOLEAN]
      BY <1>1, <1>9
  <2> QED
      BY <1>1, <1>3, <2>2, <2>3, <2>4 DEF StreamTyped
<1>11. /\ message'.pc = "tools" /\ message'.pieces = <<>> /\ message'.kept = message.kept \o said
       /\ message'.said = last /\ message'.notes = notes
       /\ relay'.streamed = FALSE /\ relay'.output = relay.output \o said
       /\ wire'.events = u /\ wire'.works = works /\ viewer' = viewer /\ asks' = asks
  <2> HIDE DEF notes, works, u
  <2> QED
      BY <1>1, <1>3, <1>9 DEF StreamTyped
<1>12. Ordered(s, u, last, notes, works)
  <2>1. Ordered(s, q, k, message.notes, works)
      BY DEF StreamInv, StreamOrdered
  <2> DEFINE old == message.notes
  <2>2. /\ (works /\ b /\ t = Append(q, e)) \/ (~(works /\ b) /\ t = q)
        /\ (works /\ refused /\ u = Append(t, f)) \/ (~(works /\ refused) /\ u = t)
      OBVIOUS
  <2>3. k \in Nat /\ q \in Seq(StreamEvents) /\ works \in BOOLEAN /\ b \in BOOLEAN /\ Ordered(s, q, k, old, works)
      BY <1>1, <2>1
  <2> HIDE DEF s, q, works, k, old, t, u, b
  <2>4. ASSUME mark PROVE Ordered(s, u, k, old, works) /\ Ordered(s, u, k + 1, old \cup {k + 1}, works)
    <3>1. Ordered(s, Append(q, e), k, old, works)
        BY <1>6, <2>3, <2>4, SentUnseen
    <3>2. Ordered(s, t, k, old, works)
        BY <2>2, <2>3, <3>1
    <3>3. Ordered(s, Append(t, f), k, old, works)
        BY <1>6, <1>9, <2>4, <3>2, SentUnseen
    <3>4. Ordered(s, u, k, old, works)
        BY <2>2, <3>2, <3>3
    <3> QED
        BY <2>3, <3>4, SaidUnseen
  <2>5. ASSUME ~mark, b, pieces = <<k + 1>> PROVE Ordered(s, t, k + 1, old, works)
    <3>1. (works => Ordered(s, Append(q, e), k + 1, old, works)) /\ (~works => Ordered(s, q, k + 1, old, works))
        BY <1>6, <2>3, <2>5, SentNext
    <3> QED
        BY <2>2, <2>3, <2>5, <3>1
  <2>6. ASSUME ~mark, refused, NEW n \in Nat, note = n + 1, Ordered(s, t, n, old, works)
        PROVE  Ordered(s, u, n + 1, old, works)
    <3>1. (works => Ordered(s, Append(t, f), n + 1, old, works)) /\ (~works => Ordered(s, t, n + 1, old, works))
        BY <1>6, <1>9, <2>3, <2>6, SentNext
    <3> QED
        BY <2>2, <2>3, <2>6, <3>1
  <2>7. ~b => Ordered(s, t, k, old, works)
      BY <2>2, <2>3
  <2>8. ~refused => u = t
      BY <2>2
  <2>9. notes = IF refused /\ mark THEN old \cup {note} ELSE old
      BY DEF old
  <2>10. k \in Nat /\ k + 1 \in Nat
      BY <2>3
  <2> HIDE DEF mark, notes
  <2> QED
      BY <1>7, <2>4, <2>5, <2>6, <2>7, <2>8, <2>9, <2>10
<1>13. StreamOrdered'
  <2> HIDE DEF notes, works, u
  <2> QED
      BY <1>11, <1>12 DEF StreamOrdered
<1>14. SpokenInv'
  <2>1. ToSet(message.kept \o said) = ToSet(message.kept) \cup ToSet(said)
      BY <1>1, <1>5, JoinedPlaces
  <2>2. 1 .. last \subseteq ToSet(message.kept) \cup ToSet(said)
    <3>1. 1 .. k + 1 = (1 .. k) \cup {k + 1} /\ 1 .. k + 1 + 1 = (1 .. k) \cup {k + 1, k + 1 + 1}
        BY <1>1, OneMore
    <3>2. ToSet(pieces) \subseteq ToSet(said) /\ (refused => note \in ToSet(said))
        BY <1>5
    <3>3. pieces = <<k + 1>> => k + 1 \in ToSet(pieces)
        BY DEF ToSet
    <3>4. 1 .. k \subseteq ToSet(message.kept) \cup ToSet(said)
      <4>1. ToSet(<<>>) = {}
          BY EmptySeq DEF ToSet
      <4> QED
          BY <1>4, <3>2, <4>1
    <3> QED
        BY <1>7, <3>1, <3>2, <3>3, <3>4
  <2>3. ToSet(<<>>) = {}
      BY EmptySeq DEF ToSet
  <2> HIDE DEF notes, works, u
  <2> QED
      BY <1>4, <1>11, <2>1, <2>2, <2>3 DEF SpokenInv
<1>15. EndInv' /\ AskInv'
  <2>1. message.pc # "stopped" /\ message'.pc # "stopped"
      BY <1>11
  <2>2. /\ ToSet(wire.events) \subseteq ToSet(wire'.events) /\ wire'.events \in Seq(StreamEvents)
        /\ \A x \in ToSet(wire'.events) : x \in ToSet(wire.events) \/ x.kind # "finished"
    <3> HIDE DEF u
    <3> QED
        BY <1>6, <1>9, <1>11
  <2>3. Waiting' = Waiting
      BY <1>3 DEF Waiting
  <2> QED
      BY <1>11, <2>1, <2>2, <2>3, AgentSpeaks
<1> QED
    BY <1>10, <1>13, <1>14, <1>15 DEF StreamInv

LEMMA MessageEndsKeeps ==
    ASSUME StreamInv, MessageEnds
    PROVE  StreamInv'
<1>1. message.pieces \in Seq(Nat) /\ message.said \in Nat
    BY StreamParts DEF StreamInv
<1>2. CASE \E refused \in BOOLEAN :
              message.pc = "streaming" /\ (refused => message.said < MaxPieces) /\ Final(message.pieces, refused)
    BY <1>1, <1>2, FinalKeeps
<1>3. ASSUME NEW n \in 0 .. 1, NEW refused \in BOOLEAN, message.pc = "between",
             Final([i \in 1 .. n |-> message.said + i], refused)
      PROVE  StreamInv'
  <2> DEFINE k == message.said
             p == [i \in 1 .. n |-> k + i]
  <2>1. p \in Seq(Nat) /\ (p = <<>> \/ p = <<k + 1>>)
    <3>1. CASE n = 0
      <4>1. p = <<>>
          BY <3>1
      <4> QED
          BY <4>1, EmptySeq
    <3>2. CASE n = 1
      <4>1. p = <<k + 1>>
          BY <1>1, <3>2
      <4>2. <<>> \in Seq(Nat) /\ k + 1 \in Nat
          BY <1>1, EmptySeq
      <4>3. \A m \in Nat : <<m>> \in Seq(Nat)
          BY <4>2, OneMore
      <4> QED
          BY <4>1, <4>2, <4>3
    <3> QED
        BY <3>1, <3>2
  <2> HIDE DEF p
  <2>2. Final(p, refused)
      BY <1>3 DEF p
  <2> QED
      BY <1>3, <2>1, <2>2, FinalKeeps
<1> QED
    BY <1>2, <1>3 DEF MessageEnds

LEMMA RequestedKeeps ==
    ASSUME StreamInv, NEW r \in StreamRequests, Requested(r)
    PROVE  StreamInv'
<1> DEFINE e == AskEvent(r)
<1>1. StreamTyped /\ wire.events \in Seq(StreamEvents) /\ wire.works \in BOOLEAN
    BY StreamParts DEF StreamInv
<1>2. e \in StreamEvents /\ ~Fresh(e) /\ e.kind = "ask"
    BY EventKinds DEF AskEvent
<1>3. /\ message.pc = "tools" /\ SendAll(<<e>>) /\ UNCHANGED <<message, relay, viewer>>
      /\ asks' = [asks EXCEPT ![r] = "pending"]
    BY DEF Requested
<1> HIDE DEF e
<1>4. /\ wire' \in [events : Seq(StreamEvents), works : BOOLEAN] /\ wire'.works = wire.works
      /\ wire.works => wire'.events = Append(wire.events, e) /\ ToSet(wire'.events) = ToSet(wire.events) \cup {e}
      /\ ~wire.works => wire'.events = wire.events
    BY <1>1, <1>2, <1>3, SendsOne
<1>5. StreamTyped'
    BY <1>1, <1>3, <1>4 DEF StreamTyped
<1>6. StreamOrdered'
  <2>1. Ordered(viewer.shown, wire.events, message.said, message.notes, wire.works)
      BY DEF StreamInv, StreamOrdered
  <2>2. Ordered(viewer.shown, Append(wire.events, e), message.said, message.notes, wire.works)
      BY <1>1, <1>2, <2>1, SentUnseen
  <2>3. Ordered(viewer.shown, wire'.events, message.said, message.notes, wire.works)
      BY <1>1, <1>4, <2>1, <2>2
  <2> QED
      BY <1>3, <1>4, <2>3 DEF StreamOrdered
<1>7. SpokenInv'
    BY <1>3 DEF StreamInv, SpokenInv
<1>8. EndInv' /\ AskInv'
  <2>1. message.pc # "stopped" /\ message'.pc # "stopped" /\ viewer' = viewer
      BY <1>3
  <2>2. /\ ToSet(wire.events) \subseteq ToSet(wire'.events) /\ wire'.events \in Seq(StreamEvents)
        /\ \A x \in ToSet(wire'.events) : x \in ToSet(wire.events) \/ x.kind # "finished"
      BY <1>1, <1>2, <1>4
  <2>3. \A x \in Waiting' : x \in Waiting \/ x = r
      BY <1>1, <1>3 DEF Waiting, StreamTyped
  <2>4. Cancelled \/ AskEvent(r) \in ToSet(wire'.events)
      BY <1>4 DEF Cancelled, e
  <2> QED
      BY <1>4, <2>1, <2>2, <2>3, <2>4, AgentSpeaks
<1> QED
    BY <1>5, <1>6, <1>7, <1>8 DEF StreamInv

\* The agent stops: its end is sent after all the rest.
LEMMA StopsKeeps ==
    ASSUME StreamInv, Stops
    PROVE  StreamInv'
<1> DEFINE e == FinishedEvent(relay.output)
<1>1. /\ StreamTyped /\ wire.events \in Seq(StreamEvents) /\ wire.works \in BOOLEAN /\ relay.output \in Seq(Nat)
      /\ relay.output = message.kept
    BY StreamParts DEF StreamInv, SpokenInv
<1>2. e \in StreamEvents /\ ~Fresh(e) /\ e.kind = "finished" /\ e.output = message.kept
    BY <1>1, EventKinds DEF FinishedEvent
<1>3. /\ message.pc # "stopped" /\ Waiting = {} /\ message' = [message EXCEPT !.pc = "stopped"] /\ SendAll(<<e>>)
      /\ UNCHANGED <<relay, asks, viewer>>
    BY DEF Stops, Running
<1> HIDE DEF e
<1>4. /\ wire' \in [events : Seq(StreamEvents), works : BOOLEAN] /\ wire'.works = wire.works
      /\ wire.works => wire'.events = Append(wire.events, e) /\ ToSet(wire'.events) = ToSet(wire.events) \cup {e}
      /\ ~wire.works => wire'.events = wire.events
    BY <1>1, <1>2, <1>3, SendsOne
<1>5. /\ message'.pc = "stopped" /\ message'.pieces = message.pieces /\ message'.said = message.said
      /\ message'.kept = message.kept /\ message'.notes = message.notes
    BY <1>1, <1>3 DEF StreamTyped
<1>6. StreamTyped'
  <2>1. message' \in [pc : {"between", "streaming", "tools", "stopped"}, pieces : Seq(Nat), said : Nat,
                      kept : Seq(Nat), notes : SUBSET Nat]
      BY <1>1, <1>3 DEF StreamTyped
  <2> QED
      BY <1>1, <1>3, <1>4, <2>1 DEF StreamTyped
<1>7. Ordered(viewer.shown, wire.events, message.said, message.notes, wire.works)
    BY DEF StreamInv, StreamOrdered
<1>8. /\ Ordered(viewer.shown, Append(wire.events, e), message.said, message.notes, wire.works)
      /\ Brought(Append(wire.events, e)) = Brought(wire.events)
    BY <1>1, <1>2, <1>7, SentUnseen
<1>9. StreamOrdered'
  <2>1. Ordered(viewer.shown, wire'.events, message.said, message.notes, wire.works)
      BY <1>1, <1>4, <1>7, <1>8
  <2> QED
      BY <1>3, <1>4, <1>5, <2>1 DEF StreamOrdered
<1>10. SpokenInv'
    BY <1>3, <1>5 DEF StreamInv, SpokenInv
<1>11. EndInv'
  <2>1. viewer.pc # "returned" /\ \A i \in DOMAIN wire.events : wire.events[i].kind # "finished"
      BY <1>3 DEF StreamInv, EndInv
  <2>2. ASSUME NEW i \in DOMAIN wire'.events, wire'.events[i].kind = "finished"
        PROVE  /\ i = Len(wire'.events) /\ AllArrives' /\ wire'.events[i].output = message.kept
    <3>1. wire.works /\ i = Len(wire.events) + 1 /\ Len(wire'.events) = Len(wire.events) + 1 /\ wire'.events[i] = e
      <4>1. wire.works
          BY <1>1, <1>4, <2>1, <2>2
      <4>2. /\ DOMAIN wire'.events = DOMAIN wire.events \cup {Len(wire.events) + 1}
            /\ \A j \in DOMAIN wire.events : wire'.events[j] = wire.events[j]
            /\ wire'.events[Len(wire.events) + 1] = e /\ Len(wire'.events) = Len(wire.events) + 1
          BY <1>1, <1>2, <1>4, <4>1, AppendPlaces
      <4> QED
          BY <2>1, <2>2, <4>1, <4>2
    <3>2. Said \subseteq ToSet(viewer.shown) \cup Brought(wire.events)
        BY <1>7, <3>1 DEF Ordered, Said
    <3>3. Said' = Said
        BY <1>5 DEF Said
    <3>4. AllArrives'
        BY <1>3, <1>4, <1>8, <3>1, <3>2, <3>3 DEF AllArrives
    <3> QED
        BY <1>2, <3>1, <3>4
  <2> QED
      BY <1>3, <1>5, <2>1, <2>2 DEF EndInv
<1>12. AskInv'
    BY <1>3 DEF AskInv, Waiting
<1> QED
    BY <1>6, <1>9, <1>10, <1>11, <1>12 DEF StreamInv

\* The client takes the first event.
LEMMA ReceiveKeeps ==
    ASSUME StreamInv, Receive
    PROVE  StreamInv'
<1> DEFINE q == wire.events
           e == Head(q)
           t == Tail(q)
<1>1. StreamTyped /\ q \in Seq(StreamEvents) /\ wire.works \in BOOLEAN /\ viewer.shown \in Seq(Nat) /\ viewer.output \in Seq(Nat)
      /\ wire \in [events : Seq(StreamEvents), works : BOOLEAN] /\ viewer.request \in Nat
    BY StreamParts DEF StreamInv, StreamTyped
<1>2. /\ viewer.pc = "reading" /\ q # <<>> /\ wire' = [wire EXCEPT !.events = t] /\ UNCHANGED <<message, relay, asks>>
      /\ viewer' = CASE e.kind = "text" -> Show(viewer, e)
                     [] e.kind = "ask" -> [viewer EXCEPT !.pc = "asking", !.request = e.request]
                     [] e.kind = "finished" -> [viewer EXCEPT !.pc = "returned", !.output = e.output]
    BY DEF Receive
<1>3. /\ t \in Seq(StreamEvents) /\ Len(t) = Len(q) - 1 /\ Len(q) \in Nat \ {0} /\ DOMAIN q = 1 .. Len(q)
      /\ DOMAIN t = 1 .. Len(q) - 1 /\ \A i \in DOMAIN t : t[i] = q[i + 1] /\ i + 1 \in DOMAIN q
      /\ e = q[1] /\ 1 \in DOMAIN q /\ e \in StreamEvents /\ ToSet(q) = {e} \cup ToSet(t)
    BY <1>1, <1>2, TailPlaces
<1> HIDE DEF q, e, t
<1>4. wire'.events = t /\ wire'.works = wire.works /\ wire' \in [events : Seq(StreamEvents), works : BOOLEAN]
    BY <1>1, <1>2, <1>3
<1>5. Ordered(viewer.shown, q, message.said, message.notes, wire.works)
    BY DEF StreamInv, StreamOrdered, q
<1>6. SpokenInv'
    BY <1>2 DEF StreamInv, SpokenInv
\* What follows of what the client shows then.
<1>7. ASSUME viewer' \in [pc : {"reading", "asking", "returned", "broken"}, request : Nat, shown : Seq(Nat), output : Seq(Nat)],
             viewer'.pc = "asking" => viewer'.request \in StreamRequests,
             Ordered(viewer'.shown, t, message.said, message.notes, wire.works),
             ToSet(viewer'.shown) \cup Brought(t) = ToSet(viewer.shown) \cup Brought(q),
             viewer'.pc = "returned" => e.kind = "finished" /\ viewer'.output = e.output,
             e.kind = "ask" => viewer'.pc = "asking" /\ viewer'.request = e.request
      PROVE  StreamInv'
  <2>1. StreamTyped'
      BY <1>1, <1>2, <1>4, <1>7 DEF StreamTyped
  <2>2. StreamOrdered'
      BY <1>2, <1>4, <1>7 DEF StreamOrdered
  <2>3. AllArrives' <=> AllArrives
    <3>1. Said' = Said
        BY <1>2 DEF Said
    <3> QED
        BY <1>4, <1>7, <3>1 DEF AllArrives, q
  <2>4. \A i \in DOMAIN q : q[i].kind = "finished" =>
            i = Len(q) /\ message.pc = "stopped" /\ AllArrives /\ q[i].output = message.kept
      BY DEF StreamInv, EndInv, q
  <2>5. EndInv'
    <3>1. ASSUME NEW i \in DOMAIN t, t[i].kind = "finished"
          PROVE  i = Len(t) /\ message.pc = "stopped" /\ AllArrives /\ t[i].output = message.kept
      <4>1. q[i + 1].kind = "finished" /\ i + 1 \in DOMAIN q /\ t[i] = q[i + 1] /\ i \in Nat
          BY <1>3, <3>1
      <4>2. i + 1 = Len(q) /\ message.pc = "stopped" /\ AllArrives /\ q[i + 1].output = message.kept
          BY <2>4, <4>1
      <4> QED
          BY <1>3, <4>1, <4>2
    <3>2. ASSUME viewer'.pc = "returned"
          PROVE  t = <<>> /\ message.pc = "stopped" /\ AllArrives /\ viewer'.output = message.kept
      <4>1. 1 = Len(q) /\ message.pc = "stopped" /\ AllArrives /\ q[1].output = message.kept
          BY <1>3, <1>7, <2>4, <3>2
      <4>2. t = <<>>
        <5>1. Len(t) = Len(q) - 1 /\ Len(q) = 1 /\ t \in Seq(StreamEvents)
            BY <1>3, <4>1
        <5>2. Len(t) = 0
            BY <5>1
        <5> QED
            BY <5>1, <5>2, EmptySeq
      <4> QED
          BY <1>3, <1>7, <3>2, <4>1, <4>2
    <3> QED
        BY <1>2, <1>4, <2>3, <3>1, <3>2 DEF EndInv
  <2>6. AskInv'
    <3>1. Waiting' = Waiting /\ (Cancelled' <=> Cancelled)
        BY <1>2, <1>4 DEF Waiting, Cancelled
    <3>2. ASSUME NEW r \in Waiting
          PROVE  Cancelled \/ AskEvent(r) \in ToSet(t) \/ (viewer'.pc = "asking" /\ viewer'.request = r)
      <4>1. Cancelled \/ AskEvent(r) \in ToSet(q)
          BY <1>2 DEF StreamInv, AskInv, q
      <4>2. AskEvent(r) = e => viewer'.pc = "asking" /\ viewer'.request = r
          BY <1>7 DEF AskEvent
      <4> QED
          BY <1>3, <4>1, <4>2
    <3> QED
        BY <1>2, <1>4, <3>1, <3>2 DEF AskInv, StreamInv, AskEvent
  <2> QED
      BY <1>6, <2>1, <2>2, <2>5, <2>6 DEF StreamInv
<1>8. viewer \in [pc : {"reading", "asking", "returned", "broken"}, request : Nat, shown : Seq(Nat), output : Seq(Nat)]
    BY <1>1 DEF StreamTyped
<1>9. CASE e.kind = "text"
  <2>1. viewer' = Show(viewer, e)
      BY <1>2, <1>9
  <2>2. CASE e.repeat
    <3>1. viewer' = viewer
        BY <1>8, <2>1, <2>2 DEF Show
    <3>2. ~Fresh(q[1])
        BY <1>3, <2>2 DEF Fresh
    <3>3. Ordered(viewer.shown, t, message.said, message.notes, wire.works) /\ Brought(t) = Brought(q)
        BY <1>1, <1>2, <1>5, <3>2, ArrivedUnseen DEF t
    <3> QED
        BY <1>2, <1>7, <1>8, <1>9, <3>1, <3>3
  <2>3. CASE ~e.repeat
    <3>1. Fresh(q[1]) /\ 1 \in FreshIn(q)
        BY <1>3, <1>9, <2>3 DEF Fresh, FreshIn
    <3>2. e.pieces = <<PieceOf(q[1])>> /\ PieceOf(q[1]) \in Nat
        BY <1>3, <1>5, <3>1 DEF Ordered
    <3> DEFINE p == PieceOf(q[1])
               u == Append(viewer.shown, p)
    <3>3. Ordered(u, t, message.said, message.notes, wire.works) /\ ToSet(u) \cup Brought(t) = ToSet(viewer.shown) \cup Brought(q)
        BY <1>1, <1>2, <1>5, <3>1, ArrivedShown DEF t
    <3> HIDE DEF p
    <3>4. viewer.shown \o <<p>> = u /\ u \in Seq(Nat)
        BY <1>1, <3>2, JoinedOne, AppendPlaces DEF p
    <3> HIDE DEF u
    <3>5. viewer' = [viewer EXCEPT !.shown = u]
        BY <2>1, <2>3, <3>2, <3>4 DEF Show, p
    <3>6. /\ viewer' \in [pc : {"reading", "asking", "returned", "broken"}, request : Nat, shown : Seq(Nat), output : Seq(Nat)]
          /\ viewer'.pc = "reading" /\ viewer'.shown = u
        BY <1>2, <1>8, <3>4, <3>5
    <3> QED
        BY <1>7, <1>9, <3>3, <3>6
  <2> QED
      BY <2>2, <2>3
<1>10. CASE e.kind # "text"
  <2>1. ~Fresh(q[1])
      BY <1>3, <1>10 DEF Fresh
  <2>2. Ordered(viewer.shown, t, message.said, message.notes, wire.works) /\ Brought(t) = Brought(q)
      BY <1>1, <1>2, <1>5, <2>1, ArrivedUnseen DEF t
  <2>3. CASE e.kind = "ask"
    <3>1. viewer' = [viewer EXCEPT !.pc = "asking", !.request = e.request]
        BY <1>2, <2>3
    <3>2. e.request \in StreamRequests /\ e.request \in Nat
        BY <1>3, <2>3, EventKinds DEF StreamRequests
    <3>3. /\ viewer' \in [pc : {"reading", "asking", "returned", "broken"}, request : Nat, shown : Seq(Nat), output : Seq(Nat)]
          /\ viewer'.pc = "asking" /\ viewer'.request = e.request /\ viewer'.shown = viewer.shown
        BY <1>8, <3>1, <3>2
    <3> QED
        BY <1>7, <2>2, <3>2, <3>3
  <2>4. CASE e.kind = "finished"
    <3>1. viewer' = [viewer EXCEPT !.pc = "returned", !.output = e.output]
        BY <1>2, <2>4
    <3>2. e.output \in Seq(Nat)
        BY <1>3, <2>4, EventKinds
    <3>3. /\ viewer' \in [pc : {"reading", "asking", "returned", "broken"}, request : Nat, shown : Seq(Nat), output : Seq(Nat)]
          /\ viewer'.pc = "returned" /\ viewer'.output = e.output /\ viewer'.shown = viewer.shown
        BY <1>8, <3>1, <3>2
    <3> QED
        BY <1>7, <2>2, <2>4, <3>3
  <2> QED
      BY <1>3, <1>10, <2>3, <2>4, EventKinds
<1> QED
    BY <1>9, <1>10

\* The connection is lost: what was sent last may not arrive.
LEMMA LostKeeps ==
    ASSUME StreamInv, Lost
    PROVE  StreamInv'
<1> DEFINE q == wire.events
<1>1. PICK n \in 0 .. Len(q) : wire' = [events |-> SubSeq(q, 1, n), works |-> FALSE]
    BY DEF Lost
<1>2. viewer.pc # "returned" /\ UNCHANGED <<message, relay, asks, viewer>>
    BY DEF Lost
<1>3. StreamTyped /\ q \in Seq(StreamEvents)
    BY StreamParts DEF StreamInv
<1> DEFINE t == SubSeq(q, 1, n)
<1>4. /\ t \in Seq(StreamEvents) /\ Len(t) = n /\ DOMAIN t = 1 .. n /\ 1 .. n \subseteq DOMAIN q
      /\ \A i \in 1 .. n : t[i] = q[i]
    BY <1>3, StartPlaces
<1>5. Ordered(viewer.shown, q, message.said, message.notes, wire.works)
    BY DEF StreamInv, StreamOrdered
<1>6. Ordered(viewer.shown, t, message.said, message.notes, FALSE)
  <2> HIDE DEF q
  <2> QED
      BY <1>3, <1>5, CutShort
<1>7. wire'.events = t /\ wire'.works = FALSE /\ wire' \in [events : Seq(StreamEvents), works : BOOLEAN]
    BY <1>1, <1>4
<1>8. StreamTyped'
    BY <1>2, <1>3, <1>7 DEF StreamTyped
<1>9. StreamOrdered'
    BY <1>2, <1>6, <1>7 DEF StreamOrdered
<1>10. SpokenInv'
    BY <1>2 DEF StreamInv, SpokenInv
<1>11. EndInv'
  <2>1. ASSUME NEW i \in DOMAIN t, t[i].kind = "finished"
        PROVE  i = Len(t) /\ message.pc = "stopped" /\ AllArrives' /\ t[i].output = message.kept
    <3>1. i \in DOMAIN q /\ q[i].kind = "finished" /\ q[i] = t[i] /\ i \in 1 .. n
        BY <1>4, <2>1
    <3>2. i = Len(q) /\ message.pc = "stopped" /\ AllArrives /\ q[i].output = message.kept
        BY <3>1 DEF StreamInv, EndInv
    <3>3. n = Len(q) /\ i = n
        BY <1>3, <3>1, <3>2, LenProperties
    <3>4. t = q
      <4>1. Len(t) = Len(q) /\ \A j \in 1 .. Len(t) : t[j] = q[j]
          BY <1>4, <3>3
      <4> QED
          BY <1>3, <1>4, <4>1, SeqEqual
    <3>5. AllArrives'
        BY <1>2, <1>7, <3>2, <3>4 DEF AllArrives, Said
    <3> QED
        BY <1>4, <3>1, <3>2, <3>3, <3>5
  <2> HIDE DEF t
  <2> QED
      BY <1>2, <1>7, <2>1 DEF EndInv
<1>12. AskInv'
  <2>1. Cancelled' /\ Waiting' = Waiting
      BY <1>2, <1>7 DEF Cancelled, Waiting
  <2> QED
      BY <1>2, <2>1 DEF StreamInv, AskInv
<1> QED
    BY <1>8, <1>9, <1>10, <1>11, <1>12 DEF StreamInv

\* The other steps say and send nothing.
LEMMA OthersKeep ==
    ASSUME StreamInv,
           \/ ToolsDone \/ Reply \/ ReplyLost \/ Breaks \/ UNCHANGED streamVars
           \/ \E r \in StreamRequests : AskEnds(r)
    PROVE  StreamInv'
<1>1. UNCHANGED <<relay, wire>> /\ StreamTyped
    BY DEF ToolsDone, Reply, ReplyLost, Breaks, AskEnds, streamVars, StreamInv
<1>2. \/ message' = message
      \/ message.pc = "tools" /\ message' = [message EXCEPT !.pc = "between"] /\ UNCHANGED <<asks, viewer>>
    BY DEF ToolsDone, Reply, ReplyLost, Breaks, AskEnds, streamVars
<1>3. /\ message'.pieces = message.pieces /\ message'.said = message.said
      /\ message'.kept = message.kept /\ message'.notes = message.notes
      /\ message' \in [pc : {"between", "streaming", "tools", "stopped"}, pieces : Seq(Nat), said : Nat,
                       kept : Seq(Nat), notes : SUBSET Nat]
      /\ (message'.pc = message.pc \/ (message.pc = "tools" /\ message'.pc = "between" /\ UNCHANGED <<asks, viewer>>))
    BY <1>1, <1>2 DEF StreamTyped
<1>4. /\ viewer'.shown = viewer.shown /\ viewer'.output = viewer.output
      /\ viewer' \in [pc : {"reading", "asking", "returned", "broken"}, request : Nat, shown : Seq(Nat), output : Seq(Nat)]
      /\ (viewer'.pc = "asking" => viewer'.request \in StreamRequests)
      /\ (viewer'.pc = "returned" => viewer.pc = "returned")
      /\ asks' \in [StreamRequests -> {"no", "pending", "answered", "gone"}]
      /\ \A r \in StreamRequests : asks'[r] = "pending" =>
             asks[r] = "pending" /\ (Cancelled \/ UNCHANGED viewer \/ (viewer.pc = "asking" /\ viewer.request # r))
  <2>1. CASE UNCHANGED <<asks, viewer>>
      BY <1>1, <2>1 DEF StreamTyped
  <2>2. CASE Reply
    <3>1. viewer.pc = "asking" /\ viewer' = [viewer EXCEPT !.pc = "reading"]
        BY <2>2 DEF Reply
    <3>2. /\ asks' = [asks EXCEPT ![viewer.request] = IF asks[viewer.request] = "pending" THEN "answered" ELSE asks[viewer.request]]
          /\ viewer.request \in StreamRequests
        BY <1>1, <2>2 DEF Reply, StreamTyped
    <3>3. /\ viewer'.shown = viewer.shown /\ viewer'.output = viewer.output /\ viewer'.pc = "reading"
          /\ viewer' \in [pc : {"reading", "asking", "returned", "broken"}, request : Nat, shown : Seq(Nat), output : Seq(Nat)]
        BY <1>1, <3>1 DEF StreamTyped
    <3>4. /\ asks' \in [StreamRequests -> {"no", "pending", "answered", "gone"}]
          /\ \A r \in StreamRequests : asks'[r] = "pending" => asks[r] = "pending" /\ viewer.request # r
        BY <1>1, <3>2 DEF StreamTyped
    <3> QED
        BY <3>1, <3>3, <3>4
  <2>3. CASE UNCHANGED asks /\ viewer' = [viewer EXCEPT !.pc = "reading"] /\ Cancelled
      BY <1>1, <2>3 DEF StreamTyped
  <2>4. CASE UNCHANGED asks /\ viewer' = [viewer EXCEPT !.pc = "broken"] /\ Cancelled
      BY <1>1, <2>4 DEF StreamTyped
  <2>5. CASE UNCHANGED viewer /\ \E r \in StreamRequests : asks' = [asks EXCEPT ![r] = "gone"]
      BY <1>1, <2>5 DEF StreamTyped
  <2> QED
      BY <2>1, <2>2, <2>3, <2>4, <2>5 DEF ToolsDone, ReplyLost, Breaks, AskEnds, streamVars
<1>5. \A r \in Waiting' : r \in Waiting /\ (Cancelled \/ UNCHANGED viewer \/ (viewer.pc = "asking" /\ viewer.request # r))
    BY <1>4 DEF Waiting
<1>6. StreamTyped'
    BY <1>1, <1>3, <1>4 DEF StreamTyped
<1>7. StreamOrdered'
    BY <1>1, <1>3, <1>4 DEF StreamInv, StreamOrdered
<1>8. SpokenInv'
    BY <1>1, <1>3 DEF StreamInv, SpokenInv
<1>9. EndInv'
  <2>1. AllArrives' <=> AllArrives
      BY <1>1, <1>3, <1>4 DEF AllArrives, Said
  <2> QED
      BY <1>1, <1>3, <1>4, <2>1 DEF StreamInv, EndInv
<1>10. AskInv'
  <2>1. Cancelled' <=> Cancelled
      BY <1>1 DEF Cancelled
  <2>2. message'.pc = "stopped" => Waiting' = {}
      BY <1>3, <1>5 DEF StreamInv, AskInv
  <2>3. ASSUME NEW r \in Waiting'
        PROVE  Cancelled \/ AskEvent(r) \in ToSet(wire.events) \/ (viewer'.pc = "asking" /\ viewer'.request = r)
    <3>1. Cancelled \/ AskEvent(r) \in ToSet(wire.events) \/ (viewer.pc = "asking" /\ viewer.request = r)
        BY <1>5 DEF StreamInv, AskInv
    <3> QED
        BY <1>5, <3>1
  <2> QED
      BY <1>1, <2>1, <2>2, <2>3 DEF AskInv, AskEvent
<1> QED
    BY <1>6, <1>7, <1>8, <1>9, <1>10 DEF StreamInv

LEMMA StreamInvStep == StreamInv /\ [StreamNext]_streamVars => StreamInv'
BY ChunkKeeps, MessageEndsKeeps, RequestedKeeps, StopsKeeps, ReceiveKeeps, LostKeeps, OthersKeep DEF StreamNext

LEMMA StreamInvInit == StreamInit => StreamInv
<1> SUFFICES ASSUME StreamInit PROVE StreamInv
    OBVIOUS
<1>1. <<>> \in Seq(Nat) /\ <<>> \in Seq(StreamEvents) /\ ToSet(<<>>) = {} /\ DOMAIN <<>> = {}
    BY EmptySeq DEF ToSet
<1>2. StreamTyped
    BY <1>1 DEF StreamInit, StreamTyped
<1>3. FreshIn(<<>>) = {} /\ Brought(<<>>) = {}
    BY <1>1 DEF FreshIn, Brought
<1>4. Ordered(<<>>, <<>>, 0, {}, TRUE)
    BY <1>1, <1>3 DEF Ordered
<1>5. StreamOrdered
    BY <1>4 DEF StreamInit, StreamOrdered
<1>6. SpokenInv
    BY <1>1 DEF StreamInit, SpokenInv
<1>7. EndInv
    BY <1>1 DEF StreamInit, EndInv
<1>8. AskInv
    BY DEF StreamInit, AskInv, Waiting
<1> QED
    BY <1>2, <1>5, <1>6, <1>7, <1>8 DEF StreamInv

\* What a client sees of a turn is as the property says.
LEMMA TurnsAreFollowed == StreamInv => TurnsFollowed
<1> SUFFICES ASSUME StreamInv PROVE TurnsFollowed
    OBVIOUS
<1>1. Ordered(viewer.shown, wire.events, message.said, message.notes, wire.works)
    BY DEF StreamInv, StreamOrdered
<1>2. viewer.pc = "returned" => /\ wire.events = <<>> /\ message.pc = "stopped" /\ Brought(wire.events) = {}
                                /\ Said \subseteq ToSet(viewer.shown) /\ viewer.output = message.kept
  <2>1. DOMAIN <<>> = {}
      OBVIOUS
  <2>2. Brought(<<>>) = {}
      BY <2>1 DEF Brought, FreshIn
  <2> QED
      BY <2>2 DEF StreamInv, EndInv, AllArrives
<1>3. ShownOnce
  <2>1. /\ \A i, j \in DOMAIN viewer.shown : i < j => viewer.shown[i] < viewer.shown[j]
        /\ ToSet(viewer.shown) \subseteq Said
      BY <1>1 DEF Ordered, Said
  <2>2. ASSUME NEW n \in ToSet(viewer.shown), NEW m \in Said, m < n PROVE m \in ToSet(viewer.shown)
    <3>1. m \in ToSet(viewer.shown) \cup Brought(wire.events)
        BY <1>1, <2>2 DEF Ordered, Said
    <3>2. m \notin Brought(wire.events)
      <4>1. m \in Brought(wire.events) => n < m
          BY <1>1 DEF Ordered
      <4>2. n \in 1 .. message.said /\ m \in 1 .. message.said
          BY <1>1 DEF Ordered, Said
      <4> QED
          BY <2>2, <4>1, <4>2
    <3> QED
        BY <3>1, <3>2
  <2> QED
      BY <1>2, <2>1, <2>2 DEF ShownOnce
<1>4. ResultComplete
    BY <1>2 DEF ResultComplete, StreamInv, SpokenInv
<1>5. AskedOrCancelled
    BY <1>2 DEF AskedOrCancelled, StreamInv, AskInv, ToSet
<1> QED
    BY <1>3, <1>4, <1>5 DEF TurnsFollowed

(* Whoever watches a worker run gets its events once, in order and to the     *)
(* end, a run that started is found while its record lasts, and the screen of *)
(* a turn's client shows what was said once and in order, all of it and with  *)
(* the whole result when the turn returns, and no tool waits for an answer    *)
(* that nobody was asked for; for any number of events, watchers, readers,    *)
(* pieces of text and requests (worker.go, scheduler.go, turn.go, broker.go   *)
(* and client.go).                                                            *)
THEOREM FollowedToTheEnd == RunSpec /\ StreamSpec => []FollowedTruly
<1>1. RunSpec => []RunInv
    BY RunInvInit, RunInvStep, PTL DEF RunSpec
<1>2. StreamSpec => []StreamInv
    BY StreamInvInit, StreamInvStep, PTL DEF StreamSpec
<1>3. RunInv /\ StreamInv => FollowedTruly
    BY RunsAreFollowed, TurnsAreFollowed DEF FollowedTruly
<1> QED
    BY <1>1, <1>2, <1>3, PTL

-------------------------------------------------------------------------------
\* One run of a worker (WorkerRun).

\* The sets of targets the worker may act on.
MayActOn == {targets \in SUBSET Targets : AllowsAll(targets)}

RunRecords ==
    [phase : {"calling", "tools", "answered"}, cause : {"none", "budget", "time", "caller"}, cost : Nat,
     asked : Seq(SUBSET Targets), done : SUBSET Nat, refusals : Seq(Nat),
     status : {"running", "succeeded", "limited", "failed"}]

DefinitionTyped ==
    /\ definition.permissions \subseteq AllPermissions
    /\ definition.limit \in Nat /\ definition.default \in Nat /\ definition.most \in Nat

RequestsSettled ==
    /\ unattended.done \subseteq DOMAIN unattended.asked
    /\ \A n \in unattended.done : unattended.asked[n] \in MayActOn
    /\ ToSet(unattended.refusals) = DOMAIN unattended.asked \ unattended.done

WithinLimit ==
    unattended.phase = "calling" /\ unattended.cause = "none" /\ CostLimit > 0 => unattended.cost <= CostLimit

WorkerInv == DefinitionTyped /\ unattended \in RunRecords /\ RequestsSettled /\ WithinLimit

\* A limit is filled in and capped.
LEMMA LimitKept ==
    ASSUME DefinitionTyped
    PROVE  /\ CostLimit \in Nat
           /\ definition.most > 0 /\ (definition.limit > 0 \/ definition.default > 0) => CostLimit \in 1 .. definition.most
BY DEF DefinitionTyped, CostLimit, Limit

\* What the worker may act on, it and the policy say so.
LEMMA MayActMeans ==
    ASSUME DefinitionTyped, NEW targets \in MayActOn
    PROVE  targets # {} /\ \A t \in targets :
               \E p \in definition.permissions :
                   /\ p.kind = t.kind /\ t.kind \in definition.policyAllows
                   /\ t \in (IF t.odd THEN p.text ELSE p.text \cup p.matches)
<1> SUFFICES ASSUME NEW t \in targets
             PROVE  \E p \in definition.permissions :
                        /\ p.kind = t.kind /\ t.kind \in definition.policyAllows
                        /\ t \in (IF t.odd THEN p.text ELSE p.text \cup p.matches)
    BY DEF MayActOn, AllowsAll
<1>1. t.kind \in {"shell", "write"} /\ Covered(t)
    BY DEF MayActOn, AllowsAll, Targets, ActionKinds
<1>2. PICK p \in Permitted : p.kind = t.kind /\ (t \in p.text \/ PatternCovers(p, t))
    BY <1>1 DEF Covered
<1>3. p \in definition.permissions /\ p.kind \in definition.policyAllows
    BY DEF Permitted
<1>4. CASE t.odd
  <2>1. t.kind = "shell"
      BY <1>1, <1>4 DEF Covered
  <2> QED
      BY <1>2, <1>3, <1>4, <2>1 DEF PatternCovers
<1>5. CASE ~t.odd
    BY <1>2, <1>3, <1>5 DEF PatternCovers
<1> QED
    BY <1>4, <1>5

LEMMA WorkerBegins == WorkerInit => WorkerInv
<1> SUFFICES ASSUME WorkerInit PROVE WorkerInv
    OBVIOUS
<1>1. DefinitionTyped
  <2>1. CASE definition \in [permissions : UNION {kSubset(n, AllPermissions) : n \in 0 .. 2},
                             policyAllows : SUBSET ActionKinds, limit : {1}, default : {1}, most : {1}]
    <3>1. \A n : kSubset(n, AllPermissions) \subseteq SUBSET AllPermissions
        BY DEF kSubset
    <3> QED
        BY <2>1, <3>1 DEF DefinitionTyped
  <2>2. CASE definition \in [permissions : {{}}, policyAllows : {{}},
                             limit : 0 .. MaxLimit, default : 0 .. MaxLimit, most : 0 .. MaxLimit]
      BY <2>2 DEF DefinitionTyped
  <2> QED
      BY <2>1, <2>2 DEF WorkerInit
<1>2. unattended \in RunRecords /\ unattended.asked = <<>> /\ unattended.done = {} /\ unattended.refusals = <<>>
      /\ unattended.cost = 0
    BY DEF WorkerInit, RunRecords
<1>3. RequestsSettled
    BY <1>2 DEF RequestsSettled, ToSet
<1>4. WithinLimit
    BY <1>1, <1>2, LimitKept DEF WithinLimit
<1> QED
    BY <1>1, <1>2, <1>3, <1>4 DEF WorkerInv

\* The consumer of events cancels a run that has gone over.
LEMMA AtEventCancels ==
    ASSUME CostLimit \in Nat, NEW r \in RunRecords
    PROVE  /\ AtEvent(r) \in RunRecords
           /\ AtEvent(r).asked = r.asked /\ AtEvent(r).done = r.done /\ AtEvent(r).refusals = r.refusals
           /\ AtEvent(r).cost = r.cost
           /\ AtEvent(r).cause = "none" /\ CostLimit > 0 => r.cost <= CostLimit
<1>1. r.cost \in Nat /\ r.cause \in {"none", "budget", "time", "caller"}
    BY DEF RunRecords
<1>2. CASE r.cause = "none" /\ CostLimit > 0 /\ r.cost > CostLimit
  <2>1. AtEvent(r) = [r EXCEPT !.cause = "budget"]
      BY <1>2 DEF AtEvent
  <2> QED
      BY <2>1 DEF RunRecords
<1>3. CASE ~(r.cause = "none" /\ CostLimit > 0 /\ r.cost > CostLimit)
  <2>1. AtEvent(r) = [r EXCEPT !.cause = r.cause]
      BY <1>3 DEF AtEvent
  <2>2. AtEvent(r) = r
      BY <2>1 DEF RunRecords
  <2> QED
      BY <1>1, <1>3, <2>2
<1> QED
    BY <1>2, <1>3

\* A step that asks for nothing keeps what was asked.
LEMMA NothingAsked ==
    ASSUME WorkerInv, definition' = definition, unattended' \in RunRecords,
           unattended'.asked = unattended.asked, unattended'.done = unattended.done,
           unattended'.refusals = unattended.refusals,
           unattended'.phase = "calling" /\ unattended'.cause = "none" /\ CostLimit > 0 => unattended'.cost <= CostLimit
    PROVE  WorkerInv'
<1>1. MayActOn' = MayActOn /\ CostLimit' = CostLimit
    BY DEF MayActOn, AllowsAll, Covered, Permitted, PatternCovers, CostLimit
<1>2. RequestsSettled' /\ WithinLimit'
    BY <1>1 DEF WorkerInv, RequestsSettled, WithinLimit
<1> QED
    BY <1>2 DEF WorkerInv, DefinitionTyped

\* Requests of tools are settled as they are made.
LEMMA DecideSettles ==
    ASSUME WorkerInv, NEW targets \in PossibleRequests, Decide(targets)
    PROVE  WorkerInv'
<1> DEFINE n == Len(unattended.asked) + 1
<1>1. /\ definition' = definition /\ unattended.phase = "tools"
      /\ unattended' = [unattended EXCEPT !.asked = Append(@, targets),
                             !.done = IF AllowsAll(targets) THEN @ \cup {n} ELSE @,
                             !.refusals = IF AllowsAll(targets) THEN @ ELSE Append(@, n)]
    BY DEF Decide
<1>2. targets \in SUBSET Targets
    BY DEF PossibleRequests, TargetsOf
<1>3. MayActOn' = MayActOn
    BY <1>1 DEF MayActOn, AllowsAll, Covered, Permitted, PatternCovers
<1>4. /\ unattended.asked \in Seq(SUBSET Targets) /\ unattended.refusals \in Seq(Nat) /\ unattended.done \subseteq Nat
      /\ Len(unattended.asked) \in Nat /\ n \in Nat /\ unattended \in RunRecords
    BY DEF WorkerInv, RunRecords
<1>5. /\ DOMAIN Append(unattended.asked, targets) = DOMAIN unattended.asked \cup {n} /\ n \notin DOMAIN unattended.asked
      /\ \A i \in DOMAIN unattended.asked : Append(unattended.asked, targets)[i] = unattended.asked[i]
      /\ Append(unattended.asked, targets)[n] = targets
      /\ Append(unattended.asked, targets) \in Seq(SUBSET Targets)
    BY <1>2, <1>4
<1>6. ToSet(Append(unattended.refusals, n)) = ToSet(unattended.refusals) \cup {n}
  <2>1. DOMAIN Append(unattended.refusals, n) = DOMAIN unattended.refusals \cup {Len(unattended.refusals) + 1}
        /\ \A i \in DOMAIN unattended.refusals : Append(unattended.refusals, n)[i] = unattended.refusals[i]
        /\ Append(unattended.refusals, n)[Len(unattended.refusals) + 1] = n
      BY <1>4
  <2> QED
      BY <2>1 DEF ToSet
<1> HIDE DEF n
<1>7. CASE AllowsAll(targets)
  <2>1. /\ unattended' \in RunRecords /\ unattended'.asked = Append(unattended.asked, targets)
        /\ unattended'.done = unattended.done \cup {n} /\ unattended'.refusals = unattended.refusals
        /\ unattended'.phase = "tools"
      BY <1>1, <1>4, <1>5, <1>7 DEF RunRecords
  <2>2. targets \in MayActOn
      BY <1>2, <1>7 DEF MayActOn
  <2>3. RequestsSettled'
      BY <1>3, <1>5, <2>1, <2>2 DEF WorkerInv, RequestsSettled
  <2> QED
      BY <1>1, <2>1, <2>3 DEF WorkerInv, DefinitionTyped, WithinLimit
<1>8. CASE ~AllowsAll(targets)
  <2>1. /\ unattended' \in RunRecords /\ unattended'.asked = Append(unattended.asked, targets)
        /\ unattended'.done = unattended.done /\ unattended'.refusals = Append(unattended.refusals, n)
        /\ unattended'.phase = "tools"
    <3>1. unattended' = [unattended EXCEPT !.asked = Append(unattended.asked, targets), !.done = unattended.done,
                                           !.refusals = Append(unattended.refusals, n)]
        BY <1>1, <1>8
    <3>2. Append(unattended.refusals, n) \in Seq(Nat)
        BY <1>4
    <3> QED
        BY <1>1, <1>4, <1>5, <3>1, <3>2 DEF RunRecords
  <2>2. RequestsSettled'
      BY <1>3, <1>5, <1>6, <2>1 DEF WorkerInv, RequestsSettled
  <2> QED
      BY <1>1, <2>1, <2>2 DEF WorkerInv, DefinitionTyped, WithinLimit
<1> QED
    BY <1>7, <1>8

LEMMA WorkerStep == WorkerInv /\ [WorkerRunNext]_workerVars => WorkerInv'
<1> SUFFICES ASSUME WorkerInv, [WorkerRunNext]_workerVars PROVE WorkerInv'
    OBVIOUS
<1>0. unattended \in RunRecords /\ CostLimit \in Nat
    BY LimitKept DEF WorkerInv
<1>1. ASSUME NEW price \in 0 .. 1, NEW next \in {"tools", "answered"}, AgentAnswers(price, next) PROVE WorkerInv'
  <2> DEFINE r == [unattended EXCEPT !.cost = @ + price, !.phase = next]
  <2>1. r \in RunRecords /\ r.asked = unattended.asked /\ r.done = unattended.done
        /\ r.refusals = unattended.refusals /\ r.phase # "calling"
    <3>1. unattended.cost + price \in Nat
        BY <1>0 DEF RunRecords
    <3> QED
        BY <1>0, <3>1 DEF RunRecords
  <2>2. unattended' = AtEvent(r) /\ definition' = definition
      BY <1>1 DEF AgentAnswers
  <2> HIDE DEF r
  <2>3. AtEvent(r).phase = r.phase
      BY <2>1 DEF AtEvent, RunRecords
  <2> QED
      BY <1>0, <2>1, <2>2, <2>3, AtEventCancels, NothingAsked
<1>2. CASE SubAgentAnswers
  <2>1. unattended' \in RunRecords /\ unattended'.asked = unattended.asked /\ unattended'.done = unattended.done
        /\ unattended'.refusals = unattended.refusals /\ unattended'.phase = "tools" /\ definition' = definition
      BY <1>0, <1>2 DEF SubAgentAnswers, RunRecords
  <2> QED
      BY <2>1, NothingAsked
<1>3. ASSUME NEW targets \in PossibleRequests, Decide(targets) PROVE WorkerInv'
    BY <1>3, DecideSettles
<1>4. CASE ToolsAnswered
  <2> DEFINE r == [unattended EXCEPT !.phase = "calling"]
  <2>1. r \in RunRecords /\ r.asked = unattended.asked /\ r.done = unattended.done
        /\ r.refusals = unattended.refusals
      BY <1>0 DEF RunRecords
  <2>2. unattended' = AtEvent(r) /\ definition' = definition
      BY <1>4 DEF ToolsAnswered
  <2> HIDE DEF r
  <2> QED
      BY <1>0, <2>1, <2>2, AtEventCancels, NothingAsked
<1>5. ASSUME NEW cause \in {"time", "caller"}, RunCancelled(cause) PROVE WorkerInv'
  <2>1. unattended' \in RunRecords /\ unattended'.asked = unattended.asked /\ unattended'.done = unattended.done
        /\ unattended'.refusals = unattended.refusals /\ unattended'.cause # "none" /\ definition' = definition
      BY <1>0, <1>5 DEF RunCancelled, RunRecords
  <2> QED
      BY <2>1, NothingAsked
<1>6. ASSUME NEW error \in {"none", "cancelled", "max turns", "model"}, Returns(error) PROVE WorkerInv'
  <2>1. Status(error) \in {"succeeded", "limited", "failed"}
      BY DEF Status
  <2>2. unattended' = [unattended EXCEPT !.status = Status(error)] /\ definition' = definition
      BY <1>6 DEF Returns
  <2>3. unattended' \in RunRecords /\ unattended'.asked = unattended.asked /\ unattended'.done = unattended.done
        /\ unattended'.refusals = unattended.refusals /\ unattended'.cause = unattended.cause
        /\ unattended'.phase = unattended.phase /\ unattended'.cost = unattended.cost
      BY <1>0, <2>1, <2>2 DEF RunRecords
  <2> QED
      BY <2>2, <2>3, NothingAsked DEF WorkerInv, WithinLimit
<1>7. CASE UNCHANGED workerVars
    BY <1>0, <1>7, NothingAsked DEF workerVars, WorkerInv, WithinLimit
<1> QED
    BY <1>1, <1>2, <1>3, <1>4, <1>5, <1>6, <1>7 DEF WorkerRunNext

LEMMA WorkerSays == WorkerInv => WorkerKept
<1> SUFFICES ASSUME WorkerInv PROVE WorkerKept
    OBVIOUS
<1>1. DoneAsPermitted
    BY MayActMeans DEF WorkerInv, RequestsSettled, DoneAsPermitted
<1>2. StopsAtLimits
    BY LimitKept DEF WorkerInv, WithinLimit, StopsAtLimits
<1> QED
    BY <1>1, <1>2 DEF WorkerKept

-------------------------------------------------------------------------------
\* The script of a skill (ScriptTools).

SkillTyped ==
    /\ skill.tier \in Unspecified .. Mandatory /\ skill.minTier \in Nat
    /\ skill.timeout \in Nat /\ skill.hint \in Nat /\ skill.most \in Nat
    /\ skill.mode \in {"auto", "gvisor", "os"}

ScriptRuns ==
    [pc : {"idle", "tier", "packages", "install", "ensure", "exec"}, hash : {"none", "v1", "v2"},
     yes : SUBSET {"run", "install"}, content : {"v1", "v2"}, marks : SUBSET {"rule", "removed", "unasked"}, runs : Nat,
     ran : {[hash |-> "none"]} \cup [hash : {"v1", "v2"}, content : {"v1", "v2"}, yes : SUBSET {"run", "install"},
                                     box : {"gvisor", "os"}]]

\* What was let through to run: its content, and that its tier was asked for.
MayRun ==
    {hash \in {"v1", "v2"} : /\ Box \in {"gvisor", "os"}
                             /\ skill.trusted = {} \/ hash \in skill.trusted
                             /\ ~(skill.network /\ ~skill.mayNetwork)}
TierAsked == EffectiveTier >= Mandatory
EnoughToRun == {yes \in SUBSET {"run", "install"} : ~TierAsked \/ Granted("run") \/ "run" \in yes}

SkillInv ==
    /\ SkillTyped /\ scriptRun \in ScriptRuns /\ packages \in {"missing", "ready"}
    /\ scriptRun.pc # "idle" => scriptRun.hash \in MayRun
    /\ scriptRun.pc \in {"packages", "install", "ensure", "exec"} => scriptRun.yes \in EnoughToRun
    /\ scriptRun.pc \in {"tier", "packages", "install", "ensure"} => ~Noted("unasked")
    /\ scriptRun.pc = "ensure" =>
           packages = "ready" \/ Noted("removed") \/ Granted("install") \/ Noted("rule") \/ "install" \in scriptRun.yes
    /\ Noted("unasked") => Noted("removed")
    /\ Ran => scriptRun.ran.hash \in MayRun /\ scriptRun.ran.box = Box /\ scriptRun.ran.yes \in EnoughToRun

\* The tiers that aren't asked for.
LEMMA UnaskedTiers ==
    ASSUME SkillTyped, ~TierAsked
    PROVE  \/ Declared = BypassAll /\ skill.mayBypass /\ skill.asksBypass
           \/ Declared \in {Unspecified, AutoRead, AuditedWrite} /\ skill.minTier < 3
<1> USE DEF Unspecified, BypassAll, AutoRead, AuditedWrite, Mandatory
<1>1. Declared \in 0 .. 4
    BY DEF Declared, SkillTyped
<1>2. CASE Declared = BypassAll
  <2>1. EffectiveTier = IF Bypass THEN BypassAll ELSE Mandatory
      BY <1>2 DEF EffectiveTier
  <2>2. Bypass
      BY <2>1 DEF TierAsked
  <2> QED
      BY <1>2, <2>2 DEF Bypass
<1>3. CASE Declared # BypassAll
  <2>1. EffectiveTier = Larger(Declared, Smaller(AutoRead + Larger(skill.minTier - 1, 0), Mandatory))
      BY <1>3 DEF EffectiveTier
  <2>2. Declared < 4 /\ skill.minTier < 3
      BY <1>1, <2>1 DEF TierAsked, Larger, Smaller, SkillTyped
  <2> QED
      BY <1>1, <1>3, <2>2
<1> QED
    BY <1>2, <1>3

\* A policy's limit of time holds.
LEMMA TimeoutKept == SkillTyped /\ skill.most > 0 => Timeout \in 1 .. skill.most
BY DEF SkillTyped, Timeout

LEMMA SkillBegins == SkillInit => SkillInv
<1> SUFFICES ASSUME SkillInit PROVE SkillInv
    OBVIOUS
<1>1. SkillTyped
  <2>1. ASSUME NEW t \in Unspecified .. Mandatory, NEW human \in BOOLEAN, NEW bypass \in BOOLEAN, NEW may \in BOOLEAN,
               NEW m \in 0 .. 3, NEW a \in Approvals, skill = TierSet(t, human, bypass, may, m, a)
        PROVE  SkillTyped
      BY <2>1 DEF SkillTyped, TierSet, Defaults, Unspecified, AuditedWrite, Mandatory
  <2>2. ASSUME NEW a \in 0 .. MaxTimeout, NEW b \in 0 .. MaxTimeout, NEW c \in 0 .. MaxTimeout, skill = LimitsSet(a, b, c)
        PROVE  SkillTyped
      BY <2>2 DEF SkillTyped, LimitsSet, Defaults, Unspecified, AuditedWrite, Mandatory
  <2>3. ASSUME NEW n \in BOOLEAN, NEW m \in BOOLEAN, NEW t \in SUBSET {"v1", "v2"}, NEW d \in BOOLEAN,
               skill = TrustSet(n, m, t, d)
        PROVE  SkillTyped
      BY <2>3 DEF SkillTyped, TrustSet, Defaults, Unspecified, AuditedWrite, Mandatory
  <2>4. ASSUME NEW m \in {"auto", "gvisor", "os"}, NEW w \in SUBSET {"gvisor", "os"}, skill = SandboxSet(m, w)
        PROVE  SkillTyped
      BY <2>4 DEF SkillTyped, SandboxSet, Defaults, Unspecified, AuditedWrite, Mandatory
  <2> QED
      BY <2>1, <2>2, <2>3, <2>4 DEF SkillInit
<1>2. scriptRun = NotRunning /\ packages = "missing"
    BY DEF SkillInit
<1> QED
    BY <1>1, <1>2 DEF SkillInv, NotRunning, ScriptRuns, Noted, Ran

\* The skill and its policy stay.
LEMMA SkillStays ==
    ASSUME skill' = skill
    PROVE  /\ SkillTyped' = SkillTyped /\ Box' = Box /\ TierAsked' = TierAsked
           /\ MayRun' = MayRun /\ EnoughToRun' = EnoughToRun /\ Granted("install")' = Granted("install")
<1>1. SkillTyped' = SkillTyped /\ Box' = Box /\ TierAsked' = TierAsked
    BY DEF SkillTyped, Box, TierAsked, EffectiveTier, Declared, Bypass
<1> QED
    BY <1>1 DEF MayRun, Granted, EnoughToRun

LEMMA SkillStep == SkillInv /\ [SkillNext]_skillVars => SkillInv'
<1> SUFFICES ASSUME SkillInv, [SkillNext]_skillVars PROVE SkillInv'
    OBVIOUS
<1>1. /\ SkillTyped' /\ Box' = Box /\ MayRun' = MayRun /\ EnoughToRun' = EnoughToRun
      /\ Granted("install")' = Granted("install")
  <2>1. skill' = skill
      BY DEF SkillNext, skillVars, BeginScript, ApproveRun, LookUp, ApproveInstall, EnsurePackages, Exec, OthersMeddle,
             StaysIn
  <2> QED
      BY <2>1, SkillStays DEF SkillInv
<1>2. ASSUME Fails, packages' \in {"missing", "ready"} PROVE SkillInv'
    BY <1>1, <1>2 DEF Fails, SkillInv, ScriptRuns, Noted, Ran
<1>3. CASE BeginScript
  <2>1. packages' = packages /\ scriptRun.pc = "idle" /\ scriptRun \in ScriptRuns
      BY <1>3 DEF BeginScript, StaysIn, SkillInv
  <2>2. PICK pc \in {"idle", "tier", "packages"} :
            /\ scriptRun' = [scriptRun EXCEPT !.pc = pc, !.hash = scriptRun.content, !.yes = {},
                                              !.marks = @ \cap {"rule"}, !.runs = @ + 1]
            /\ pc # "idle" => ~Blocked /\ Box # "none"
            /\ pc = "packages" => ~TierAsked
      BY <1>3 DEF BeginScript, TierAsked
  <2>3. scriptRun' \in ScriptRuns /\ scriptRun'.pc = pc /\ scriptRun'.hash = scriptRun.content /\ scriptRun'.yes = {}
        /\ scriptRun'.marks = scriptRun.marks \cap {"rule"} /\ scriptRun'.ran = scriptRun.ran
    <3>1. scriptRun.runs + 1 \in Nat
        BY <2>1 DEF ScriptRuns
    <3> QED
        BY <2>1, <2>2, <3>1 DEF ScriptRuns
  <2>4. pc # "idle" => scriptRun.content \in MayRun
      BY <2>1, <2>2 DEF MayRun, Blocked, Box, ScriptRuns
  <2>5. pc = "packages" => {} \in EnoughToRun
      BY <2>2 DEF EnoughToRun
  <2> QED
      BY <1>1, <2>1, <2>3, <2>4, <2>5 DEF SkillInv, Noted, Ran
<1>4. CASE ApproveRun
  <2>1. packages' = packages /\ scriptRun.pc = "tier" /\ scriptRun \in ScriptRuns /\ Asks("run", "packages", FALSE)
      BY <1>4 DEF ApproveRun, StaysIn, SkillInv
  <2>2. CASE Granted("run") /\ scriptRun' = [scriptRun EXCEPT !.pc = "packages"]
    <3>1. scriptRun.yes \in EnoughToRun
        BY <2>1, <2>2 DEF EnoughToRun, ScriptRuns
    <3> QED
        BY <1>1, <2>1, <2>2, <3>1 DEF SkillInv, ScriptRuns, Noted, Ran
  <2>3. CASE scriptRun' = [scriptRun EXCEPT !.pc = "packages", !.yes = @ \cup {"run"}]
    <3>1. scriptRun.yes \cup {"run"} \in EnoughToRun
        BY <2>1 DEF EnoughToRun, ScriptRuns
    <3> QED
        BY <1>1, <2>1, <2>3, <3>1 DEF SkillInv, ScriptRuns, Noted, Ran
  <2> QED
      BY <1>2, <2>1, <2>2, <2>3 DEF Asks, SkillInv
<1>5. CASE LookUp
  <2>1. packages' = packages /\ scriptRun.pc = "packages" /\ scriptRun \in ScriptRuns
      BY <1>5 DEF LookUp, StaysIn, SkillInv
  <2>2. PICK pc \in {"exec", "ensure", "install"} :
            /\ scriptRun' = [scriptRun EXCEPT !.pc = pc, !.marks = @ \ {"removed"}]
            /\ pc = "ensure" => packages = "ready"
      BY <1>5 DEF LookUp
  <2> QED
      BY <1>1, <2>1, <2>2 DEF SkillInv, ScriptRuns, Noted, Ran
<1>6. CASE ApproveInstall
  <2>1. packages' = packages /\ scriptRun.pc = "install" /\ scriptRun \in ScriptRuns
      BY <1>6 DEF ApproveInstall, StaysIn, SkillInv
  <2>2. scriptRun.yes \cup {"install"} \in EnoughToRun
      BY <2>1 DEF SkillInv, EnoughToRun, ScriptRuns
  <2>3. CASE (Granted("install") \/ Noted("rule")) /\ scriptRun' = [scriptRun EXCEPT !.pc = "ensure"]
      BY <1>1, <2>1, <2>3 DEF SkillInv, ScriptRuns, Noted, Ran
  <2>4. CASE scriptRun' = [scriptRun EXCEPT !.pc = "ensure", !.yes = @ \cup {"install"}]
      BY <1>1, <2>1, <2>2, <2>4 DEF SkillInv, ScriptRuns, Noted, Ran
  <2>5. CASE scriptRun' = [scriptRun EXCEPT !.pc = "ensure", !.yes = @ \cup {"install"}, !.marks = @ \cup {"rule"}]
      BY <1>1, <2>1, <2>2, <2>5 DEF SkillInv, ScriptRuns, Noted, Ran
  <2> QED
      BY <1>2, <1>6, <2>1, <2>3, <2>4, <2>5 DEF ApproveInstall, Asks, SkillInv
<1>7. CASE EnsurePackages
  <2>1. scriptRun.pc = "ensure" /\ scriptRun \in ScriptRuns /\ packages' \in {"missing", "ready"}
      BY <1>7 DEF EnsurePackages, SkillInv
  <2>2. CASE scriptRun' = [scriptRun EXCEPT !.pc = "exec"]
      BY <1>1, <2>1, <2>2 DEF SkillInv, ScriptRuns, Noted, Ran
  <2>3. CASE packages = "missing" /\ ~Fails /\ scriptRun' # [scriptRun EXCEPT !.pc = "exec"]
    <3>1. PICK marks \in {scriptRun.marks, scriptRun.marks \cup {"unasked"}} :
              /\ scriptRun' = [scriptRun EXCEPT !.pc = "exec", !.marks = marks]
              /\ marks # scriptRun.marks => ~(Granted("install") \/ Noted("rule") \/ "install" \in scriptRun.yes)
        BY <1>7, <2>3 DEF EnsurePackages
    <3>2. "unasked" \in marks => "removed" \in marks
        BY <2>1, <2>3, <3>1 DEF SkillInv, Noted
    <3> QED
        BY <1>1, <2>1, <3>1, <3>2 DEF SkillInv, ScriptRuns, Noted, Ran
  <2> QED
      BY <1>2, <1>7, <2>1, <2>2, <2>3 DEF EnsurePackages
<1>8. CASE Exec
  <2>1. packages' = packages /\ scriptRun.pc = "exec" /\ scriptRun \in ScriptRuns
      BY <1>8 DEF Exec, StaysIn, SkillInv
  <2> DEFINE ran == [hash |-> scriptRun.hash, content |-> scriptRun.content, yes |-> scriptRun.yes, box |-> Box]
  <2>2. scriptRun' = [scriptRun EXCEPT !.pc = "idle", !.ran = ran]
      BY <1>8 DEF Exec
  <2>3. /\ ran \in [hash : {"v1", "v2"}, content : {"v1", "v2"}, yes : SUBSET {"run", "install"}, box : {"gvisor", "os"}]
        /\ ran.hash \in MayRun /\ ran.box = Box /\ ran.yes \in EnoughToRun
      BY <2>1 DEF SkillInv, ScriptRuns, MayRun
  <2> HIDE DEF ran
  <2> QED
      BY <1>1, <2>1, <2>2, <2>3 DEF SkillInv, ScriptRuns, Noted, Ran
<1>9. CASE OthersMeddle
  <2>1. scriptRun \in ScriptRuns /\ packages \in {"missing", "ready"}
      BY DEF SkillInv
  <2>2. CASE packages' = "ready" /\ scriptRun' = scriptRun
      BY <1>1, <2>2 DEF SkillInv, Noted, Ran
  <2>3. CASE packages' = "missing" /\ scriptRun' = [scriptRun EXCEPT !.marks = @ \cup {"removed"}]
      BY <1>1, <2>1, <2>3 DEF SkillInv, ScriptRuns, Noted, Ran
  <2>4. CASE packages' = packages /\ \E c \in {"v1", "v2"} : scriptRun' = [scriptRun EXCEPT !.content = c]
      BY <1>1, <2>1, <2>4 DEF SkillInv, ScriptRuns, Noted, Ran
  <2> QED
      BY <1>9, <2>2, <2>3, <2>4 DEF OthersMeddle
<1>10. CASE UNCHANGED skillVars
    BY <1>1, <1>10 DEF skillVars, SkillInv, Noted, Ran
<1> QED
    BY <1>3, <1>4, <1>5, <1>6, <1>7, <1>8, <1>9, <1>10 DEF SkillNext

LEMMA SkillSays == SkillInv => SkillsKept
<1> SUFFICES ASSUME SkillInv PROVE SkillsKept
    OBVIOUS
<1>1. RunAsked
    BY UnaskedTiers DEF SkillInv, RunAsked, EnoughToRun, Granted, Ran
<1>2. InstallAsked
    BY DEF SkillInv, InstallAsked
<1>3. RunConfined
  <2>1. Ran => scriptRun.ran.box \in skill.works /\ skill.mode \in {"auto", scriptRun.ran.box}
      BY DEF SkillInv, SkillTyped, MayRun, Box
  <2> QED
      BY <2>1, TimeoutKept DEF SkillInv, MayRun, RunConfined, Ran
<1> QED
    BY <1>1, <1>2, <1>3 DEF SkillsKept

-------------------------------------------------------------------------------
\* A fetch (WebAccess).

\* What may be fetched during a turn.
Reachable == URLs \cup granted.grants

Fetches ==
    [pc : {"sending", "waiting"}, url : Reachable, by : {"list", "grant", "rule", "yes"}, sent : Seq(Reachable),
     reached : SUBSET ({url.host : url \in Reachable} \X {"public", "private"})]

\* Hosts that a request after the first may go to, and those any may.
NotDenied(host) == host \notin webConfig.deny
SentInBounds ==
    \A i \in DOMAIN fetching.sent : /\ NotDenied(fetching.sent[i].host)
                                    /\ fetching.sent[i].host \in webConfig.allow \cup {fetching.sent[1].host}

FetchInBounds ==
    fetching # NoFetch =>
        /\ fetching \in Fetches
        /\ fetching.by = "grant" => (IF fetching.sent = <<>> THEN fetching.url ELSE fetching.sent[1]) \in granted.grants
        /\ Len(fetching.sent) + (IF fetching.pc = "sending" THEN 1 ELSE 0) <= MaxRedirects
        /\ SentInBounds
        /\ NotDenied(fetching.url.host)
        /\ fetching.sent # <<>> => fetching.url.host \in webConfig.allow \cup {fetching.sent[1].host}
        /\ fetching.pc = "waiting" => fetching.sent # <<>>
        /\ \A r \in fetching.reached : r[2] = "public" \/ webConfig.private

WebInv == granted = [grants |-> granted.grants, rules |-> granted.rules] /\ FetchInBounds

LEMMA WebBegins == WebInit => WebInv
<1> SUFFICES ASSUME WebInit PROVE WebInv
    OBVIOUS
<1>1. granted = [grants |-> {}, rules |-> {}]
    BY DEF WebInit
<1>2. granted = [grants |-> granted.grants, rules |-> granted.rules]
    BY <1>1
<1>3. fetching = NoFetch
    BY DEF WebInit
<1>4. FetchInBounds
    BY <1>3 DEF FetchInBounds
<1> QED
    BY <1>2, <1>4 DEF WebInv

\* A request is sent to the URL of the fetch.
LEMMA RequestSent ==
    ASSUME FetchInBounds, fetching.pc = "sending", fetching # NoFetch, granted' = granted, webConfig' = webConfig,
           NEW reached \in SUBSET ({url.host : url \in Reachable} \X {"public", "private"}),
           \A r \in reached : r[2] = "public" \/ webConfig.private,
           fetching' = [fetching EXCEPT !.pc = "waiting", !.sent = Append(@, fetching.url), !.reached = reached]
    PROVE  FetchInBounds'
<1>1. fetching \in Fetches /\ fetching.sent \in Seq(Reachable) /\ fetching.url \in Reachable /\ Reachable' = Reachable
    BY DEF FetchInBounds, Fetches, Reachable
<1> DEFINE sent == Append(fetching.sent, fetching.url)
           n == Len(fetching.sent)
<1>2. /\ sent \in Seq(Reachable) /\ Len(sent) = n + 1 /\ n \in Nat /\ sent # <<>>
      /\ DOMAIN sent = DOMAIN fetching.sent \cup {n + 1} /\ sent[n + 1] = fetching.url
      /\ \A i \in DOMAIN fetching.sent : sent[i] = fetching.sent[i]
      /\ DOMAIN fetching.sent = 1 .. n
  <2> DEFINE before == fetching.sent
             url == fetching.url
  <2>1. before \in Seq(Reachable) /\ url \in Reachable
      BY <1>1
  <2> HIDE DEF before, url
  <2>2. /\ Append(before, url) \in Seq(Reachable) /\ Len(Append(before, url)) = Len(before) + 1 /\ Len(before) \in Nat
        /\ DOMAIN Append(before, url) = DOMAIN before \cup {Len(before) + 1} /\ DOMAIN before = 1 .. Len(before)
        /\ \A i \in DOMAIN before : Append(before, url)[i] = before[i]
        /\ Append(before, url)[Len(before) + 1] = url
      BY <2>1, AppendPlaces
  <2>3. Append(before, url) # <<>>
      BY <2>2
  <2> QED
      BY <2>2, <2>3 DEF before, url
<1>3. /\ fetching'.sent = sent /\ fetching'.pc = "waiting" /\ fetching'.url = fetching.url /\ fetching'.by = fetching.by
      /\ fetching'.reached = reached /\ fetching' \in Fetches
    BY <1>1, <1>2 DEF Fetches
<1>4. sent[1] = IF fetching.sent = <<>> THEN fetching.url ELSE fetching.sent[1]
  <2>1. CASE fetching.sent = <<>>
      BY <1>2, <2>1
  <2>2. CASE fetching.sent # <<>>
    <3>1. n # 0
        BY <1>1, <2>2
    <3>2. 1 \in DOMAIN fetching.sent
        BY <1>2, <3>1
    <3> QED
        BY <1>2, <2>2, <3>2
  <2> QED
      BY <2>1, <2>2
<1> HIDE DEF sent, n
<1>5. /\ NotDenied(fetching.url.host) /\ SentInBounds
      /\ fetching.url.host \in webConfig.allow \cup {sent[1].host}
    BY <1>4 DEF FetchInBounds
<1>6. \A i \in DOMAIN fetching.sent : fetching.sent # <<>>
    BY <1>1
<1>7. \A i \in DOMAIN sent : NotDenied(sent[i].host) /\ sent[i].host \in webConfig.allow \cup {sent[1].host}
    BY <1>2, <1>4, <1>5, <1>6 DEF SentInBounds
<1>8. SentInBounds'
    BY <1>3, <1>7 DEF SentInBounds, NotDenied
<1>9. Fetches' = Fetches
    BY <1>1 DEF Fetches
<1>10. fetching.by = "grant" => sent[1] \in granted.grants
    BY <1>4 DEF FetchInBounds
<1>11. Len(sent) <= MaxRedirects
    BY <1>2 DEF FetchInBounds, n
<1> QED
    BY <1>2, <1>3, <1>5, <1>8, <1>9, <1>10, <1>11 DEF FetchInBounds, NotDenied

LEMMA WebStep == WebInv /\ [WebNext]_webVars => WebInv'
<1> SUFFICES ASSUME WebInv, [WebNext]_webVars PROVE WebInv'
    OBVIOUS
<1> USE DEF WebInv
<1>0. webConfig' = webConfig
    BY DEF WebNext, webVars, Search, NewTurn, Fetch, Redirected, Connect, Reuse, Fetched
<1>1. CASE Search \/ UNCHANGED webVars
  <2>1. fetching' = fetching /\ granted' = granted
      BY <1>1 DEF Search, webVars
  <2>2. Fetches' = Fetches /\ SentInBounds' = SentInBounds
      BY <1>0, <2>1 DEF Fetches, Reachable, SentInBounds, NotDenied
  <2> QED
      BY <1>0, <2>1, <2>2 DEF FetchInBounds, NotDenied
<1>2. ASSUME NEW picked \in SUBSET ToSet(searched.results), NewTurn(picked) PROVE FetchInBounds'
  <2>1. fetching.pc = "none" /\ fetching' = fetching
      BY <1>2 DEF NewTurn
  <2>2. fetching = NoFetch
      BY <2>1 DEF FetchInBounds, Fetches
  <2> QED
      BY <2>1, <2>2 DEF FetchInBounds, NoFetch
<1>3. ASSUME NEW url \in URLs \cup granted.grants, Fetch(url) PROVE FetchInBounds'
  <2>1. PICK by \in {"list", "grant", "rule", "yes", "no"} :
            /\ by = "grant" => PickedPage(url)
            /\ fetching' = IF by = "no" THEN NoFetch
                           ELSE [pc |-> "sending", url |-> url, by |-> by, sent |-> <<>>, reached |-> {}]
            /\ granted' \in {granted, [granted EXCEPT !.rules = @ \cup {url.host}]}
      BY <1>3 DEF Fetch
  <2>2. granted'.grants = granted.grants
      BY <2>1
  <2>3. CASE by = "no"
      BY <2>1, <2>3 DEF FetchInBounds, NoFetch
  <2>4. CASE by # "no"
    <3>1. fetching' = [pc |-> "sending", url |-> url, by |-> by, sent |-> <<>>, reached |-> {}]
        BY <2>1, <2>4
    <3>2. fetching' \in Fetches'
        BY <2>1, <2>2, <2>4, <3>1 DEF Fetches, Reachable
    <3>3. NotDenied(url.host)' /\ SentInBounds'
        BY <1>0, <1>3, <3>1 DEF Fetch, NotDenied, SentInBounds
    <3>4. MaxRedirects \in Nat \ {0} /\ Len(<<>>) = 0
        BY WebAssumption
    <3>5. by = "grant" => url \in granted'.grants
        BY <2>1, <2>2 DEF PickedPage
    <3> QED
        BY <3>1, <3>2, <3>3, <3>4, <3>5 DEF FetchInBounds, NotDenied
  <2> QED
      BY <2>3, <2>4
<1>4. ASSUME NEW url \in URLs, Redirected(url) PROVE FetchInBounds'
  <2>1. fetching.pc = "waiting" /\ granted' = granted /\ Reachable' = Reachable /\ url \in Reachable
      BY <1>4 DEF Redirected, Reachable
  <2>2. CASE ~Follows(url)
    <3>1. fetching' = NoFetch
        BY <1>4, <2>2 DEF Redirected
    <3> QED
        BY <3>1 DEF FetchInBounds, NoFetch
  <2>3. CASE Follows(url)
    <3>1. fetching' = [fetching EXCEPT !.pc = "sending", !.url = url] /\ fetching # NoFetch
        BY <1>4, <2>1, <2>3 DEF Redirected, NoFetch
    <3>2. /\ fetching \in Fetches /\ fetching.sent # <<>> /\ SentInBounds
          /\ fetching.by = "grant" => fetching.sent[1] \in granted.grants
          /\ \A r \in fetching.reached : r[2] = "public" \/ webConfig.private
        BY <2>1, <3>1 DEF FetchInBounds
    <3>3. /\ fetching' \in Fetches /\ fetching'.sent = fetching.sent /\ fetching'.by = fetching.by
          /\ fetching'.reached = fetching.reached /\ fetching'.url = url /\ fetching'.pc = "sending"
        BY <2>1, <3>1, <3>2 DEF Fetches
    <3>4. Len(fetching.sent) + 1 <= MaxRedirects
      <4>1. Len(fetching.sent) \in Nat /\ Len(fetching.sent) < MaxRedirects
          BY <2>3, <3>2 DEF Follows, Fetches
      <4> QED
          BY <4>1, WebAssumption
    <3>5. NotDenied(url.host) /\ url.host \in webConfig.allow \cup {fetching.sent[1].host}
        BY <2>3 DEF Follows, NotDenied
    <3>6. Fetches' = Fetches /\ SentInBounds'
        BY <1>0, <2>1, <3>2, <3>3 DEF Fetches, SentInBounds, NotDenied
    <3> QED
        BY <1>0, <2>1, <3>2, <3>3, <3>4, <3>5, <3>6 DEF FetchInBounds, NotDenied
  <2> QED
      BY <2>2, <2>3
<1>5. ASSUME NEW address \in {"public", "private"}, Connect(address) PROVE FetchInBounds'
  <2>1. fetching.pc = "sending" /\ granted' = granted /\ fetching # NoFetch
      BY <1>5 DEF Connect, NoFetch
  <2>2. CASE address = "private" /\ ~webConfig.private
      BY <1>5, <2>2 DEF Connect, FetchInBounds, NoFetch
  <2>3. CASE ~(address = "private" /\ ~webConfig.private)
    <3> DEFINE reached == fetching.reached \cup {<<fetching.url.host, address>>}
    <3>1. fetching' = [fetching EXCEPT !.pc = "waiting", !.sent = Append(@, fetching.url), !.reached = reached]
        BY <1>5, <2>3 DEF Connect
    <3>2. reached \in SUBSET ({url.host : url \in Reachable} \X {"public", "private"})
        BY <2>1 DEF FetchInBounds, Fetches
    <3>3. \A r \in reached : r[2] = "public" \/ webConfig.private
        BY <2>1, <2>3 DEF FetchInBounds
    <3> HIDE DEF reached
    <3> QED
        BY <1>0, <2>1, <3>1, <3>2, <3>3, RequestSent
  <2> QED
      BY <2>2, <2>3
<1>6. CASE Reuse
  <2>1. fetching.pc = "sending" /\ granted' = granted /\ fetching # NoFetch
      BY <1>6 DEF Reuse, NoFetch
  <2>2. fetching \in Fetches /\ \A r \in fetching.reached : r[2] = "public" \/ webConfig.private
      BY <2>1 DEF FetchInBounds
  <2>3. fetching' = [fetching EXCEPT !.pc = "waiting", !.sent = Append(@, fetching.url), !.reached = fetching.reached]
      BY <1>6, <2>2 DEF Reuse, Fetches
  <2>4. fetching.reached \in SUBSET ({url.host : url \in Reachable} \X {"public", "private"})
      BY <2>2 DEF Fetches
  <2> QED
      BY <1>0, <2>1, <2>2, <2>3, <2>4, RequestSent
<1>7. granted' = [grants |-> granted'.grants, rules |-> granted'.rules]
  <2>1. \/ granted' = granted
        \/ \E picked : granted' = [granted EXCEPT !.grants = picked]
        \/ \E rules : granted' = [granted EXCEPT !.rules = rules]
      BY DEF WebNext, webVars, Search, NewTurn, Fetch, Redirected, Connect, Reuse, Fetched
  <2> QED
      BY <2>1
<1>8. CASE Fetched
    BY <1>8 DEF Fetched, FetchInBounds, NoFetch
<1> QED
    BY <1>1, <1>2, <1>3, <1>4, <1>5, <1>6, <1>7, <1>8 DEF WebNext

LEMMA WebSays == WebInv => FetchedAsGranted
<1> SUFFICES ASSUME WebInv, fetching.pc # "none" PROVE FetchedAsGranted
    BY DEF FetchedAsGranted
<1>1. fetching # NoFetch /\ fetching \in Fetches
      <2>1. fetching # NoFetch
      BY DEF NoFetch
  <2> QED
      BY <2>1 DEF WebInv, FetchInBounds
<1> DEFINE all == fetching.sent \o (IF fetching.pc = "sending" THEN <<fetching.url>> ELSE <<>>)
<1>2. /\ Len(all) <= MaxRedirects
      /\ \A i \in DOMAIN all : all[i].host \notin webConfig.deny /\ all[i].host \in webConfig.allow \cup {all[1].host}
  <2>1. fetching.sent \in Seq(Reachable) /\ fetching.url \in Reachable /\ fetching.pc \in {"sending", "waiting"}
        /\ Len(fetching.sent) \in Nat
      BY <1>1 DEF Fetches
  <2>2. CASE fetching.pc = "waiting"
    <3>1. all = fetching.sent
        BY <2>1, <2>2
    <3> QED
        BY <1>1, <2>1, <2>2, <3>1 DEF WebInv, FetchInBounds, SentInBounds, NotDenied
  <2>3. CASE fetching.pc = "sending"
    <3>1. /\ all = fetching.sent \o <<fetching.url>> /\ Len(all) = Len(fetching.sent) + 1
          /\ \A i \in DOMAIN all : (i \in DOMAIN fetching.sent /\ all[i] = fetching.sent[i]) \/ all[i] = fetching.url
          /\ fetching.sent # <<>> => all[1] = fetching.sent[1]
          /\ fetching.sent = <<>> => all[1] = fetching.url /\ DOMAIN fetching.sent = {}
        BY <2>1, <2>3
    <3>2. Len(all) <= MaxRedirects
        BY <1>1, <2>3, <3>1 DEF WebInv, FetchInBounds
    <3>3. \A i \in DOMAIN all : all[i].host \notin webConfig.deny /\ all[i].host \in webConfig.allow \cup {all[1].host}
        BY <1>1, <3>1 DEF WebInv, FetchInBounds, SentInBounds, NotDenied
    <3> QED
        BY <3>2, <3>3
  <2> QED
      BY <2>1, <2>2, <2>3
<1> QED
    BY <1>1, <1>2 DEF FetchedAsGranted, WebInv, FetchInBounds

-------------------------------------------------------------------------------
\* The tools an agent forges (ScriptTools).

ForgePlaces ==
    {"asksCreate", "asksRun", "asksDelete", "writesScript", "writesManifest", "registers", "runs",
     "removesScript", "removesManifest", "forgets"}
ForgeCalls == [pc : ForgePlaces, language : Languages, code : Nat]

ForgeTyped ==
    /\ forging \in [Forgers -> {Ready} \cup ForgeCalls]
    /\ scripts \in [Languages -> Nat]
    /\ manifest \in Languages \cup {NoLanguage} /\ listed \in Languages \cup {NoLanguage}
    /\ forged \in [calls : Nat, faults : Nat, approved : SUBSET Nat, ran : SUBSET Nat, doubts : SUBSET {"overlap", "fault"}]

\* Code that may be in a script.
MayBeWritten == forged.approved \cup {0, Cut}

OnlyApproved ==
    /\ forged.ran \subseteq MayBeWritten /\ \A l \in Languages : scripts[l] \in MayBeWritten
    /\ \A f \in Forgers : /\ forging[f].pc \in {"asksCreate", "writesScript"} => forging[f].code # 0
                          /\ forging[f].pc = "writesScript" => forging[f].code \in forged.approved

\* Calls at these places are about to settle what is listed.
Unsettled == {"registers", "removesManifest", "forgets"}
ListedKept == listed # NoLanguage => listed = manifest /\ scripts[listed] # 0

\* A call at its place, where no other is at work.
InStep(call) ==
    /\ call.pc \in {"writesManifest", "registers"} => scripts[call.language] # 0
    /\ call.pc = "registers" => manifest = call.language
    /\ call.pc \in {"asksRun", "runs"} => call.language = listed /\ listed # NoLanguage

InOrder ==
    forged.doubts = {} =>
        /\ \A f, g \in Forgers : f # g => forging[f] = Ready \/ forging[g] = Ready
        /\ ListedKept \/ \E f \in Forgers : forging[f].pc \in Unsettled
        /\ \A f \in Forgers : InStep(forging[f])

ForgeInv == ForgeTyped /\ OnlyApproved /\ InOrder

LEMMA ForgeBegins == ForgeInit => ForgeInv
<1> SUFFICES ASSUME ForgeInit PROVE ForgeInv
    OBVIOUS
<1>1. ForgeTyped
    BY DEF ForgeInit, ForgeTyped, Unforged
<1>2. \A f \in Forgers : forging[f] = Ready /\ forging[f].pc = "none"
    BY DEF ForgeInit, Ready
<1>3. OnlyApproved
    BY <1>2 DEF ForgeInit, OnlyApproved, MayBeWritten, Unforged
<1>4. InOrder
    BY <1>2 DEF ForgeInit, InOrder, ListedKept, InStep
<1> QED
    BY <1>1, <1>3, <1>4 DEF ForgeInv

\* A call at work is the only one where nothing overlapped or failed.
LEMMA OneAtWork ==
    ASSUME ForgeInv, forged.doubts = {}, NEW f \in Forgers, forging[f].pc # "none"
    PROVE  /\ \A g \in Forgers : g # f => forging[g] = Ready
           /\ forging[f].pc \notin Unsettled => ListedKept
           /\ InStep(forging[f])
<1>1. Ready.pc = "none" /\ "none" \notin Unsettled
    BY DEF Ready, Unsettled
<1>2. \A g \in Forgers : g # f => forging[g] = Ready
    BY <1>1 DEF ForgeInv, InOrder
<1> QED
    BY <1>1, <1>2 DEF ForgeInv, InOrder

\* One call takes a step, begins or ends.
LEMMA CallSteps ==
    ASSUME ForgeInv, ForgeTyped', NEW f \in Forgers, NEW r \in {Ready} \cup ForgeCalls,
           forging' = [forging EXCEPT ![f] = r],
           forged.approved \subseteq forged'.approved, forged'.ran \subseteq MayBeWritten',
           \A l \in Languages : scripts'[l] \in MayBeWritten',
           r.pc \in {"asksCreate", "writesScript"} => r.code # 0,
           r.pc = "writesScript" => r.code \in forged'.approved,
           forged'.doubts = {} =>
               /\ \A g \in Forgers : g # f => forging[g] = Ready
               /\ ListedKept' \/ r.pc \in Unsettled
               /\ r.pc \in {"writesManifest", "registers"} => scripts'[r.language] # 0
               /\ r.pc = "registers" => manifest' = r.language
               /\ r.pc \in {"asksRun", "runs"} => r.language = listed' /\ listed' # NoLanguage
    PROVE  ForgeInv'
<1>1. forging'[f] = r /\ \A g \in Forgers : g # f => forging'[g] = forging[g]
    BY DEF ForgeInv, ForgeTyped
<1>2. OnlyApproved'
    BY <1>1 DEF ForgeInv, OnlyApproved
<1>3. InOrder'
  <2> SUFFICES ASSUME forged'.doubts = {}
               PROVE  /\ \A g, h \in Forgers : g # h => forging'[g] = Ready \/ forging'[h] = Ready
                      /\ ListedKept' \/ \E g \in Forgers : forging'[g].pc \in Unsettled
                      /\ \A g \in Forgers : InStep(forging[g])'
      BY DEF InOrder
  <2>1. \A g \in Forgers : g # f => forging'[g] = Ready
      BY <1>1
  <2>2. \A g \in Forgers : InStep(forging[g])'
      BY <1>1, <2>1 DEF InStep, Ready
  <2> QED
      BY <1>1, <2>1, <2>2
<1> QED
    BY <1>2, <1>3 DEF ForgeInv

\* A call goes on to another place of its work.
LEMMA CallGoes ==
    ASSUME ForgeTyped, NEW f \in Forgers, forging[f].pc # "none", NEW pc \in ForgePlaces, ForgeGoes(f, pc)
    PROVE  \E r \in ForgeCalls : /\ forging' = [forging EXCEPT ![f] = r]
                                 /\ r.pc = pc /\ r.language = forging[f].language /\ r.code = forging[f].code
                                 /\ forging' \in [Forgers -> {Ready} \cup ForgeCalls]
<1>1. forging[f] \in ForgeCalls
    BY DEF ForgeTyped, Ready
<1>2. [forging[f] EXCEPT !.pc = pc] \in ForgeCalls
    BY <1>1 DEF ForgeCalls
<1>3. forging' = [forging EXCEPT ![f] = [forging[f] EXCEPT !.pc = pc]]
    BY DEF ForgeGoes
<1>4. forging' \in [Forgers -> {Ready} \cup ForgeCalls]
    BY <1>2, <1>3 DEF ForgeTyped
<1> QED
    BY <1>1, <1>2, <1>3, <1>4 DEF ForgeCalls

\* A call begins.
LEMMA CallBegins ==
    ASSUME ForgeInv, NEW f \in Forgers, NEW call \in ForgeCalls, Start(f, call),
           call.pc \in {"asksCreate", "asksRun", "asksDelete"}, call.pc = "asksCreate" => call.code # 0,
           call.pc = "asksRun" => call.language = listed /\ listed # NoLanguage
    PROVE  ForgeInv'
<1>1. /\ UNCHANGED <<scripts, manifest, listed>> /\ forging' = [forging EXCEPT ![f] = call]
      /\ forged' = [forged EXCEPT !.calls = @ + 1, !.doubts = @ \cup IF CallsNow = {} THEN {} ELSE {"overlap"}]
    BY DEF Start
<1> DEFINE doubts == forged.doubts \cup IF CallsNow = {} THEN {} ELSE {"overlap"}
<1>2. /\ doubts \in SUBSET {"overlap", "fault"} /\ forged.calls + 1 \in Nat
      /\ doubts = {} => forged.doubts = {} /\ CallsNow = {}
    BY DEF ForgeInv, ForgeTyped
<1> HIDE DEF doubts
<1>3. forged' = [forged EXCEPT !.calls = @ + 1, !.doubts = doubts]
    BY <1>1 DEF doubts
<1>4. /\ ForgeTyped' /\ forged'.doubts = doubts /\ forged'.approved = forged.approved /\ forged'.ran = forged.ran
    BY <1>1, <1>2, <1>3 DEF ForgeInv, ForgeTyped
<1>5. MayBeWritten' = MayBeWritten /\ ListedKept' = ListedKept
    BY <1>1, <1>4 DEF MayBeWritten, ListedKept
<1>6. ASSUME doubts = {} PROVE (\A g \in Forgers : forging[g] = Ready) /\ ListedKept
  <2>1. forged.doubts = {} /\ \A g \in Forgers : forging[g].pc = "none"
      BY <1>2, <1>6 DEF CallsNow
  <2>2. \A g \in Forgers : forging[g] = Ready
      BY <2>1 DEF ForgeInv, ForgeTyped, ForgeCalls, ForgePlaces
  <2>3. ListedKept
      BY <2>1 DEF ForgeInv, InOrder, Unsettled
  <2> QED
      BY <2>2, <2>3
<1> QED
    BY <1>1, <1>4, <1>5, <1>6, CallSteps DEF ForgeInv, OnlyApproved

\* A call ends, as it is refused or done.
LEMMA CallEnds ==
    ASSUME ForgeInv, ForgeTyped', NEW f \in Forgers, forging[f].pc # "none", Ends(f),
           forged.approved \subseteq forged'.approved, forged'.ran \subseteq MayBeWritten',
           \A l \in Languages : scripts'[l] \in MayBeWritten',
           forged'.doubts = {} => forged.doubts = {} /\ ListedKept'
    PROVE  ForgeInv'
<1>1. forging' = [forging EXCEPT ![f] = Ready] /\ Ready.pc = "none"
    BY DEF Ends, Ready
<1> QED
    BY <1>1, CallSteps, OneAtWork

LEMMA ForgeTypes ==
    ASSUME ForgeInv
    PROVE  /\ ForgeTyped /\ forging \in [Forgers -> {Ready} \cup ForgeCalls] /\ scripts \in [Languages -> Nat]
           /\ forged \in [calls : Nat, faults : Nat, approved : SUBSET Nat, ran : SUBSET Nat, doubts : SUBSET {"overlap", "fault"}]
           /\ \A f \in Forgers : forging[f].pc # "none" => forging[f] \in ForgeCalls /\ forging[f].language \in Languages
           /\ \A l \in Languages : scripts[l] \in MayBeWritten
           /\ forged.ran \subseteq MayBeWritten
           /\ \A f \in Forgers : Ends(f) => forging' \in [Forgers -> {Ready} \cup ForgeCalls]
BY DEF ForgeInv, ForgeTyped, ForgeCalls, Ready, OnlyApproved, Ends

\* Begun, approved or refused.
LEMMA CallIsApproved == ASSUME ForgeInv, NEW f \in Forgers, Approved(f) PROVE ForgeInv'
<1>1. /\ UNCHANGED <<scripts, manifest, listed>> /\ forging[f].pc \in {"asksCreate", "asksRun", "asksDelete"}
    BY DEF Approved
<1>2. ListedKept' = ListedKept
    BY <1>1 DEF ListedKept
<1>3. CASE forging[f].pc = "asksCreate"
  <2>1. ForgeGoes(f, "writesScript") /\ forged' = [forged EXCEPT !.approved = @ \cup {forging[f].code}]
      BY <1>3 DEF Approved
  <2>2. PICK r \in ForgeCalls : /\ forging' = [forging EXCEPT ![f] = r]
                                /\ r.pc = "writesScript" /\ r.code = forging[f].code
                                /\ forging' \in [Forgers -> {Ready} \cup ForgeCalls]
      BY <1>3, <2>1, CallGoes, ForgeTypes DEF ForgePlaces
  <2>3. forged'.approved = forged.approved \cup {forging[f].code} /\ forged'.ran = forged.ran /\ forged'.doubts = forged.doubts
        /\ ForgeTyped'
      BY <1>1, <2>1, <2>2, ForgeTypes DEF ForgeTyped, ForgeCalls
  <2>4. MayBeWritten \subseteq MayBeWritten'
      BY <2>3 DEF MayBeWritten
  <2>5. r.code # 0
      BY <1>3, <2>2 DEF ForgeInv, OnlyApproved
  <2> QED
      BY <1>1, <1>2, <1>3, <2>2, <2>3, <2>4, <2>5, CallSteps, OneAtWork, ForgeTypes DEF Unsettled
<1>4. ASSUME NEW pc \in {"runs", "removesScript"}, ForgeGoes(f, pc), UNCHANGED forged,
             pc = "runs" => forging[f].pc = "asksRun"
      PROVE  ForgeInv'
  <2>1. PICK r \in ForgeCalls : /\ forging' = [forging EXCEPT ![f] = r]
                                /\ r.pc = pc /\ r.language = forging[f].language
                                /\ forging' \in [Forgers -> {Ready} \cup ForgeCalls]
      BY <1>1, <1>4, CallGoes, ForgeTypes DEF ForgePlaces
  <2>2. ForgeTyped' /\ MayBeWritten' = MayBeWritten
      BY <1>1, <1>4, <2>1, ForgeTypes DEF ForgeTyped, MayBeWritten
  <2>3. forged.doubts = {} /\ pc = "runs" => forging[f].language = listed /\ listed # NoLanguage
      BY <1>1, <1>4, OneAtWork DEF InStep
  <2> QED
      BY <1>1, <1>2, <1>4, <2>1, <2>2, <2>3, CallSteps, OneAtWork, ForgeTypes DEF Unsettled
<1> QED
    BY <1>1, <1>3, <1>4 DEF Approved

\* MayBeWritten, run or removed.
LEMMA CallWorks ==
    ASSUME ForgeInv, NEW f \in Forgers,
           \/ NotApproved(f) \/ WriteScript(f) \/ WriteManifest(f) \/ Registered(f) \/ Executes(f)
           \/ RemoveScript(f) \/ RemoveManifest(f) \/ Unlists(f)
    PROVE  ForgeInv'
<1>1. CASE NotApproved(f)
  <2>1. UNCHANGED <<scripts, manifest, listed, forged>> /\ Ends(f) /\ forging[f].pc \in {"asksCreate", "asksRun", "asksDelete"}
      BY <1>1 DEF NotApproved
  <2>2. ListedKept' = ListedKept /\ MayBeWritten' = MayBeWritten /\ ForgeTyped'
      BY <2>1, ForgeTypes DEF ListedKept, MayBeWritten, ForgeTyped
  <2> QED
      BY <2>1, <2>2, CallEnds, OneAtWork, ForgeTypes DEF Unsettled
<1>2. CASE WriteScript(f)
  <2>1. /\ forging[f].pc = "writesScript" /\ ForgeGoes(f, "writesManifest") /\ UNCHANGED <<manifest, listed, forged>>
        /\ scripts' = [scripts EXCEPT ![forging[f].language] = forging[f].code]
      BY <1>2 DEF WriteScript
  <2>2. PICK r \in ForgeCalls : /\ forging' = [forging EXCEPT ![f] = r]
                                /\ r.pc = "writesManifest" /\ r.language = forging[f].language
                                /\ forging' \in [Forgers -> {Ready} \cup ForgeCalls]
      BY <2>1, CallGoes, ForgeTypes DEF ForgePlaces
  <2>3. forging[f].code \in Nat /\ forging[f].code # 0 /\ forging[f].code \in MayBeWritten /\ forging[f].language \in Languages
      BY <2>1, ForgeTypes DEF ForgeInv, OnlyApproved, MayBeWritten, ForgeCalls
  <2>4. scripts' \in [Languages -> Nat] /\ (\A l \in Languages : scripts'[l] \in MayBeWritten)
        /\ scripts'[forging[f].language] # 0 /\ (\A l \in Languages : scripts[l] # 0 => scripts'[l] # 0)
      BY <2>1, <2>3, ForgeTypes
  <2>5. ForgeTyped' /\ MayBeWritten' = MayBeWritten
      BY <2>1, <2>2, <2>4, ForgeTypes DEF ForgeTyped, MayBeWritten
  <2>6. ListedKept => ListedKept'
      BY <2>1, <2>4, ForgeTypes DEF ListedKept, ForgeTyped
  <2> QED
      BY <2>1, <2>2, <2>4, <2>5, <2>6, CallSteps, OneAtWork, ForgeTypes DEF Unsettled
<1>3. CASE WriteManifest(f)
  <2>1. /\ forging[f].pc = "writesManifest" /\ ForgeGoes(f, "registers") /\ UNCHANGED <<scripts, listed, forged>>
        /\ manifest' = forging[f].language
      BY <1>3 DEF WriteManifest
  <2>2. PICK r \in ForgeCalls : /\ forging' = [forging EXCEPT ![f] = r]
                                /\ r.pc = "registers" /\ r.language = forging[f].language
                                /\ forging' \in [Forgers -> {Ready} \cup ForgeCalls]
      BY <2>1, CallGoes, ForgeTypes DEF ForgePlaces
  <2>3. ForgeTyped' /\ MayBeWritten' = MayBeWritten
      BY <2>1, <2>2, ForgeTypes DEF ForgeTyped, MayBeWritten
  <2>4. forged.doubts = {} => scripts[forging[f].language] # 0
      BY <2>1, OneAtWork DEF InStep
  <2> QED
      BY <2>1, <2>2, <2>3, <2>4, CallSteps, OneAtWork, ForgeTypes DEF Unsettled
<1>4. CASE Registered(f)
  <2>1. /\ forging[f].pc = "registers" /\ Ends(f) /\ UNCHANGED <<scripts, manifest, forged>> /\ listed' = forging[f].language
      BY <1>4 DEF Registered
  <2>2. ForgeTyped' /\ MayBeWritten' = MayBeWritten
      BY <2>1, ForgeTypes DEF ForgeTyped, MayBeWritten
  <2>3. forged.doubts = {} => scripts[forging[f].language] # 0 /\ manifest = forging[f].language
      BY <2>1, OneAtWork DEF InStep
  <2>4. forged.doubts = {} => ListedKept'
      BY <2>1, <2>3 DEF ListedKept
  <2> QED
      BY <2>1, <2>2, <2>4, CallEnds, ForgeTypes
<1>5. CASE Executes(f)
  <2>1. /\ forging[f].pc = "runs" /\ Ends(f) /\ UNCHANGED <<scripts, manifest, listed>>
        /\ forged' = [forged EXCEPT !.ran = @ \cup ({scripts[forging[f].language]} \ {0})]
      BY <1>5 DEF Executes
  <2>2. scripts[forging[f].language] \in MayBeWritten \cap Nat
      BY <2>1, ForgeTypes
  <2>3. /\ ForgeTyped' /\ forged'.approved = forged.approved /\ forged'.doubts = forged.doubts
        /\ forged'.ran \subseteq forged.ran \cup {scripts[forging[f].language]}
      BY <2>1, <2>2, ForgeTypes DEF ForgeTyped
  <2>4. MayBeWritten' = MayBeWritten /\ ListedKept' = ListedKept
      BY <2>1, <2>3 DEF MayBeWritten, ListedKept
  <2> QED
      BY <2>1, <2>2, <2>3, <2>4, CallEnds, OneAtWork, ForgeTypes DEF Unsettled
<1>6. CASE RemoveScript(f)
  <2>1. /\ forging[f].pc = "removesScript" /\ ForgeGoes(f, "removesManifest") /\ UNCHANGED <<manifest, listed, forged>>
        /\ scripts' = [scripts EXCEPT ![forging[f].language] = 0]
      BY <1>6 DEF RemoveScript
  <2>2. PICK r \in ForgeCalls : /\ forging' = [forging EXCEPT ![f] = r] /\ r.pc = "removesManifest"
                                /\ forging' \in [Forgers -> {Ready} \cup ForgeCalls]
      BY <2>1, CallGoes, ForgeTypes DEF ForgePlaces
  <2>3. scripts' \in [Languages -> Nat] /\ \A l \in Languages : scripts'[l] \in {0, scripts[l]}
      BY <2>1, ForgeTypes
  <2>4. ForgeTyped' /\ MayBeWritten' = MayBeWritten /\ 0 \in MayBeWritten
      BY <2>1, <2>2, <2>3, ForgeTypes DEF ForgeTyped, MayBeWritten
  <2> QED
      BY <2>1, <2>2, <2>3, <2>4, CallSteps, OneAtWork, ForgeTypes DEF Unsettled
<1>7. CASE RemoveManifest(f)
  <2>1. /\ forging[f].pc = "removesManifest" /\ ForgeGoes(f, "forgets") /\ UNCHANGED <<scripts, listed, forged>>
        /\ manifest' = NoLanguage
      BY <1>7 DEF RemoveManifest
  <2>2. PICK r \in ForgeCalls : /\ forging' = [forging EXCEPT ![f] = r] /\ r.pc = "forgets"
                                /\ forging' \in [Forgers -> {Ready} \cup ForgeCalls]
      BY <2>1, CallGoes, ForgeTypes DEF ForgePlaces
  <2>3. ForgeTyped' /\ MayBeWritten' = MayBeWritten
      BY <2>1, <2>2, ForgeTypes DEF ForgeTyped, MayBeWritten
  <2> QED
      BY <2>1, <2>2, <2>3, CallSteps, OneAtWork, ForgeTypes DEF Unsettled
<1>8. CASE Unlists(f)
  <2>1. /\ forging[f].pc = "forgets" /\ Ends(f) /\ UNCHANGED <<scripts, manifest, forged>> /\ listed' = NoLanguage
      BY <1>8 DEF Unlists
  <2>2. ForgeTyped' /\ MayBeWritten' = MayBeWritten /\ ListedKept'
      BY <2>1, ForgeTypes DEF ForgeTyped, MayBeWritten, ListedKept
  <2> QED
      BY <2>1, <2>2, CallEnds, ForgeTypes
<1> QED
    BY <1>1, <1>2, <1>3, <1>4, <1>5, <1>6, <1>7, <1>8

\* A step that fails, perhaps half way.
LEMMA CallFails == ASSUME ForgeInv, NEW f \in Forgers, Fault(f) PROVE ForgeInv'
<1>1. /\ forging[f].pc \in {"writesScript", "writesManifest", "removesScript", "removesManifest"} /\ Ends(f) /\ listed' = listed
      /\ forged' = [forged EXCEPT !.faults = @ + 1, !.doubts = @ \cup {"fault"}]
      /\ scripts' \in {scripts, [scripts EXCEPT ![forging[f].language] = Cut]} /\ manifest' \in {manifest, NoLanguage}
    BY DEF Fault
<1>2. Cut \in Nat /\ Cut \in MayBeWritten
    BY ForgeAssumption DEF Cut, MayBeWritten
<1>3. /\ forged'.approved = forged.approved /\ forged'.ran = forged.ran /\ forged'.doubts # {}
      /\ forged' \in [calls : Nat, faults : Nat, approved : SUBSET Nat, ran : SUBSET Nat, doubts : SUBSET {"overlap", "fault"}]
  <2>1. forged.faults + 1 \in Nat
      BY ForgeTypes
  <2> QED
      BY <1>1, <2>1, ForgeTypes
<1>4. scripts' \in [Languages -> Nat] /\ \A l \in Languages : scripts'[l] \in {scripts[l], Cut}
    BY <1>1, <1>2, ForgeTypes
<1>5. ForgeTyped' /\ MayBeWritten' = MayBeWritten
    BY <1>1, <1>3, <1>4, ForgeTypes DEF ForgeTyped, MayBeWritten
<1> QED
    BY <1>1, <1>2, <1>3, <1>4, <1>5, CallEnds, ForgeTypes

\* A restart lists what can be run.
LEMMA ForgeRestarts == ASSUME ForgeInv, RestartForge PROVE ForgeInv'
<1>1. /\ UNCHANGED <<scripts, manifest>> /\ forging' = [f \in Forgers |-> Ready] /\ listed' = Loaded
      /\ forged' = [forged EXCEPT !.faults = @ + 1, !.doubts = {}]
    BY DEF RestartForge
<1>2. /\ forged'.approved = forged.approved /\ forged'.ran = forged.ran
      /\ forged' \in [calls : Nat, faults : Nat, approved : SUBSET Nat, ran : SUBSET Nat, doubts : SUBSET {"overlap", "fault"}]
  <2>1. forged.faults + 1 \in Nat
      BY ForgeTypes
  <2> QED
      BY <1>1, <2>1, ForgeTypes
<1>3. ForgeTyped' /\ MayBeWritten' = MayBeWritten /\ ListedKept'
    BY <1>1, <1>2, ForgeTypes DEF ForgeTyped, MayBeWritten, ListedKept, Loaded
<1>4. \A f \in Forgers : forging'[f] = Ready /\ forging'[f].pc = "none"
    BY <1>1 DEF Ready
<1>5. OnlyApproved'
    BY <1>1, <1>2, <1>3, <1>4, ForgeTypes DEF OnlyApproved
<1>6. InOrder'
    BY <1>3, <1>4 DEF InOrder, InStep
<1> QED
    BY <1>3, <1>5, <1>6 DEF ForgeInv

LEMMA ForgeStep == ForgeInv /\ [ForgeNext]_forgeVars => ForgeInv'
<1> SUFFICES ASSUME ForgeInv, [ForgeNext]_forgeVars PROVE ForgeInv'
    OBVIOUS
<1>1. ASSUME NEW f \in Forgers, NEW l \in Languages, Create(f, l) PROVE ForgeInv'
  <2> DEFINE call == [pc |-> "asksCreate", language |-> l, code |-> forged.calls + 1]
  <2>1. forged.calls \in Nat
      BY ForgeTypes
  <2>2. call \in ForgeCalls /\ call.pc = "asksCreate" /\ call.code # 0
      BY <2>1 DEF ForgeCalls, ForgePlaces
  <2>3. Start(f, call)
      BY <1>1 DEF Create
  <2> HIDE DEF call
  <2> QED
      BY <2>2, <2>3, CallBegins
<1>2. ASSUME NEW f \in Forgers, NEW pc \in {"asksRun", "asksDelete"}, listed # NoLanguage,
             Start(f, [pc |-> pc, language |-> listed, code |-> 0])
      PROVE  ForgeInv'
  <2> DEFINE call == [pc |-> pc, language |-> listed, code |-> 0]
  <2>1. call \in ForgeCalls /\ call.pc \in {"asksRun", "asksDelete"} /\ call.language = listed
      BY <1>2, ForgeTypes DEF ForgeTyped, ForgeCalls, ForgePlaces
  <2>2. Start(f, call)
      BY <1>2
  <2> HIDE DEF call
  <2> QED
      BY <1>2, <2>1, <2>2, CallBegins
<1>3. CASE UNCHANGED forgeVars
  <2>1. /\ ForgeTyped' = ForgeTyped /\ OnlyApproved' = OnlyApproved /\ forged' = forged /\ forging' = forging
        /\ ListedKept' = ListedKept
      BY <1>3 DEF forgeVars, ForgeTyped, OnlyApproved, MayBeWritten, ListedKept
  <2>2. InOrder' = InOrder
      BY <1>3, <2>1 DEF forgeVars, InOrder, InStep
  <2> QED
      BY <2>1, <2>2 DEF ForgeInv
<1> QED
    BY <1>1, <1>2, <1>3, CallIsApproved, CallWorks, CallFails, ForgeRestarts DEF ForgeNext, RunForged, Delete

LEMMA ForgeSays == ForgeInv => ForgedSound
<1> SUFFICES ASSUME ForgeInv PROVE ForgedSound
    OBVIOUS
<1>1. forged.ran \cup {scripts[l] : l \in Languages} \subseteq forged.approved \cup {0, Cut}
    BY DEF ForgeInv, OnlyApproved, MayBeWritten
<1>2. forged.doubts = {} /\ CallsNow = {} /\ listed # NoLanguage => listed = manifest /\ scripts[listed] # 0
  <2> SUFFICES ASSUME forged.doubts = {}, CallsNow = {}, listed # NoLanguage PROVE ListedKept
      BY DEF ListedKept
  <2>1. \A f \in Forgers : forging[f].pc = "none"
      BY DEF CallsNow
  <2> QED
      BY <2>1 DEF ForgeInv, InOrder, Unsettled
<1>3. ASSUME NEW f \in Forgers, forged.doubts = {}, forging[f].pc = "runs" PROVE scripts[forging[f].language] # 0
  <2>1. ListedKept /\ InStep(forging[f])
      BY <1>3, OneAtWork DEF Unsettled
  <2> QED
      BY <1>3, <2>1 DEF ListedKept, InStep
<1> QED
    BY <1>1, <1>2, <1>3 DEF ForgedSound

-------------------------------------------------------------------------------
\* Which workers run and when (Schedules).

\* Entries the store may hold, and those that let nothing run.
Reviewed == {e \in EntriesOf : e.enabled => e.hash \in asked}
TurnedOffOnly == {e \in EntriesOf : ~e.enabled}

ScanRecords ==
    [pc : {"idle", "loading", "checking", "registering", "pruning", "done"}, loaded : Hashes \cup {NoHash},
     seen : BOOLEAN, alone : BOOLEAN]

ScheduleTyped ==
    /\ content \in Hashes \cup {NoHash} /\ cron \in Hashes \cup {NoHash} /\ asked \subseteq Hashes
    /\ stored \in Reviewed /\ saved \in Reviewed
    /\ scan \in [Scanners -> ScanRecords]
    /\ review \in [enable : [pc : {"idle", "setting"}, hash : Hashes \cup {NoHash}, loaded : Hashes \cup {NoHash}],
                   disable : [pc : {"idle", "setting"}, read : Reviewed]]
    /\ review.enable.pc = "setting" => review.enable.hash \in asked
    /\ launch \in [pc : {"idle", "checking", "running"}, hash : Hashes \cup {NoHash}, off : BOOLEAN]
    /\ off \in BOOLEAN

\* Once a worker is off nothing turns it on but EnableWorker.
OffStays == off => stored \in TurnedOffOnly /\ saved \in TurnedOffOnly /\ review.enable.pc = "idle"

\* What a rescan that nothing disturbed knows at its place.
Knows(v) ==
    /\ v.pc = "checking" => v.loaded = content
    /\ v.pc = "registering" => v.loaded = content /\ v.seen /\ Enabled(content)
    /\ v.pc = "pruning" => IF v.seen THEN cron = content /\ Enabled(content) ELSE ~Enabled(content)
    /\ v.pc = "done" => cron = Wanted

AloneKnows ==
    \A r \in Scanners : scan[r].alone /\ scan[r].pc # "idle" => Others(r) = {} /\ Knows(scan[r])

ScheduleInv == ScheduleTyped /\ OffStays /\ RunsAsReviewed /\ AloneKnows

LEMMA ScheduleBegins == ScheduleInit => ScheduleInv
<1> SUFFICES ASSUME ScheduleInit PROVE ScheduleInv
    OBVIOUS
<1>1. ScheduleTyped
  <2>1. NoEntry \in Reviewed
      BY DEF NoEntry, Reviewed, EntriesOf
  <2>2. scan \in [Scanners -> ScanRecords]
      BY DEF ScheduleInit, AtEase, ScanRecords
  <2>3. review \in [enable : [pc : {"idle", "setting"}, hash : Hashes \cup {NoHash}, loaded : Hashes \cup {NoHash}],
                    disable : [pc : {"idle", "setting"}, read : Reviewed]] /\ review.enable.pc = "idle"
      BY <2>1 DEF ScheduleInit, NoReview
  <2>4. launch \in [pc : {"idle", "checking", "running"}, hash : Hashes \cup {NoHash}, off : BOOLEAN]
      BY DEF ScheduleInit, NoLaunch
  <2>5. /\ content \in Hashes \cup {NoHash} /\ cron \in Hashes \cup {NoHash} /\ asked \subseteq Hashes
        /\ stored \in Reviewed /\ saved \in Reviewed /\ off \in BOOLEAN
      BY <2>1 DEF ScheduleInit
  <2>6. review.enable.pc = "setting" => review.enable.hash \in asked
      BY <2>3
  <2>7. review \in [enable : [pc : {"idle", "setting"}, hash : Hashes \cup {NoHash}, loaded : Hashes \cup {NoHash}],
                    disable : [pc : {"idle", "setting"}, read : Reviewed]]
      BY <2>3
  <2> QED
      BY <2>2, <2>4, <2>5, <2>6, <2>7, Zenon DEF ScheduleTyped
<1>2. AloneKnows
    BY DEF ScheduleInit, AloneKnows, AtEase
<1>3. OffStays
    BY DEF ScheduleInit, OffStays
<1>4. RunsAsReviewed
    BY DEF ScheduleInit, RunsAsReviewed, NoLaunch
<1> QED
    BY <1>1, <1>2, <1>3, <1>4 DEF ScheduleInv

\* A rescan that is disturbed knows nothing for sure, and none goes on alone.
LEMMA DisturbedKnow ==
    ASSUME ScheduleTyped, scan' = Disturbed
    PROVE  scan' \in [Scanners -> ScanRecords] /\ AloneKnows'
<1>1. \A r \in Scanners : [scan[r] EXCEPT !.alone = FALSE] \in ScanRecords /\ [scan[r] EXCEPT !.alone = FALSE].alone = FALSE
  <2>1. \A v \in ScanRecords : [v EXCEPT !.alone = FALSE] \in ScanRecords /\ [v EXCEPT !.alone = FALSE].alone = FALSE
      BY DEF ScanRecords
  <2>2. \A r \in Scanners : scan[r] \in ScanRecords
      BY DEF ScheduleTyped
  <2> QED
      BY <2>1, <2>2
<1>2. \A r \in Scanners : scan'[r] = [scan[r] EXCEPT !.alone = FALSE]
    BY DEF Disturbed
<1>3. scan' \in [Scanners -> ScanRecords]
    BY <1>1 DEF Disturbed
<1> QED
    BY <1>1, <1>2, <1>3 DEF AloneKnows

\* Steps that leave the rescans and what they look at.
LEMMA ScansStay ==
    ASSUME AloneKnows, UNCHANGED <<content, stored, cron, scan>>
    PROVE  AloneKnows'
BY DEF AloneKnows, Others, Knows, Enabled, Wanted

\* The store is written: in memory, and in its file unless that fails.
LEMMA EntryIsSet ==
    ASSUME ScheduleInv, NEW e \in Reviewed, Set(e), UNCHANGED <<content, cron, launch, asked>>,
           review' \in [enable : [pc : {"idle", "setting"}, hash : Hashes \cup {NoHash}, loaded : Hashes \cup {NoHash}],
                        disable : [pc : {"idle", "setting"}, read : Reviewed]],
           review'.enable.pc = "setting" => review'.enable.hash \in asked, off' \in BOOLEAN,
           off' => /\ e \in TurnedOffOnly /\ review'.enable.pc = "idle"
                   /\ saved' = e \/ off
    PROVE  ScheduleInv'
<1>1. stored' = e /\ saved' \in {saved, e} /\ scan' = Disturbed /\ Reviewed' = Reviewed
    BY DEF Set, Reviewed
<1>2. scan' \in [Scanners -> ScanRecords] /\ AloneKnows'
    BY <1>1, DisturbedKnow DEF ScheduleInv
<1>3. ScheduleTyped'
    BY <1>1, <1>2 DEF ScheduleInv, ScheduleTyped
<1>4. OffStays' /\ RunsAsReviewed'
    BY <1>1 DEF ScheduleInv, OffStays, RunsAsReviewed, TurnedOffOnly
<1> QED
    BY <1>2, <1>3, <1>4 DEF ScheduleInv

\* Reviews: EnableWorker and DisableWorker.
LEMMA ReviewsKeep ==
    ASSUME ScheduleInv, EnableSets \/ DisableReads \/ DisableSets \/ \E h \in Hashes : EnableLoads(h)
    PROVE  ScheduleInv'
<1>0. /\ review \in [enable : [pc : {"idle", "setting"}, hash : Hashes \cup {NoHash}, loaded : Hashes \cup {NoHash}],
                     disable : [pc : {"idle", "setting"}, read : Reviewed]]
      /\ review.enable.pc = "setting" => review.enable.hash \in asked
      /\ stored \in Reviewed /\ saved \in Reviewed /\ off \in BOOLEAN /\ ScheduleTyped
    BY DEF ScheduleInv, ScheduleTyped
<1>1. ASSUME NEW h \in Hashes, EnableLoads(h) PROVE ScheduleInv'
  <2>1. /\ UNCHANGED <<content, stored, saved, cron, scan, launch>> /\ asked' = asked \cup {h} /\ off' = FALSE
        /\ review' = [review EXCEPT !.enable = [pc |-> "setting", hash |-> h, loaded |-> content]]
      BY <1>1 DEF EnableLoads
  <2>2. Reviewed \subseteq Reviewed'
      BY <2>1 DEF Reviewed
  <2>3. /\ review' \in [enable : [pc : {"idle", "setting"}, hash : Hashes \cup {NoHash}, loaded : Hashes \cup {NoHash}],
                        disable : [pc : {"idle", "setting"}, read : Reviewed']]
        /\ review'.enable.hash = h
    <3>1. [pc |-> "setting", hash |-> h, loaded |-> content] \in
              [pc : {"idle", "setting"}, hash : Hashes \cup {NoHash}, loaded : Hashes \cup {NoHash}]
        BY <1>0 DEF ScheduleTyped
    <3> QED
        BY <1>0, <2>1, <2>2, <3>1
  <2>4. ScheduleTyped'
      BY <2>1, <2>2, <2>3 DEF ScheduleInv, ScheduleTyped
  <2> QED
      BY <2>1, <2>4, ScansStay DEF ScheduleInv, OffStays, RunsAsReviewed
<1>2. CASE EnableSets
  <2>1. /\ review.enable.pc = "setting" /\ UNCHANGED <<content, cron, launch, asked, off>>
        /\ review' = [review EXCEPT !.enable = NoReview.enable]
      BY <1>2 DEF EnableSets
  <2>2. /\ review' \in [enable : [pc : {"idle", "setting"}, hash : Hashes \cup {NoHash}, loaded : Hashes \cup {NoHash}],
                        disable : [pc : {"idle", "setting"}, read : Reviewed]]
        /\ review'.enable.pc = "idle"
    <3>1. NoReview.enable = [pc |-> "idle", hash |-> NoHash, loaded |-> NoHash]
        BY DEF NoReview
    <3> QED
        BY <1>0, <2>1, <3>1
  <2>3. ~off
      BY <2>1 DEF ScheduleInv, OffStays
  <2>4. CASE Matches(review.enable.hash, review.enable.loaded)
    <3> DEFINE e == [hash |-> review.enable.loaded, enabled |-> TRUE]
    <3>1. e \in Reviewed
        BY <1>0, <2>1, <2>4 DEF Matches, Reviewed, EntriesOf
    <3>2. Set(e)
        BY <1>2, <2>4 DEF EnableSets
    <3> HIDE DEF e
    <3> QED
        BY <1>0, <2>1, <2>2, <2>3, <3>1, <3>2, EntryIsSet
  <2>5. CASE ~Matches(review.enable.hash, review.enable.loaded)
    <3>1. UNCHANGED <<stored, saved, scan>> /\ Reviewed' = Reviewed
        BY <1>2, <2>1, <2>5 DEF EnableSets, Reviewed
    <3>2. ScheduleTyped'
        BY <2>1, <2>2, <3>1 DEF ScheduleInv, ScheduleTyped
    <3> QED
        BY <2>1, <2>3, <3>1, <3>2, ScansStay DEF ScheduleInv, OffStays, RunsAsReviewed
  <2> QED
      BY <2>4, <2>5
<1>3. CASE DisableReads
  <2>1. /\ UNCHANGED <<content, stored, saved, cron, scan, launch, asked, off>>
        /\ review' = [review EXCEPT !.disable = [pc |-> "setting", read |-> stored]]
      BY <1>3 DEF DisableReads
  <2>2. /\ review' \in [enable : [pc : {"idle", "setting"}, hash : Hashes \cup {NoHash}, loaded : Hashes \cup {NoHash}],
                        disable : [pc : {"idle", "setting"}, read : Reviewed]]
        /\ review'.enable = review.enable
    <3>1. [pc |-> "setting", read |-> stored] \in [pc : {"idle", "setting"}, read : Reviewed]
        BY <1>0
    <3> QED
        BY <1>0, <2>1, <3>1
  <2>3. ScheduleTyped'
      BY <2>1, <2>2 DEF ScheduleInv, ScheduleTyped, Reviewed
  <2> QED
      BY <2>1, <2>2, <2>3, ScansStay DEF ScheduleInv, OffStays, RunsAsReviewed, TurnedOffOnly
<1>4. CASE DisableSets
  <2> DEFINE e == TurnedOff(review.disable.read)
  <2>1. /\ Set(e) /\ UNCHANGED <<content, cron, launch, asked>>
        /\ off' = (off \/ (saved' = stored' /\ review.enable.pc = "idle"))
        /\ review' = [review EXCEPT !.disable = NoReview.disable]
      BY <1>4, <1>0 DEF DisableSets
  <2>2. e \in Reviewed /\ e \in TurnedOffOnly
    <3>1. review.disable.read \in EntriesOf
        BY <1>0 DEF Reviewed
    <3>2. e \in EntriesOf /\ e.enabled = FALSE
        BY <3>1 DEF TurnedOff, EntriesOf
    <3> QED
        BY <3>2 DEF Reviewed, TurnedOffOnly
  <2>3. /\ review' \in [enable : [pc : {"idle", "setting"}, hash : Hashes \cup {NoHash}, loaded : Hashes \cup {NoHash}],
                        disable : [pc : {"idle", "setting"}, read : Reviewed]]
        /\ review'.enable = review.enable
    <3>1. NoReview.disable \in [pc : {"idle", "setting"}, read : Reviewed]
        BY DEF NoReview, NoEntry, Reviewed, EntriesOf
    <3> QED
        BY <1>0, <2>1, <3>1
  <2> HIDE DEF e
  <2>4. off' => review'.enable.pc = "idle" /\ (saved' = e \/ off)
      BY <2>1, <2>3 DEF Set, ScheduleInv, OffStays
  <2> QED
      BY <1>0, <2>1, <2>2, <2>3, <2>4, EntryIsSet
<1> QED
    BY <1>1, <1>2, <1>3, <1>4

\* Rescans.
LEMMA RescansKeep ==
    ASSUME ScheduleInv, NEW r \in Scanners,
           \/ RescanStarts(r) \/ LoadFiles(r) \/ CheckState(r) \/ RegisterEntry(r) \/ Prune(r) \/ RescanReturns(r)
    PROVE  ScheduleInv'
<1>0. /\ UNCHANGED <<content, stored, saved, review, launch, asked, off>> /\ Reviewed' = Reviewed /\ Enabled(content)' = Enabled(content)
    BY DEF RescanStarts, LoadFiles, CheckState, RegisterEntry, Prune, RescanReturns, Reviewed, Enabled
<1>1. scan \in [Scanners -> ScanRecords] /\ content \in Hashes \cup {NoHash} /\ cron \in Hashes \cup {NoHash}
    BY DEF ScheduleInv, ScheduleTyped
<1>2. ASSUME NEW v \in ScanRecords, scan' = [scan EXCEPT ![r] = v], cron' \in Hashes \cup {NoHash},
             v.pc # "idle" => scan[r].pc \notin {"idle", "done"} /\ v.alone = scan[r].alone,
             scan[r].pc # "idle", cron' # cron => scan[r].pc # "done",
             scan[r].alone /\ v.pc # "idle" => Knows(v)'
      PROVE  ScheduleInv'
  <2>1. /\ scan' \in [Scanners -> ScanRecords] /\ scan'[r] = v
        /\ \A q \in Scanners : q # r => scan'[q] = scan[q]
      BY <1>1, <1>2
  <2>2. ASSUME NEW q \in Scanners, scan'[q].alone, scan'[q].pc # "idle" PROVE Others(q)' = {} /\ Knows(scan[q])'
    <3>1. CASE q = r
      <4>1. Others(r) = {} /\ scan[r].alone
          BY <1>2, <2>1, <2>2, <3>1 DEF ScheduleInv, AloneKnows
      <4>2. Others(r)' = {}
          BY <2>1, <4>1 DEF Others
      <4> QED
          BY <1>2, <2>1, <2>2, <3>1, <4>1, <4>2
    <3>2. CASE q # r
      <4>1. scan[q].alone /\ scan[q].pc # "idle" /\ Others(q) = {} /\ Knows(scan[q]) /\ scan'[q] = scan[q]
          BY <2>1, <2>2, <3>2 DEF ScheduleInv, AloneKnows
      <4>2. scan[r].pc = "done"
          BY <1>2, <3>2, <4>1 DEF Others
      <4>3. cron' = cron
          BY <1>2, <4>2
      <4>4. v.pc = "idle"
          BY <1>2, <4>2
      <4>5. Others(q)' = {}
          BY <2>1, <3>2, <4>1, <4>4 DEF Others
      <4> QED
          BY <1>0, <1>2, <4>1, <4>2, <4>3, <4>5 DEF Knows, Wanted, Enabled
    <3> QED
        BY <3>1, <3>2
  <2>3. AloneKnows'
      BY <2>2 DEF AloneKnows
  <2>4. ScheduleTyped'
      BY <1>0, <1>2, <2>1 DEF ScheduleInv, ScheduleTyped
  <2> QED
      BY <1>0, <2>3, <2>4 DEF ScheduleInv, OffStays, RunsAsReviewed, TurnedOffOnly
<1>3. scan[r] \in ScanRecords /\ (scan[r].alone /\ scan[r].pc # "idle" => Knows(scan[r]))
    BY <1>1 DEF ScheduleInv, AloneKnows
<1>4. CASE RescanStarts(r)
  <2>0. PICK v : v = [AtEase EXCEPT !.pc = IF stored.enabled THEN "loading" ELSE "pruning", !.alone = Others(r) = {}]
      OBVIOUS
  <2>1. /\ cron' = cron /\ scan[r].pc = "idle"
        /\ scan' = [q \in Scanners |-> IF q = r THEN v ELSE Disturbed[q]]
      BY <1>4, <2>0 DEF RescanStarts
  <2>2. /\ v \in ScanRecords /\ v.seen = FALSE /\ v.alone = (Others(r) = {})
        /\ v.pc = IF stored.enabled THEN "loading" ELSE "pruning"
      BY <2>0 DEF AtEase, ScanRecords
  <2>3. \A q \in Scanners : /\ Disturbed[q] \in ScanRecords
                              /\ Disturbed[q].alone = FALSE /\ Disturbed[q].pc = scan[q].pc
      BY <1>1 DEF Disturbed, ScanRecords
  <2>4. /\ scan' \in [Scanners -> ScanRecords] /\ scan'[r] = v
        /\ \A q \in Scanners : q # r => scan'[q].alone = FALSE /\ scan'[q].pc = scan[q].pc
      BY <2>1, <2>2, <2>3
  <2>5. Others(r)' = Others(r)
      BY <2>4 DEF Others
  <2>6. Knows(v)'
    <3>1. CASE stored.enabled
        BY <2>2, <3>1 DEF Knows
    <3>2. CASE ~stored.enabled
      <4>1. ~Enabled(content)'
          BY <1>0, <3>2 DEF Enabled
      <4> QED
          BY <2>2, <3>2, <4>1 DEF Knows
    <3> QED
        BY <3>1, <3>2
  <2>7. AloneKnows'
    <3>1. ASSUME NEW q \in Scanners, scan'[q].alone PROVE Others(q)' = {} /\ Knows(scan[q])'
      <4>1. q = r
          BY <2>4, <3>1
      <4> QED
          BY <2>2, <2>4, <2>5, <2>6, <3>1, <4>1
    <3> QED
        BY <3>1 DEF AloneKnows
  <2>8. ScheduleTyped'
      BY <1>0, <2>1, <2>4 DEF ScheduleInv, ScheduleTyped
  <2> QED
      BY <1>0, <2>7, <2>8 DEF ScheduleInv, OffStays, RunsAsReviewed, TurnedOffOnly
<1>5. CASE LoadFiles(r)
  <2>0. PICK v : v = [scan[r] EXCEPT !.pc = "checking", !.loaded = content]
      OBVIOUS
  <2>1. /\ v \in ScanRecords /\ v.pc = "checking" /\ v.loaded = content /\ v.alone = scan[r].alone
      BY <1>1, <1>3, <2>0 DEF ScanRecords
  <2>2. scan' = [scan EXCEPT ![r] = v] /\ cron' = cron /\ scan[r].pc = "loading"
      BY <1>5, <2>0 DEF LoadFiles
  <2>3. Knows(v)'
      BY <1>0, <2>1 DEF Knows
  <2> QED
      BY <1>1, <1>2, <2>1, <2>2, <2>3
<1>6. CASE CheckState(r)
  <2>9. PICK v : v = [scan[r] EXCEPT !.seen = Enabled(scan[r].loaded),
                                     !.pc = IF Enabled(scan[r].loaded) THEN "registering" ELSE "pruning"]
      OBVIOUS
  <2>0. Enabled(scan[r].loaded) \in BOOLEAN
      BY <1>1 DEF Enabled, ScheduleInv, ScheduleTyped, Reviewed, EntriesOf
  <2>1. /\ v \in ScanRecords /\ v.loaded = scan[r].loaded /\ v.alone = scan[r].alone
        /\ v.seen = Enabled(scan[r].loaded) /\ v.pc = IF Enabled(scan[r].loaded) THEN "registering" ELSE "pruning"
      BY <1>3, <2>0, <2>9 DEF ScanRecords
  <2>2. scan' = [scan EXCEPT ![r] = v] /\ cron' = cron /\ scan[r].pc = "checking"
      BY <1>6, <2>9 DEF CheckState
  <2>3. scan[r].alone => Knows(v)'
    <3> SUFFICES ASSUME scan[r].alone PROVE Knows(v)'
        OBVIOUS
    <3>1. scan[r].loaded = content
        BY <1>3, <2>2 DEF Knows
    <3>2. CASE Enabled(content)
        BY <1>0, <2>1, <3>1, <3>2 DEF Knows
    <3>3. CASE ~Enabled(content)
        BY <1>0, <2>1, <3>1, <3>3 DEF Knows
    <3> QED
        BY <3>2, <3>3
  <2> QED
      BY <1>1, <1>2, <2>1, <2>2, <2>3
<1>7. CASE RegisterEntry(r)
  <2>0. PICK v : v = [scan[r] EXCEPT !.pc = "pruning"]
      OBVIOUS
  <2>1. /\ v \in ScanRecords /\ v.pc = "pruning" /\ v.alone = scan[r].alone /\ v.seen = scan[r].seen
      BY <1>3, <2>0 DEF ScanRecords
  <2>2. scan' = [scan EXCEPT ![r] = v] /\ cron' = scan[r].loaded /\ scan[r].pc = "registering"
      BY <1>7, <2>0 DEF RegisterEntry, Kept
  <2>3. cron' \in Hashes \cup {NoHash}
      BY <1>3, <2>2 DEF ScanRecords
  <2>4. scan[r].alone => Knows(v)'
      BY <1>0, <1>3, <2>1, <2>2 DEF Knows
  <2> QED
      BY <1>2, <2>1, <2>2, <2>3, <2>4
<1>8. CASE Prune(r)
  <2>0. PICK v : v = [scan[r] EXCEPT !.pc = "done"]
      OBVIOUS
  <2>1. /\ v \in ScanRecords /\ v.pc = "done" /\ v.alone = scan[r].alone
      BY <1>3, <2>0 DEF ScanRecords
  <2>2. scan' = [scan EXCEPT ![r] = v] /\ cron' = (IF scan[r].seen THEN cron ELSE NoHash) /\ scan[r].pc = "pruning"
      BY <1>8, <2>0 DEF Prune
  <2>3. scan[r].alone => Knows(v)'
    <3> SUFFICES ASSUME scan[r].alone PROVE cron' = Wanted'
        BY <2>1 DEF Knows
    <3>1. IF scan[r].seen THEN cron = content /\ Enabled(content) ELSE ~Enabled(content)
        BY <1>3, <2>2 DEF Knows
    <3> QED
        BY <1>0, <2>2, <3>1 DEF Wanted
  <2> QED
      BY <1>1, <1>2, <2>1, <2>2, <2>3
<1>9. CASE RescanReturns(r)
  <2>1. AtEase \in ScanRecords /\ AtEase.pc = "idle"
      BY DEF AtEase, ScanRecords
  <2>2. scan' = [scan EXCEPT ![r] = AtEase] /\ cron' = cron /\ scan[r].pc = "done"
      BY <1>9 DEF RescanReturns
  <2> QED
      BY <1>1, <1>2, <2>1, <2>2
<1> QED
    BY <1>4, <1>5, <1>6, <1>7, <1>8, <1>9

\* Runs: what was loaded is what is checked, and what runs.
LEMMA LaunchesKeep ==
    ASSUME ScheduleInv, LaunchChecks \/ LaunchEnds \/ \E why \in {"tick", "due", "manual"} : LaunchLoads(why)
    PROVE  ScheduleInv'
<1>0. /\ UNCHANGED <<content, stored, saved, cron, scan, review, asked, off>> /\ Reviewed' = Reviewed
    BY DEF LaunchChecks, LaunchEnds, LaunchLoads, Reviewed
<1>1. /\ launch \in [pc : {"idle", "checking", "running"}, hash : Hashes \cup {NoHash}, off : BOOLEAN]
      /\ stored \in Reviewed /\ content \in Hashes \cup {NoHash}
    BY DEF ScheduleInv, ScheduleTyped
<1>2. ASSUME launch' \in [pc : {"idle", "checking", "running"}, hash : Hashes \cup {NoHash}, off : BOOLEAN],
             launch'.pc = "running" => launch'.hash \in asked /\ ~launch'.off
      PROVE  ScheduleInv'
  <2>1. ScheduleTyped'
      BY <1>0, <1>2 DEF ScheduleInv, ScheduleTyped
  <2> QED
      BY <1>0, <1>2, <2>1, ScansStay DEF ScheduleInv, OffStays, RunsAsReviewed, TurnedOffOnly
<1>3. NoLaunch \in [pc : {"idle", "checking", "running"}, hash : Hashes \cup {NoHash}, off : BOOLEAN] /\ NoLaunch.pc = "idle"
    BY DEF NoLaunch
<1>4. ASSUME NEW why \in {"tick", "due", "manual"}, LaunchLoads(why) PROVE ScheduleInv'
  <2>1. launch' = [pc |-> "checking", hash |-> content, off |-> off]
      BY <1>4 DEF LaunchLoads
  <2>2. off \in BOOLEAN
      BY DEF ScheduleInv, ScheduleTyped
  <2> QED
      BY <1>1, <1>2, <2>1, <2>2
<1>5. CASE LaunchEnds
    BY <1>2, <1>3, <1>5 DEF LaunchEnds
<1>6. CASE LaunchChecks
  <2>1. CASE ~Enabled(launch.hash)
      BY <1>2, <1>3, <1>6, <2>1 DEF LaunchChecks
  <2>2. CASE Enabled(launch.hash)
    <3>1. stored.enabled /\ stored.hash = launch.hash /\ launch.hash \in asked
        BY <1>1, <2>2 DEF Enabled, Reviewed
    <3>2. ~off
        BY <3>1 DEF ScheduleInv, OffStays, TurnedOffOnly
    <3>3. launch' = [launch EXCEPT !.pc = "running", !.off = @ /\ off]
        BY <1>6, <2>2 DEF LaunchChecks
    <3>4. launch' = [launch EXCEPT !.pc = "running", !.off = FALSE]
        BY <3>2, <3>3
    <3>5. /\ launch' \in [pc : {"idle", "checking", "running"}, hash : Hashes \cup {NoHash}, off : BOOLEAN]
          /\ launch'.hash = launch.hash /\ launch'.off = FALSE
        BY <1>1, <3>4
    <3> QED
        BY <1>2, <3>1, <3>5
  <2> QED
      BY <2>1, <2>2
<1> QED
    BY <1>4, <1>5, <1>6

\* The files change, and the process ends and starts again.
LEMMA UpsetsKeep == ASSUME ScheduleInv, EditFiles \/ RestartService PROVE ScheduleInv'
<1>1. CASE EditFiles
  <2>1. /\ UNCHANGED <<stored, saved, cron, review, launch, asked, off>> /\ Reviewed' = Reviewed
        /\ content' \in Hashes \cup {NoHash} /\ scan' = Disturbed
      BY <1>1 DEF EditFiles, Reviewed
  <2>2. scan' \in [Scanners -> ScanRecords] /\ AloneKnows'
      BY <2>1, DisturbedKnow DEF ScheduleInv
  <2>3. ScheduleTyped'
      BY <2>1, <2>2 DEF ScheduleInv, ScheduleTyped
  <2> QED
      BY <2>1, <2>2, <2>3 DEF ScheduleInv, OffStays, RunsAsReviewed, TurnedOffOnly
<1>2. CASE RestartService
  <2>1. /\ UNCHANGED <<content, saved, asked, off>> /\ stored' = saved /\ cron' = NoHash /\ Reviewed' = Reviewed
        /\ scan' = [r \in Scanners |-> AtEase] /\ review' = NoReview /\ launch' = NoLaunch
      BY <1>2 DEF RestartService, Reviewed
  <2>2. AtEase \in ScanRecords /\ AtEase.pc = "idle"
      BY DEF AtEase, ScanRecords
  <2>3. scan' \in [Scanners -> ScanRecords] /\ AloneKnows'
      BY <2>1, <2>2 DEF AloneKnows
  <2>4. /\ NoReview \in [enable : [pc : {"idle", "setting"}, hash : Hashes \cup {NoHash}, loaded : Hashes \cup {NoHash}],
                          disable : [pc : {"idle", "setting"}, read : Reviewed]]
        /\ NoReview.enable.pc = "idle"
    <3>1. NoEntry \in Reviewed
        BY DEF NoEntry, Reviewed, EntriesOf
    <3> QED
        BY <3>1 DEF NoReview
  <2>5. NoLaunch \in [pc : {"idle", "checking", "running"}, hash : Hashes \cup {NoHash}, off : BOOLEAN] /\ NoLaunch.pc = "idle"
      BY DEF NoLaunch
  <2>6. ScheduleTyped'
      BY <2>1, <2>3, <2>4, <2>5 DEF ScheduleInv, ScheduleTyped
  <2> QED
      BY <2>1, <2>3, <2>4, <2>5, <2>6 DEF ScheduleInv, OffStays, RunsAsReviewed, TurnedOffOnly
<1> QED
    BY <1>1, <1>2

LEMMA ScheduleStep == ScheduleInv /\ [ScheduleNext]_scheduleVars => ScheduleInv'
<1>1. ASSUME ScheduleInv, ScheduleNext PROVE ScheduleInv'
    BY <1>1, ReviewsKeep, RescansKeep, LaunchesKeep, UpsetsKeep DEF ScheduleNext
<1>2. ASSUME ScheduleInv, UNCHANGED scheduleVars PROVE ScheduleInv'
  <2>1. UNCHANGED <<content, stored, saved, cron, scan, review, launch, asked, off>> /\ Reviewed' = Reviewed
      BY <1>2 DEF scheduleVars, Reviewed
  <2>2. ScheduleTyped'
      BY <1>2, <2>1 DEF ScheduleInv, ScheduleTyped
  <2> QED
      BY <1>2, <2>1, <2>2, ScansStay DEF ScheduleInv, OffStays, RunsAsReviewed, TurnedOffOnly
<1> QED
    BY <1>1, <1>2

LEMMA ScheduleSays == ScheduleInv => ScheduledAsReviewed
<1> SUFFICES ASSUME ScheduleInv PROVE RescanSettles
    BY DEF ScheduleInv, ScheduledAsReviewed
<1>1. \A r \in Scanners : scan[r].alone /\ scan[r].pc = "done" => Knows(scan[r])
    BY DEF ScheduleInv, AloneKnows
<1> QED
    BY <1>1 DEF RescanSettles, Knows

-------------------------------------------------------------------------------
(* For any permissions, policies and limits of workers and skills, files,      *)
(* rescans, pages, hosts and forged tools, and every order of what calls do:   *)
(* a worker runs at a content that was reviewed and only while it is on, cron  *)
(* has it exactly then once a rescan was left alone, and it acts as it asked   *)
(* for and the host lets it and stops at its limits; a script runs only        *)
(* trusted, in its sandbox and approved as its tier demands, and nothing is    *)
(* installed unasked but what was there before; a page is fetched as it was    *)
(* granted, redirects and all; and of a forged tool only what was approved     *)
(* runs (workers/state.go, scheduler.go, app/workers.go, skillscript.go,       *)
(* web.go, universal_constructor.go).                                          *)
THEOREM EverythingRunsAsItMay ==
    ScheduleSpec /\ WorkerRunSpec /\ SkillSpec /\ WebSpec /\ ForgeSpec => []RunsWhatItMay
<1>1. ScheduleInv /\ WorkerInv /\ SkillInv /\ WebInv /\ ForgeInv => RunsWhatItMay
    BY ScheduleSays, WorkerSays, SkillSays, WebSays, ForgeSays DEF RunsWhatItMay
<1>2. ScheduleSpec => []ScheduleInv
    BY ScheduleBegins, ScheduleStep, PTL DEF ScheduleSpec
<1>3. WorkerRunSpec => []WorkerInv
    BY WorkerBegins, WorkerStep, PTL DEF WorkerRunSpec
<1>4. SkillSpec => []SkillInv
    BY SkillBegins, SkillStep, PTL DEF SkillSpec
<1>5. WebSpec => []WebInv
    BY WebBegins, WebStep, PTL DEF WebSpec
<1>6. ForgeSpec => []ForgeInv
    BY ForgeBegins, ForgeStep, PTL DEF ForgeSpec
<1> QED
    BY <1>1, <1>2, <1>3, <1>4, <1>5, <1>6, PTL
================================================================================
