------------------------------- MODULE AgentLoop -------------------------------
(***************************************************************************)
(* One run of the agent loop (internal/runtime/engine.go): an agent calls  *)
(* its model, runs the tool calls of the answer at most so many at a time, *)
(* and calls the model again; a tool call may run a sub-agent, which does  *)
(* the same one level down, with the run's budget of model calls.          *)
(*                                                                         *)
(* The loop itself is the library's, modelled from what the engine gives   *)
(* it: beforeModel, boundedRunner and InvokeSubagent.  What models answer  *)
(* and when tools and agents fail is left open; so a cancelled run, whose  *)
(* tasks still start and fail fast, is among the behaviours.               *)
(***************************************************************************)
EXTENDS Integers, FiniteSets, Sequences, SequencesExt, FiniteSetsExt

CONSTANTS MaxLive,          \* bound: agents alive at once
          MaxSubagentDepth, \* of nested sub-agents: 3 in the code
          MaxParallel,      \* tool calls of one answer in flight: [tools] max_parallel
          MaxBatch,         \* bound: tool calls in one answer
          MaxTurns          \* the run's limit of model calls

ASSUME LoopAssumption ==
    /\ MaxLive \in Nat \ {0} /\ MaxSubagentDepth \in Nat
    /\ MaxParallel \in Nat \ {0} /\ MaxTurns \in Nat \ {0}

VARIABLES loop,       \* each agent alive: its place, its caller, its depth and its tool calls
          turns,      \* runState.turns
          modelCalls  \* model calls made

loopVars == <<loop, turns, modelCalls>>

Nodes == 1 .. MaxLive
Root == 1

(* "queued" are the tool calls yet to start, "plain" counts those running    *)
(* that aren't sub-agents.                                                   *)
Absent == [pc |-> "none", caller |-> 0, depth |-> 0, queued |-> <<>>, plain |-> 0]

Present == {a \in Nodes : loop[a].pc # "none"}

LoopInit ==
    /\ loop = [a \in Nodes |-> IF a = Root THEN [Absent EXCEPT !.pc = "calling"] ELSE Absent]
    /\ turns = 0 /\ modelCalls = 0

-------------------------------------------------------------------------------
(* The model. *)

(* beforeModel: the budget is the run's, whichever of its agents calls; with *)
(* a budget for each agent only the caller's share would count.              *)
OwnBudget(a) == a = Root => turns < MaxTurns
WithinBudget(a) == turns < MaxTurns

Leaves(a) == loop' = [loop EXCEPT ![a] = Absent]

CallModel(a) ==
    /\ loop[a].pc = "calling"
    /\ turns' = turns + 1
    /\ IF WithinBudget(a)
       THEN /\ modelCalls' = modelCalls + 1
            /\ loop' = [loop EXCEPT ![a].pc = "answering"]
       ELSE Leaves(a) /\ UNCHANGED modelCalls

Answers == UNION {[1 .. n -> {"tool", "agent"}] : n \in 1 .. MaxBatch}

ModelCallsTools(a, batch) ==
    /\ loop[a].pc = "answering"
    /\ loop' = [loop EXCEPT ![a].pc = "tools", ![a].queued = batch]
    /\ UNCHANGED <<turns, modelCalls>>

(* Its last words, or an error: the agent's caller has its result.           *)
ModelAnswers(a) == loop[a].pc = "answering" /\ Leaves(a) /\ UNCHANGED <<turns, modelCalls>>

-------------------------------------------------------------------------------
(* boundedRunner, and InvokeSubagent inside it. *)

Children(a) == {b \in Present : loop[b].caller = a}

InFlight(a) == loop[a].plain + Cardinality(Children(a))

(* A place in the batch; and one in a pool that all batches share.           *)
SharedPlace(a) == FoldSet(LAMBDA b, n : n + InFlight(b), 0, Present) < MaxParallel
HasPlace(a) == InFlight(a) < MaxParallel

StartTool(a) ==
    /\ loop[a].queued # <<>> /\ Head(loop[a].queued) = "tool" /\ HasPlace(a)
    /\ loop' = [loop EXCEPT ![a].queued = Tail(@), ![a].plain = @ + 1]
    /\ UNCHANGED <<turns, modelCalls>>

(* Nested too deep is an error, the tool call's result.                      *)
StartAgent(a) ==
    /\ loop[a].queued # <<>> /\ Head(loop[a].queued) = "agent" /\ HasPlace(a)
    /\ IF loop[a].depth >= MaxSubagentDepth
       THEN loop' = [loop EXCEPT ![a].queued = Tail(@)]
       ELSE /\ Present # Nodes
            /\ LET b == CHOOSE b \in Nodes \ Present : \A n \in Nodes \ Present : b <= n
               IN loop' = [loop EXCEPT ![a].queued = Tail(@),
                                       ![b] = [Absent EXCEPT !.pc = "calling", !.caller = a,
                                                             !.depth = loop[a].depth + 1]]
    /\ UNCHANGED <<turns, modelCalls>>

ToolEnds(a) ==
    /\ loop[a].plain > 0
    /\ loop' = [loop EXCEPT ![a].plain = @ - 1]
    /\ UNCHANGED <<turns, modelCalls>>

BatchEnds(a) ==
    /\ loop[a].pc = "tools" /\ loop[a].queued = <<>> /\ InFlight(a) = 0
    /\ loop' = [loop EXCEPT ![a].pc = "calling"]
    /\ UNCHANGED <<turns, modelCalls>>

LoopNext ==
    \E a \in Nodes :
        \/ CallModel(a) \/ ModelAnswers(a)
        \/ \E batch \in Answers : ModelCallsTools(a, batch)
        \/ StartTool(a) \/ StartAgent(a) \/ ToolEnds(a) \/ BatchEnds(a)

LoopSpec == LoopInit /\ [][LoopNext]_loopVars

-------------------------------------------------------------------------------
LoopTypeOK ==
    /\ turns \in Nat /\ modelCalls <= turns
    /\ \A a \in Nodes : loop[a].depth \in 0 .. MaxSubagentDepth /\ loop[a].plain \in 0 .. MaxParallel
    /\ \A a \in Present \ {Root} : loop[a].caller \in Present

(* A tool that runs a sub-agent holds its place while the sub-agent's own    *)
(* tools wait for theirs, and still a run never waits on itself: some agent  *)
(* of it talks to its model, runs a tool, or may start or end a batch        *)
(* (engine.go:658-662).                                                      *)
CanGoOn(a) ==
    \/ loop[a].pc \in {"calling", "answering"} \/ loop[a].plain > 0
    \/ loop[a].pc = "tools" /\ IF loop[a].queued = <<>> THEN InFlight(a) = 0 ELSE HasPlace(a)

NeverWaitsOnItself == Present # {} => \E a \in Present : CanGoOn(a)

(* However its agents nest and overlap, a run makes no more model calls than *)
(* its limit, nests no deeper than the limit, and an agent doesn't outlive   *)
(* the one that called it (engine.go:400-408 and 728-736).                   *)
RunWithinLimits ==
    /\ modelCalls <= MaxTurns
    /\ \A a \in Present : Children(a) # {} => loop[a].pc = "tools"

(* A run ends by itself: it doesn't wait on itself and its calls are counted. *)
RunBounded == NeverWaitsOnItself /\ RunWithinLimits

-------------------------------------------------------------------------------
(***************************************************************************)
(* Compacting a conversation (internal/runtime/compact.go): a summary of   *)
(* the turns before the last ones is appended to the session's events, and *)
(* from then on the prompt hides the events in its range of times that it  *)
(* doesn't exclude.  Calls of Compact overlap with each other and with     *)
(* turns, since nothing excludes them while the model summarises.          *)
(*                                                                         *)
(* An event is its kind and its time.  The wall clock may have been set    *)
(* back before; assumed is that it isn't once there is a summary, and that *)
(* it has caught up before a turn overlaps a Compact: an event made later  *)
(* with a time inside the range would be hidden, which the code can't know *)
(* (it refuses a clock that is behind when it records, compact.go:244).    *)
(* "told" records what a summary was made from: the raw events it was      *)
(* shown, and those told by the summaries it was shown.                    *)
(***************************************************************************)

CONSTANTS Compacters, \* calls of Compact that may overlap
          KeepTurns,  \* user turns kept: 1 in the service
          MaxLog,     \* bound: events of the session
          MaxTime     \* bound: the clock, which is set back at most once

ASSUME KeepAssumption == KeepTurns \in Nat \ {0}

VARIABLES session,   \* the session's events
          clock,
          setBack,   \* the clock was set back
          compacter  \* each Compact: how many events it copied and where it cut them

compactionVars == <<session, clock, setBack, compacter>>

Kinds == {"user", "reply"}
Event(kind, time) == [kind |-> kind, at |-> time, from |-> 0, to |-> 0, excluded |-> {}, told |-> {}]

Summaries(log) == {i \in DOMAIN log : log[i].kind = "summary"}
Raw(log) == DOMAIN log \ Summaries(log)

AtRestC == [pc |-> "idle", copied |-> 0, cut |-> 0]

CompactionInit ==
    /\ session = <<>> /\ clock = 1 /\ setBack = FALSE
    /\ compacter = [c \in Compacters |-> AtRestC]

-------------------------------------------------------------------------------
(* The rest of the world: turns, and the clock.                              *)

Ticks == clock < MaxTime /\ clock' = clock + 1

CaughtUp(n) == \A i \in 1 .. n : session[i].at < clock

(* A turn's first event is the user's.  The clock is fine enough for no two   *)
(* events to have one time, unless it was set back.                           *)
TurnEvent(kind) ==
    /\ Len(session) < MaxLog
    /\ kind = "reply" => session # <<>>
    /\ \A c \in Compacters : CaughtUp(compacter[c].copied)
    /\ session' = Append(session, Event(kind, clock))
    /\ Ticks
    /\ UNCHANGED <<setBack, compacter>>

TickClock == Ticks /\ UNCHANGED <<session, setBack, compacter>>

SetClockBack ==
    /\ ~setBack /\ Summaries(session) = {} /\ \A c \in Compacters : compacter[c] = AtRestC
    /\ setBack' = TRUE
    /\ clock' \in 1 .. clock - 1
    /\ UNCHANGED <<session, compacter>>

-------------------------------------------------------------------------------
(* What a summary covers. *)

InRange(s, e) == s.from <= e.at /\ e.at <= s.to

(* The prompt, and the transcript: in its range and not excluded. *)
Hides(log, s, e) == InRange(log[s], log[e]) /\ e \notin log[s].excluded

(* transcriptEvents: the summaries in the window, and the events none of     *)
(* them covers.  Without the summaries it is what the prompt hides as well.  *)
RawOnly(log, window) ==
    {e \in window \ Summaries(log) : \A s \in window \cap Summaries(log) : ~Hides(log, s, e)}

TranscriptEvents(log, window) == RawOnly(log, window) \cup (window \cap Summaries(log))

ToldBy(log, shown) == (shown \cap Raw(log)) \cup UNION {log[s].told : s \in shown \cap Summaries(log)}

(* compactionEvent's excluded events: those outside the window but in its    *)
(* span, unless a summary in the window ranges over them.                    *)
Excluded(log, window, from, to) ==
    {e \in Raw(log) \ window : /\ from <= log[e].at /\ log[e].at <= to
                               /\ \A s \in window \cap Summaries(log) : ~InRange(log[s], log[e])}

-------------------------------------------------------------------------------
(* Compact. *)

(* The start of the turn that is the KeepTurns-th from the end, 0 for none.  *)
CutOf(log) ==
    LET starts == {i \in DOMAIN log : log[i].kind = "user"}
        latest == {i \in starts : Cardinality({j \in starts : j >= i}) = KeepTurns}
    IN IF latest = {} THEN 0 ELSE CHOOSE i \in latest : TRUE

CopySession(c) ==
    LET cut == CutOf(session) IN
    /\ compacter[c].pc = "idle"
    /\ cut > 1 /\ 1 .. cut - 1 \cap Raw(session) # {}
    /\ compacter' = [compacter EXCEPT ![c] = [pc |-> "summarising", copied |-> Len(session), cut |-> cut]]
    /\ UNCHANGED <<session, clock, setBack>>

(* The model fails, or gives no text: history is left unchanged. *)
SummaryFails(c) ==
    /\ compacter[c].pc = "summarising"
    /\ compacter' = [compacter EXCEPT ![c] = AtRestC]
    /\ UNCHANGED <<session, clock, setBack>>

AppendSummary(c) ==
    LET log == SubSeq(session, 1, compacter[c].copied)
        window == 1 .. compacter[c].cut - 1
        times == {log[i].at : i \in window}
        from == Min(times)
        to == Max(times)
    IN /\ compacter[c].pc = "summarising" /\ Len(session) < MaxLog
       /\ session' = IF clock > to
                     THEN Append(session, [kind |-> "summary", at |-> clock, from |-> from, to |-> to,
                                           excluded |-> Excluded(log, window, from, to),
                                           told |-> ToldBy(log, TranscriptEvents(log, window))])
                     ELSE session
       /\ compacter' = [compacter EXCEPT ![c] = AtRestC]
       /\ Ticks
       /\ UNCHANGED setBack

CompactionNext ==
    \/ TickClock \/ SetClockBack
    \/ \E kind \in Kinds : TurnEvent(kind)
    \/ \E c \in Compacters : CopySession(c) \/ SummaryFails(c) \/ AppendSummary(c)

CompactionSpec == CompactionInit /\ [][CompactionNext]_compactionVars

-------------------------------------------------------------------------------
CompactionTypeOK ==
    /\ clock \in 1 .. MaxTime /\ Len(session) <= MaxLog
    /\ \A i \in DOMAIN session :
           LET e == session[i] IN /\ e.at \in 1 .. MaxTime
                                  /\ e.excluded \cup e.told \subseteq Raw(session)

(* "never dropped unsummarized" (compact.go:200-203): an event a summary      *)
(* hides from the prompt was told to it, itself or by an earlier summary, for *)
(* every order of turns, clock and overlapping calls.                         *)
NothingDropped ==
    \A s \in Summaries(session) : \A e \in Raw(session) : Hides(session, s, e) => e \in session[s].told

(* The turns that were to be kept are in the prompt as they were.             *)
LastTurnKept ==
    LET cut == CutOf(session) IN
    cut # 0 => \A e \in cut .. Len(session) : \A s \in Summaries(session) :
        e \in Raw(session) => ~Hides(session, s, e)

(* A compaction loses nothing and leaves the last turns alone.               *)
CompactionKeeps == NothingDropped /\ LastTurnKept
===============================================================================
