-------------------------------- MODULE Turns --------------------------------
(***************************************************************************)
(* The turns of a workspace (Workspace.Run and Steer, internal/app/        *)
(* turn.go) with the engine's queues of messages sent to a running turn    *)
(* (internal/runtime/steer.go), the session the transcript is recorded in  *)
(* and what front ends do with the messages no tool result carried         *)
(* (runTurn, internal/tui/repl.go).                                        *)
(*                                                                         *)
(* The workspace is a terminal's, which runs one turn at a time and takes  *)
(* the messages the user types during it, or it is served to clients that  *)
(* run turns, send messages and switch sessions at the same time, next to  *)
(* workers.                                                                *)
(***************************************************************************)
EXTENDS Integers, FiniteSets, TLC

CONSTANTS Turns,       \* the turns, each taken once
          Sessions,    \* the sessions of the workspace's users
          Steers,      \* the messages users send while a turn runs
          MaxUnsaved   \* bounds the records whose save fails

ASSUME TurnAssumption == Sessions \cap Turns = {} /\ MaxUnsaved \in Nat

VARIABLES done,        \* the turns whose context is cancelled
          terminal,    \* the front end is a terminal in the process
          active,      \* the session w.storage has as its active one
          turn,        \* each turn
          steer,       \* each message, until Steer has returned
          steers,      \* Engine.steers: what is queued for each session
          transcript,  \* of each session, and each worker run's own
          unsaved      \* the records the user was warned of instead

vars == <<done, terminal, active, turn, steer, steers, transcript, unsaved>>

Kinds == {"prompt", "aside", "worker"}
TurnPC == {"unused", "start", "record", "running", "stopped", "output",
           "collect", "done", "dropped", "blocked"}
SteerPC == {"unsent", "typing", "queue", "sent", "refused"}

\* What a transcript holds: a prompt, a message sent to the turn, its output.
Entries == [what : {"user", "model"}, of : Turns] \cup [what : {"steer"}, of : Steers]
Prompt(t) == [what |-> "user", of |-> t]
Output(t) == [what |-> "model", of |-> t]
Steered(m) == [what |-> "steer", of |-> m]

\* A worker run has a session of its own, in a storage of its own.
Places == Sessions \cup Turns

NoTurn == [pc |-> "unused"]
NoSteer == [pc |-> "unsent"]

(* text: the messages a turn was made of, when it is the next turn of one that *)
(* left them; read: those its tool results carried; left: TurnResult.Leftover. *)
TurnRecord == [pc : TurnPC, kind : Kinds, session : Places, text : SUBSET Steers,
               read : SUBSET Steers, left : SUBSET Steers]
SteerRecord == [pc : SteerPC, turn : Turns]

TurnAt(t, pc) == turn[t].pc = pc
Goto(t, pc) == turn' = [turn EXCEPT ![t].pc = pc]
SteerAt(m, pc) == steer[m].pc = pc
SteerGoto(m, pc) == steer' = [steer EXCEPT ![m].pc = pc]

TypeOK ==
    /\ done \subseteq Turns
    /\ terminal \in BOOLEAN
    /\ active \in Sessions
    /\ turn \in [Turns -> TurnRecord \cup {NoTurn}]
    /\ \A t \in Turns : ~TurnAt(t, "unused") => (turn[t].kind = "worker" <=> turn[t].session = t)
    /\ steer \in [Steers -> SteerRecord \cup {NoSteer}]
    /\ steers \in [Places -> SUBSET Steers]
    /\ transcript \in [Places -> [Entries -> Nat]]
    /\ unsaved \subseteq Entries

Init ==
    /\ done = {}
    /\ terminal \in BOOLEAN
    /\ active \in Sessions
    /\ turn = [t \in Turns |-> NoTurn]
    /\ steer = [m \in Steers |-> NoSteer]
    /\ steers = [p \in Places |-> {}]
    /\ transcript = [p \in Places |-> [e \in Entries |-> 0]]
    /\ unsaved = {}

Over(t) == turn[t].pc \in {"unused", "done", "dropped", "blocked"}

\* A terminal asks for the next line: no turn runs, and none is to follow.
Idle == \A t \in Turns : Over(t) /\ ~(TurnAt(t, "done") /\ turn[t].left # {})

\* recordIn: a message for the active session of a storage, or a warning.
RecordIn(p, entry) ==
    \/ /\ transcript' = [transcript EXCEPT ![p][entry] = @ + 1]
       /\ UNCHANGED unsaved
    \/ /\ Cardinality(unsaved) < MaxUnsaved
       /\ unsaved' = unsaved \cup {entry}
       /\ UNCHANGED transcript

\* The session the storage of a turn has active: the worker's own, or the users'.
\* A mutant first: all turns record in the users' storage.
StorageShared(t) == active
StorageOf(t) == IF turn[t].kind = "worker" THEN t ELSE active

-------------------------------------------------------------------------------
(* A turn, as the front ends and the scheduler start it. *)

Start(t, kind, p) ==
    /\ TurnAt(t, "unused")
    /\ turn' = [turn EXCEPT ![t] = [pc |-> "start", kind |-> kind, session |-> p, text |-> {},
                                    read |-> {}, left |-> {}]]
    /\ UNCHANGED <<done, terminal, active, steer, steers, transcript, unsaved>>

StartTerminal(t, kind) ==
    /\ terminal /\ Idle
    /\ kind # "worker"
    /\ Start(t, kind, active)

\* A mutant: a worker works in a session of the users.
StartServedShared(t, kind, s) ==
    /\ ~terminal
    /\ Start(t, kind, s)

StartServed(t, kind, s) ==
    /\ ~terminal
    /\ Start(t, kind, IF kind = "worker" THEN t ELSE s)

\* A mutant: the next turn's text is accepted and recorded again.
AcceptAgain(t) ==
    /\ TurnAt(t, "start")
    /\ \/ Goto(t, "blocked")
       \/ Goto(t, IF turn[t].kind = "aside" THEN "running" ELSE "record")
    /\ UNCHANGED <<done, terminal, active, steer, steers, transcript, unsaved>>

\* The prompt_submit hooks and the audit.  The next turn's text passed them
\* already, when it was sent.
Accept(t) ==
    /\ TurnAt(t, "start")
    /\ IF turn[t].text = {} THEN \/ Goto(t, "blocked")
                                 \/ Goto(t, IF turn[t].kind = "aside" THEN "running" ELSE "record")
       ELSE Goto(t, "running")
    /\ UNCHANGED <<done, terminal, active, steer, steers, transcript, unsaved>>

\* The prompt is recorded, and only then the front end is told that it was
\* accepted.
RecordPrompt(t) ==
    /\ TurnAt(t, "record")
    /\ RecordIn(StorageOf(t), Prompt(t))
    /\ Goto(t, "running")
    /\ UNCHANGED <<done, terminal, active, steer, steers>>

-------------------------------------------------------------------------------
(* A running turn. *)

\* A mutant: the messages stay queued.
ResultKeeps(t) ==
    LET s == turn[t].session IN
    /\ TurnAt(t, "running") /\ turn[t].kind # "aside" /\ steers[s] # {}
    /\ turn' = [turn EXCEPT ![t].read = @ \cup steers[s]]
    /\ UNCHANGED <<done, terminal, active, steer, steers, transcript, unsaved>>

\* A tool call of the turn has its result, which carries what is queued for
\* the session: not that of a sub-agent's call or of an aside's, which are
\* made in other sessions.
Result(t) ==
    LET s == turn[t].session IN
    /\ TurnAt(t, "running") /\ turn[t].kind # "aside" /\ steers[s] # {}
    /\ turn' = [turn EXCEPT ![t].read = @ \cup steers[s]]
    /\ steers' = [steers EXCEPT ![s] = {}]
    /\ UNCHANGED <<done, terminal, active, steer, transcript, unsaved>>

\* The agent has stopped: an answer, an error, a cancelled context.
Stop(t) ==
    /\ TurnAt(t, "running")
    /\ Goto(t, "stopped")
    /\ UNCHANGED <<done, terminal, active, steer, steers, transcript, unsaved>>

\* The messages being typed, or sent, at the terminal during the turn.
InFlight(t) == {m \in Steers : steer[m].pc \in {"typing", "queue"} /\ steer[m].turn = t}

\* A mutant: the terminal does not wait for the message being typed.
OnFinishedAtOnce(t) ==
    /\ TurnAt(t, "stopped")
    /\ Goto(t, IF turn[t].kind = "aside" THEN "done" ELSE "output")
    /\ UNCHANGED <<done, terminal, active, steer, steers, transcript, unsaved>>

\* OnFinished: a terminal stops taking keys and waits for what is typed.
OnFinished(t) ==
    /\ TurnAt(t, "stopped")
    /\ terminal => InFlight(t) = {}
    /\ Goto(t, IF turn[t].kind = "aside" THEN "done" ELSE "output")
    /\ UNCHANGED <<done, terminal, active, steer, steers, transcript, unsaved>>

\* What the agent said, if anything, is recorded.
RecordOutput(t) ==
    /\ TurnAt(t, "output")
    /\ \/ RecordIn(StorageOf(t), Output(t))
       \/ UNCHANGED <<transcript, unsaved>>
    /\ Goto(t, "collect")
    /\ UNCHANGED <<done, terminal, active, steer, steers>>

\* TakeSteers: what no tool result carried is left over.
Collect(t) ==
    LET s == turn[t].session IN
    /\ TurnAt(t, "collect")
    /\ turn' = [turn EXCEPT ![t].pc = "done", ![t].left = steers[s]]
    /\ steers' = [steers EXCEPT ![s] = {}]
    /\ UNCHANGED <<done, terminal, active, steer, transcript, unsaved>>

\* The front end sends what was left over as the next turn ...
SendLeftover(t, next) ==
    /\ TurnAt(t, "done") /\ turn[t].left # {} /\ turn[t].kind # "worker" /\ t \notin done
    /\ TurnAt(next, "unused")
    /\ turn' = [turn EXCEPT ![t].left = {},
                            ![next] = [pc |-> "start", kind |-> "prompt", session |-> turn[t].session,
                                       text |-> turn[t].left, read |-> {}, left |-> {}]]
    /\ UNCHANGED <<done, terminal, active, steer, steers, transcript, unsaved>>

\* ... or drops it, when the turn was interrupted or its stream broke.
Drop(t) ==
    /\ TurnAt(t, "done") /\ turn[t].left # {}
    /\ terminal => t \in done
    /\ Goto(t, "dropped")
    /\ UNCHANGED <<done, terminal, active, steer, steers, transcript, unsaved>>

-------------------------------------------------------------------------------
(* A message to a running turn. *)

\* A mutant: keys are taken before OnAccepted.
TypeEarly(m, t) ==
    /\ SteerAt(m, "unsent")
    /\ turn[t].pc \in {"record", "running", "stopped"} \cup
           (IF terminal THEN {} ELSE {"output", "collect", "done"})
    /\ turn[t].kind = "prompt"
    /\ steer' = [steer EXCEPT ![m] = [pc |-> "typing", turn |-> t]]
    /\ UNCHANGED <<done, terminal, active, turn, steers, transcript, unsaved>>

\* From OnAccepted on, and in a terminal until OnFinished; a client of the
\* service may be late.
Type(m, t) ==
    /\ SteerAt(m, "unsent")
    /\ turn[t].pc \in {"running", "stopped"} \cup
           (IF terminal THEN {} ELSE {"output", "collect", "done"})
    /\ turn[t].kind = "prompt"
    /\ steer' = [steer EXCEPT ![m] = [pc |-> "typing", turn |-> t]]
    /\ UNCHANGED <<done, terminal, active, turn, steers, transcript, unsaved>>

\* The user gives it up, or a prompt_submit hook blocks it.
GiveUp(m) ==
    /\ SteerAt(m, "typing")
    /\ SteerGoto(m, "refused")
    /\ UNCHANGED <<done, terminal, active, turn, steers, transcript, unsaved>>

\* Workspace.Steer: accepted, recorded in the active session, ...
RecordSteer(m) ==
    /\ SteerAt(m, "typing")
    /\ RecordIn(active, Steered(m))
    /\ SteerGoto(m, "queue")
    /\ UNCHANGED <<done, terminal, active, turn, steers>>

\* ... and queued for the session of the turn.
Queue(m) ==
    LET s == turn[steer[m].turn].session IN
    /\ SteerAt(m, "queue")
    /\ steers' = [steers EXCEPT ![s] = @ \cup {m}]
    /\ SteerGoto(m, "sent")
    /\ UNCHANGED <<done, terminal, active, turn, transcript, unsaved>>

-------------------------------------------------------------------------------
(* Around the turns. *)

\* NewSession, LoadSession: a terminal takes commands between its turns.
Switch(s) ==
    /\ s # active
    /\ terminal => Idle
    /\ active' = s
    /\ UNCHANGED <<done, terminal, turn, steer, steers, transcript, unsaved>>

\* The context of a turn is cancelled: a signal, a client that went.  What
\* follows looks at that when the turn is over, whenever it happened.
Interrupt(t) ==
    /\ TurnAt(t, "running") /\ t \notin done
    /\ done' = done \cup {t}
    /\ UNCHANGED <<terminal, active, turn, steer, steers, transcript, unsaved>>

TurnStep(t) ==
    \/ Accept(t) \/ RecordPrompt(t) \/ Result(t) \/ Stop(t) \/ OnFinished(t)
    \/ RecordOutput(t) \/ Collect(t) \/ Drop(t) \/ \E next \in Turns : SendLeftover(t, next)

SteerStep(m) == GiveUp(m) \/ RecordSteer(m) \/ Queue(m)

User ==
    \/ \E t \in Turns, kind \in Kinds : StartTerminal(t, kind) \/ \E s \in Sessions : StartServed(t, kind, s)
    \/ \E m \in Steers : \E t \in {u \in Turns : ~TurnAt(u, "unused")} : Type(m, t)
    \/ \E s \in Sessions : Switch(s)
    \/ \E t \in Turns : Interrupt(t)

Next ==
    \/ User
    \/ \E t \in Turns : TurnStep(t)
    \/ \E m \in Steers : SteerStep(m)

Spec == Init /\ [][Next]_vars

-------------------------------------------------------------------------------
\* Where a message can be: queued for a session, carried by a result of a
\* turn, left over by one, or part of the text of one.
Holders == ({"queue"} \X Places) \cup ({"read", "left", "text"} \X Turns)

Held(h) == IF h[1] = "queue" THEN steers[h[2]]
           ELSE IF TurnAt(h[2], "unused") THEN {}
           ELSE IF h[1] = "read" THEN turn[h[2]].read
           ELSE IF h[1] = "left" THEN turn[h[2]].left ELSE turn[h[2]].text

HoldersOf(m) == {h \in Holders : m \in Held(h)}
SessionOf(h) == IF h[1] = "queue" THEN h[2] ELSE turn[h[2]].session

(* A message that was sent is in exactly one place, of the session of its    *)
(* turn and not of an aside: none is lost, read twice, or read elsewhere     *)
(* (steer.go:12-18, 43-51).                                                  *)
SteersPlaced ==
    \A m \in Steers :
        LET holders == HoldersOf(m) IN
        /\ SteerAt(m, "sent") <=> holders # {}
        /\ \A h, i \in holders : h = i
        /\ \A h \in holders :
               /\ SessionOf(h) = turn[steer[m].turn].session
               /\ h[1] # "queue" => turn[h[2]].kind # "aside"

(* At a terminal no message outlives its turn in the queue: it was read, or  *)
(* the user sees it sent or dropped (turn.go:50-53).                         *)
NoneForgotten ==
    terminal /\ (\A t \in Turns : Over(t)) => \A s \in Places : steers[s] = {}

(* A message a user sent is in one place, and not in the queue of a turn     *)
(* that is over (turn.go:50-53, steer.go:12-51).                             *)
MessagesKept == SteersPlaced /\ NoneForgotten

Recorded(p, e) == transcript[p][e] > 0
Never(e) == \A p \in Places : ~Recorded(p, e)
Once(e) == \E p \in Places : \A q \in Places : transcript[q][e] = IF q = p THEN 1 ELSE 0

(* What a user said is in one transcript once, or the user was warned; that   *)
(* goes for a message that is sent again as the next turn, too.  An aside    *)
(* leaves nothing.                                                           *)
Said(t) == /\ turn[t].pc \notin {"unused", "start", "record", "blocked"}
           /\ turn[t].kind # "aside" /\ turn[t].text = {}

OnceInTranscript ==
    /\ \A t \in Turns :
          IF Said(t) /\ Prompt(t) \notin unsaved THEN Once(Prompt(t)) ELSE Never(Prompt(t))
    /\ \A m \in Steers :
          IF steer[m].pc \in {"queue", "sent"} /\ Steered(m) \notin unsaved
          THEN Once(Steered(m)) ELSE Never(Steered(m))

(* A message to a turn is recorded after the prompt of the turn, unless that *)
(* was sent before (turn.go:105-106).                                        *)
PromptFirst ==
    \A m \in Steers : steer[m].pc \in {"queue", "sent"} =>
        LET t == steer[m].turn IN
        turn[t].text # {} \/ Prompt(t) \in unsaved \/ \E p \in Places : Recorded(p, Prompt(t))

(* The transcripts hold what was said once and in order (turn.go:100-109).   *)
TranscriptsSound == OnceInTranscript /\ PromptFirst

Speaker(e) == IF e.what = "steer" THEN steer[e.of].turn ELSE e.of

(* A worker run writes to its own session only, and nobody else does         *)
(* (turn.go:83-84).                                                          *)
WorkersApart ==
    \A p \in Places, e \in Entries : Recorded(p, e) =>
        IF turn[Speaker(e)].kind = "worker" THEN p = Speaker(e) ELSE p \in Sessions

(* Turns, sessions and messages are alike, for TLC. *)
Symmetry == Permutations(Turns) \cup Permutations(Sessions) \cup Permutations(Steers)
===============================================================================
