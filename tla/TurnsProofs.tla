----------------------------- MODULE TurnsProofs -----------------------------
(***************************************************************************)
(* Proofs about Turns: what becomes of prompts and of the messages sent to *)
(* running turns, for any turns, sessions and messages.                    *)
(***************************************************************************)
EXTENDS Turns, TLAPS

Used(t) == ~TurnAt(t, "unused")
Begun(t) == turn[t].pc \notin {"unused", "start", "record", "blocked"}

(* What the state of a turn says of the rest of its record. *)
TurnKnows(t) ==
    /\ Used(t) => IF turn[t].kind = "worker" THEN turn[t].session = t ELSE turn[t].session \in Sessions
    /\ turn[t].pc \in {"record", "output", "collect"} => turn[t].kind # "aside"
    /\ turn[t].pc = "record" => turn[t].text = {}
    /\ turn[t].pc \in {"start", "record", "running", "stopped", "output", "collect"} => turn[t].left = {}

(* A message belongs to a prompt that was accepted. *)
SteerKnows(m) ==
    steer[m].pc # "unsent" => Begun(steer[m].turn) /\ turn[steer[m].turn].kind = "prompt"

Types ==
    /\ done \subseteq Turns /\ terminal \in BOOLEAN /\ active \in Sessions
    /\ turn \in [Turns -> TurnRecord \cup {NoTurn}]
    /\ steer \in [Steers -> SteerRecord \cup {NoSteer}]
    /\ steers \in [Places -> SUBSET Steers]
    /\ transcript \in [Places -> [Entries -> Nat]]
    /\ unsaved \subseteq Entries

Knows == (\A t \in Turns : TurnKnows(t)) /\ (\A m \in Steers : SteerKnows(m))

(* At a terminal the messages of a turn are in the queue before it collects. *)
InOrder ==
    terminal => \A m \in Steers :
        /\ steer[m].pc \in {"typing", "queue"} => turn[steer[m].turn].pc \in {"running", "stopped"}
        /\ \A s \in Places : m \in steers[s] =>
               turn[steer[m].turn].pc \in {"running", "stopped", "output", "collect"}

(* What is to be in a transcript: it was said. *)
Due(e) == IF e.what = "steer" THEN steer[e.of].pc \in {"queue", "sent"}
          ELSE Begun(e.of) /\ (e.what = "user" => Said(e.of))

(* Nothing else was recorded, or warned of. *)
RecordedSaid ==
    \A e \in Entries : e \in unsaved \/ (\E p \in Places : Recorded(p, e)) => Due(e)

IInv == Types /\ Knows /\ SteersPlaced /\ InOrder /\ RecordedSaid /\ OnceInTranscript /\ WorkersApart

USE TurnAssumption

-------------------------------------------------------------------------------
(* A turn that was started, a message that was typed, is a full record. *)
LEMMA Full ==
    ASSUME Types
    PROVE  /\ \A t \in Turns : Used(t) => turn[t] \in TurnRecord
           /\ \A m \in Steers : ~SteerAt(m, "unsent") => steer[m] \in SteerRecord
BY DEF Types, Used, TurnAt, SteerAt, NoTurn, NoSteer

(* A step of a turn from one point to the next changes nothing else of it. *)
LEMMA Moved ==
    ASSUME Types, NEW t \in Turns, Used(t), NEW pc \in TurnPC \ {"unused"}, Goto(t, pc)
    PROVE  /\ turn' \in [Turns -> TurnRecord \cup {NoTurn}]
           /\ turn'[t] \in TurnRecord /\ turn'[t].pc = pc
           /\ \A u \in Turns \ {t} : turn'[u] = turn[u]
           /\ \A u \in Turns : /\ Used(u)' <=> Used(u)
                               /\ Used(u) => /\ turn'[u].kind = turn[u].kind
                                             /\ turn'[u].session = turn[u].session
                                             /\ turn'[u].text = turn[u].text
                                             /\ turn'[u].read = turn[u].read
                                             /\ turn'[u].left = turn[u].left
<1>1. turn[t] \in TurnRecord
    BY Full
<1>2. [turn[t] EXCEPT !.pc = pc] \in TurnRecord
    BY <1>1 DEF TurnRecord
<1>3. turn' \in [Turns -> TurnRecord \cup {NoTurn}] /\ turn'[t] = [turn[t] EXCEPT !.pc = pc]
      /\ \A u \in Turns \ {t} : turn'[u] = turn[u]
    BY <1>2 DEF Types, Goto
<1>4. turn'[t].pc = pc /\ turn'[t].kind = turn[t].kind /\ turn'[t].session = turn[t].session
      /\ turn'[t].text = turn[t].text /\ turn'[t].read = turn[t].read /\ turn'[t].left = turn[t].left
    BY <1>1, <1>3 DEF TurnRecord
<1> QED BY <1>2, <1>3, <1>4 DEF Used, TurnAt

-------------------------------------------------------------------------------
(* The steps that move a turn on and leave its messages alone. *)
TurnMoves(t) == Accept(t) \/ RecordPrompt(t) \/ Stop(t) \/ OnFinished(t) \/ RecordOutput(t) \/ Drop(t)

LEMMA MovesGoto ==
    ASSUME NEW t \in Turns, TurnMoves(t)
    PROVE  /\ Used(t) /\ \E pc \in TurnPC \ {"unused"} : Goto(t, pc)
           /\ UNCHANGED <<done, terminal, active, steer, steers>>
BY DEF TurnMoves, Accept, RecordPrompt, Stop, OnFinished, RecordOutput, Drop, Used, TurnAt, TurnPC, Goto

(* From where to where they move it. *)
LEMMA MovesTo ==
    ASSUME Types, NEW t \in Turns, TurnMoves(t)
    PROVE  \/ turn[t].pc = "start" /\ turn'[t].pc = "blocked"
           \/ turn[t].pc = "start" /\ turn'[t].pc = "running" /\ (turn[t].text # {} \/ turn[t].kind = "aside")
           \/ turn[t].pc = "start" /\ turn'[t].pc = "record" /\ turn[t].text = {} /\ turn[t].kind # "aside"
           \/ turn[t].pc = "record" /\ turn'[t].pc = "running"
           \/ turn[t].pc = "running" /\ turn'[t].pc = "stopped"
           \/ turn[t].pc = "stopped" /\ turn'[t].pc = "done" /\ turn[t].kind = "aside"
           \/ turn[t].pc = "stopped" /\ turn'[t].pc = "output" /\ turn[t].kind # "aside"
           \/ turn[t].pc = "output" /\ turn'[t].pc = "collect"
           \/ turn[t].pc = "done" /\ turn'[t].pc = "dropped"
<1>1. Used(t) /\ \A pc \in TurnPC \ {"unused"} : Goto(t, pc) => turn'[t].pc = pc
    BY MovesGoto, Moved
<1>2. {"blocked", "record", "running", "stopped", "output", "collect", "done", "dropped"}
      \subseteq TurnPC \ {"unused"}
    BY DEF TurnPC
<1> QED BY <1>1, <1>2 DEF TurnMoves, Accept, RecordPrompt, Stop, OnFinished, RecordOutput, Drop, TurnAt

(* A new turn is a full record, and all others stay. *)
NewTurn(t, kind, p, text) == [pc |-> "start", kind |-> kind, session |-> p, text |-> text,
                              read |-> {}, left |-> {}]

LEMMA Starts ==
    ASSUME Types, NEW t \in Turns, NEW kind \in Kinds, NEW p \in Places, Start(t, kind, p)
    PROVE  /\ turn' \in [Turns -> TurnRecord \cup {NoTurn}]
           /\ turn'[t] = NewTurn(t, kind, p, {}) /\ turn'[t] \in TurnRecord
           /\ \A u \in Turns \ {t} : turn'[u] = turn[u]
           /\ ~Used(t) /\ UNCHANGED <<done, terminal, active, steer, steers, transcript, unsaved>>
BY DEF Types, Start, NewTurn, TurnRecord, TurnPC, Used

LEMMA StartsFrom ==
    ASSUME Types, NEW t \in Turns, NEW kind \in Kinds,
           StartTerminal(t, kind) \/ \E s \in Sessions : StartServed(t, kind, s)
    PROVE  \E p \in Places : Start(t, kind, p) /\ (kind = "worker" <=> p = t)
                             /\ (kind # "worker" => p \in Sessions)
BY DEF Types, StartTerminal, StartServed, Places

(* The messages of the queue that a turn takes, to read or as left over. *)
LEMMA Results ==
    ASSUME Types, NEW t \in Turns, Result(t)
    PROVE  /\ turn' \in [Turns -> TurnRecord \cup {NoTurn}]
           /\ turn[t] \in TurnRecord /\ turn[t].session \in Places
           /\ turn'[t].pc = turn[t].pc /\ turn'[t].kind = turn[t].kind
           /\ turn'[t].session = turn[t].session /\ turn'[t].text = turn[t].text
           /\ turn'[t].read = turn[t].read \cup steers[turn[t].session]
           /\ turn'[t].left = turn[t].left
           /\ \A u \in Turns \ {t} : turn'[u] = turn[u]
           /\ steers' = [steers EXCEPT ![turn[t].session] = {}]
           /\ turn[t].pc = "running" /\ turn[t].kind # "aside"
           /\ UNCHANGED <<done, terminal, active, steer, transcript, unsaved>>
<1>1. turn[t] \in TurnRecord /\ turn[t].session \in Places
    BY Full DEF Result, Used, TurnAt, TurnRecord
<1>2. [turn[t] EXCEPT !.read = @ \cup steers[turn[t].session]] \in TurnRecord
    BY <1>1 DEF Types, TurnRecord
<1>3. turn'[t] = [turn[t] EXCEPT !.read = @ \cup steers[turn[t].session]]
    BY DEF Types, Result
<1>4. /\ turn'[t].pc = turn[t].pc /\ turn'[t].kind = turn[t].kind
      /\ turn'[t].session = turn[t].session /\ turn'[t].text = turn[t].text
      /\ turn'[t].read = turn[t].read \cup steers[turn[t].session]
      /\ turn'[t].left = turn[t].left
    BY <1>1, <1>3 DEF TurnRecord
<1> QED BY <1>1, <1>2, <1>4 DEF Types, Result, TurnAt

LEMMA Collects ==
    ASSUME Types, NEW t \in Turns, Collect(t)
    PROVE  /\ turn' \in [Turns -> TurnRecord \cup {NoTurn}]
           /\ turn[t] \in TurnRecord /\ turn[t].session \in Places
           /\ turn'[t].pc = "done" /\ turn'[t].kind = turn[t].kind
           /\ turn'[t].session = turn[t].session /\ turn'[t].text = turn[t].text
           /\ turn'[t].read = turn[t].read /\ turn'[t].left = steers[turn[t].session]
           /\ \A u \in Turns \ {t} : turn'[u] = turn[u]
           /\ steers' = [steers EXCEPT ![turn[t].session] = {}]
           /\ turn[t].pc = "collect"
           /\ UNCHANGED <<done, terminal, active, steer, transcript, unsaved>>
<1>1. turn[t] \in TurnRecord /\ turn[t].session \in Places
    BY Full DEF Collect, Used, TurnAt, TurnRecord
<1>2. [turn[t] EXCEPT !.pc = "done", !.left = steers[turn[t].session]] \in TurnRecord
    BY <1>1 DEF Types, TurnRecord, TurnPC
<1>3. turn'[t] = [turn[t] EXCEPT !.pc = "done", !.left = steers[turn[t].session]]
    BY DEF Types, Collect
<1>4. /\ turn'[t].pc = "done" /\ turn'[t].kind = turn[t].kind
      /\ turn'[t].session = turn[t].session /\ turn'[t].text = turn[t].text
      /\ turn'[t].read = turn[t].read /\ turn'[t].left = steers[turn[t].session]
    BY <1>1, <1>3 DEF TurnRecord
<1> QED BY <1>1, <1>2, <1>4 DEF Types, Collect, TurnAt

LEMMA Sends ==
    ASSUME Types, NEW t \in Turns, NEW next \in Turns, SendLeftover(t, next)
    PROVE  /\ turn' \in [Turns -> TurnRecord \cup {NoTurn}]
           /\ turn[t] \in TurnRecord /\ t # next /\ ~Used(next)
           /\ turn'[t].pc = turn[t].pc /\ turn'[t].kind = turn[t].kind
           /\ turn'[t].session = turn[t].session /\ turn'[t].text = turn[t].text
           /\ turn'[t].read = turn[t].read /\ turn'[t].left = {}
           /\ turn'[next] = NewTurn(next, "prompt", turn[t].session, turn[t].left)
           /\ turn'[next] \in TurnRecord
           /\ \A u \in Turns \ {t, next} : turn'[u] = turn[u]
           /\ turn[t].pc = "done" /\ turn[t].left # {} /\ turn[t].kind # "worker"
           /\ UNCHANGED <<done, terminal, active, steer, steers, transcript, unsaved>>
<1>1. turn[t] \in TurnRecord /\ t # next
    BY Full DEF SendLeftover, Used, TurnAt
<1>2. [turn[t] EXCEPT !.left = {}] \in TurnRecord
      /\ NewTurn(next, "prompt", turn[t].session, turn[t].left) \in TurnRecord
    BY <1>1 DEF Types, TurnRecord, TurnPC, Kinds, NewTurn
<1>3. turn'[t] = [turn[t] EXCEPT !.left = {}]
    BY <1>1 DEF Types, SendLeftover
<1>4. /\ turn'[t].pc = turn[t].pc /\ turn'[t].kind = turn[t].kind
      /\ turn'[t].session = turn[t].session /\ turn'[t].text = turn[t].text
      /\ turn'[t].read = turn[t].read /\ turn'[t].left = {}
    BY <1>1, <1>3 DEF TurnRecord
<1> QED BY <1>1, <1>2, <1>4 DEF Types, SendLeftover, TurnAt, Used, NewTurn

-------------------------------------------------------------------------------
LEMMA RecordTypes ==
    ASSUME Types, NEW p \in Places, NEW e \in Entries, RecordIn(p, e)
    PROVE  transcript' \in [Places -> [Entries -> Nat]] /\ unsaved' \subseteq Entries
<1>1. transcript[p][e] + 1 \in Nat
    BY DEF Types
<1>2. [transcript[p] EXCEPT ![e] = @ + 1] \in [Entries -> Nat]
    BY <1>1 DEF Types
<1> QED BY <1>2 DEF Types, RecordIn

LEMMA StorageTypes == ASSUME Types, NEW t \in Turns PROVE StorageOf(t) \in Places
BY DEF Types, StorageOf, Places

LEMMA EntryTypes ==
    /\ \A t \in Turns : Prompt(t) \in Entries /\ Output(t) \in Entries
    /\ \A m \in Steers : Steered(m) \in Entries
BY DEF Prompt, Output, Steered, Entries

(* A message's own steps. *)
LEMMA SteerTypes ==
    ASSUME Types, NEW m \in Steers, SteerStep(m)
    PROVE  /\ steer' \in [Steers -> SteerRecord \cup {NoSteer}]
           /\ steer[m] \in SteerRecord /\ steer[m].pc \in {"typing", "queue"}
           /\ steer'[m].pc # "unsent" /\ steer'[m].turn = steer[m].turn
           /\ \A n \in Steers \ {m} : steer'[n] = steer[n]
<1>1. steer[m] \in SteerRecord /\ steer[m].pc \in {"typing", "queue"}
    BY Full DEF SteerStep, GiveUp, RecordSteer, Queue, SteerAt
<1>2. \E pc \in SteerPC \ {"unsent"} : SteerGoto(m, pc)
    BY DEF SteerStep, GiveUp, RecordSteer, Queue, SteerPC
<1>3. \A pc \in SteerPC : [steer[m] EXCEPT !.pc = pc] \in SteerRecord
    BY <1>1 DEF SteerRecord
<1>4. PICK pc \in SteerPC \ {"unsent"} : steer' = [steer EXCEPT ![m] = [steer[m] EXCEPT !.pc = pc]]
    BY <1>2 DEF SteerGoto, Types
<1> QED BY <1>1, <1>3, <1>4 DEF Types, SteerRecord

LEMMA TypesStep == Types /\ [Next]_vars => Types'
<1> SUFFICES ASSUME Types, [Next]_vars PROVE Types'
    OBVIOUS
<1>0. ASSUME UNCHANGED vars PROVE Types'
    BY <1>0 DEF vars, Types
<1>1. ASSUME NEW t \in Turns, NEW kind \in Kinds,
             StartTerminal(t, kind) \/ \E s \in Sessions : StartServed(t, kind, s)
      PROVE  Types'
    BY <1>1, StartsFrom, Starts DEF Types
<1>2. ASSUME NEW t \in Turns, TurnMoves(t) PROVE Types'
  <2>1. turn' \in [Turns -> TurnRecord \cup {NoTurn}]
      BY <1>2, MovesGoto, Moved
  <2>2. transcript' \in [Places -> [Entries -> Nat]] /\ unsaved' \subseteq Entries
      BY <1>2, RecordTypes, StorageTypes, EntryTypes
      DEF TurnMoves, Accept, RecordPrompt, Stop, OnFinished, RecordOutput, Drop, Types
  <2> QED BY <1>2, <2>1, <2>2, MovesGoto DEF Types
<1>3. ASSUME NEW t \in Turns, Result(t) PROVE Types'
    BY <1>3, Results DEF Types
<1>4. ASSUME NEW t \in Turns, Collect(t) PROVE Types'
    BY <1>4, Collects DEF Types
<1>5. ASSUME NEW t \in Turns, NEW next \in Turns, SendLeftover(t, next) PROVE Types'
    BY <1>5, Sends DEF Types
<1>6. ASSUME NEW m \in Steers, NEW t \in Turns, Type(m, t) PROVE Types'
    BY <1>6 DEF Type, Types, SteerRecord, SteerPC
<1>7. ASSUME NEW m \in Steers, SteerStep(m) PROVE Types'
  <2>1. steer' \in [Steers -> SteerRecord \cup {NoSteer}]
      BY <1>7, SteerTypes
  <2>2. CASE GiveUp(m)
      BY <2>1, <2>2 DEF GiveUp, Types
  <2>3. CASE RecordSteer(m)
    <3>1. active \in Places
        BY DEF Types, Places
    <3> QED BY <2>1, <2>3, <3>1, RecordTypes, EntryTypes DEF RecordSteer, Types
  <2>4. CASE Queue(m)
      BY <2>1, <2>4 DEF Queue, Types
  <2> QED BY <1>7, <2>2, <2>3, <2>4 DEF SteerStep
<1>8. ASSUME NEW s \in Sessions, Switch(s) PROVE Types'
    BY <1>8 DEF Switch, Types
<1>9. ASSUME NEW t \in Turns, Interrupt(t) PROVE Types'
    BY <1>9 DEF Interrupt, Types
<1>10. CASE User
    BY <1>1, <1>6, <1>8, <1>9, <1>10 DEF User
<1>11. ASSUME NEW t \in Turns, TurnStep(t) PROVE Types'
    BY <1>2, <1>3, <1>4, <1>5, <1>11 DEF TurnStep, TurnMoves
<1> QED BY <1>0, <1>7, <1>10, <1>11 DEF Next

(* The steps, sorted by what they do to turns and messages. *)
LEMMA Sorted ==
    ASSUME [Next]_vars
    PROVE  \/ \E t \in Turns, kind \in Kinds :
                 StartTerminal(t, kind) \/ \E s \in Sessions : StartServed(t, kind, s)
           \/ \E t \in Turns : TurnMoves(t) \/ Result(t) \/ Collect(t)
           \/ \E t, next \in Turns : SendLeftover(t, next)
           \/ \E m \in Steers, t \in Turns : Used(t) /\ Type(m, t)
           \/ \E m \in Steers : SteerStep(m)
           \/ UNCHANGED <<turn, steer, steers, transcript, unsaved, terminal>>
                /\ (active' = active \/ \E s \in Sessions : active' = s)
<1>1. CASE UNCHANGED vars
    BY <1>1 DEF vars
<1>2. CASE User
    BY <1>2 DEF User, Switch, Interrupt, Used
<1>3. ASSUME NEW t \in Turns, TurnStep(t)
      PROVE  TurnMoves(t) \/ Result(t) \/ Collect(t) \/ \E next \in Turns : SendLeftover(t, next)
    BY <1>3 DEF TurnStep, TurnMoves
<1> QED BY <1>1, <1>2, <1>3 DEF Next

(* A used turn stays what it is, and goes on; a typed message keeps its turn. *)
Same(t) == /\ Used(t)'
           /\ turn'[t].kind = turn[t].kind /\ turn'[t].session = turn[t].session
           /\ turn'[t].text = turn[t].text
           /\ Begun(t) => Begun(t)'

LEMMA Persist ==
    ASSUME Types, Knows, [Next]_vars
    PROVE  /\ \A t \in Turns : Used(t) => Same(t)
           /\ \A m \in Steers : steer[m].pc # "unsent" =>
                 steer'[m].pc # "unsent" /\ steer'[m].turn = steer[m].turn
           /\ terminal' = terminal
<1>1. ASSUME NEW t \in Turns, NEW kind \in Kinds,
             StartTerminal(t, kind) \/ \E s \in Sessions : StartServed(t, kind, s)
      PROVE  (\A u \in Turns : Used(u) => Same(u)) /\ UNCHANGED <<steer, terminal>>
    BY <1>1, StartsFrom, Starts DEF Same, Used, TurnAt, Begun
<1>2. ASSUME NEW t \in Turns, TurnMoves(t)
      PROVE  (\A u \in Turns : Used(u) => Same(u)) /\ UNCHANGED <<steer, terminal>>
  <2>1. PICK pc \in TurnPC \ {"unused"} : Goto(t, pc)
      BY <1>2, MovesGoto
  <2>2. turn'[t].pc = pc /\ Used(t) /\ \A u \in Turns \ {t} : turn'[u] = turn[u]
      BY <1>2, <2>1, MovesGoto, Moved DEF TurnRecord
  <2>3. Begun(t) => pc \notin {"unused", "start", "record", "blocked"}
      BY <1>2, <2>2, MovesTo DEF Begun
  <2>4. \A u \in Turns : Used(u) =>
            /\ Used(u)' /\ turn'[u].kind = turn[u].kind /\ turn'[u].session = turn[u].session
            /\ turn'[u].text = turn[u].text
      BY <2>1, <2>2, Moved
  <2> QED BY <1>2, <2>2, <2>3, <2>4, MovesGoto DEF Same, Begun
<1>3. ASSUME NEW t \in Turns, Result(t)
      PROVE  (\A u \in Turns : Used(u) => Same(u)) /\ UNCHANGED <<steer, terminal>>
    BY <1>3, Results DEF Same, Used, TurnAt, Begun, TurnRecord
<1>4. ASSUME NEW t \in Turns, Collect(t)
      PROVE  (\A u \in Turns : Used(u) => Same(u)) /\ UNCHANGED <<steer, terminal>>
    BY <1>4, Collects DEF Same, Used, TurnAt, Begun, TurnRecord
<1>5. ASSUME NEW t \in Turns, NEW next \in Turns, SendLeftover(t, next)
      PROVE  (\A u \in Turns : Used(u) => Same(u)) /\ UNCHANGED <<steer, terminal>>
    BY <1>5, Sends DEF Same, Used, TurnAt, Begun, TurnRecord
<1>6. ASSUME NEW m \in Steers, NEW t \in Turns, Type(m, t)
      PROVE  /\ UNCHANGED <<turn, terminal>>
             /\ \A n \in Steers : steer[n].pc # "unsent" => steer'[n] = steer[n]
    BY <1>6 DEF Type, SteerAt, Types
<1>7. ASSUME NEW m \in Steers, SteerStep(m)
      PROVE  /\ UNCHANGED <<turn, terminal>>
             /\ \A n \in Steers : steer[n].pc # "unsent" =>
                   steer'[n].pc # "unsent" /\ steer'[n].turn = steer[n].turn
    BY <1>7, SteerTypes DEF SteerStep, GiveUp, RecordSteer, Queue
<1>8. UNCHANGED turn => \A u \in Turns : Used(u) => Same(u)
    BY DEF Same, Used, TurnAt, Begun
<1> QED BY <1>1, <1>2, <1>3, <1>4, <1>5, <1>6, <1>7, <1>8, Sorted

-------------------------------------------------------------------------------
LEMMA KnowsStep == Types /\ Knows /\ SteersPlaced /\ [Next]_vars => Knows'
<1> SUFFICES ASSUME Types, Knows, SteersPlaced, [Next]_vars PROVE Knows'
    OBVIOUS
<1>1. \A t \in Turns : TurnKnows(t)'
  <2> SUFFICES ASSUME NEW u \in Turns PROVE TurnKnows(u)'
      OBVIOUS
  <2>0. TurnKnows(u)
      BY DEF Knows
  <2>1. ASSUME turn'[u] = turn[u] PROVE TurnKnows(u)'
      BY <2>0, <2>1 DEF TurnKnows, Used, TurnAt
  <2>2. ASSUME NEW t \in Turns, NEW kind \in Kinds,
               StartTerminal(t, kind) \/ \E s \in Sessions : StartServed(t, kind, s)
        PROVE  TurnKnows(u)'
    <3>1. PICK p \in Places : Start(t, kind, p) /\ (kind = "worker" <=> p = t)
                              /\ (kind # "worker" => p \in Sessions)
        BY <2>2, StartsFrom
    <3>2. turn'[t] = NewTurn(t, kind, p, {}) /\ \A v \in Turns \ {t} : turn'[v] = turn[v]
        BY <3>1, Starts
    <3>3. TurnKnows(t)'
        BY <3>1, <3>2 DEF TurnKnows, Used, TurnAt, NewTurn
    <3> QED BY <2>1, <3>2, <3>3
  <2>3. ASSUME NEW t \in Turns, TurnMoves(t) PROVE TurnKnows(u)'
    <3>1. PICK pc \in TurnPC \ {"unused"} : Goto(t, pc)
        BY <2>3, MovesGoto
    <3>2. Used(t) /\ turn[t] \in TurnRecord /\ turn'[t].pc = pc /\ \A v \in Turns \ {t} : turn'[v] = turn[v]
        BY <2>3, <3>1, MovesGoto, Moved, Full DEF TurnRecord
    <3>3. /\ turn'[t].kind = turn[t].kind /\ turn'[t].session = turn[t].session
          /\ turn'[t].text = turn[t].text /\ turn'[t].left = turn[t].left /\ Used(t)'
        BY <3>1, <3>2, Moved
    <3>4. TurnKnows(t)
        BY DEF Knows
    <3>5. TurnKnows(t)'
      <4>1. /\ pc \in {"record", "output", "collect"} => turn[t].kind # "aside"
            /\ pc = "record" => turn[t].text = {}
            /\ pc \in {"start", "record", "running", "stopped", "output", "collect"} => turn[t].left = {}
          BY <2>3, <3>2, <3>4, MovesTo DEF TurnKnows
      <4> QED BY <3>2, <3>3, <3>4, <4>1 DEF TurnKnows
    <3> QED BY <2>1, <3>2, <3>5
  <2>4. ASSUME NEW t \in Turns, Result(t) PROVE TurnKnows(u)'
    <3>1. TurnKnows(t)'
        BY <2>4, Results DEF TurnKnows, Used, TurnAt, TurnRecord, Knows
    <3> QED BY <2>1, <2>4, <3>1, Results
  <2>5. ASSUME NEW t \in Turns, Collect(t) PROVE TurnKnows(u)'
    <3>1. TurnKnows(t)'
        BY <2>5, Collects DEF TurnKnows, Used, TurnAt, TurnRecord, Knows
    <3> QED BY <2>1, <2>5, <3>1, Collects
  <2>6. ASSUME NEW t \in Turns, NEW next \in Turns, SendLeftover(t, next) PROVE TurnKnows(u)'
    <3>1. TurnKnows(t)'
        BY <2>6, Sends DEF TurnKnows, Used, TurnAt, TurnRecord, Knows
    <3>2. turn[t].session \in Sessions
        BY <2>6, Sends DEF Knows, TurnKnows, Used, TurnAt
    <3>4. turn'[next] = NewTurn(next, "prompt", turn[t].session, turn[t].left)
        BY <2>6, Sends
    <3>5. /\ turn'[next].pc = "start" /\ turn'[next].kind = "prompt"
          /\ turn'[next].session = turn[t].session /\ turn'[next].left = {}
        BY <3>4 DEF NewTurn
    <3>3. TurnKnows(next)'
        BY <3>2, <3>5 DEF TurnKnows
    <3> QED BY <2>1, <2>6, <3>1, <3>3, Sends
  <2>7. ASSUME UNCHANGED turn PROVE TurnKnows(u)'
      BY <2>1, <2>7
  <2> QED BY <2>2, <2>3, <2>4, <2>5, <2>6, <2>7, Sorted DEF Type, SteerStep, GiveUp, RecordSteer, Queue
<1>2. \A m \in Steers : SteerKnows(m)'
  <2> SUFFICES ASSUME NEW n \in Steers PROVE SteerKnows(n)'
      OBVIOUS
  <2>1. CASE steer[n].pc # "unsent"
    <3>1. steer[n].turn \in Turns /\ SteerKnows(n)
        BY <2>1, Full DEF SteerAt, SteerRecord, Knows
    <3>2. Used(steer[n].turn)
        BY <2>1, <3>1 DEF SteerKnows, Begun, Used, TurnAt
    <3> QED BY <2>1, <3>1, <3>2, Persist DEF SteerKnows, Same
  <2>2. CASE steer[n].pc = "unsent" /\ steer'[n].pc # "unsent"
    <3>1. PICK m \in Steers, t \in Turns : Type(m, t)
        BY <2>2, Sorted, StartsFrom, Starts, MovesGoto, Results, Collects, Sends, SteerTypes
    <3>2. n = m /\ steer'[n].turn = t /\ turn' = turn
        BY <2>2, <3>1 DEF Type, Types
    <3> QED BY <3>1, <3>2 DEF Type, SteerKnows, Begun
  <2>3. CASE steer'[n].pc = "unsent"
      BY <2>3 DEF SteerKnows
  <2> QED BY <2>1, <2>2, <2>3
<1> QED BY <1>1, <1>2 DEF Knows
-------------------------------------------------------------------------------
(* Where one message is. *)
Placed(m) ==
    /\ SteerAt(m, "sent") <=> HoldersOf(m) # {}
    /\ \A h, i \in HoldersOf(m) : h = i
    /\ \A h \in HoldersOf(m) :
           /\ SessionOf(h) = turn[steer[m].turn].session
           /\ h[1] # "queue" => turn[h[2]].kind # "aside"

LEMMA HolderKinds ==
    /\ \A p \in Places : <<"queue", p>> \in Holders /\ Held(<<"queue", p>>) = steers[p]
                         /\ SessionOf(<<"queue", p>>) = p
    /\ \A t \in Turns : /\ {<<"read", t>>, <<"left", t>>, <<"text", t>>} \subseteq Holders
                        /\ Held(<<"read", t>>) = IF Used(t) THEN turn[t].read ELSE {}
                        /\ Held(<<"left", t>>) = IF Used(t) THEN turn[t].left ELSE {}
                        /\ Held(<<"text", t>>) = IF Used(t) THEN turn[t].text ELSE {}
                        /\ SessionOf(<<"read", t>>) = turn[t].session
                        /\ SessionOf(<<"left", t>>) = turn[t].session
                        /\ SessionOf(<<"text", t>>) = turn[t].session
    /\ \A h \in Holders : \/ \E p \in Places : h = <<"queue", p>>
                          \/ \E t \in Turns : h = <<"read", t>> \/ h = <<"left", t>> \/ h = <<"text", t>>
BY DEF Holders, Held, SessionOf, Used

(* The session and kind of what holds a message stay. *)
LEMMA HolderPersists ==
    ASSUME Types, Knows, [Next]_vars, NEW h \in Holders, NEW m \in Held(h)
    PROVE  /\ SessionOf(h)' = SessionOf(h)
           /\ h[1] # "queue" => turn'[h[2]].kind = turn[h[2]].kind
<1>1. CASE h[1] = "queue"
    BY <1>1 DEF SessionOf
<1>2. CASE h[1] # "queue"
  <2>1. h[2] \in Turns /\ Used(h[2])
      BY <1>2, HolderKinds DEF Held, Used
  <2> QED BY <1>2, <2>1, Persist DEF SessionOf, Same
<1> QED BY <1>1, <1>2

(* A sent message is one of a used turn, whose session stays. *)
LEMMA SpeakerPersists ==
    ASSUME Types, Knows, [Next]_vars, NEW m \in Steers, SteerAt(m, "sent")
    PROVE  /\ steer'[m].turn = steer[m].turn
           /\ turn'[steer[m].turn].session = turn[steer[m].turn].session
<1>1. steer[m].turn \in Turns /\ Used(steer[m].turn)
    BY Full DEF SteerAt, SteerRecord, Knows, SteerKnows, Begun, Used, TurnAt
<1> QED BY <1>1, Persist DEF SteerAt, Same

(* A message that stays where it is. *)
LEMMA Stays ==
    ASSUME Types, Knows, SteersPlaced, [Next]_vars, NEW m \in Steers,
           steer'[m].pc = "sent" <=> steer[m].pc = "sent",
           \A h \in Holders : m \in Held(h)' <=> m \in Held(h)
    PROVE  Placed(m)'
<1>1. Placed(m)
    BY DEF SteersPlaced, Placed
<1>2. HoldersOf(m)' = HoldersOf(m)
    BY DEF HoldersOf, Holders, Places
<1>3. (SteerAt(m, "sent") <=> HoldersOf(m) # {})' /\ (\A h, i \in HoldersOf(m) : h = i)'
    BY <1>1, <1>2 DEF Placed, SteerAt
<1>4. ASSUME NEW h \in HoldersOf(m)
      PROVE  SessionOf(h)' = turn'[steer'[m].turn].session /\ (h[1] # "queue" => turn'[h[2]].kind # "aside")
  <2>1. h \in Holders /\ m \in Held(h) /\ SteerAt(m, "sent")
      BY <1>1, <1>4 DEF HoldersOf, Placed
  <2> QED BY <1>1, <1>4, <2>1, HolderPersists, SpeakerPersists DEF Placed
<1> QED BY <1>2, <1>3, <1>4 DEF Placed

(* A message that goes from one place to another. *)
LEMMA Goes ==
    ASSUME Types, Knows, SteersPlaced, [Next]_vars, NEW m \in Steers,
           steer'[m].pc = "sent" <=> steer[m].pc = "sent",
           NEW a \in Holders, NEW b \in Holders, m \in Held(a),
           \A h \in Holders : m \in Held(h)' <=> h = b,
           SessionOf(b)' = SessionOf(a), b[1] # "queue" => turn'[b[2]].kind # "aside"
    PROVE  Placed(m)'
<1>1. Placed(m) /\ a \in HoldersOf(m)
    BY DEF SteersPlaced, Placed, HoldersOf
<1>2. HoldersOf(m)' = {b}
    BY DEF HoldersOf, Holders, Places
<1>3. SteerAt(m, "sent") /\ SteerAt(m, "sent")' /\ SessionOf(a) = turn[steer[m].turn].session
    BY <1>1 DEF Placed, SteerAt
<1>4. SessionOf(b)' = turn'[steer'[m].turn].session
    BY <1>3, SpeakerPersists
<1> QED BY <1>2, <1>3, <1>4 DEF Placed

(* What is at one turn only changes with the turn. *)
LEMMA Elsewhere ==
    ASSUME NEW m \in Steers, NEW T \in SUBSET Turns, \A u \in Turns \ T : turn'[u] = turn[u],
           NEW h \in Holders, h[1] # "queue", h[2] \notin T
    PROVE  m \in Held(h)' <=> m \in Held(h)
<1>1. h[2] \in Turns \ T
    BY HolderKinds
<1> QED BY <1>1 DEF Held, TurnAt
(* A message goes from holder a to b, or is at neither. *)
LEMMA GoesIfThere ==
    ASSUME Types, Knows, SteersPlaced, [Next]_vars, NEW m \in Steers, UNCHANGED steer,
           NEW a \in Holders, NEW b \in Holders, a # b,
           m \in Held(b)' <=> m \in Held(a) \cup Held(b), m \notin Held(a)',
           \A h \in Holders \ {a, b} : m \in Held(h)' <=> m \in Held(h),
           SessionOf(b)' = SessionOf(a), b[1] # "queue" => turn'[b[2]].kind # "aside"
    PROVE  Placed(m)'
<1>1. CASE m \in Held(a)
  <2>1. \A h \in Holders : m \in Held(h) => h = a
      BY <1>1 DEF SteersPlaced, HoldersOf
  <2>2. \A h \in Holders : m \in Held(h)' <=> h = b
      BY <1>1, <2>1
  <2> QED BY <1>1, <2>2, Goes
<1>2. CASE m \notin Held(a)
  <2>1. \A h \in Holders : m \in Held(h)' <=> m \in Held(h)
      BY <1>2
  <2> QED BY <2>1, Stays
<1> QED BY <1>1, <1>2

LEMMA PlacedStep == Types /\ Knows /\ SteersPlaced /\ [Next]_vars => SteersPlaced'
<1> SUFFICES ASSUME Types, Knows, SteersPlaced, [Next]_vars, NEW m \in Steers PROVE Placed(m)'
    BY DEF SteersPlaced, Placed
<1>1. ASSUME UNCHANGED <<turn, steers>>, steer'[m].pc = "sent" <=> steer[m].pc = "sent"
      PROVE  Placed(m)'
  <2>1. \A h \in Holders : m \in Held(h)' <=> m \in Held(h)
      BY <1>1 DEF Held, TurnAt
  <2> QED BY <1>1, <2>1, Stays
<1>2. ASSUME NEW t \in Turns, NEW kind \in Kinds,
             StartTerminal(t, kind) \/ \E s \in Sessions : StartServed(t, kind, s)
      PROVE  Placed(m)'
  <2>1. PICK p \in Places : Start(t, kind, p)
      BY <1>2, StartsFrom
  <2>2. /\ turn'[t].text = {} /\ turn'[t].read = {} /\ turn'[t].left = {} /\ ~Used(t)
        /\ \A u \in Turns \ {t} : turn'[u] = turn[u]
        /\ UNCHANGED <<steer, steers>>
    <3>1. turn'[t] = NewTurn(t, kind, p, {})
        BY <2>1, Starts
    <3>2. turn'[t].text = {} /\ turn'[t].read = {} /\ turn'[t].left = {}
        BY <3>1 DEF NewTurn
    <3> QED BY <2>1, <3>2, Starts
  <2>3. ASSUME NEW h \in Holders PROVE m \in Held(h)' <=> m \in Held(h)
    <3>1. CASE h[1] = "queue"
        BY <2>2, <3>1 DEF Held
    <3>2. CASE h[1] # "queue" /\ h[2] = t
        BY <2>2, <3>2 DEF Held, Used
    <3>3. CASE h[1] # "queue" /\ h[2] # t
        BY <2>2, <2>3, <3>3, Elsewhere, {t} \in SUBSET Turns
    <3> QED BY <3>1, <3>2, <3>3
  <2> QED BY <2>2, <2>3, Stays
<1>3. ASSUME NEW t \in Turns, TurnMoves(t) PROVE Placed(m)'
  <2>1. PICK pc \in TurnPC \ {"unused"} : Goto(t, pc)
      BY <1>3, MovesGoto
  <2>2. /\ \A u \in Turns : /\ Used(u)' <=> Used(u)
                            /\ Used(u) => /\ turn'[u].text = turn[u].text
                                          /\ turn'[u].read = turn[u].read
                                          /\ turn'[u].left = turn[u].left
        /\ UNCHANGED <<steer, steers>>
      BY <1>3, <2>1, MovesGoto, Moved
  <2>3. \A h \in Holders : m \in Held(h)' <=> m \in Held(h)
      BY <2>2, HolderKinds DEF Held, Used
  <2> QED BY <2>2, <2>3, Stays
<1>4. ASSUME NEW t \in Turns, Result(t) PROVE Placed(m)'
  <2>0. PICK s \in Places, a \in Holders, b \in Holders : s = turn[t].session /\ a = <<"queue", s>> /\ b = <<"read", t>>
      BY <1>4, Results, HolderKinds
  <2>1. /\ s \in Places /\ Used(t) /\ Used(t)' /\ turn'[t].session = s /\ turn'[t].kind # "aside"
        /\ turn'[t].text = turn[t].text /\ turn'[t].left = turn[t].left
        /\ turn'[t].read = turn[t].read \cup steers[s]
        /\ \A u \in Turns \ {t} : turn'[u] = turn[u]
        /\ steers'[s] = {} /\ \A p \in Places \ {s} : steers'[p] = steers[p]
        /\ UNCHANGED steer
      BY <1>4, <2>0, Results DEF Used, TurnAt, Types
  <2>2. /\ a \in Holders /\ b \in Holders /\ a # b /\ a[1] = "queue" /\ b[1] = "read" /\ b[2] = t
        /\ Held(a) = steers[s] /\ Held(a)' = {}
        /\ Held(b) = turn[t].read /\ Held(b)' = turn[t].read \cup steers[s]
        /\ SessionOf(a) = s /\ SessionOf(b)' = s
      BY <2>0, <2>1, HolderKinds DEF Held, Used, SessionOf
  <2>3. ASSUME NEW h \in Holders \ {a, b} PROVE m \in Held(h)' <=> m \in Held(h)
    <3>1. CASE h[1] = "queue"
      <4>1. h[2] \in Places \ {s}
          BY <2>0, <2>3, <3>1, HolderKinds
      <4> QED BY <2>1, <3>1, <4>1 DEF Held
    <3>2. CASE h[1] # "queue" /\ h[2] = t
      <4>1. h[1] # "read"
          BY <2>0, <2>3, <3>2, HolderKinds
      <4> QED BY <2>1, <3>2, <4>1 DEF Held, Used
    <3>3. CASE h[1] # "queue" /\ h[2] # t
        BY <2>1, <2>3, <3>3, Elsewhere, {t} \in SUBSET Turns
    <3> QED BY <3>1, <3>2, <3>3
  <2> QED BY <2>1, <2>2, <2>3, GoesIfThere
<1>5. ASSUME NEW t \in Turns, Collect(t) PROVE Placed(m)'
  <2>0. PICK s \in Places, a \in Holders, b \in Holders : s = turn[t].session /\ a = <<"queue", s>> /\ b = <<"left", t>>
      BY <1>5, Collects, HolderKinds
  <2>1. /\ s \in Places /\ Used(t) /\ Used(t)' /\ turn'[t].session = s /\ turn'[t].kind # "aside"
        /\ turn'[t].text = turn[t].text /\ turn'[t].read = turn[t].read
        /\ turn[t].left = {} /\ turn'[t].left = steers[s]
        /\ \A u \in Turns \ {t} : turn'[u] = turn[u]
        /\ steers'[s] = {} /\ \A p \in Places \ {s} : steers'[p] = steers[p]
        /\ UNCHANGED steer
      BY <1>5, <2>0, Collects DEF Used, TurnAt, Types, Knows, TurnKnows
  <2>2. /\ a \in Holders /\ b \in Holders /\ a # b /\ a[1] = "queue" /\ b[1] = "left" /\ b[2] = t
        /\ Held(a) = steers[s] /\ Held(a)' = {}
        /\ Held(b) = {} /\ Held(b)' = steers[s]
        /\ SessionOf(a) = s /\ SessionOf(b)' = s
      BY <2>0, <2>1, HolderKinds DEF Held, Used, SessionOf
  <2>3. ASSUME NEW h \in Holders \ {a, b} PROVE m \in Held(h)' <=> m \in Held(h)
    <3>1. CASE h[1] = "queue"
      <4>1. h[2] \in Places \ {s}
          BY <2>0, <2>3, <3>1, HolderKinds
      <4> QED BY <2>1, <3>1, <4>1 DEF Held
    <3>2. CASE h[1] # "queue" /\ h[2] = t
      <4>1. h[1] # "left"
          BY <2>0, <2>3, <3>2, HolderKinds
      <4> QED BY <2>1, <3>2, <4>1 DEF Held, Used
    <3>3. CASE h[1] # "queue" /\ h[2] # t
        BY <2>1, <2>3, <3>3, Elsewhere, {t} \in SUBSET Turns
    <3> QED BY <3>1, <3>2, <3>3
  <2> QED BY <2>1, <2>2, <2>3, GoesIfThere
<1>6. ASSUME NEW t \in Turns, NEW next \in Turns, SendLeftover(t, next) PROVE Placed(m)'
  <2>0. PICK a \in Holders, b \in Holders : a = <<"left", t>> /\ b = <<"text", next>>
      BY HolderKinds
  <2>1. /\ t # next /\ Used(t) /\ Used(t)' /\ ~Used(next) /\ Used(next)'
        /\ turn'[t].session = turn[t].session /\ turn'[next].session = turn[t].session
        /\ turn'[t].text = turn[t].text /\ turn'[t].read = turn[t].read /\ turn'[t].left = {}
        /\ turn'[next].text = turn[t].left /\ turn'[next].read = {} /\ turn'[next].left = {}
        /\ turn'[next].kind = "prompt"
        /\ \A u \in Turns \ {t, next} : turn'[u] = turn[u]
        /\ UNCHANGED <<steer, steers>>
    <3>1. turn'[next] = NewTurn(next, "prompt", turn[t].session, turn[t].left)
        BY <1>6, Sends
    <3>2. /\ turn'[next].pc = "start" /\ turn'[next].session = turn[t].session
          /\ turn'[next].text = turn[t].left /\ turn'[next].read = {} /\ turn'[next].left = {}
          /\ turn'[next].kind = "prompt"
        BY <3>1 DEF NewTurn
    <3>3. /\ turn'[t].session = turn[t].session /\ turn'[t].text = turn[t].text
          /\ turn'[t].read = turn[t].read /\ turn'[t].left = {}
          /\ turn[t].pc = "done" /\ turn'[t].pc = turn[t].pc
          /\ t # next /\ ~Used(next) /\ \A u \in Turns \ {t, next} : turn'[u] = turn[u]
          /\ UNCHANGED <<steer, steers>>
        BY <1>6, Sends
    <3> QED BY <3>2, <3>3 DEF Used, TurnAt
  <2>2. /\ a \in Holders /\ b \in Holders /\ a # b /\ a[1] = "left" /\ b[1] = "text"
        /\ a[2] = t /\ b[2] = next
        /\ Held(a) = turn[t].left /\ Held(a)' = {}
        /\ Held(b) = {} /\ Held(b)' = turn[t].left
        /\ SessionOf(a) = turn[t].session /\ SessionOf(b)' = turn[t].session
      BY <2>0, <2>1, HolderKinds DEF Held, Used, SessionOf
  <2>3. ASSUME NEW h \in Holders \ {a, b} PROVE m \in Held(h)' <=> m \in Held(h)
    <3>1. CASE h[1] = "queue"
        BY <2>1, <3>1 DEF Held
    <3>2. CASE h[1] # "queue" /\ h[2] = t
      <4>1. h[1] # "left"
          BY <2>0, <2>3, <3>2, HolderKinds
      <4> QED BY <2>1, <3>2, <4>1, HolderKinds DEF Held, Used
    <3>3. CASE h[1] # "queue" /\ h[2] = next
      <4>1. h[1] # "text" /\ h[1] \in {"read", "left", "text"}
          BY <2>0, <2>3, <3>3, HolderKinds
      <4> QED BY <2>1, <3>3, <4>1 DEF Held, Used
    <3>4. CASE h[1] # "queue" /\ h[2] \notin {t, next}
        BY <2>1, <2>3, <3>4, Elsewhere, {t, next} \in SUBSET Turns
    <3> QED BY <3>1, <3>2, <3>3, <3>4
  <2> QED BY <2>1, <2>2, <2>3, GoesIfThere
<1>7. ASSUME NEW n \in Steers, NEW t \in Turns, Type(n, t) PROVE Placed(m)'
    BY <1>1, <1>7 DEF Type, SteerAt, Types
<1>8. ASSUME NEW n \in Steers, SteerStep(n) PROVE Placed(m)'
  <2>1. CASE GiveUp(n) \/ RecordSteer(n)
    <3>1. PICK pc \in {"refused", "queue"} : SteerGoto(n, pc)
        BY <2>1 DEF GiveUp, RecordSteer
    <3>2. steer' = [steer EXCEPT ![n] = [steer[n] EXCEPT !.pc = pc]] /\ steer[n] \in SteerRecord
        BY <1>8, <3>1, SteerTypes DEF SteerGoto, Types
    <3>3. steer'[n].pc = pc /\ \A i \in Steers \ {n} : steer'[i] = steer[i]
        BY <3>2 DEF SteerRecord, Types
    <3>4. steer[n].pc # "sent" /\ UNCHANGED <<turn, steers>>
        BY <2>1 DEF GiveUp, RecordSteer, SteerAt
    <3> QED BY <1>1, <3>3, <3>4
  <2>2. CASE Queue(n)
    <3>1. /\ steer[n].turn \in Turns /\ Used(steer[n].turn) /\ steer[n] \in SteerRecord
        BY <2>2, Full DEF Queue, SteerAt, SteerRecord, Knows, SteerKnows, Begun, Used, TurnAt
    <3>0. PICK s \in Places : s = turn[steer[n].turn].session
        BY <3>1, Full DEF TurnRecord
    <3>2. /\ steers'[s] = steers[s] \cup {n}
          /\ \A p \in Places \ {s} : steers'[p] = steers[p]
          /\ turn' = turn /\ steer[n].pc = "queue"
        BY <2>2, <3>0, <3>1 DEF Queue, SteerAt, Types
    <3>3. steer' = [steer EXCEPT ![n] = [steer[n] EXCEPT !.pc = "sent"]]
        BY <2>2 DEF Queue, SteerGoto, Types
    <3>4. /\ steer'[n].pc = "sent" /\ steer'[n].turn = steer[n].turn
          /\ \A i \in Steers \ {n} : steer'[i] = steer[i]
        BY <3>1, <3>3 DEF Types, SteerRecord
    <3>5. \A h \in Holders : \A i \in Steers :
              i \in Held(h)' <=> i \in Held(h) \/ (i = n /\ h = <<"queue", s>>)
      <4> SUFFICES ASSUME NEW h \in Holders, NEW i \in Steers
                   PROVE  i \in Held(h)' <=> i \in Held(h) \/ (i = n /\ h = <<"queue", s>>)
          OBVIOUS
      <4>1. CASE h[1] = "queue"
        <5>1. PICK p \in Places : h = <<"queue", p>>
            BY <4>1, HolderKinds
        <5>2. Held(h) = steers[p] /\ Held(h)' = steers'[p] /\ (h = <<"queue", s>> <=> p = s)
            BY <5>1 DEF Held
        <5> QED BY <3>2, <5>2
      <4>2. CASE h[1] # "queue"
          BY <3>2, <4>2 DEF Held, TurnAt
      <4> QED BY <4>1, <4>2
    <3>6. CASE m # n
        BY <3>4, <3>5, <3>6, Stays
    <3>7. CASE m = n
      <4>1. HoldersOf(m) = {}
          BY <3>2, <3>7 DEF SteersPlaced, SteerAt
      <4>2. HoldersOf(m)' = {<<"queue", s>>}
          BY <3>2, <3>5, <3>7, <4>1, HolderKinds DEF HoldersOf, Holders, Places
      <4>3. SessionOf(<<"queue", s>>)' = turn'[steer'[n].turn].session
          BY <3>0, <3>2, <3>4 DEF SessionOf
      <4>4. <<"queue", s>>[1] = "queue"
          OBVIOUS
      <4> QED BY <3>4, <3>7, <4>2, <4>3, <4>4 DEF Placed, SteerAt
    <3> QED BY <3>6, <3>7
  <2> QED BY <1>8, <2>1, <2>2 DEF SteerStep
<1> QED BY <1>1, <1>2, <1>3, <1>4, <1>5, <1>6, <1>7, <1>8, Sorted
-------------------------------------------------------------------------------
(* At a terminal, where the message of a turn is while the turn runs. *)
Ordered(m) ==
    /\ steer[m].pc \in {"typing", "queue"} => turn[steer[m].turn].pc \in {"running", "stopped"}
    /\ \A s \in Places : m \in steers[s] =>
           turn[steer[m].turn].pc \in {"running", "stopped", "output", "collect"}

LEMMA InOrderStep ==
    ASSUME Types, Knows, SteersPlaced, InOrder, [Next]_vars, terminal, NEW m \in Steers
    PROVE  Ordered(m)'
<1>0. Ordered(m) /\ SteerKnows(m)
    BY DEF InOrder, Ordered, Knows
<1>a. ASSUME NEW s \in Places, m \in steers[s]
      PROVE  /\ steer[m].pc = "sent" /\ steer[m].turn \in Turns
             /\ s = turn[steer[m].turn].session
  <2>1. <<"queue", s>> \in HoldersOf(m)
      BY <1>a, HolderKinds DEF HoldersOf
  <2> QED BY <2>1, HolderKinds, Full DEF SteersPlaced, SteerAt, SteerRecord
<1>b. steer[m].pc # "unsent" => steer[m].turn \in Turns /\ Used(steer[m].turn)
    BY <1>0, Full DEF SteerAt, SteerRecord, SteerKnows, Begun, Used, TurnAt
<1>1. ASSUME \A s \in Places : m \in steers'[s] => m \in steers[s], steer'[m] = steer[m],
             steer[m].pc # "unsent" => turn'[steer[m].turn] = turn[steer[m].turn]
      PROVE  Ordered(m)'
    BY <1>0, <1>1, <1>a DEF Ordered
<1>2. ASSUME NEW t \in Turns, NEW kind \in Kinds,
             StartTerminal(t, kind) \/ \E s \in Sessions : StartServed(t, kind, s)
      PROVE  Ordered(m)'
  <2>1. PICK p \in Places : Start(t, kind, p)
      BY <1>2, StartsFrom
  <2>2. ~Used(t) /\ UNCHANGED <<steer, steers>> /\ \A u \in Turns \ {t} : turn'[u] = turn[u]
      BY <2>1, Starts
  <2>3. steer[m].pc # "unsent" => turn'[steer[m].turn] = turn[steer[m].turn]
      BY <1>b, <2>2
  <2> QED BY <1>1, <2>2, <2>3
<1>3. ASSUME NEW t \in Turns, TurnMoves(t) PROVE Ordered(m)'
  <2>1. /\ \A u \in Turns \ {t} : turn'[u] = turn[u]
        /\ UNCHANGED <<steer, steers>>
      BY <1>3, MovesGoto, Moved
  <2>2. CASE steer[m].pc = "unsent" \/ steer[m].turn # t
      BY <1>1, <1>b, <2>1, <2>2
  <2>3. CASE steer[m].pc # "unsent" /\ steer[m].turn = t
    <3>1. turn[t].kind = "prompt"
        BY <1>0, <2>3 DEF SteerKnows
    <3>2. steer[m].pc \in {"typing", "queue"} => turn'[t].pc \in {"running", "stopped"}
      <4>1. ASSUME steer[m].pc \in {"typing", "queue"}, turn[t].pc = "stopped" PROVE FALSE
        <5>1. m \in InFlight(t)
            BY <2>3, <4>1 DEF InFlight
        <5>2. OnFinished(t)
            BY <1>3, <4>1 DEF TurnMoves, Accept, RecordPrompt, Stop, RecordOutput, Drop, TurnAt
        <5> QED BY <5>1, <5>2 DEF OnFinished
      <4> QED BY <1>0, <1>3, <2>3, <4>1, MovesTo DEF Ordered
    <3>3. ASSUME NEW s \in Places, m \in steers[s]
          PROVE  turn'[t].pc \in {"running", "stopped", "output", "collect"}
      <4>1. turn[t].pc \in {"running", "stopped", "output", "collect"} /\ turn[t].pc # "collect"
        <5>1. turn[t].pc \in {"running", "stopped", "output", "collect"}
            BY <1>0, <2>3, <3>3 DEF Ordered
        <5> QED BY <1>3, <5>1, MovesTo
      <4> QED BY <1>3, <3>1, <4>1, MovesTo
    <3> QED BY <2>1, <2>3, <3>2, <3>3 DEF Ordered
  <2> QED BY <2>2, <2>3
<1>4. ASSUME NEW t \in Turns, Result(t) PROVE Ordered(m)'
  <2>1. /\ turn'[t].pc = turn[t].pc /\ \A u \in Turns \ {t} : turn'[u] = turn[u]
        /\ UNCHANGED steer /\ steers' = [steers EXCEPT ![turn[t].session] = {}]
      BY <1>4, Results
  <2>2. \A s \in Places : m \in steers'[s] => m \in steers[s]
      BY <2>1 DEF Types
  <2> QED BY <1>0, <1>a, <1>b, <2>1, <2>2 DEF Ordered
<1>5. ASSUME NEW t \in Turns, Collect(t) PROVE Ordered(m)'
  <2>1. /\ turn[t].pc = "collect" /\ \A u \in Turns \ {t} : turn'[u] = turn[u]
        /\ UNCHANGED steer /\ steers' = [steers EXCEPT ![turn[t].session] = {}]
      BY <1>5, Collects
  <2>2. \A s \in Places : m \in steers'[s] => m \in steers[s] /\ s # turn[t].session
      BY <2>1 DEF Types
  <2>3. CASE steer[m].pc # "unsent" /\ steer[m].turn = t
    <3>1. steer[m].pc \notin {"typing", "queue"}
        BY <1>0, <2>1, <2>3 DEF Ordered
    <3> QED BY <1>a, <2>1, <2>2, <2>3, <3>1 DEF Ordered
  <2>4. CASE ~(steer[m].pc # "unsent" /\ steer[m].turn = t)
      BY <1>1, <1>b, <2>1, <2>2, <2>4
  <2> QED BY <2>3, <2>4
<1>6. ASSUME NEW t \in Turns, NEW next \in Turns, SendLeftover(t, next) PROVE Ordered(m)'
  <2>1. /\ turn[t].pc = "done" /\ turn'[t].pc = turn[t].pc /\ ~Used(next)
        /\ \A u \in Turns \ {t, next} : turn'[u] = turn[u]
        /\ UNCHANGED <<steer, steers>>
      BY <1>6, Sends
  <2>2. CASE steer[m].pc # "unsent"
    <3>1. steer[m].turn # next
        BY <1>b, <2>1, <2>2
    <3>2. turn'[steer[m].turn].pc = turn[steer[m].turn].pc
        BY <1>b, <2>1, <2>2, <3>1
    <3> QED BY <1>0, <2>1, <3>2 DEF Ordered
  <2>3. CASE steer[m].pc = "unsent"
      BY <1>1, <2>1, <2>3
  <2> QED BY <2>2, <2>3
<1>7. ASSUME NEW n \in Steers, NEW t \in Turns, Type(n, t) PROVE Ordered(m)'
  <2>1. CASE m # n
      BY <1>1, <1>7, <2>1 DEF Type, Types
  <2>2. CASE m = n
    <3>1. steer'[m].turn = t /\ turn'[t].pc \in {"running", "stopped"} /\ UNCHANGED steers
        BY <1>7, <2>2 DEF Type, Types
    <3> QED BY <3>1 DEF Ordered
  <2> QED BY <2>1, <2>2
<1>8. ASSUME NEW n \in Steers, SteerStep(n) PROVE Ordered(m)'
  <2>1. CASE m # n
    <3>1. \A s \in Places : m \in steers'[s] => m \in steers[s]
      <4>1. CASE GiveUp(n) \/ RecordSteer(n)
          BY <4>1 DEF GiveUp, RecordSteer
      <4>2. CASE Queue(n)
        <5>1. PICK p \in Places : steers' = [steers EXCEPT ![p] = steers[p] \cup {n}]
          <6>1. steer[n].turn \in Turns /\ turn[steer[n].turn].session \in Places
              BY <4>2, Full DEF Queue, SteerAt, SteerRecord, Knows, SteerKnows, Begun, Used, TurnAt, TurnRecord
          <6> QED BY <4>2, <6>1 DEF Queue
        <5> QED BY <2>1, <5>1 DEF Types
      <4> QED BY <1>8, <4>1, <4>2 DEF SteerStep
    <3> QED BY <1>1, <1>8, <2>1, <3>1, SteerTypes DEF SteerStep, GiveUp, RecordSteer, Queue
  <2>2. CASE m = n
    <3>1. /\ steer[m].pc \in {"typing", "queue"} /\ steer'[m].turn = steer[m].turn
          /\ UNCHANGED turn
        BY <1>8, <2>2, SteerTypes DEF SteerStep, GiveUp, RecordSteer, Queue
    <3> QED BY <1>0, <3>1 DEF Ordered
  <2> QED BY <2>1, <2>2
<1>9. CASE UNCHANGED <<turn, steer, steers>>
    BY <1>1, <1>9
<1> QED BY <1>2, <1>3, <1>4, <1>5, <1>6, <1>7, <1>8, <1>9, Sorted

(* Nothing is queued for a turn that is over. *)
LEMMA OrderForgetsNone == Types /\ SteersPlaced /\ InOrder => NoneForgotten
<1> SUFFICES ASSUME Types, SteersPlaced, InOrder, terminal, \A t \in Turns : Over(t),
                    NEW s \in Places, NEW m \in steers[s]
             PROVE  FALSE
    BY DEF NoneForgotten
<1>1. m \in Steers
    BY DEF Types
<1>2. <<"queue", s>> \in HoldersOf(m)
    BY <1>1, HolderKinds DEF HoldersOf
<1>3. steer[m].turn \in Turns
    BY <1>1, <1>2, Full DEF SteersPlaced, SteerAt, SteerRecord
<1>4. turn[steer[m].turn].pc \in {"running", "stopped", "output", "collect"}
    BY <1>1 DEF InOrder
<1> QED BY <1>3, <1>4 DEF Over
-------------------------------------------------------------------------------
(* OnceInTranscript, said of entries. *)
Written(e) == IF Due(e) /\ e \notin unsaved THEN Once(e) ELSE Never(e)

OnceByEntry == \A e \in Entries : e.what # "model" => Written(e)

LEMMA OnceWritten == OnceInTranscript <=> OnceByEntry
<1>1. \A t \in Turns : /\ Prompt(t) \in Entries /\ Prompt(t).what = "user" /\ Prompt(t).of = t
                       /\ Due(Prompt(t)) <=> Said(t)
    BY DEF Prompt, Entries, Due, Said, Begun
<1>2. \A m \in Steers : /\ Steered(m) \in Entries /\ Steered(m).what = "steer" /\ Steered(m).of = m
                        /\ Due(Steered(m)) <=> steer[m].pc \in {"queue", "sent"}
    BY DEF Steered, Entries, Due
<1>3. \A e \in Entries : e.what # "model" => \/ \E t \in Turns : e = Prompt(t)
                                             \/ \E m \in Steers : e = Steered(m)
    BY DEF Prompt, Steered, Entries
<1> QED BY <1>1, <1>2, <1>3 DEF OnceInTranscript, OnceByEntry, Written

(* Who may write an entry where. *)
Writes(p, e) == IF turn[Speaker(e)].kind = "worker" THEN p = Speaker(e) ELSE p \in Sessions

LEMMA DuePersists ==
    ASSUME Types, Knows, [Next]_vars, NEW e \in Entries, Due(e)
    PROVE  Due(e)'
<1>1. CASE e.what = "steer"
  <2>1. e.of \in Steers /\ steer[e.of].pc \in {"queue", "sent"}
      BY <1>1 DEF Entries, Due
  <2>2. \A m \in Steers : SteerStep(m) /\ steer[m].pc \in {"queue", "sent"} => steer'[m].pc = "sent"
    <3> SUFFICES ASSUME NEW m \in Steers, SteerStep(m), steer[m].pc \in {"queue", "sent"}
                 PROVE  steer'[m].pc = "sent"
        OBVIOUS
    <3>1. Queue(m) /\ steer[m] \in SteerRecord
        BY SteerTypes DEF SteerStep, GiveUp, RecordSteer, SteerAt
    <3>2. steer' = [steer EXCEPT ![m] = [steer[m] EXCEPT !.pc = "sent"]]
        BY <3>1 DEF Queue, SteerGoto, Types
    <3> QED BY <3>1, <3>2 DEF Types, SteerRecord
  <2>3. steer'[e.of].pc \in {"queue", "sent"}
    <3>1. CASE UNCHANGED steer
        BY <2>1, <3>1
    <3>2. ASSUME NEW m \in Steers, SteerStep(m) PROVE steer'[e.of].pc \in {"queue", "sent"}
        BY <2>1, <2>2, <3>2, SteerTypes
    <3>3. ASSUME NEW m \in Steers, NEW t \in Turns, Type(m, t) PROVE steer'[e.of].pc \in {"queue", "sent"}
        BY <2>1, <3>3 DEF Type, SteerAt, Types
    <3> QED BY <3>1, <3>2, <3>3, Sorted, StartsFrom, Starts, MovesGoto, Results, Collects, Sends
  <2> QED BY <1>1, <2>3 DEF Due
<1>2. CASE e.what # "steer"
  <2>1. e.of \in Turns /\ Begun(e.of)
      BY <1>2 DEF Entries, Due
  <2>2. Same(e.of)
      BY <2>1, Persist DEF Begun, Used, TurnAt
  <2> QED BY <1>2, <2>1, <2>2 DEF Due, Same, Said, Begun
<1> QED BY <1>1, <1>2

(* A turn is said in one way only: its prompt is recorded. *)
LEMMA SaidBy ==
    ASSUME Types, Knows, [Next]_vars, NEW t \in Turns, ~Said(t), Said(t)'
    PROVE  RecordPrompt(t)
<1>1. CASE turn'[t] = turn[t]
    BY <1>1 DEF Said
<1>2. ASSUME NEW u \in Turns, TurnMoves(u) PROVE RecordPrompt(t)
  <2>1. CASE u # t
      BY <1>1, <1>2, <2>1, MovesGoto, Moved
  <2>2. CASE u = t
    <3>1. turn'[t].kind = turn[t].kind /\ turn'[t].text = turn[t].text
        BY <1>2, <2>2, MovesGoto, Moved
    <3>2. turn[t].pc = "record"
        BY <1>2, <2>2, <3>1, MovesTo DEF Said
    <3> QED BY <1>2, <2>2, <3>2 DEF TurnMoves, Accept, Stop, OnFinished, RecordOutput, Drop, TurnAt
  <2> QED BY <2>1, <2>2
<1>3. ASSUME NEW u \in Turns, NEW kind \in Kinds,
             StartTerminal(u, kind) \/ \E s \in Sessions : StartServed(u, kind, s)
      PROVE  RecordPrompt(t)
  <2>1. PICK p \in Places : Start(u, kind, p)
      BY <1>3, StartsFrom
  <2>2. turn'[u].pc = "start" /\ \A v \in Turns \ {u} : turn'[v] = turn[v]
    <3>1. turn'[u] = NewTurn(u, kind, p, {}) /\ \A v \in Turns \ {u} : turn'[v] = turn[v]
        BY <2>1, Starts
    <3> QED BY <3>1 DEF NewTurn
  <2> QED BY <1>1, <2>2 DEF Said
<1>4. ASSUME NEW u \in Turns, Result(u) PROVE RecordPrompt(t)
    BY <1>1, <1>4, Results DEF Said
<1>5. ASSUME NEW u \in Turns, Collect(u) PROVE RecordPrompt(t)
    BY <1>1, <1>5, Collects DEF Said
<1>6. ASSUME NEW u \in Turns, NEW next \in Turns, SendLeftover(u, next) PROVE RecordPrompt(t)
  <2>1. turn'[next].pc = "start"
    <3>1. turn'[next] = NewTurn(next, "prompt", turn[u].session, turn[u].left)
        BY <1>6, Sends
    <3> QED BY <3>1 DEF NewTurn
  <2>2. /\ turn'[u].pc = turn[u].pc /\ turn'[u].kind = turn[u].kind /\ turn'[u].text = turn[u].text
        /\ \A v \in Turns \ {u, next} : turn'[v] = turn[v]
      BY <1>6, Sends
  <2> QED BY <1>1, <2>1, <2>2 DEF Said
<1>7. CASE UNCHANGED turn
    BY <1>1, <1>7
<1> QED BY <1>2, <1>3, <1>4, <1>5, <1>6, <1>7, Sorted DEF Type, SteerStep, GiveUp, RecordSteer, Queue

LEMMA SentBy ==
    ASSUME Types, [Next]_vars, NEW m \in Steers,
           steer[m].pc \notin {"queue", "sent"}, steer'[m].pc \in {"queue", "sent"}
    PROVE  RecordSteer(m)
<1>1. CASE steer'[m] = steer[m]
    BY <1>1
<1>2. ASSUME NEW n \in Steers, NEW t \in Turns, Type(n, t) PROVE RecordSteer(m)
    BY <1>2 DEF Type, Types
<1>3. ASSUME NEW n \in Steers, SteerStep(n) PROVE RecordSteer(m)
  <2>1. n = m /\ steer[m] \in SteerRecord
      BY <1>1, <1>3, SteerTypes
  <2>2. ASSUME GiveUp(m) PROVE FALSE
    <3>1. steer' = [steer EXCEPT ![m] = [steer[m] EXCEPT !.pc = "refused"]]
        BY <2>2 DEF GiveUp, SteerGoto, Types
    <3> QED BY <2>1, <3>1 DEF Types, SteerRecord
  <2> QED BY <1>3, <2>1, <2>2 DEF SteerStep, Queue, SteerAt
<1> QED BY <1>1, <1>2, <1>3, Sorted, StartsFrom, Starts, MovesGoto, Results, Collects, Sends
(* A step records one entry that was due to nobody, or says nothing. *)
Silent(e) == e.what # "model" /\ Due(e)' => Due(e)

Spoken(e) == IF e.what = "steer" THEN steer[e.of].pc # "unsent" ELSE Used(e.of)

Records(p, e) ==
    /\ RecordIn(p, e)
    /\ Due(e)' /\ (e.what # "model" => ~Due(e))
    /\ Spoken(e) /\ Writes(p, e)
    /\ \A f \in Entries \ {e} : Silent(f)

LEMMA StorageWrites ==
    ASSUME Types, NEW t \in Turns, NEW e \in {Prompt(t), Output(t)}
    PROVE  StorageOf(t) \in Places /\ Writes(StorageOf(t), e)
BY StorageTypes DEF Types, StorageOf, Writes, Speaker, Prompt, Output

LEMMA RecordsPrompt ==
    ASSUME Types, Knows, [Next]_vars, NEW t \in Turns, RecordPrompt(t)
    PROVE  Records(StorageOf(t), Prompt(t))
<1>1. TurnMoves(t) /\ turn[t].pc = "record" /\ RecordIn(StorageOf(t), Prompt(t)) /\ Goto(t, "running")
    BY DEF TurnMoves, RecordPrompt, TurnAt
<1>2. /\ turn'[t].pc = "running" /\ turn'[t].kind = turn[t].kind /\ turn'[t].text = turn[t].text
      /\ \A u \in Turns \ {t} : turn'[u] = turn[u]
  <2>1. Used(t) /\ "running" \in TurnPC \ {"unused"}
      BY <1>1 DEF Used, TurnAt, TurnPC
  <2> QED BY <1>1, <2>1, Moved
<1>3. turn[t].kind # "aside" /\ turn[t].text = {}
    BY <1>1 DEF Knows, TurnKnows
<1>4. Due(Prompt(t))' /\ ~Due(Prompt(t)) /\ Spoken(Prompt(t))
    BY <1>1, <1>2, <1>3 DEF Due, Prompt, Said, Begun, Spoken, Used, TurnAt
<1>5. ASSUME NEW f \in Entries \ {Prompt(t)} PROVE Silent(f)
  <2>1. CASE f.what = "user"
    <3>1. f.of \in Turns \ {t}
        BY <1>5, <2>1 DEF Entries, Prompt
    <3> QED BY <1>2, <2>1, <3>1 DEF Silent, Due, Said, Begun
  <2>2. CASE f.what = "steer"
      BY <1>1, <2>2, MovesGoto DEF Silent, Due
  <2> QED BY <2>1, <2>2 DEF Silent, Entries
<1> QED BY <1>1, <1>4, <1>5, StorageWrites DEF Records

LEMMA RecordsSteer ==
    ASSUME Types, Knows, [Next]_vars, NEW m \in Steers, RecordSteer(m)
    PROVE  Records(active, Steered(m))
<1>1. steer[m] \in SteerRecord /\ steer[m].pc = "typing" /\ SteerStep(m)
    BY Full DEF RecordSteer, SteerAt, SteerStep
<1>2. /\ steer'[m].pc = "queue" /\ UNCHANGED turn
      /\ \A n \in Steers \ {m} : steer'[n] = steer[n]
  <2>1. steer' = [steer EXCEPT ![m] = [steer[m] EXCEPT !.pc = "queue"]]
      BY DEF RecordSteer, SteerGoto, Types
  <2> QED BY <1>1, <2>1 DEF RecordSteer, Types, SteerRecord
<1>3. turn[steer[m].turn].kind = "prompt"
    BY <1>1 DEF Knows, SteerKnows
<1>4. Due(Steered(m))' /\ ~Due(Steered(m)) /\ Spoken(Steered(m)) /\ Writes(active, Steered(m))
    BY <1>1, <1>2, <1>3 DEF Due, Steered, Spoken, Writes, Speaker, Types
<1>5. ASSUME NEW f \in Entries \ {Steered(m)} PROVE Silent(f)
  <2>1. CASE f.what = "steer"
    <3>1. f.of \in Steers \ {m}
        BY <1>5, <2>1 DEF Entries, Steered
    <3> QED BY <1>2, <2>1, <3>1 DEF Silent, Due
  <2>2. CASE f.what # "steer"
      BY <1>2, <2>2 DEF Silent, Due, Said, Begun
  <2> QED BY <2>1, <2>2
<1> QED BY <1>4, <1>5 DEF Records, RecordSteer

LEMMA StepRecords ==
    ASSUME Types, Knows, [Next]_vars
    PROVE  \/ UNCHANGED <<transcript, unsaved>> /\ \A e \in Entries : Silent(e)
           \/ \E p \in Places, e \in Entries : Records(p, e)
<1>1. ASSUME NEW t \in Turns, RecordPrompt(t) PROVE \E p \in Places, e \in Entries : Records(p, e)
    BY <1>1, RecordsPrompt, StorageTypes, EntryTypes
<1>2. ASSUME NEW m \in Steers, RecordSteer(m) PROVE \E p \in Places, e \in Entries : Records(p, e)
  <2>1. active \in Places
      BY DEF Types, Places
  <2> QED BY <1>2, <2>1, RecordsSteer, EntryTypes
<1>3. CASE (\A t \in Turns : ~RecordPrompt(t)) /\ (\A m \in Steers : ~RecordSteer(m))
  <2>1. ASSUME NEW e \in Entries PROVE Silent(e)
      BY <1>3, SaidBy, SentBy DEF Silent, Due, Entries, Said, Begun
  <2>2. ASSUME NEW t \in Turns, RecordOutput(t), RecordIn(StorageOf(t), Output(t))
        PROVE  Records(StorageOf(t), Output(t))
    <3>1. Begun(t) /\ Output(t).what = "model" /\ Output(t).of = t /\ Used(t)
        BY <2>2 DEF RecordOutput, TurnAt, Begun, Output, Used
    <3>2. Due(Output(t)) /\ Spoken(Output(t)) /\ Output(t) \in Entries
        BY <3>1, EntryTypes DEF Due, Spoken
    <3> QED BY <2>1, <2>2, <3>1, <3>2, DuePersists, StorageWrites DEF Records
  <2>3. CASE \E t \in Turns : RecordOutput(t)
      BY <2>1, <2>2, <2>3, StorageTypes, EntryTypes DEF RecordOutput
  <2>4. CASE \A t \in Turns : ~RecordOutput(t)
    <3>1. UNCHANGED <<transcript, unsaved>>
      <4>1. ASSUME NEW t \in Turns, TurnMoves(t) PROVE UNCHANGED <<transcript, unsaved>>
          BY <1>3, <2>4, <4>1 DEF TurnMoves, Accept, Stop, OnFinished, Drop
      <4>2. ASSUME NEW m \in Steers, SteerStep(m) PROVE UNCHANGED <<transcript, unsaved>>
          BY <1>3, <4>2 DEF SteerStep, GiveUp, Queue
      <4>3. ASSUME NEW m \in Steers, NEW t \in Turns, Type(m, t) PROVE UNCHANGED <<transcript, unsaved>>
          BY <4>3 DEF Type
      <4> QED BY <4>1, <4>2, <4>3, Sorted, StartsFrom, Starts, Results, Collects, Sends
    <3> QED BY <2>1, <3>1
  <2> QED BY <2>3, <2>4
<1> QED BY <1>1, <1>2, <1>3
LEMMA SpokenPersists ==
    ASSUME Types, Knows, [Next]_vars, NEW e \in Entries, Spoken(e), NEW p \in Places
    PROVE  Writes(p, e)' <=> Writes(p, e)
<1>1. CASE e.what = "steer"
  <2>1. e.of \in Steers /\ steer[e.of].pc # "unsent"
      BY <1>1 DEF Spoken, Entries
  <2>2. steer[e.of].turn \in Turns /\ Used(steer[e.of].turn)
      BY <2>1, Full DEF SteerAt, SteerRecord, Knows, SteerKnows, Begun, Used, TurnAt
  <2> QED BY <1>1, <2>1, <2>2, Persist DEF Writes, Speaker, Same
<1>2. CASE e.what # "steer"
  <2>1. e.of \in Turns /\ Used(e.of)
      BY <1>2 DEF Spoken, Entries
  <2> QED BY <1>2, <2>1, Persist DEF Writes, Speaker, Same
<1> QED BY <1>1, <1>2

LEMMA DueSpoken == ASSUME NEW e \in Entries, Due(e) PROVE Spoken(e)
BY DEF Due, Spoken, Begun, Used, TurnAt

(* What RecordIn does to the records of each entry. *)
LEMMA RecordInDoes ==
    ASSUME Types, NEW p \in Places, NEW e \in Entries, RecordIn(p, e)
    PROVE  /\ \A f \in Entries \ {e}, q \in Places : transcript'[q][f] = transcript[q][f]
           /\ \A f \in Entries \ {e} : f \in unsaved' <=> f \in unsaved
           /\ \/ /\ \A q \in Places : transcript'[q][e] = IF q = p THEN transcript[q][e] + 1 ELSE transcript[q][e]
                 /\ unsaved' = unsaved
              \/ e \in unsaved' /\ transcript' = transcript
<1>1. CASE transcript' = [transcript EXCEPT ![p][e] = @ + 1] /\ UNCHANGED unsaved
    BY <1>1 DEF Types
<1>2. CASE unsaved' = unsaved \cup {e} /\ UNCHANGED transcript
    BY <1>2
<1> QED BY <1>1, <1>2 DEF RecordIn

LEMMA OnceWrittenNext == OnceInTranscript' <=> OnceByEntry'
BY OnceWritten, PTL

LEMMA TranscriptStep ==
    ASSUME Types, Knows, RecordedSaid, OnceInTranscript, WorkersApart, [Next]_vars
    PROVE  RecordedSaid' /\ OnceInTranscript' /\ WorkersApart'
<1>1. \A e \in Entries : e.what # "model" => Written(e)
    BY OnceWritten DEF OnceByEntry
<1>2. \A p \in Places, e \in Entries : Recorded(p, e) => Writes(p, e) /\ Due(e)
    BY DEF WorkersApart, Writes, RecordedSaid
<1>3. \A e \in Entries : e \in unsaved => Due(e)
    BY DEF RecordedSaid
<1> DEFINE Untouched(e) == /\ \A p \in Places : transcript'[p][e] = transcript[p][e]
                           /\ e \in unsaved' <=> e \in unsaved
(* An entry that the step does not record. *)
<1>4. ASSUME NEW e \in Entries, Untouched(e), Silent(e)
      PROVE  /\ e \in unsaved' \/ (\E p \in Places : Recorded(p, e)') => Due(e)'
             /\ e.what # "model" => Written(e)'
             /\ \A p \in Places : Recorded(p, e)' => Writes(p, e)'
  <2>1. \A p \in Places : Recorded(p, e)' <=> Recorded(p, e)
      BY <1>4 DEF Recorded
  <2>2. e \in unsaved' \/ (\E p \in Places : Recorded(p, e)') => Due(e)'
      BY <1>2, <1>3, <1>4, <2>1, DuePersists
  <2>3. e.what # "model" => Written(e)'
    <3>1. (Once(e)' <=> Once(e)) /\ (Never(e)' <=> Never(e))
        BY <1>4, <2>1 DEF Once, Never
    <3> QED BY <1>1, <1>4, <3>1, DuePersists DEF Written, Silent
  <2>4. \A p \in Places : Recorded(p, e)' => Writes(p, e)'
      BY <1>2, <2>1, DueSpoken, SpokenPersists
  <2> QED BY <2>2, <2>3, <2>4
(* The entry that it records. *)
<1>5. ASSUME NEW p \in Places, NEW e \in Entries, Records(p, e)
      PROVE  /\ e \in unsaved' \/ (\E q \in Places : Recorded(q, e)') => Due(e)'
             /\ e.what # "model" => Written(e)'
             /\ \A q \in Places : Recorded(q, e)' => Writes(q, e)'
  <2>1. Due(e)' /\ Writes(p, e) /\ Spoken(e) /\ RecordIn(p, e)
      BY <1>5 DEF Records
  <2>2. \A q \in Places : Recorded(q, e)' => q = p \/ Recorded(q, e)
      BY <2>1, RecordInDoes DEF Recorded
  <2>3. \A q \in Places : Recorded(q, e)' => Writes(q, e)'
      BY <1>2, <2>1, <2>2, SpokenPersists
  <2>4. ASSUME e.what # "model" PROVE Written(e)'
    <3>1. ~Due(e)
        BY <1>5, <2>4 DEF Records
    <3>2. e \notin unsaved /\ \A q \in Places : transcript[q][e] = 0
        BY <1>2, <1>3, <3>1 DEF Recorded, Types
    <3>3. CASE /\ \A q \in Places : transcript'[q][e] = IF q = p THEN transcript[q][e] + 1 ELSE transcript[q][e]
               /\ unsaved' = unsaved
        BY <2>1, <3>2, <3>3 DEF Written, Once
    <3>4. CASE e \in unsaved' /\ transcript' = transcript
        BY <3>2, <3>4 DEF Written, Never, Recorded
    <3> QED BY <2>1, <3>3, <3>4, RecordInDoes
  <2> QED BY <2>1, <2>3, <2>4
<1>6. \A e \in Entries : /\ e \in unsaved' \/ (\E p \in Places : Recorded(p, e)') => Due(e)'
                         /\ e.what # "model" => Written(e)'
                         /\ \A p \in Places : Recorded(p, e)' => Writes(p, e)'
  <2>1. CASE UNCHANGED <<transcript, unsaved>> /\ \A e \in Entries : Silent(e)
      BY <1>4, <2>1
  <2>2. ASSUME NEW p \in Places, NEW e \in Entries, Records(p, e)
        PROVE  \A f \in Entries \ {e} : Untouched(f) /\ Silent(f)
      BY <2>2, RecordInDoes DEF Records
  <2> HIDE DEF Untouched
  <2> QED BY <1>4, <1>5, <2>1, <2>2, StepRecords
<1> QED BY <1>6, OnceWrittenNext DEF OnceByEntry, RecordedSaid, WorkersApart, Writes

-------------------------------------------------------------------------------
LEMMA InitIInv == Init => IInv
<1> SUFFICES ASSUME Init PROVE IInv
    OBVIOUS
<1>1. Types
    BY DEF Init, Types, Places, Entries, NoTurn, NoSteer
<1>2. Knows
    BY DEF Init, Knows, TurnKnows, SteerKnows, NoTurn, NoSteer, Used, TurnAt
<1>3. SteersPlaced
  <2>1. \A h \in Holders : Held(h) = {}
      BY HolderKinds DEF Init, NoTurn, Used, TurnAt
  <2> QED BY <2>1 DEF SteersPlaced, HoldersOf, SteerAt, Init, NoSteer
<1>4. InOrder
    BY DEF Init, InOrder, NoSteer
<1>5. \A p \in Places, e \in Entries : ~Recorded(p, e)
    BY DEF Init, Recorded
<1>6. RecordedSaid /\ WorkersApart
    BY <1>5 DEF RecordedSaid, WorkersApart, Init
<1>7. OnceInTranscript
    BY <1>5, EntryTypes DEF OnceInTranscript, Never, Said, Init, NoTurn, NoSteer
<1> QED BY <1>1, <1>2, <1>3, <1>4, <1>6, <1>7 DEF IInv

LEMMA IInvStep == IInv /\ [Next]_vars => IInv'
<1> SUFFICES ASSUME IInv, [Next]_vars PROVE IInv'
    OBVIOUS
<1>1. Types' /\ Knows' /\ SteersPlaced'
    BY TypesStep, KnowsStep, PlacedStep DEF IInv
<1>2. InOrder'
  <2>1. terminal' = terminal
      BY Persist DEF IInv
  <2> QED BY <2>1, InOrderStep DEF IInv, InOrder, Ordered
<1>3. RecordedSaid' /\ OnceInTranscript' /\ WorkersApart'
    BY TranscriptStep DEF IInv
<1> QED BY <1>1, <1>2, <1>3 DEF IInv

(* All of it is an invariant: each conjunct needs the ones before it. *)
THEOREM Invariance == Spec => []IInv
BY InitIInv, IInvStep, PTL DEF Spec

-------------------------------------------------------------------------------
(* The state is what turn.go:19-68 and steer.go:12-18 declare, and a turn has *)
(* a session of its own just when it is a worker's (workers.go:255-285).     *)
THEOREM TypeCorrect == Spec => []TypeOK
<1>1. IInv => TypeOK
  <2> SUFFICES ASSUME IInv PROVE TypeOK
      OBVIOUS
  <2>1. ASSUME NEW t \in Turns, Used(t) PROVE turn[t].kind = "worker" <=> turn[t].session = t
      BY <2>1 DEF IInv, Knows, TurnKnows
  <2> QED BY <2>1 DEF IInv, Types, TypeOK, Used
<1> QED BY <1>1, Invariance, PTL

(* A message that was sent to a running turn is in exactly one place of the   *)
(* session of its turn (steer.go:12-18, 43-51, turn.go:147).                 *)
THEOREM EachInOnePlace == Spec => []SteersPlaced
<1>1. IInv => SteersPlaced
    BY DEF IInv
<1> QED BY <1>1, Invariance, PTL

(* A terminal leaves no message in the queue of a turn that is over           *)
(* (turn.go:50-53, repl.go:381-397).                                         *)
THEOREM TerminalForgetsNone == Spec => []NoneForgotten
<1>1. IInv => NoneForgotten
    BY OrderForgetsNone DEF IInv
<1> QED BY <1>1, Invariance, PTL

(* A message is in one place, and in no queue of a turn that is over          *)
(* (turn.go:50-53, steer.go:12-51).                                          *)
THEOREM MessagesAreKept == Spec => []MessagesKept
BY EachInOnePlace, TerminalForgetsNone, PTL DEF MessagesKept

(* What a user said is in one transcript once, unless the user was warned     *)
(* (turn.go:100-104, 159, 175-183).                                          *)
THEOREM SaidOnce == Spec => []OnceInTranscript
<1>1. IInv => OnceInTranscript
    BY DEF IInv
<1> QED BY <1>1, Invariance, PTL

(* No message to a turn is recorded before the prompt of the turn             *)
(* (turn.go:105-109).                                                        *)
THEOREM PromptIsFirst == Spec => []PromptFirst
<1>1. IInv => PromptFirst
  <2> SUFFICES ASSUME IInv, NEW m \in Steers, steer[m].pc \in {"queue", "sent"},
                      turn[steer[m].turn].text = {}, Prompt(steer[m].turn) \notin unsaved
               PROVE  \E p \in Places : Recorded(p, Prompt(steer[m].turn))
      BY DEF PromptFirst
  <2>1. steer[m].turn \in Turns
      BY Full DEF IInv, SteerAt, SteerRecord
  <2>2. Said(steer[m].turn)
      BY <2>1 DEF IInv, Knows, SteerKnows, Begun, Said
  <2> QED BY <2>1, <2>2 DEF IInv, OnceInTranscript, Once, Recorded
<1> QED BY <1>1, Invariance, PTL

(* The transcripts hold what was said once and in order (turn.go:100-109).    *)
THEOREM TranscriptsStaySound == Spec => []TranscriptsSound
BY SaidOnce, PromptIsFirst, PTL DEF TranscriptsSound

(* A worker run writes to its own session, and nobody else does               *)
(* (turn.go:83-84, workers.go:255-285).                                      *)
THEOREM WorkersWriteApart == Spec => []WorkersApart
<1>1. IInv => WorkersApart
    BY DEF IInv
<1> QED BY <1>1, Invariance, PTL
===============================================================================
