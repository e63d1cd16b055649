--------------------------- MODULE WorkspaceProofs ---------------------------
(***************************************************************************)
(* Proofs about what the front ends of one workspace share, for any number *)
(* of clients, callers, agents, models, owners, roots, spellings, starts   *)
(* of the service and calls: its socket (SocketInv), the pins of models    *)
(* (PinInv), opening and closing it (OpeningInv), and the calls on it      *)
(* (RemoteInv); the model calls of its turns and of what goes on beside    *)
(* them (CallsInv), and the pictures all workspaces keep (PicInv).         *)
(*                                                                         *)
(* None of the properties is inductive.  A pin is on file when no call is  *)
(* about it, which rests on how far the one call that is has come; that    *)
(* only one owner has the workspace rests on what an owner that lets go    *)
(* still holds being listed before its lock; and the images that can be    *)
(* used are the last ones touched because they are kept in that order.     *)
(***************************************************************************)
EXTENDS RemoteCalls, ModelCalls, PictureStore, ServicesProofs
-------------------------------------------------------------------------------
\* Services over one socket path (RemoteCalls).

\* While every service that listened did so apart from other starts and
\* stops, the path is the listening service's and nobody is about to take
\* it away.
SocketInv ==
    /\ SocketTypeOK
    /\ program \in [pc : {"off", "attaching", "alone", "attached", "failed"}, service : Services \cup {NoService}]
    /\ \A s \in Services : Starting(s) \/ service[s] = "off" => beside[s] = {}
    /\ (\A t \in Services : StartedApart(t)) =>
           \A s \in Services : Listening(s) =>
               /\ socket = s
               /\ \A t \in Services \ {s} : service[t] \notin {"removes", "waits", "cleans"}
    /\ program.pc = "attached" =>
           program.service \in Services /\ service[program.service] \in {"restricts", "serves", "waits", "cleans", "gone"}

\* Nobody has the path when nothing has started.
LEMMA SocketInvInit == SocketInit => SocketInv
BY DEF SocketInit, SocketInv, SocketTypeOK, Starting, Listening, StartedApart

\* Starting, up to the bind, and what is killed: nobody more listens.
LEMMA StartsKeep ==
    ASSUME SocketInv, NEW s \in Services,
           BeginService(s) \/ LooksUp(s) \/ AsksSocket(s) \/ Killed(s)
    PROVE  SocketInv'
<1> USE DEF SocketInv, SocketTypeOK, Starting, Listening, StartedApart, Moves, Same
<1>1. CASE BeginService(s) BY <1>1 DEF BeginService
<1>2. CASE LooksUp(s) BY <1>2 DEF LooksUp
<1>3. CASE AsksSocket(s) BY <1>3, SocketAssumption DEF AsksSocket, AsksFirst, AnswersThere
<1>4. CASE Killed(s) BY <1>4 DEF Killed
<1> QED
    BY <1>1, <1>2, <1>3, <1>4

\* Binding: the path is free, so nobody listens, or it isn't and is kept.
LEMMA BindsKeeps ==
    ASSUME SocketInv, NEW s \in Services, Binds(s)
    PROVE  SocketInv'
BY SocketAssumption DEF SocketInv, SocketTypeOK, Starting, Listening, Stopping, StartedApart, Moves, Binds

\* Listening, and all that takes a path away.
LEMMA PathGoesKeeps ==
    ASSUME SocketInv, NEW s \in Services,
           RemovesStale(s) \/ Restricts(s) \/ Shutdown(s) \/ CallsDone(s) \/ Cleans(s)
    PROVE  SocketInv'
<1> USE DEF SocketInv, SocketTypeOK, Starting, Listening, StartedApart, Moves, Same
<1>1. CASE RemovesStale(s) BY <1>1 DEF RemovesStale
<1>2. CASE Restricts(s) BY <1>2 DEF Restricts
<1>3. CASE Shutdown(s) BY <1>3 DEF Shutdown
<1>4. CASE CallsDone(s) BY <1>4 DEF CallsDone
<1>5. CASE Cleans(s) BY <1>5 DEF Cleans
<1> QED
    BY <1>1, <1>2, <1>3, <1>4, <1>5

\* The program finds who answers, and nobody else.
LEMMA ProgramKeeps ==
    ASSUME SocketInv, Probes \/ Attaches
    PROVE  SocketInv'
BY DEF SocketInv, SocketTypeOK, Starting, Listening, StartedApart, Probes, Attaches, AnswersThere

\* Every step over the path.
LEMMA SocketInvStep == SocketInv /\ [SocketNext]_socketVars => SocketInv'
<1>1. ASSUME SocketInv, UNCHANGED socketVars PROVE SocketInv'
    BY <1>1 DEF SocketInv, SocketTypeOK, Starting, Listening, StartedApart, socketVars
<1> QED
    BY <1>1, StartsKeep, BindsKeeps, PathGoesKeeps, ProgramKeeps DEF SocketNext

\* The path's service is the only one.
LEMMA PathIsOnes == SocketInv => StaysReachable
<1> SUFFICES ASSUME SocketInv PROVE StaysReachable
    OBVIOUS
<1>1. ASSUME \A t \in Services : StartedApart(t)
      PROVE  Cardinality({s \in Services : Listening(s)}) <= 1
    <2> DEFINE L == {s \in Services : Listening(s)}
    <2>1. L = {} \/ L = {socket}
        BY <1>1 DEF SocketInv
    <2>2. Cardinality({}) = 0 /\ Cardinality({socket}) = 1
        BY FS_EmptySet, FS_Singleton
    <2> QED
        BY <2>1, <2>2
<1>2. (\A t \in Services : StartedApart(t)) => \A s \in Services : Listening(s) => socket = s
    BY DEF SocketInv
<1>3. program.pc = "attached" => service[program.service] \notin {"off", "looks", "asks", "removes", "binds", "refused"}
    BY DEF SocketInv
<1> QED
    BY <1>1, <1>2, <1>3 DEF StaysReachable

-------------------------------------------------------------------------------
\* Pins of models (ModelPins).

PinCallType ==
    [pc : {"idle", "pin", "unpin", "default", "saving", "replacing"}, agent : PinAgents \cup {NoRef},
     ref : Refs \cup {NoRef}, doc : [PinAgents -> Refs \cup {NoRef}] \cup {NoRef}]

PinTyped ==
    /\ engine \in [active : Chosen \cup {"blitz"}, model : Refs \cup {"configured"}, pins : [PinAgents -> Models]]
    /\ pinFile \in [PinAgents -> Refs \cup {NoRef}]
    /\ pinCall \in [PinCallers -> PinCallType]
    /\ unsure \subseteq PinAgents

\* A call is about an agent, and knows what it will write.
CallShape(c) ==
    /\ pinCall[c].pc # "idle" => pinCall[c].agent \in PinAgents
    /\ pinCall[c].pc = "pin" => pinCall[c].ref \in Refs
    /\ pinCall[c].pc \in {"unpin", "default"} => pinCall[c].ref = NoRef
    /\ pinCall[c].pc = "default" => pinCall[c].agent \in OwnDefault
    /\ pinCall[c].pc = "replacing" => pinCall[c].doc \in [PinAgents -> Refs \cup {NoRef}]

About(c, a) == pinCall[c].pc # "idle" /\ pinCall[c].agent = a

\* What an agent runs on when its pin is `ref`.
RunsOn(a, ref) == IF ref = NoRef /\ a \in OwnDefault THEN "own" ELSE ref

\* An agent whose pin is sure has one call at most.  Its engine and its file
\* agree until that call has changed the engine, and then the engine has what
\* the file is about to have.
SurePin(a) ==
    /\ \A c, d \in PinCallers : About(c, a) /\ About(d, a) => c = d
    /\ (\A c \in PinCallers : About(c, a) => pinCall[c].pc \in {"pin", "unpin"}) =>
           engine.pins[a] = RunsOn(a, pinFile[a])
    /\ \A c \in PinCallers : About(c, a) /\ pinCall[c].pc \in {"saving", "replacing"} =>
           engine.pins[a] = RunsOn(a, pinCall[c].ref)

PinInv ==
    /\ PinTyped /\ EngineWhole
    /\ \A c \in PinCallers : CallShape(c)
    /\ \A a \in PinAgents \ unsure : SurePin(a)

\* Engine and file agree at first.
LEMMA PinInvInit == PinInit => PinInv
<1> SUFFICES ASSUME PinInit PROVE PinInv
    OBVIOUS
<1>1. pinFile = [a \in PinAgents |-> NoRef] /\ engine = Opened(pinFile) /\ runner = engine
      /\ pinCall = [c \in PinCallers |-> PinIdle] /\ unsure = {}
    BY DEF PinInit
<1>2. engine.pins = RefsFrom(pinFile) /\ engine \in [active : Chosen \cup {"blitz"}, model : Refs \cup {"configured"}, pins : [PinAgents -> Models]]
    BY <1>1 DEF Opened, RefsFrom, Models
<1>3. PinTyped /\ EngineWhole
    BY <1>1, <1>2 DEF PinTyped, EngineWhole, PinIdle, PinCallType
<1>4. \A c \in PinCallers : CallShape(c)
    BY <1>1 DEF CallShape, PinIdle
<1>5. \A a \in PinAgents : SurePin(a)
    BY <1>1, <1>2 DEF SurePin, About, PinIdle, RefsFrom, RunsOn
<1> QED
    BY <1>3, <1>4, <1>5 DEF PinInv

\* The settings of the engine that aren't pins.
LEMMA SettingsKeep ==
    ASSUME PinInv, (\E a \in Chosen : SetActiveAgent(a)) \/ (\E ref \in Refs : SetModel(ref))
    PROVE  PinInv'
<1>1. /\ engine' \in [active : Chosen \cup {"blitz"}, model : Refs \cup {"configured"}, pins : [PinAgents -> Models]]
      /\ engine'.pins = engine.pins /\ runner' = engine' /\ UNCHANGED <<pinFile, pinCall, unsure>>
    BY DEF PinInv, PinTyped, EngineWhole, SetActiveAgent, SetModel, Rebuilds, RebuildFails, TakenBack
<1> QED
    BY <1>1 DEF PinInv, PinTyped, EngineWhole, CallShape, SurePin, About

\* A call begins: what it is about is unsure if another call is about it.
LEMMA BeginKeeps ==
    ASSUME PinInv, NEW c \in PinCallers, NEW a \in PinAgents, NEW ref \in Refs \cup {NoRef}, NEW pc \in {"pin", "unpin"},
           IF pc = "pin" THEN ref \in Refs ELSE ref = NoRef, Begin(c, a, ref, pc)
    PROVE  PinInv'
<1>1. /\ pinCall[c].pc = "idle" /\ UNCHANGED <<engine, runner, pinFile>>
      /\ pinCall' = [pinCall EXCEPT ![c] = [pc |-> pc, agent |-> a, ref |-> ref, doc |-> NoRef]]
      /\ unsure \subseteq unsure' /\ unsure' \subseteq unsure \cup {a}
      /\ a \notin unsure' => ~Busy(a)
    BY DEF Begin
<1>2. PinTyped' /\ EngineWhole' /\ \A d \in PinCallers : CallShape(d)'
    BY <1>1 DEF PinInv, PinTyped, PinCallType, EngineWhole, CallShape
<1>3. ASSUME NEW b \in PinAgents \ unsure' PROVE SurePin(b)'
    <2>1. SurePin(b)
        BY <1>1, <1>3 DEF PinInv
    <2>2. CASE b # a
        <3>1. \A d \in PinCallers : About(d, b)' => About(d, b) /\ pinCall'[d] = pinCall[d]
            BY <1>1, <2>2 DEF PinInv, PinTyped, About
        <3>2. \A d \in PinCallers : About(d, b) => About(d, b)'
            BY <1>1, <2>2 DEF PinInv, PinTyped, About
        <3> QED
            BY <1>1, <2>1, <3>1, <3>2 DEF SurePin
    <2>3. CASE b = a
        <3>1. \A d \in PinCallers : ~About(d, a)
            BY <1>1, <1>3, <2>3 DEF Busy, About
        <3>2. \A d \in PinCallers : About(d, a)' => d = c
            BY <1>1, <3>1 DEF PinInv, PinTyped, About
        <3>3. pinCall'[c].pc \in {"pin", "unpin"}
            BY <1>1 DEF PinInv, PinTyped
        <3> QED
            BY <1>1, <2>1, <2>3, <3>1, <3>2, <3>3 DEF SurePin
    <2> QED
        BY <2>2, <2>3
<1> QED
    BY <1>2, <1>3 DEF PinInv

\* A step of a call that changes no more of the engine than the pin of its
\* agent.
LEMMA PinCallKeeps ==
    ASSUME PinInv, NEW c \in PinCallers, NEW a \in PinAgents, NEW next \in PinCallType, NEW ref \in Models,
           pinCall[c].pc # "idle", pinCall[c].agent = a, pinCall' = [pinCall EXCEPT ![c] = next],
           next.pc # "idle" => next.agent = a,
           CallShape(c)',
           engine' = [engine EXCEPT !.pins[a] = ref], runner' = engine',
           pinFile' \in [PinAgents -> Refs \cup {NoRef}],
           unsure \subseteq unsure', unsure' \subseteq PinAgents,
           \A b \in PinAgents \ unsure' : b # a => pinFile'[b] = pinFile[b],
           a \notin unsure' /\ SurePin(a) =>
               /\ next.pc \in {"idle", "pin", "unpin"} => ref = RunsOn(a, pinFile'[a])
               /\ next.pc \in {"saving", "replacing"} => ref = RunsOn(a, next.ref)
    PROVE  PinInv'
<1>1. /\ engine' \in [active : Chosen \cup {"blitz"}, model : Refs \cup {"configured"}, pins : [PinAgents -> Models]]
      /\ engine'.pins[a] = ref /\ \A b \in PinAgents : b # a => engine'.pins[b] = engine.pins[b]
    BY DEF PinInv, PinTyped
<1>2. pinCall'[c] = next /\ \A d \in PinCallers : d # c => pinCall'[d] = pinCall[d]
    BY DEF PinInv, PinTyped
<1>3. PinTyped' /\ EngineWhole'
    BY <1>1 DEF PinInv, PinTyped, EngineWhole
<1>4. \A d \in PinCallers : CallShape(d)'
    BY <1>2 DEF PinInv, CallShape
<1>5. ASSUME NEW b \in PinAgents \ unsure' PROVE SurePin(b)'
    <2>1. SurePin(b)
        BY <1>5 DEF PinInv
    <2>2. CASE b # a
        <3>1. \A d \in PinCallers : /\ About(d, b)' => About(d, b) /\ pinCall'[d] = pinCall[d]
                                    /\ About(d, b) => About(d, b)'
            BY <1>2, <2>2 DEF About
        <3> QED
            BY <1>1, <1>5, <2>1, <2>2, <3>1 DEF SurePin
    <2>3. CASE b = a
        <3>1. \A d \in PinCallers : About(d, a) => d = c
            BY <2>1, <2>3 DEF SurePin, About
        <3>2. \A d \in PinCallers : About(d, a)' => d = c
            BY <1>2, <3>1 DEF About
        <3>3. About(c, a)' <=> next.pc # "idle"
            BY <1>2 DEF About
        <3>4. /\ next.pc \in {"idle", "pin", "unpin"} => ref = RunsOn(a, pinFile'[a])
              /\ next.pc \in {"saving", "replacing"} => ref = RunsOn(a, next.ref)
            BY <1>5, <2>1, <2>3
        <3>5. (\A d \in PinCallers : About(d, a)' => pinCall'[d].pc \in {"pin", "unpin"}) => engine'.pins[a] = RunsOn(a, pinFile'[a])
            BY <1>1, <1>2, <3>3, <3>4
        <3>6. \A d \in PinCallers : About(d, a)' /\ pinCall'[d].pc \in {"saving", "replacing"} => engine'.pins[a] = RunsOn(a, pinCall'[d].ref)
            BY <1>1, <1>2, <3>2, <3>4
        <3> QED
            BY <2>3, <3>2, <3>5, <3>6 DEF SurePin, RunsOn
    <2> QED
        BY <2>2, <2>3
<1> QED
    BY <1>3, <1>4, <1>5 DEF PinInv

\* The calls, step by step.
LEMMA CallsKeepPins ==
    ASSUME PinInv, NEW c \in PinCallers,
           EnginePins(c) \/ EngineUnpins(c) \/ PinDefault(c) \/ ReadConfig(c) \/ ReplaceConfig(c)
    PROVE  PinInv'
<1> DEFINE a == pinCall[c].agent
           call == pinCall[c]
           CallAt(pc) == [call EXCEPT !.pc = pc]
           Becomes(next) == pinCall' = [pinCall EXCEPT ![c] = next]
           Sets(ref) == engine' = [engine EXCEPT !.pins[a] = ref] /\ runner' = engine'
<1>1. /\ call \in PinCallType /\ call.pc # "idle" /\ a \in PinAgents /\ CallShape(c)
      /\ engine.pins[a] \in Models /\ engine = [engine EXCEPT !.pins[a] = engine.pins[a]] /\ runner = engine
      /\ pinFile \in [PinAgents -> Refs \cup {NoRef}] /\ unsure \subseteq PinAgents
    BY DEF PinInv, PinTyped, EngineWhole, CallShape, EnginePins, EngineUnpins, PinDefault, ReadConfig, ReplaceConfig
<1>2. /\ PinIdle \in PinCallType /\ PinIdle.pc = "idle"
      /\ Becomes(PinIdle) => CallShape(c)'
    BY DEF PinIdle, PinCallType, PinInv, PinTyped, CallShape
<1>3. \A pc \in {"default", "saving"} :
          /\ CallAt(pc) \in PinCallType /\ CallAt(pc).pc = pc /\ CallAt(pc).agent = a /\ CallAt(pc).ref = call.ref
          /\ Becomes(CallAt(pc)) => pinCall'[c] = CallAt(pc)
    BY <1>1 DEF PinCallType, PinInv, PinTyped
<1>4. SurePin(a) => /\ call.pc \in {"pin", "unpin"} => engine.pins[a] = RunsOn(a, pinFile[a])
                    /\ call.pc \in {"saving", "replacing"} => engine.pins[a] = RunsOn(a, call.ref)
    BY <1>1 DEF SurePin, About
<1>5. UNCHANGED <<engine, runner>> => Sets(engine.pins[a])
    BY <1>1
<1>6. ASSUME EnginePins(c) PROVE PinInv'
    <2>1. call.pc = "pin" /\ call.ref \in Models /\ UNCHANGED <<pinFile, unsure>>
        BY <1>1, <1>6 DEF EnginePins, PinCallType, Models
    <2>2. CASE Sets(call.ref) /\ Becomes(CallAt("saving"))
        <3>1. RunsOn(a, call.ref) = call.ref
            BY <1>1, <2>1, PinAssumption DEF CallShape, RunsOn
        <3>2. CallShape(c)'
            BY <1>1, <1>3, <2>1, <2>2 DEF CallShape
        <3> DEFINE next == CallAt("saving")
        <3>3. next \in PinCallType /\ next.pc = "saving" /\ next.agent = a /\ next.ref = call.ref /\ Becomes(next)
            BY <1>3, <2>2
        <3>4. /\ call.pc # "idle" /\ a \in PinAgents /\ pinFile' \in [PinAgents -> Refs \cup {NoRef}]
              /\ unsure' = unsure /\ unsure \subseteq PinAgents /\ pinFile' = pinFile
            BY <1>1, <2>1
        <3> HIDE DEF next
        <3> QED
            BY <2>1, <2>2, <3>1, <3>2, <3>3, <3>4, PinCallKeeps
    <2>3. CASE UNCHANGED <<engine, runner>> /\ Becomes(PinIdle)
        BY <1>1, <1>2, <1>4, <1>5, <2>1, <2>3, PinCallKeeps
    <2> QED
        BY <1>6, <2>2, <2>3 DEF EnginePins, To, Rebuilds, RebuildFails, TakenBack, Pinned
<1>7. ASSUME EngineUnpins(c) PROVE PinInv'
    <2> DEFINE next == IF a \in OwnDefault THEN "default" ELSE "saving"
    <2>1. call.pc = "unpin" /\ call.ref = NoRef /\ NoRef \in Models /\ UNCHANGED <<pinFile, unsure>>
        BY <1>1, <1>7 DEF EngineUnpins, CallShape, Models
    <2>2. CASE Sets(NoRef) /\ Becomes(CallAt(next))
        <3>1. next \in {"default", "saving"} /\ (next = "saving" => RunsOn(a, NoRef) = NoRef)
            BY DEF RunsOn
        <3>2. CallShape(c)'
            BY <1>1, <1>3, <2>1, <2>2, <3>1 DEF CallShape
        <3>3. CallAt(next) \in PinCallType /\ CallAt(next).pc = next /\ CallAt(next).agent = a /\ CallAt(next).ref = NoRef
            BY <1>3, <2>1, <3>1
        <3>4. /\ call.pc # "idle" /\ a \in PinAgents /\ pinFile' \in [PinAgents -> Refs \cup {NoRef}]
              /\ unsure' = unsure /\ unsure \subseteq PinAgents /\ pinFile' = pinFile
            BY <1>1, <2>1
        <3> HIDE DEF next
        <3> QED
            BY <2>1, <2>2, <3>1, <3>2, <3>3, <3>4, PinCallKeeps
    <2>3. CASE UNCHANGED <<engine, runner>> /\ Becomes(PinIdle)
        BY <1>1, <1>2, <1>4, <1>5, <2>1, <2>3, PinCallKeeps
    <2>4. Pinned(c, NoRef) = engine /\ UNCHANGED <<engine, runner>> => Sets(NoRef)
        BY <1>1 DEF Pinned
    <2> QED
        BY <1>7, <2>2, <2>3, <2>4 DEF EngineUnpins, To, Rebuilds, RebuildFails, TakenBack, Pinned
<1>8. ASSUME PinDefault(c) PROVE PinInv'
    <2>1. /\ call.pc = "default" /\ call.ref = NoRef /\ a \in OwnDefault /\ "own" \in Models /\ UNCHANGED pinFile
          /\ RunsOn(a, NoRef) = "own"
        BY <1>1, <1>8 DEF PinDefault, CallShape, Models, RunsOn
    <2>2. CASE Sets("own") /\ Becomes(CallAt("saving")) /\ UNCHANGED unsure
        <3>1. CallShape(c)'
            BY <1>1, <1>3, <2>1, <2>2 DEF CallShape
        <3> DEFINE next == CallAt("saving")
        <3>2. next \in PinCallType /\ next.pc = "saving" /\ next.agent = a /\ next.ref = NoRef /\ Becomes(next)
            BY <1>3, <2>1, <2>2
        <3>3. /\ call.pc # "idle" /\ a \in PinAgents /\ pinFile' \in [PinAgents -> Refs \cup {NoRef}]
              /\ unsure' = unsure /\ unsure \subseteq PinAgents /\ pinFile' = pinFile
            BY <1>1, <2>1, <2>2
        <3> HIDE DEF next
        <3> QED
            BY <2>1, <2>2, <3>1, <3>2, <3>3, PinCallKeeps
    <2>3. CASE UNCHANGED <<engine, runner>> /\ Becomes(PinIdle) /\ unsure' = unsure \cup {a}
        <3> DEFINE pinned == engine.pins[a]
        <3>1. pinned \in Models /\ Sets(pinned) /\ CallShape(c)' /\ a \in unsure' /\ unsure \subseteq unsure'
              /\ unsure' \subseteq PinAgents
            BY <1>1, <1>2, <1>5, <2>3
        <3>2. call.pc # "idle" /\ a \in PinAgents /\ pinFile \in [PinAgents -> Refs \cup {NoRef}]
            BY <1>1
        <3> HIDE DEF pinned
        <3> QED
            BY <1>2, <2>1, <2>3, <3>1, <3>2, PinCallKeeps
    <2> QED
        BY <1>8, <2>2, <2>3 DEF PinDefault, To, Rebuilds, RebuildFails, TakenBack, Pinned
<1>9. ASSUME ReadConfig(c) PROVE PinInv'
    <2> DEFINE next == [call EXCEPT !.pc = "replacing", !.doc = pinFile]
    <2>1. /\ call.pc = "saving" /\ UNCHANGED <<engine, runner, pinFile, unsure>>
          /\ pinCall' = [pinCall EXCEPT ![c] = next]
        BY <1>9 DEF ReadConfig
    <2>2. next \in PinCallType /\ next.pc = "replacing" /\ next.agent = a /\ next.ref = call.ref /\ next.doc = pinFile
        BY <1>1 DEF PinCallType
    <2>3. CallShape(c)'
        <3>1. pinCall'[c] = next
            BY <2>1 DEF PinInv, PinTyped
        <3> QED
            BY <1>1, <2>2, <3>1 DEF CallShape
    <2> HIDE DEF next
    <2> DEFINE pinned == engine.pins[a]
    <2>4. /\ pinned \in Models /\ Sets(pinned) /\ a \in PinAgents /\ pinFile' \in [PinAgents -> Refs \cup {NoRef}]
          /\ unsure \subseteq unsure' /\ unsure' \subseteq PinAgents
          /\ SurePin(a) => pinned = RunsOn(a, next.ref)
        BY <1>1, <1>4, <1>5, <2>1, <2>2
    <2> HIDE DEF pinned
    <2> QED
        BY <2>1, <2>2, <2>3, <2>4, PinCallKeeps
<1>10. ASSUME ReplaceConfig(c) PROVE PinInv'
    <2>1. /\ call.pc = "replacing" /\ UNCHANGED <<engine, runner>> /\ Becomes(PinIdle)
          /\ call.doc \in [PinAgents -> Refs \cup {NoRef}] /\ call.ref \in Refs \cup {NoRef}
        BY <1>1, <1>10 DEF ReplaceConfig, To, CallShape, PinCallType
    <2>2. CASE /\ pinFile' = [call.doc EXCEPT ![a] = call.ref]
               /\ unsure' = unsure \cup {b \in PinAgents \ {a} : pinFile[b] # call.doc[b]}
        <3>1. /\ pinFile' \in [PinAgents -> Refs \cup {NoRef}] /\ pinFile'[a] = call.ref
              /\ \A b \in PinAgents \ unsure' : b # a => pinFile'[b] = pinFile[b]
              /\ unsure \subseteq unsure' /\ unsure' \subseteq PinAgents
            BY <1>1, <2>1, <2>2
        <3> DEFINE pinned == engine.pins[a]
        <3>2. SurePin(a) => pinned = RunsOn(a, pinFile'[a])
            BY <1>4, <2>1, <3>1
        <3>3. pinned \in Models /\ Sets(pinned) /\ CallShape(c)' /\ call.pc # "idle" /\ a \in PinAgents
            BY <1>1, <1>2, <1>5, <2>1
        <3> HIDE DEF pinned
        <3> QED
            BY <1>2, <2>1, <3>1, <3>2, <3>3, PinCallKeeps
    <2>3. CASE unsure' = unsure \cup {a} /\ UNCHANGED pinFile
        <3> DEFINE pinned == engine.pins[a]
        <3>1. pinned \in Models /\ Sets(pinned) /\ CallShape(c)' /\ call.pc # "idle" /\ a \in PinAgents
            BY <1>1, <1>2, <1>5, <2>1
        <3>2. /\ pinFile' \in [PinAgents -> Refs \cup {NoRef}] /\ pinFile' = pinFile
              /\ a \in unsure' /\ unsure \subseteq unsure' /\ unsure' \subseteq PinAgents
            BY <1>1, <2>3
        <3> HIDE DEF pinned
        <3> QED
            BY <1>2, <2>1, <3>1, <3>2, PinCallKeeps
    <2> QED
        BY <1>10, <2>2, <2>3 DEF ReplaceConfig
<1> QED
    BY <1>6, <1>7, <1>8, <1>9, <1>10

\* Opening again: the engine has the file's pins but for those it can't have.
LEMMA ReopenKeeps ==
    ASSUME PinInv, Reopen
    PROVE  PinInv'
<1>1. /\ \A c \in PinCallers : pinCall[c].pc = "idle"
      /\ UNCHANGED <<pinFile, pinCall>> /\ runner' = engine'
    BY DEF Reopen
<1>2. PICK missing \in SUBSET PinAgents :
          /\ engine' = [active |-> "blitz", model |-> "configured",
                        pins |-> [a \in PinAgents |-> IF a \in missing THEN NoRef ELSE RefsFrom(pinFile)[a]]]
          /\ unsure' = missing
    BY DEF Reopen, Opened
<1>3. PinTyped'
    BY <1>1, <1>2 DEF PinInv, PinTyped, Models, RefsFrom
<1>4. \A a \in PinAgents \ unsure' : SurePin(a)'
    BY <1>1, <1>2 DEF SurePin, About, RefsFrom, RunsOn
<1> QED
    BY <1>1, <1>3, <1>4 DEF PinInv, EngineWhole, CallShape

\* Every step about pins.
LEMMA PinInvStep == PinInv /\ [PinNext]_pinVars => PinInv'
<1> SUFFICES ASSUME PinInv, [PinNext]_pinVars PROVE PinInv'
    OBVIOUS
<1>1. CASE UNCHANGED pinVars
    BY <1>1 DEF pinVars, PinInv, PinTyped, EngineWhole, CallShape, SurePin, About
<1>2. ASSUME NEW c \in PinCallers, NEW a \in PinAgents, Unpin(c, a) PROVE PinInv'
    BY <1>2, BeginKeeps DEF Unpin
<1>3. ASSUME NEW c \in PinCallers, NEW a \in PinAgents, NEW ref \in Refs, Pin(c, a, ref) PROVE PinInv'
    BY <1>3, BeginKeeps DEF Pin
<1> QED
    BY <1>1, <1>2, <1>3, SettingsKeep, ReopenKeeps, CallsKeepPins DEF PinNext

\* No call: the file and the engine agree.
LEMMA PinsAreKept == PinInv => PinsKept
BY DEF PinInv, PinTyped, EngineWhole, SurePin, About, RunsOn, Busy, RefsFrom, PinsOnFile, PinsKept

-------------------------------------------------------------------------------
\* Opening and closing (WorkspaceOpening).

Directory == CHOOSE d \in Spellings : TRUE

Things == Startable \cup {"roots", "audit", "lock"}

OpeningSteps ==
    {"registries", "roots", "parts", "tools", "servers", "scripts", "audit", "storage", "events", "engine"}

\* What an owner has: a record of own.
OwnerType ==
    [at : OpeningSteps \cup {"closed", "open", "letting go"}, via : Spellings \cup {NoOwner}, roots : 0 .. MaxRoots,
     lock : BOOLEAN, audit : BOOLEAN, running : SUBSET Startable, todo : Seq(Things)]

\* What it holds beside the lock.
HasTaken(x, thing) ==
    \/ thing \in x.running
    \/ thing = "roots" /\ x.roots > 0
    \/ thing = "audit" /\ x.audit

ComesBefore(thing, todo, n) == \E j \in 1 .. n - 1 : todo[j] = thing

\* What is held is listed, and the lock not before it.
Listed(x, todo) ==
    /\ x.lock => ComesBefore("lock", todo, Len(todo) + 1)
    /\ \A thing \in Things :
          HasTaken(x, thing) => /\ ComesBefore(thing, todo, Len(todo) + 1)
                             /\ \A i \in 1 .. Len(todo) : todo[i] = "lock" => ComesBefore(thing, todo, i)

\* What it holds at each of its places: nothing without the lock.
OwnerSound(x) ==
    /\ \A thing \in Things : HasTaken(x, thing) => x.lock
    /\ x.at = "closed" => ~x.lock
    /\ x.at \in OpeningSteps \cup {"open"} => x.lock
    /\ x.at \in OpeningSteps => x.running = {}
    /\ x.at \in {"registries", "roots", "parts", "tools", "servers", "scripts", "audit"} => ~x.audit
    /\ x.at \in {"registries"} => x.roots = 0
    /\ x.at = "letting go" => Listed(x, x.todo)

OpeningInv ==
    /\ locked \in [Spellings -> Owners \cup {NoOwner}]
    /\ own \in [Owners -> OwnerType]
    /\ \A d \in Spellings : locked[d] # NoOwner => d = Directory /\ own[locked[d]].lock
    /\ \A o \in Owners : own[o].lock => Directory \in Spellings /\ locked[Directory] = o
    /\ \A o \in Owners : OwnerSound(own[o])

\* An owner without anything.
LEMMA NothingIsSound ==
    /\ Nothing \in OwnerType /\ OwnerSound(Nothing)
    /\ ~Nothing.lock /\ ~Nothing.audit /\ Nothing.roots = 0 /\ Nothing.running = {}
<1>1. Nothing \in OwnerType
    BY OpeningAssumption DEF Nothing, OwnerType
<1>2. Nothing.at = "closed" /\ ~Nothing.lock /\ ~Nothing.audit /\ Nothing.roots = 0 /\ Nothing.running = {}
    BY DEF Nothing
<1>3. \A thing \in Things : ~HasTaken(Nothing, thing)
    BY <1>2 DEF HasTaken
<1> QED
    BY <1>1, <1>2, <1>3 DEF OwnerSound, OpeningSteps

\* Nobody has anything at first.
LEMMA OpeningInvInit == OpeningInit => OpeningInv
BY NothingIsSound DEF OpeningInit, OpeningInv

\* A step of one owner that leaves the lock files alone.
LEMMA OwnStepKeeps ==
    ASSUME OpeningInv, NEW o \in Owners, NEW next \in OwnerType,
           own' = [own EXCEPT ![o] = next], UNCHANGED locked, next.lock = own[o].lock, OwnerSound(next)
    PROVE  OpeningInv'
<1>1. own'[o] = next /\ \A p \in Owners : p # o => own'[p] = own[p]
    BY DEF OpeningInv
<1>2. own' \in [Owners -> OwnerType]
    BY DEF OpeningInv
<1> QED
    BY <1>1, <1>2 DEF OpeningInv

\* A step of one owner that takes or releases the lock.
LEMMA LockStepKeeps ==
    ASSUME OpeningInv, NEW o \in Owners, NEW next \in OwnerType,
           own' = [own EXCEPT ![o] = next], OwnerSound(next),
           \/ ~own[o].lock /\ next.lock /\ Directory \in Spellings /\ locked[Directory] = NoOwner
              /\ locked' = [locked EXCEPT ![Directory] = o]
           \/ own[o].lock /\ ~next.lock /\ locked' = [locked EXCEPT ![Directory] = NoOwner]
    PROVE  OpeningInv'
<1>1. own'[o] = next /\ \A p \in Owners : p # o => own'[p] = own[p]
    BY DEF OpeningInv
<1>2. own' \in [Owners -> OwnerType] /\ \A p \in Owners : OwnerSound(own'[p])
    BY <1>1 DEF OpeningInv
<1>3. CASE ~own[o].lock /\ next.lock /\ Directory \in Spellings /\ locked[Directory] = NoOwner
           /\ locked' = [locked EXCEPT ![Directory] = o]
    BY <1>1, <1>2, <1>3, OpeningAssumption DEF OpeningInv
<1>4. CASE own[o].lock /\ ~next.lock /\ locked' = [locked EXCEPT ![Directory] = NoOwner]
    <2>1. locked' \in [Spellings -> Owners \cup {NoOwner}]
        BY <1>4 DEF OpeningInv
    <2>2. \A p \in Owners : own'[p].lock => own[p].lock /\ p # o
        BY <1>1, <1>4
    <2>3. \A p \in Owners : ~own'[p].lock
        BY <2>2, <1>4, OpeningAssumption DEF OpeningInv
    <2>4. \A d \in Spellings : locked'[d] = NoOwner
        BY <1>1, <1>4, <2>3 DEF OpeningInv
    <2> QED
        BY <1>2, <2>1, <2>3, <2>4 DEF OpeningInv
<1> QED
    BY <1>3, <1>4

\* Taking the lock.
LEMMA OpenBeginsKeeps ==
    ASSUME OpeningInv, NEW o \in Owners, NEW path \in Spellings, OpenBegins(o, path)
    PROVE  OpeningInv'
<1>1. CASE locked[Directory] = NoOwner
    <2> DEFINE next == [Nothing EXCEPT !.at = "registries", !.via = path, !.lock = TRUE]
    <2>1. /\ next \in OwnerType /\ next.at = "registries" /\ next.lock /\ ~next.audit /\ next.roots = 0
          /\ next.running = {}
        BY NothingIsSound DEF OwnerType, OpeningSteps
    <2>2. OwnerSound(next)
        <3>1. \A thing \in Things : ~HasTaken(next, thing)
            BY <2>1 DEF HasTaken
        <3> QED
            BY <2>1, <3>1 DEF OwnerSound, OpeningSteps
    <2>3. own' = [own EXCEPT ![o] = next] /\ locked' = [locked EXCEPT ![Directory] = o] /\ own[o].at = "closed"
        BY <1>1 DEF OpenBegins, Canonical, Directory
    <2>4. ~own[o].lock /\ Directory \in Spellings
        BY <2>3 DEF OpeningInv, OwnerSound, Directory
    <2> HIDE DEF next
    <2> QED
        BY <1>1, <2>1, <2>2, <2>3, <2>4, LockStepKeeps
<1>2. CASE locked[Directory] # NoOwner
    <2>1. UNCHANGED openVars
        BY <1>2 DEF OpenBegins, Canonical, Directory
    <2> QED
        BY <2>1 DEF OpeningInv, openVars
<1> QED
    BY <1>1, <1>2

\* Opening goes on, and what is open starts things.
LEMMA GoingOnKeeps ==
    ASSUME OpeningInv, NEW o \in Owners, NEW thing \in Startable,
           OpensRoot(o) \/ OpensAudit(o) \/ Succeeds(o) \/ Works(o, thing)
    PROVE  OpeningInv'
<1> DEFINE x == own[o]
<1>1. x \in OwnerType /\ OwnerSound(x)
    BY DEF OpeningInv
<1>2. ASSUME OpensRoot(o) PROVE OpeningInv'
    <2> DEFINE next == [x EXCEPT !.roots = @ + 1]
    <2>0. x.roots + 1 \in 0 .. MaxRoots
        <3>1. x.roots < MaxRoots
            BY <1>2 DEF OpensRoot
        <3>2. x.roots \in 0 .. MaxRoots
            BY <1>1 DEF OwnerType
        <3> QED
            BY <3>1, <3>2, OpeningAssumption
    <2>1. x.at = "roots" /\ own' = [own EXCEPT ![o] = next] /\ UNCHANGED locked
        BY <1>2 DEF OpensRoot
    <2>2. /\ next \in OwnerType /\ next.at = x.at /\ next.lock = x.lock /\ next.audit = x.audit
          /\ next.running = x.running
        BY <1>1, <2>0 DEF OwnerType
    <2> HIDE DEF next
    <2>3. OwnerSound(next)
        BY <1>1, <2>1, <2>2 DEF OwnerSound, HasTaken, OpeningSteps
    <2> QED
        BY <2>1, <2>2, <2>3, OwnStepKeeps
<1>3. ASSUME OpensAudit(o) PROVE OpeningInv'
    <2>1. PICK opens \in BOOLEAN : /\ x.at = "audit" /\ UNCHANGED locked
                                   /\ own' = [own EXCEPT ![o] = [x EXCEPT !.at = "storage", !.audit = opens]]
        BY <1>3 DEF OpensAudit, After
    <2> DEFINE next == [x EXCEPT !.at = "storage", !.audit = opens]
    <2>2. /\ next \in OwnerType /\ next.at = "storage" /\ next.lock = x.lock /\ next.roots = x.roots
          /\ next.running = x.running
        BY <1>1, <2>1 DEF OwnerType, OpeningSteps
    <2>3. own' = [own EXCEPT ![o] = next]
        BY <2>1
    <2> HIDE DEF next
    <2>4. OwnerSound(next)
        BY <1>1, <2>1, <2>2 DEF OwnerSound, HasTaken, OpeningSteps
    <2> QED
        BY <2>1, <2>2, <2>3, <2>4, OwnStepKeeps
<1>4. ASSUME Succeeds(o) PROVE OpeningInv'
    <2> DEFINE next == [x EXCEPT !.at = After[@]]
    <2>1. x.at \in Fallible /\ own' = [own EXCEPT ![o] = next] /\ UNCHANGED locked
        BY <1>4 DEF Succeeds
    <2>2. /\ x.at \in OpeningSteps \ {"audit"}
          /\ After[x.at] \in OpeningSteps \cup {"open"} /\ After[x.at] # "registries"
          /\ After[x.at] \in {"roots", "parts", "tools", "servers", "scripts", "audit"} =>
                 x.at \in {"registries", "roots", "parts", "tools", "servers", "scripts"}
        BY <2>1 DEF Fallible, After, OpeningSteps
    <2>3. /\ next \in OwnerType /\ next.at = After[x.at] /\ next.lock = x.lock /\ next.roots = x.roots
          /\ next.running = x.running /\ next.audit = x.audit
        BY <1>1, <2>2 DEF OwnerType
    <2> HIDE DEF next
    <2>4. OwnerSound(next)
        BY <1>1, <2>2, <2>3 DEF OwnerSound, HasTaken, OpeningSteps
    <2> QED
        BY <2>1, <2>3, <2>4, OwnStepKeeps
<1>5. ASSUME Works(o, thing) PROVE OpeningInv'
    <2> DEFINE next == [x EXCEPT !.running = @ \cup {thing}]
    <2>1. x.at = "open" /\ own' = [own EXCEPT ![o] = next] /\ UNCHANGED locked
        BY <1>5 DEF Works
    <2>2. next \in OwnerType /\ next.at = x.at /\ next.lock = x.lock
        BY <1>1 DEF OwnerType
    <2> HIDE DEF next
    <2>3. OwnerSound(next)
        BY <1>1, <2>1, <2>2 DEF OwnerSound, OpeningSteps
    <2> QED
        BY <2>1, <2>2, <2>3, OwnStepKeeps
<1> QED
    BY <1>2, <1>3, <1>4, <1>5

\* A list is complete when the lock is its last entry, and once more.
LEMMA LockComesLast ==
    ASSUME NEW x, NEW todo \in Seq(Things),
           \/ \A i \in 1 .. Len(todo) : todo[i] # "lock"
           \/ Listed(x, todo),
           \A thing \in Things : HasTaken(x, thing) => \E i \in 1 .. Len(todo) : todo[i] = thing
    PROVE  Append(todo, "lock") \in Seq(Things) /\ Listed(x, Append(todo, "lock"))
<1> DEFINE more == Append(todo, "lock")
<1>1. "lock" \in Things /\ Len(todo) \in Nat
    BY DEF Things
<1>2. /\ more \in Seq(Things) /\ Len(more) = Len(todo) + 1
      /\ \A i \in 1 .. Len(todo) : more[i] = todo[i]
      /\ more[Len(todo) + 1] = "lock"
    BY <1>1, AppendPlaces
<1> HIDE DEF more
<1>3. \A n \in Nat : n = Len(todo) =>
          \A thing : (\E i \in 1 .. n : todo[i] = thing) => ComesBefore(thing, more, n + 1) /\ ComesBefore(thing, more, n + 2)
    BY <1>2 DEF ComesBefore
<1>4. \A n \in Nat : n = Len(todo) => ComesBefore("lock", more, n + 2)
    BY <1>2 DEF ComesBefore
<1>5. ASSUME NEW thing \in Things, HasTaken(x, thing), NEW i \in 1 .. Len(todo), more[i] = "lock"
      PROVE  ComesBefore(thing, more, i)
    <2>1. todo[i] = "lock" /\ Listed(x, todo)
        BY <1>2, <1>5
    <2>2. ComesBefore(thing, todo, i)
        BY <1>5, <2>1 DEF Listed
    <2> QED
        BY <1>1, <1>2, <2>2 DEF ComesBefore
<1>6. \A n \in Nat : n = Len(todo) => Listed(x, more)
    <2> SUFFICES ASSUME NEW n \in Nat, n = Len(todo) PROVE Listed(x, more)
        OBVIOUS
    <2>1. Len(more) = n + 1 /\ Len(more) + 1 = n + 2 /\ \A i \in 1 .. Len(more) : i \in 1 .. n \/ i = n + 1
        BY <1>2
    <2>2. \A thing \in Things : HasTaken(x, thing) =>
              ComesBefore(thing, more, Len(more) + 1) /\ ComesBefore(thing, more, n + 1)
        BY <1>3, <2>1
    <2> QED
        BY <1>4, <1>5, <2>1, <2>2 DEF Listed
<1> QED
    BY <1>1, <1>2, <1>6 DEF more

\* What is let go after a failed step, and when what is open is closed, is all
\* that may be held there.
LEMMA AllIsListed ==
    ASSUME NEW x \in OwnerType, OwnerSound(x)
    PROVE  /\ x.at \in Fallible => OfFailed(x.at) \in Seq(Things) /\ Listed(x, OfFailed(x.at))
           /\ x.at = "open" => AllGo \in Seq(Things) /\ Listed(x, AllGo)
<1> DEFINE Covers(todo) ==
              \A thing \in Things : HasTaken(x, thing) => \E i \in 1 .. Len(todo) : todo[i] = thing
           Lockless(todo) == todo \in Seq(Things) /\ \A i \in 1 .. Len(todo) : todo[i] # "lock"
           Tools == ToolsGo
           Audited == Append(ToolsGo, "audit")
<1>1. /\ Tools \in Seq(Things) /\ Len(Tools) = 4
      /\ Tools[1] = "hooks" /\ Tools[2] = "processes" /\ Tools[3] = "servers" /\ Tools[4] = "roots"
    BY DEF ToolsGo, Things, Startable
<1>2. /\ Audited \in Seq(Things) /\ Len(Audited) = 5
      /\ Audited[1] = "hooks" /\ Audited[2] = "processes" /\ Audited[3] = "servers" /\ Audited[4] = "roots"
      /\ Audited[5] = "audit"
    <2>1. "audit" \in Things
        BY DEF Things
    <2> HIDE DEF Tools
    <2>2. /\ Append(Tools, "audit") \in Seq(Things) /\ Len(Append(Tools, "audit")) = Len(Tools) + 1
          /\ \A i \in 1 .. Len(Tools) : Append(Tools, "audit")[i] = Tools[i]
          /\ Append(Tools, "audit")[Len(Tools) + 1] = "audit"
        BY <1>1, <2>1, AppendPlaces
    <2>3. Append(Tools, "audit") = Audited
        BY DEF Tools
    <2> HIDE DEF Audited
    <2> QED
        BY <1>1, <2>2, <2>3
<1> HIDE DEF Tools, Audited
<1>3. Lockless(Tools) /\ Lockless(Audited)
    BY <1>1, <1>2
<1>4. \A thing \in Things : HasTaken(x, thing) => thing \in Startable \cup {"roots", "audit"}
    BY DEF HasTaken, OwnerType
<1>5. Covers(Audited)
    BY <1>2, <1>4 DEF Startable
<1>6. x.at \in OpeningSteps => \A thing \in Things : HasTaken(x, thing) => thing \in {"roots", "audit"}
    BY DEF HasTaken, OwnerSound
<1>7. ~x.audit /\ x.at \in OpeningSteps => Covers(Tools)
    <2> SUFFICES ASSUME ~x.audit, x.at \in OpeningSteps, NEW thing \in Things, HasTaken(x, thing)
                 PROVE  \E i \in 1 .. Len(Tools) : Tools[i] = thing
        OBVIOUS
    <2>1. x.running = {}
        BY DEF OwnerSound
    <2>2. thing = "roots"
        BY <2>1 DEF HasTaken
    <2>3. 4 \in 1 .. Len(Tools)
        BY <1>1
    <2> QED
        BY <1>1, <2>2, <2>3
<1>8. /\ Append(Audited, "lock") \in Seq(Things) /\ Listed(x, Append(Audited, "lock"))
      /\ AllGo = Append(Audited, "lock")
    BY <1>3, <1>5, LockComesLast DEF AllGo, Audited
<1>9. x.at = "open" => AllGo \in Seq(Things) /\ Listed(x, AllGo)
    BY <1>8
<1>10. x.at = "registries" => <<"lock">> \in Seq(Things) /\ Listed(x, <<"lock">>)
    <2> SUFFICES ASSUME x.at = "registries" PROVE <<"lock">> \in Seq(Things) /\ Listed(x, <<"lock">>)
        OBVIOUS
    <2>1. \A thing \in Things : ~HasTaken(x, thing)
        BY <1>6 DEF OwnerSound, OpeningSteps, HasTaken
    <2>2. <<"lock">> \in Seq(Things) /\ Len(<<"lock">>) = 1 /\ <<"lock">>[1] = "lock"
        BY DEF Things
    <2> QED
        BY <2>1, <2>2 DEF Listed, ComesBefore
<1>11. x.at \in {"roots", "parts"} => <<"roots", "lock">> \in Seq(Things) /\ Listed(x, <<"roots", "lock">>)
    <2> SUFFICES ASSUME x.at \in {"roots", "parts"}
                 PROVE  <<"roots", "lock">> \in Seq(Things) /\ Listed(x, <<"roots", "lock">>)
        OBVIOUS
    <2>1. \A thing \in Things : HasTaken(x, thing) => thing = "roots"
        BY <1>6 DEF OwnerSound, OpeningSteps, HasTaken
    <2> DEFINE list == <<"roots", "lock">>
    <2>2. list \in Seq(Things) /\ Len(list) = 2 /\ list[1] = "roots" /\ list[2] = "lock"
        BY DEF Things
    <2> HIDE DEF list
    <2>3. ComesBefore("roots", list, 2) /\ ComesBefore("roots", list, 3) /\ ComesBefore("lock", list, 3)
        BY <2>2 DEF ComesBefore
    <2>4. Listed(x, list)
        BY <2>1, <2>2, <2>3 DEF Listed
    <2> QED
        BY <2>2, <2>4 DEF list
<1>12. x.at \in {"tools", "servers", "scripts"} =>
           Append(ToolsGo, "lock") \in Seq(Things) /\ Listed(x, Append(ToolsGo, "lock"))
    <2>1. x.at \in {"tools", "servers", "scripts"} => ~x.audit /\ x.at \in OpeningSteps
        BY DEF OwnerSound, OpeningSteps
    <2> QED
        BY <1>3, <1>7, <2>1, LockComesLast DEF Tools
<1>13. Append(AllGo, "lock") \in Seq(Things) /\ Listed(x, Append(AllGo, "lock"))
    <2> DEFINE all == AllGo
    <2>1. all \in Seq(Things) /\ Listed(x, all)
        BY <1>8
    <2> HIDE DEF all
    <2>2. \A n \in Nat : n = Len(all) => \A thing \in Things : HasTaken(x, thing) => \E i \in 1 .. n : all[i] = thing
        BY <2>1 DEF Listed, ComesBefore
    <2>3. Len(all) \in Nat
        BY <2>1, LenProperties
    <2>4. Append(all, "lock") \in Seq(Things) /\ Listed(x, Append(all, "lock"))
        BY <2>1, <2>2, <2>3, LockComesLast
    <2> QED
        BY <2>4 DEF all
<1> QED
    BY <1>9, <1>10, <1>11, <1>12, <1>13 DEF Fallible, OfFailed

\* Letting one thing go.
LEMMA LetsGoKeeps ==
    ASSUME OpeningInv, NEW o \in Owners, LetsGo(o)
    PROVE  OpeningInv'
<1> DEFINE x == own[o]
           thing == Head(x.todo)
           rest == Tail(x.todo)
<1>1. x \in OwnerType /\ OwnerSound(x) /\ x.at = "letting go" /\ x.todo # <<>>
    BY DEF OpeningInv, LetsGo
<1>2. x.todo \in Seq(Things) /\ Len(x.todo) \in Nat \ {0} /\ thing = x.todo[1] /\ thing \in Things
      /\ rest \in Seq(Things) /\ Len(rest) = Len(x.todo) - 1 /\ \A i \in 1 .. Len(rest) : rest[i] = x.todo[i + 1]
    <2> DEFINE todo == x.todo
    <2>1. todo \in Seq(Things) /\ todo # <<>>
        BY <1>1 DEF OwnerType
    <2> HIDE DEF todo
    <2>2. /\ Tail(todo) \in Seq(Things) /\ Len(Tail(todo)) = Len(todo) - 1 /\ Len(todo) \in Nat \ {0}
          /\ DOMAIN Tail(todo) = 1 .. Len(todo) - 1 /\ \A i \in DOMAIN Tail(todo) : Tail(todo)[i] = todo[i + 1]
          /\ Head(todo) = todo[1] /\ Head(todo) \in Things
        BY <2>1, TailPlaces
    <2> QED
        BY <2>1, <2>2 DEF todo
<1>3. Listed(x, x.todo)
    BY <1>1 DEF OwnerSound
<1>4. ASSUME NEW y, y.lock => x.lock /\ thing # "lock",
             \A t \in Things : HasTaken(y, t) => HasTaken(x, t) /\ t # thing
      PROVE  Listed(y, rest)
    <2> HIDE DEF thing, rest
    <2>1. \A t \in Things, n, m \in Nat :
              t # thing /\ m = n + 1 /\ n <= Len(rest) + 1 /\ ComesBefore(t, x.todo, m) => ComesBefore(t, rest, n)
        <3> SUFFICES ASSUME NEW t \in Things, NEW n \in Nat, t # thing, ComesBefore(t, x.todo, n + 1), n <= Len(rest) + 1
                     PROVE  ComesBefore(t, rest, n)
            OBVIOUS
        <3>1. PICK j \in 1 .. n + 1 - 1 : x.todo[j] = t
            BY DEF ComesBefore
        <3>2. j # 1 /\ j - 1 \in 1 .. n - 1 /\ j - 1 \in 1 .. Len(rest) /\ j - 1 + 1 = j
            BY <1>2, <3>1
        <3> QED
            BY <1>2, <3>1, <3>2 DEF ComesBefore
    <2>2. Len(rest) \in Nat /\ Len(x.todo) = Len(rest) + 1
        BY <1>2
    <2>3. ASSUME NEW t \in Things, t # thing, ComesBefore(t, x.todo, Len(x.todo) + 1) PROVE ComesBefore(t, rest, Len(rest) + 1)
        <3>1. /\ Len(rest) + 1 \in Nat /\ Len(x.todo) + 1 \in Nat /\ Len(x.todo) + 1 = (Len(rest) + 1) + 1
              /\ Len(rest) + 1 <= Len(rest) + 1
            BY <2>2
        <3> QED
            BY <2>1, <2>3, <3>1
    <2>4. ASSUME NEW t \in Things, HasTaken(y, t), NEW i \in 1 .. Len(rest), rest[i] = "lock" PROVE ComesBefore(t, rest, i)
        <3>1. i + 1 \in 1 .. Len(x.todo) /\ x.todo[i + 1] = "lock" /\ i \in Nat /\ i <= Len(rest) + 1
            BY <1>2, <2>2, <2>4
        <3>2. ComesBefore(t, x.todo, i + 1)
            BY <1>3, <1>4, <2>4, <3>1 DEF Listed
        <3>3. i + 1 \in Nat /\ t # thing
            BY <1>4, <2>4, <3>1
        <3> QED
            BY <2>1, <3>1, <3>2, <3>3
    <2>5. y.lock => ComesBefore("lock", rest, Len(rest) + 1)
        BY <1>3, <1>4, <2>3 DEF Listed, Things
    <2>6. \A t \in Things : HasTaken(y, t) => ComesBefore(t, rest, Len(rest) + 1)
        BY <1>3, <1>4, <2>3 DEF Listed
    <2> QED
        BY <2>4, <2>5, <2>6 DEF Listed
<1>5. ASSUME thing = "lock" PROVE OpeningInv'
    <2> DEFINE next == [x EXCEPT !.todo = rest, !.lock = FALSE]
    <2>1. own' = [own EXCEPT ![o] = next] /\ locked' = Released(o)
        BY <1>5 DEF LetsGo
    <2>2. /\ next \in OwnerType /\ next.at = x.at /\ ~next.lock /\ next.roots = x.roots /\ next.audit = x.audit
          /\ next.running = x.running /\ next.todo = rest
        BY <1>1, <1>2 DEF OwnerType
    <2>3. \A t \in Things : ~HasTaken(x, t)
        BY <1>2, <1>3, <1>5 DEF Listed, ComesBefore
    <2>4. \A t \in Things : ~HasTaken(next, t)
        BY <2>2, <2>3 DEF HasTaken
    <2> HIDE DEF next, rest, thing
    <2>5. OwnerSound(next)
        BY <1>1, <1>4, <2>2, <2>4 DEF OwnerSound, OpeningSteps
    <2>6. CASE x.lock
        <3>1. locked' = [locked EXCEPT ![Directory] = NoOwner]
            BY <2>1, <2>6 DEF Released, Canonical, Directory
        <3> QED
            BY <2>1, <2>2, <2>5, <2>6, <3>1, LockStepKeeps
    <2>7. CASE ~x.lock
        <3>1. UNCHANGED locked /\ next.lock = x.lock
            BY <1>1, <2>1, <2>2, <2>7 DEF Released, OwnerType
        <3> QED
            BY <2>1, <2>2, <2>5, <3>1, OwnStepKeeps
    <2> QED
        BY <2>6, <2>7
<1>6. ASSUME NEW next \in OwnerType, UNCHANGED locked, own' = [own EXCEPT ![o] = next],
             next.at = x.at, next.lock = x.lock, next.todo = rest, thing # "lock",
             \A t \in Things : HasTaken(next, t) => HasTaken(x, t) /\ t # thing
      PROVE  OpeningInv'
    <2> HIDE DEF thing, rest
    <2>1. Listed(next, rest)
        BY <1>4, <1>6
    <2>2. OwnerSound(next)
        BY <1>1, <1>6, <2>1 DEF OwnerSound, OpeningSteps
    <2> QED
        BY <1>6, <2>2, OwnStepKeeps
<1>7. CASE thing = "audit"
    <2> DEFINE next == [x EXCEPT !.todo = rest, !.audit = FALSE]
    <2>1. own' = [own EXCEPT ![o] = next] /\ UNCHANGED locked
        BY <1>7 DEF LetsGo
    <2>2. /\ next \in OwnerType /\ next.at = x.at /\ next.lock = x.lock /\ next.roots = x.roots /\ ~next.audit
          /\ next.running = x.running /\ next.todo = rest /\ "audit" \notin x.running
        BY <1>1, <1>2 DEF OwnerType, Startable
    <2> HIDE DEF next, rest, thing
    <2>3. \A t \in Things : HasTaken(next, t) => HasTaken(x, t) /\ t # thing
        BY <1>7, <2>2 DEF HasTaken
    <2> QED
        BY <1>6, <1>7, <2>1, <2>2, <2>3
<1>8. CASE thing = "roots"
    <2> DEFINE next == [x EXCEPT !.todo = rest, !.roots = 0]
    <2>1. own' = [own EXCEPT ![o] = next] /\ UNCHANGED locked
        BY <1>8 DEF LetsGo
    <2>2. /\ next \in OwnerType /\ next.at = x.at /\ next.lock = x.lock /\ next.roots = 0 /\ next.audit = x.audit
          /\ next.running = x.running /\ next.todo = rest
        <3>1. 0 \in 0 .. MaxRoots
            BY OpeningAssumption
        <3> QED
            BY <1>1, <1>2, <3>1 DEF OwnerType
    <2>3. "roots" \notin x.running
        BY <1>1 DEF OwnerType, Startable
    <2> HIDE DEF next, rest, thing
    <2>4. \A t \in Things : HasTaken(next, t) => HasTaken(x, t) /\ t # thing
        BY <1>8, <2>2, <2>3 DEF HasTaken
    <2> QED
        BY <1>6, <1>8, <2>1, <2>2, <2>4
<1>9. CASE thing \in Startable
    <2> DEFINE next == [x EXCEPT !.todo = rest, !.running = @ \ {thing}]
    <2>1. own' = [own EXCEPT ![o] = next] /\ UNCHANGED locked
        BY <1>9 DEF LetsGo, Startable
    <2>2. /\ next \in OwnerType /\ next.at = x.at /\ next.lock = x.lock /\ next.roots = x.roots /\ next.audit = x.audit
          /\ next.running = x.running \ {thing} /\ next.todo = rest
        BY <1>1, <1>2 DEF OwnerType
    <2> HIDE DEF next, rest, thing
    <2>3. \A t \in Things : HasTaken(next, t) => HasTaken(x, t) /\ t # thing
        BY <1>9, <2>2 DEF HasTaken, Startable
    <2> QED
        BY <1>6, <1>9, <2>1, <2>2, <2>3 DEF Startable
<1> QED
    BY <1>2, <1>5, <1>7, <1>8, <1>9 DEF Things

\* From open or a failed step to closed, and a process that ends.
LEMMA LeavingKeepsOpening ==
    ASSUME OpeningInv, NEW o \in Owners, StepFails(o) \/ Closes(o) \/ AllLetGo(o) \/ Dies(o)
    PROVE  OpeningInv'
<1> DEFINE x == own[o]
<1>1. x \in OwnerType /\ OwnerSound(x)
    BY DEF OpeningInv
<1>2. ASSUME NEW todo \in Seq(Things), Listed(x, todo), own' = [own EXCEPT ![o] = [x EXCEPT !.at = "letting go", !.todo = todo]],
             UNCHANGED locked
      PROVE  OpeningInv'
    <2> DEFINE next == [x EXCEPT !.at = "letting go", !.todo = todo]
    <2>1. /\ next \in OwnerType /\ next.at = "letting go" /\ next.lock = x.lock /\ next.todo = todo
          /\ next.running = x.running /\ next.roots = x.roots /\ next.audit = x.audit
        BY <1>1, <1>2 DEF OwnerType
    <2>2. own' = [own EXCEPT ![o] = next]
        BY <1>2
    <2> HIDE DEF next
    <2>3. Listed(next, todo)
        BY <1>2, <2>1 DEF Listed, HasTaken
    <2>4. OwnerSound(next)
        BY <1>1, <2>1, <2>3 DEF OwnerSound, HasTaken, OpeningSteps
    <2> QED
        BY <1>2, <2>1, <2>2, <2>4, OwnStepKeeps
<1>3. CASE StepFails(o)
    BY <1>1, <1>2, <1>3, AllIsListed DEF StepFails, LetGo
<1>4. CASE Closes(o)
    BY <1>1, <1>2, <1>4, AllIsListed DEF Closes, LetGo
<1>5. CASE AllLetGo(o)
    <2> DEFINE next == [x EXCEPT !.at = "closed", !.via = NoOwner]
    <2>1. own' = [own EXCEPT ![o] = next] /\ UNCHANGED locked /\ x.at = "letting go" /\ x.todo = <<>>
        BY <1>5 DEF AllLetGo
    <2>2. ~x.lock /\ \A t \in Things : ~HasTaken(x, t)
        <3>1. Listed(x, <<>>) /\ Len(<<>>) = 0
            BY <1>1, <2>1 DEF OwnerSound
        <3> QED
            BY <3>1 DEF Listed, ComesBefore
    <2>3. /\ next \in OwnerType /\ next.at = "closed" /\ next.lock = x.lock
          /\ next.running = x.running /\ next.roots = x.roots /\ next.audit = x.audit
        BY <1>1 DEF OwnerType
    <2> HIDE DEF next
    <2>4. OwnerSound(next)
        BY <2>2, <2>3 DEF OwnerSound, HasTaken, OpeningSteps
    <2> QED
        BY <2>1, <2>3, <2>4, OwnStepKeeps
<1>6. CASE Dies(o)
    <2>1. own' = [own EXCEPT ![o] = Nothing] /\ locked' = Released(o)
        BY <1>6 DEF Dies
    <2>2. CASE x.lock
        <3>1. locked' = [locked EXCEPT ![Directory] = NoOwner]
            BY <2>1, <2>2 DEF Released, Canonical, Directory
        <3> QED
            BY <2>1, <2>2, <3>1, NothingIsSound, LockStepKeeps
    <2>3. CASE ~x.lock
        <3>1. UNCHANGED locked /\ Nothing.lock = x.lock
            BY <1>1, <2>1, <2>3, NothingIsSound DEF Released, OwnerType
        <3> QED
            BY <2>1, <3>1, NothingIsSound, OwnStepKeeps
    <2> QED
        BY <2>2, <2>3
<1> QED
    BY <1>3, <1>4, <1>5, <1>6

\* Every step of opening and closing.
LEMMA OpeningInvStep == OpeningInv /\ [OpeningNext]_openVars => OpeningInv'
<1> SUFFICES ASSUME OpeningInv, [OpeningNext]_openVars PROVE OpeningInv'
    OBVIOUS
<1>1. CASE UNCHANGED openVars
    BY <1>1 DEF openVars, OpeningInv
<1>2. "hooks" \in Startable
    BY DEF Startable
<1> QED
    BY <1>1, <1>2, OpenBeginsKeeps, GoingOnKeeps, LetsGoKeeps, LeavingKeepsOpening DEF OpeningNext

\* Nobody has the directory, or one does, and who doesn't has nothing.
LEMMA OneHasIt == OpeningInv => OpenedAlone
<1> SUFFICES ASSUME OpeningInv PROVE OpenedAlone
    OBVIOUS
<1>1. \A o \in Owners : HasAny(o) => own[o].lock
    <2> SUFFICES ASSUME NEW o \in Owners, HasAny(o) PROVE own[o].lock
        OBVIOUS
    <2>1. ASSUME NEW thing \in own[o].running PROVE own[o].lock
        <3>1. thing \in Things /\ HasTaken(own[o], thing)
            BY <2>1 DEF OpeningInv, OwnerType, HasTaken, Things
        <3> QED
            BY <3>1 DEF OpeningInv, OwnerSound
    <2>2. HasTaken(own[o], "roots") \/ HasTaken(own[o], "audit") => own[o].lock
        BY DEF OpeningInv, OwnerSound, Things
    <2> QED
        BY <2>1, <2>2 DEF HasAny, HasTaken
<1>2. OneOwner
    BY <1>1 DEF OpeningInv, OneOwner
<1>3. NothingLeft
    BY <1>1 DEF OpeningInv, OwnerSound, NothingLeft
<1> QED
    BY <1>2, <1>3 DEF OpenedAlone

-------------------------------------------------------------------------------
\* Calls on a workspace of the service (RemoteCalls).

RemoteMethods ==
    LocalMethods \cup {"none", "ListAgents", "SetAgent", "UpdateModelSettings", "Undo", "AddImage", "RunTurn"}

\* All errors there are.
KnownErrors == Reasoned \cup Opening \cup {"ok", "plain", "NotFound", "UnknownImage"}

SettingValues == [SettingKeys -> Nat]

RemoteCallType ==
    [pc : {"none", "sent", "applies", "saves", "handled", "done"}, method : RemoteMethods,
     name : {"none", "main", "other", "unknown"}, key : SettingKeys \cup {"none"}, value : Nat, image : Nat,
     error : KnownErrors, got : {"plain"} \cup Restored \cup {"ok"}, warned : BOOLEAN, lost : BOOLEAN,
     seen : Seq(BOOLEAN), during : SUBSET {"main", "other"}, new : SettingValues,
     restored : {"none", "some", "all"}, told : {"none", "some", "all"}]

HostedType ==
    [active : {"main", "other"}, settings : SettingValues, file : SettingValues, checkpoints : Int, images : Seq(Nat)]

ServedType ==
    [calls : Int, touched : Seq(Nat), settings : SettingValues, beside : BOOLEAN, unsaved : BOOLEAN]

\* What ErrorsKept says of one call.
ErrorKept(x) ==
    LET e == x.error
    IN IF x.method \in Warned THEN x.warned <=> e \notin {"ok", "NotFound"}
       ELSE x.got = IF e \in Untyped \/ (e # "ok" /\ e \notin Opening /\ x.method \in {"LoadSession", "GitDiff"})
                    THEN "plain" ELSE e

\* An agent seen active was so meanwhile, and when only one was, that one was
\* seen active and no other.
ListSound(x) ==
    /\ x.during # {} /\ Len(x.seen) <= 2
    /\ \A i \in DOMAIN x.seen : x.seen[i] => AgentNames[i] \in x.during
    /\ \A a \in x.during : x.during = {a} => \A i \in DOMAIN x.seen : x.seen[i] <=> AgentNames[i] = a

CallSound(x) ==
    /\ x.error = "NotFound" => x.method \in Warned
    /\ x.pc = "done" /\ ~x.lost => ErrorKept(x)
    /\ x.told = x.restored
    /\ x.pc \in {"sent", "applies", "saves"} => x.error = "ok"
    /\ x.pc \in {"applies", "saves"} => x.method = "UpdateModelSettings"
    /\ x.method = "ListAgents" => ListSound(x)
    /\ x.method = "ListAgents" /\ x.error = "ok" /\ (x.pc = "handled" \/ (x.pc = "done" /\ ~x.lost)) => Len(x.seen) = 2

Updating(x) == x.pc \notin {"none", "done"} /\ x.method = "UpdateModelSettings"

\* Unless two calls change the settings at the same time: there is one call at
\* most, and what it is about to apply or to save are the settings as they are.
SettingsSure ==
    /\ hosted.settings = served.settings
    /\ \A c, d \in Clients : Updating(remote[c]) /\ Updating(remote[d]) => c = d
    /\ \A c \in Clients :
          /\ remote[c].pc = "applies" =>
                 remote[c].new = [hosted.settings EXCEPT ![remote[c].key] = remote[c].value]
          /\ remote[c].pc = "saves" => remote[c].new = hosted.settings
    /\ ~served.unsaved /\ (\A c \in Clients : remote[c].pc # "saves") => hosted.file = hosted.settings

\* The images kept are the last ones touched, in that order: from where one was
\* last touched, those that come after it were; and one that is not kept was
\* touched before all that are.
LastTouched(images, touched) ==
    /\ \A p, q \in DOMAIN images : images[p] = images[q] => p = q
    /\ \A p \in DOMAIN images : \E n \in DOMAIN touched :
          /\ touched[n] = images[p]
          /\ \A m \in DOMAIN touched : m > n => touched[m] # images[p]
          /\ \A m \in DOMAIN touched : m >= n => \E q \in DOMAIN images : q >= p /\ images[q] = touched[m]
          /\ \A q \in DOMAIN images : q >= p => \E m \in DOMAIN touched : m >= n /\ images[q] = touched[m]
    /\ \A n \in DOMAIN touched :
          (\A p \in DOMAIN images : images[p] # touched[n]) =>
              /\ Len(images) >= KeptImages
              /\ \A p \in DOMAIN images : \E m \in DOMAIN touched : m >= n /\ images[p] = touched[m]

ImagesSound(images, touched) == Len(images) <= KeptImages /\ LastTouched(images, touched)

RemoteInv ==
    /\ remote \in [Clients -> RemoteCallType] /\ hosted \in HostedType /\ served \in ServedType
    /\ \A c \in Clients : CallSound(remote[c])
    /\ \A c \in Clients : remote[c].pc = "sent" /\ remote[c].method = "ListAgents" => hosted.active \in remote[c].during
    /\ ~served.beside => SettingsSure
    /\ ImagesSound(hosted.images, served.touched)

\* A client without a call.
LEMMA NoCallIsSound ==
    /\ NoCall \in RemoteCallType /\ CallSound(NoCall)
    /\ NoCall.pc = "none" /\ NoCall.method = "none" /\ NoCall.error = "ok" /\ NoCall.restored = "none"
    /\ NoCall.told = "none" /\ NoCall.seen = <<>> /\ NoCall.during = {} /\ ~NoCall.lost
<1>1. /\ NoCall.pc = "none" /\ NoCall.method = "none" /\ NoCall.error = "ok" /\ NoCall.restored = "none"
      /\ NoCall.told = "none" /\ NoCall.seen = <<>> /\ NoCall.during = {} /\ ~NoCall.lost
    BY DEF NoCall
<1>2. NoCall \in RemoteCallType
    BY DEF NoCall, RemoteCallType, RemoteMethods, KnownErrors, SettingValues, NoSettings
<1> QED
    BY <1>1, <1>2 DEF CallSound

\* Nobody has called yet.
LEMMA RemoteInvInit == RemoteInit => RemoteInv
<1> SUFFICES ASSUME RemoteInit PROVE RemoteInv
    OBVIOUS
<1>1. hosted = [active |-> "main", settings |-> NoSettings, file |-> NoSettings, checkpoints |-> 2, images |-> <<>>]
      /\ remote = [c \in Clients |-> NoCall]
      /\ served = [calls |-> 0, touched |-> <<>>, settings |-> NoSettings, beside |-> FALSE, unsaved |-> FALSE]
    BY DEF RemoteInit
<1>2. NoSettings \in SettingValues
    BY DEF NoSettings, SettingValues
<1>3. hosted \in HostedType /\ served \in ServedType
    BY <1>1, <1>2 DEF HostedType, ServedType
<1>4. ImagesSound(<<>>, <<>>)
    BY RemoteAssumption DEF ImagesSound, LastTouched
<1>5. SettingsSure
    BY <1>1, NoCallIsSound DEF SettingsSure, Updating
<1> QED
    BY <1>1, <1>3, <1>4, <1>5, NoCallIsSound DEF RemoteInv

\* What an error of a method is to the client, and what it should be.
Arrives(method, error) == FromReason(IF error \in Opening THEN error ELSE HandlersReason(method, error))

FitsError(method, error, gets) ==
    /\ gets \in {"plain"} \cup Restored \cup {"ok"}
    /\ gets = "ok" <=> error = "ok"
    /\ method \notin Warned =>
           gets = IF error \in Untyped \/ (error # "ok" /\ error \notin Opening /\ method \in {"LoadSession", "GitDiff"})
                 THEN "plain" ELSE error

\* An error of the service arrives as itself, or as plain.
LEMMA ErrorsArrive ==
    ASSUME NEW method, NEW error \in KnownErrors, error = "NotFound" => method \in Warned
    PROVE  FitsError(method, error, Arrives(method, error))
<1> DEFINE reason == FromReason(IF error \in Opening THEN error ELSE HandlersReason(method, error))
<1> SUFFICES /\ reason \in {"plain"} \cup Restored \cup {"ok"}
             /\ reason = "ok" <=> error = "ok"
             /\ method \notin Warned =>
                    reason = IF error \in Untyped \/ (error # "ok" /\ error \notin Opening /\ method \in {"LoadSession", "GitDiff"})
                             THEN "plain" ELSE error
    BY DEF FitsError, Arrives
<1>1. CASE error = "ok"
    BY <1>1 DEF Opening, HandlersReason, FromReason, Untyped
<1>2. CASE error \in Opening
    BY <1>2 DEF Opening, FromReason, Untyped, Restored
<1>3. CASE error # "ok" /\ error \notin Opening /\ method \in {"LoadSession", "GitDiff"}
    <2>1. HandlersReason(method, error) \in {"SessionNotFound", "GitFailed"}
        BY <1>3 DEF HandlersReason
    <2> QED
        BY <1>3, <2>1 DEF FromReason, Restored
<1>4. CASE error # "ok" /\ error \notin Opening /\ method \notin {"LoadSession", "GitDiff"}
    <2>1. HandlersReason(method, error) = Reason(error)
        BY <1>4 DEF HandlersReason
    <2>2. CASE error \in Reasoned \ {"InvalidWorker"}
        <3>1. error \in Restored /\ error \notin Untyped /\ error # "ok"
            BY <2>2 DEF Reasoned, Restored, Untyped, Opening
        <3> QED
            BY <1>4, <2>1, <2>2, <3>1 DEF Reason, FromReason
    <2>3. CASE error = "InvalidWorker"
        <3>1. "InvalidWorker" \notin Restored /\ "InvalidWorker" \in Untyped
            BY DEF Restored, Untyped
        <3> QED
            BY <1>4, <2>1, <2>3, <3>1 DEF Reason, FromReason, Reasoned
    <2>4. CASE error \in {"plain", "UnknownImage"}
        <3>1. error \notin Reasoned /\ error \in Untyped /\ error # "Canceled" /\ "Internal" \notin Restored
            BY <2>4 DEF Reasoned, Untyped, Restored
        <3> QED
            BY <1>4, <2>1, <2>4, <3>1 DEF Reason, FromReason
    <2>5. CASE error = "NotFound"
        <3>1. error \notin Reasoned /\ error # "Canceled" /\ "Internal" \notin Restored
            BY <2>5 DEF Reasoned, Restored
        <3> QED
            BY <1>4, <2>1, <2>5, <3>1 DEF Reason, FromReason
    <2> QED
        BY <1>4, <2>2, <2>3, <2>4, <2>5 DEF KnownErrors
<1> QED
    BY <1>1, <1>2, <1>3, <1>4

\* The methods without a state of their own have the errors known, and are
\* none of the others.
LEMMA MethodsErrors ==
    ASSUME NEW errors \in {SessionErrors, ModelErrors, ExtensionErrors, ContextErrors, ChangeErrors, WorkerErrors},
           NEW method \in DOMAIN errors
    PROVE  /\ method \notin {"none", "ListAgents", "SetAgent", "UpdateModelSettings", "Undo", "AddImage", "RunTurn"}
           /\ errors[method] \subseteq KnownErrors
           /\ "NotFound" \in errors[method] => method \in Warned
<1> DEFINE Fits(e) ==
              \A m \in DOMAIN e :
                  /\ m \notin {"none", "ListAgents", "SetAgent", "UpdateModelSettings", "Undo", "AddImage", "RunTurn"}
                  /\ e[m] \subseteq KnownErrors
                  /\ "NotFound" \in e[m] => m \in Warned
<1>1. "Skill" \in Warned
    BY DEF Warned, ExtensionWarned
<1>2. Fits(SessionErrors)
    BY DEF SessionErrors, KnownErrors, Reasoned, Opening
<1>3. Fits(ModelErrors)
    BY DEF ModelErrors, KnownErrors, Reasoned, Opening
<1>4. Fits(ExtensionErrors)
    BY <1>1 DEF ExtensionErrors, KnownErrors, Reasoned, Opening
<1>5. Fits(ContextErrors)
    BY DEF ContextErrors, KnownErrors, Reasoned, Opening
<1>6. Fits(ChangeErrors)
    BY DEF ChangeErrors, KnownErrors, Reasoned, Opening
<1>7. Fits(WorkerErrors)
    BY DEF WorkerErrors, KnownErrors, Reasoned, Opening
<1> QED
    BY <1>2, <1>3, <1>4, <1>5, <1>6, <1>7

\* A step of one call that doesn't touch the settings.
LEMMA CallKeeps ==
    ASSUME RemoteInv, NEW c \in Clients, NEW next \in RemoteCallType, remote' = [remote EXCEPT ![c] = next],
           CallSound(next), next.pc = "sent" /\ next.method = "ListAgents" => hosted.active \in next.during,
           hosted' \in HostedType, hosted'.active = hosted.active,
           hosted'.settings = hosted.settings, hosted'.file = hosted.file,
           served' \in ServedType, served'.settings = served.settings,
           served'.beside = served.beside, served'.unsaved = served.unsaved,
           remote[c].pc # "saves", next.pc # "saves", next.pc # "applies", Updating(next) => Updating(remote[c]),
           ImagesSound(hosted'.images, served'.touched)
    PROVE  RemoteInv'
<1>1. remote'[c] = next /\ \A d \in Clients : d # c => remote'[d] = remote[d]
    BY DEF RemoteInv
<1>2. remote' \in [Clients -> RemoteCallType] /\ \A d \in Clients : CallSound(remote'[d])
    BY <1>1 DEF RemoteInv
<1>3. \A d \in Clients : remote'[d].pc = "sent" /\ remote'[d].method = "ListAgents" => hosted'.active \in remote'[d].during
    BY <1>1 DEF RemoteInv
<1>4. ASSUME ~served'.beside PROVE SettingsSure'
    <2>1. SettingsSure
        BY <1>4 DEF RemoteInv
    <2>2. \A d \in Clients : /\ Updating(remote'[d]) => Updating(remote[d])
                             /\ remote'[d].pc = "applies" => remote'[d] = remote[d]
                             /\ remote'[d].pc = "saves" => remote'[d] = remote[d]
                             /\ remote[d].pc = "saves" => remote'[d] = remote[d]
        BY <1>1
    <2> QED
        BY <2>1, <2>2 DEF SettingsSure
<1> QED
    BY <1>2, <1>3, <1>4 DEF RemoteInv

\* A call that a client sends.
LEMMA SendsKeeps ==
    ASSUME RemoteInv, NEW c \in Clients, NEW call \in RemoteCallType, Sends(c, call), call.error = "ok",
           call.told = call.restored, call.method # "UpdateModelSettings",
           call.method = "ListAgents" => call.seen = <<>> /\ call.during = {hosted.active},
           served' \in ServedType, served'.settings = served.settings,
           served'.beside = served.beside, served'.unsaved = served.unsaved, served'.touched = served.touched
    PROVE  RemoteInv'
<1> DEFINE next == [call EXCEPT !.pc = "sent"]
<1>1. remote' = [remote EXCEPT ![c] = next] /\ UNCHANGED hosted /\ remote[c].pc \in {"none", "done"}
    BY DEF Sends, InCall
<1>2. /\ next \in RemoteCallType /\ next.pc = "sent" /\ next.error = "ok" /\ next.told = next.restored
      /\ next.method = call.method /\ next.seen = call.seen /\ next.during = call.during
    BY DEF RemoteCallType
<1> HIDE DEF next
<1>3. next.method = "ListAgents" => ListSound(next) /\ hosted.active \in next.during
    BY <1>2 DEF ListSound
<1>4. CallSound(next)
    BY <1>2, <1>3 DEF CallSound
<1>5. hosted' \in HostedType /\ ImagesSound(hosted'.images, served'.touched)
    BY <1>1 DEF RemoteInv
<1> QED
    BY <1>1, <1>2, <1>3, <1>4, <1>5, CallKeeps DEF Updating

\* Bound aside, what the calls made are changes nothing.
LEMMA CountsCalls ==
    ASSUME RemoteInv, NEW n \in Int, served' = [served EXCEPT !.calls = n]
    PROVE  /\ served' \in ServedType /\ served'.settings = served.settings
           /\ served'.beside = served.beside /\ served'.unsaved = served.unsaved /\ served'.touched = served.touched
BY DEF RemoteInv, ServedType

\* The calls clients send, but those that change settings.
LEMMA ClientsCall ==
    ASSUME RemoteInv, NEW c \in Clients,
           CallMethod(c) \/ CallAgents(c) \/ CallSetAgent(c) \/ CallUndo(c) \/ CallImage(c)
    PROVE  RemoteInv'
<1>1. served.calls + 1 \in Int
    BY DEF RemoteInv, ServedType
<1>2. ToSet(AgentNames) = {"main", "other"}
    BY DEF AgentNames, ToSet
<1>3. ASSUME CallMethod(c) PROVE RemoteInv'
    <2>1. PICK m \in LocalMethods : Sends(c, [NoCall EXCEPT !.method = m])
        BY <1>3 DEF CallMethod
    <2>2. m \in RemoteMethods /\ m \notin {"UpdateModelSettings", "ListAgents"}
        BY MethodsErrors DEF RemoteMethods, LocalMethods
    <2> DEFINE call == [NoCall EXCEPT !.method = m]
    <2>3. /\ call \in RemoteCallType /\ call.error = "ok" /\ call.told = call.restored
          /\ call.method = m
        BY <2>2, NoCallIsSound DEF RemoteCallType
    <2>4. Sends(c, call) /\ served' = [served EXCEPT !.calls = MaxRemote]
        BY <1>3, <2>1 DEF CallMethod
    <2> HIDE DEF call
    <2> QED
        BY <2>2, <2>3, <2>4, CountsCalls, SendsKeeps, RemoteAssumption
<1>4. ASSUME CallAgents(c) PROVE RemoteInv'
    <2> DEFINE call == [NoCall EXCEPT !.method = "ListAgents", !.during = {hosted.active}]
    <2>1. Sends(c, call) /\ served' = [served EXCEPT !.calls = served.calls + 1]
        BY <1>4 DEF CallAgents
    <2>2. /\ call \in RemoteCallType /\ call.error = "ok" /\ call.told = call.restored
          /\ call.method = "ListAgents" /\ call.seen = <<>> /\ call.during = {hosted.active}
        <3>1. hosted.active \in {"main", "other"}
            BY DEF RemoteInv, HostedType
        <3> QED
            BY <3>1, NoCallIsSound DEF RemoteCallType, RemoteMethods
    <2> HIDE DEF call
    <2> QED
        BY <1>1, <2>1, <2>2, CountsCalls, SendsKeeps
<1>5. ASSUME CallSetAgent(c) PROVE RemoteInv'
    <2>1. PICK a \in {"main", "other", "unknown"} : Sends(c, [NoCall EXCEPT !.method = "SetAgent", !.name = a])
        BY <1>2, <1>5 DEF CallSetAgent
    <2> DEFINE call == [NoCall EXCEPT !.method = "SetAgent", !.name = a]
    <2>2. /\ call \in RemoteCallType /\ call.error = "ok" /\ call.told = call.restored
          /\ call.method = "SetAgent"
        BY NoCallIsSound DEF RemoteCallType, RemoteMethods
    <2>3. Sends(c, call) /\ served' = [served EXCEPT !.calls = served.calls + 1]
        BY <1>5, <2>1 DEF CallSetAgent
    <2> HIDE DEF call
    <2> QED
        BY <1>1, <2>2, <2>3, CountsCalls, SendsKeeps
<1>6. ASSUME CallUndo(c) PROVE RemoteInv'
    <2> DEFINE call == [NoCall EXCEPT !.method = "Undo"]
    <2>1. Sends(c, call) /\ served' = [served EXCEPT !.calls = served.calls + 1]
        BY <1>6 DEF CallUndo
    <2>2. /\ call \in RemoteCallType /\ call.error = "ok" /\ call.told = call.restored
          /\ call.method = "Undo"
        BY NoCallIsSound DEF RemoteCallType, RemoteMethods
    <2> HIDE DEF call
    <2> QED
        BY <1>1, <2>1, <2>2, CountsCalls, SendsKeeps
<1>7. ASSUME CallImage(c) PROVE RemoteInv'
    <2>1. PICK m \in {"AddImage", "RunTurn"}, i \in 1 .. KeptImages + 1 : Sends(c, [NoCall EXCEPT !.method = m, !.image = i])
        BY <1>7 DEF CallImage
    <2> DEFINE call == [NoCall EXCEPT !.method = m, !.image = i]
    <2>2. /\ call \in RemoteCallType /\ call.error = "ok" /\ call.told = call.restored
          /\ call.method = m
        <3>1. i \in Nat
            BY RemoteAssumption
        <3> QED
            BY <3>1, NoCallIsSound DEF RemoteCallType, RemoteMethods
    <2>3. Sends(c, call) /\ served' = [served EXCEPT !.calls = served.calls + 1]
        BY <1>7, <2>1 DEF CallImage
    <2> HIDE DEF call
    <2> QED
        BY <1>1, <2>2, <2>3, CountsCalls, SendsKeeps
<1> QED
    BY <1>3, <1>4, <1>5, <1>6, <1>7

\* A step of a call that changes neither the workspace nor the settings.
LEMMA CallMovesOn ==
    ASSUME RemoteInv, NEW c \in Clients, NEW next \in RemoteCallType, remote' = [remote EXCEPT ![c] = next],
           UNCHANGED <<hosted, served>>, CallSound(next), next.pc \in {"sent", "handled", "done"},
           remote[c].pc \in {"sent", "handled"}, next.method = remote[c].method, next.during = remote[c].during,
           next.pc = "sent" => remote[c].pc = "sent"
    PROVE  RemoteInv'
<1>1. hosted' \in HostedType /\ served' \in ServedType /\ ImagesSound(hosted'.images, served'.touched)
    BY DEF RemoteInv
<1>2. next.pc = "sent" /\ next.method = "ListAgents" => hosted.active \in next.during
    BY DEF RemoteInv
<1>3. Updating(next) => Updating(remote[c])
    BY DEF Updating
<1> QED
    BY <1>1, <1>2, <1>3, CallKeeps

\* A handler's result or error.
LEMMA HandledKeeps ==
    ASSUME RemoteInv, NEW c \in Clients, remote[c].pc = "sent", NEW error \in KnownErrors, Handled(c, error),
           UNCHANGED <<hosted, served>>, error = "NotFound" => remote[c].method \in Warned,
           remote[c].method = "ListAgents" /\ error = "ok" => Len(remote[c].seen) = 2
    PROVE  RemoteInv'
<1> DEFINE x == remote[c]
           next == [x EXCEPT !.pc = "handled", !.error = error]
<1>1. x \in RemoteCallType /\ CallSound(x)
    BY DEF RemoteInv
<1>2. remote' = [remote EXCEPT ![c] = next]
    BY DEF Handled
<1>3. /\ next \in RemoteCallType /\ next.pc = "handled" /\ next.error = error /\ next.method = x.method
      /\ next.told = x.told /\ next.restored = x.restored /\ next.seen = x.seen /\ next.during = x.during
    BY <1>1 DEF RemoteCallType
<1> HIDE DEF next
<1>4. CallSound(next)
    BY <1>1, <1>3 DEF CallSound, ListSound
<1> QED
    BY <1>2, <1>3, <1>4, CallMovesOn

\* What handlers answer that only look.
LEMMA HandlersKeep ==
    ASSUME RemoteInv, NEW c \in Clients,
           \/ NotOpened(c) \/ HandleSessions(c) \/ HandleModels(c) \/ HandleExtensions(c) \/ HandleContext(c)
           \/ HandleChanges(c) \/ HandleWorkers(c) \/ AgentsRead(c)
    PROVE  RemoteInv'
<1>1. CASE NotOpened(c)
    <2>1. PICK e \in Opening : Handled(c, e)
        BY <1>1 DEF NotOpened
    <2>2. e \in KnownErrors /\ e \notin {"ok", "NotFound"}
        BY DEF KnownErrors, Opening
    <2> QED
        BY <1>1, <2>1, <2>2, HandledKeeps DEF NotOpened
<1>2. ASSUME NEW errors \in {SessionErrors, ModelErrors, ExtensionErrors, ContextErrors, ChangeErrors, WorkerErrors},
             Tells(c, errors)
      PROVE  RemoteInv'
    <2>1. remote[c].pc = "sent" /\ remote[c].method \in DOMAIN errors /\ UNCHANGED <<hosted, served>>
        BY <1>2 DEF Tells
    <2>2. PICK e \in errors[remote[c].method] \cup {"ok"} : Handled(c, e)
        BY <1>2 DEF Tells
    <2>3. "ok" \in KnownErrors
        BY DEF KnownErrors
    <2>4. /\ remote[c].method # "ListAgents" /\ e \in KnownErrors
          /\ e = "NotFound" => remote[c].method \in Warned
        BY <2>1, <2>2, <2>3, MethodsErrors
    <2> QED
        BY <2>1, <2>2, <2>4, HandledKeeps
<1>3. CASE AgentsRead(c)
    <2>1. /\ remote[c].pc = "sent" /\ Handled(c, "ok") /\ UNCHANGED <<hosted, served>>
          /\ Len(remote[c].seen) = 2 /\ "ok" \in KnownErrors
        BY <1>3 DEF AgentsRead, Doing, AgentNames, KnownErrors
    <2> QED
        BY <2>1, HandledKeeps
<1> QED
    BY <1>1, <1>2, <1>3 DEF HandleSessions, HandleModels, HandleExtensions, HandleContext, HandleChanges, HandleWorkers

\* One agent more is told.
LEMMA ReadAgentKeeps ==
    ASSUME RemoteInv, NEW c \in Clients, ReadAgent(c)
    PROVE  RemoteInv'
<1> DEFINE x == remote[c]
           b == AgentNames[Len(x.seen) + 1] = hosted.active
           more == Append(x.seen, b)
           next == [x EXCEPT !.seen = more]
<1>1. x \in RemoteCallType /\ CallSound(x) /\ x.pc = "sent" /\ x.method = "ListAgents" /\ hosted.active \in x.during
    BY DEF RemoteInv, ReadAgent, Doing
<1>2. x.seen \in Seq(BOOLEAN) /\ Len(x.seen) < 2 /\ b \in BOOLEAN /\ ListSound(x)
    BY <1>1 DEF RemoteCallType, ReadAgent, CallSound, AgentNames
<1>3. remote' = [remote EXCEPT ![c] = next] /\ UNCHANGED <<hosted, served>>
    BY DEF ReadAgent
<1>4. /\ more \in Seq(BOOLEAN) /\ Len(more) = Len(x.seen) + 1 /\ Len(x.seen) \in Nat
      /\ DOMAIN more = DOMAIN x.seen \cup {Len(x.seen) + 1} /\ DOMAIN x.seen = 1 .. Len(x.seen)
      /\ \A i \in DOMAIN x.seen : more[i] = x.seen[i]
      /\ more[Len(x.seen) + 1] = b
    <2> HIDE DEF b
    <2> QED
        BY <1>2, AppendPlaces
<1>5. /\ next \in RemoteCallType /\ next.pc = "sent" /\ next.error = x.error /\ next.method = x.method
      /\ next.told = x.told /\ next.restored = x.restored /\ next.seen = more /\ next.during = x.during
    <2> HIDE DEF more
    <2> QED
        BY <1>1, <1>4 DEF RemoteCallType
<1> HIDE DEF next, more
<1>6. more[Len(x.seen) + 1] <=> AgentNames[Len(x.seen) + 1] = hosted.active
    BY <1>4
<1> HIDE DEF b
<1>7. ListSound(next)
    <2>0. next.seen = more /\ Len(more) <= 2
        BY <1>2, <1>4, <1>5
    <2>1. next.during # {} /\ Len(next.seen) <= 2
        BY <1>2, <1>5, <2>0 DEF ListSound
    <2>2. ASSUME NEW i \in DOMAIN next.seen
          PROVE  /\ next.seen[i] => AgentNames[i] \in next.during
                 /\ \A a \in next.during : next.during = {a} => (next.seen[i] <=> AgentNames[i] = a)
        <3>1. CASE i \in DOMAIN x.seen
            BY <1>2, <1>4, <1>5, <3>1 DEF ListSound
        <3>2. CASE i = Len(x.seen) + 1
            BY <1>1, <1>5, <1>6, <3>2
        <3> QED
            BY <1>4, <1>5, <2>2, <3>1, <3>2
    <2> QED
        BY <2>1, <2>2 DEF ListSound
<1>8. CallSound(next)
    BY <1>1, <1>5, <1>7 DEF CallSound
<1> QED
    BY <1>1, <1>3, <1>5, <1>8, CallMovesOn

\* What the client gets.
LEMMA RepliesKeep ==
    ASSUME RemoteInv, NEW c \in Clients, Replied(c) \/ LostReply(c)
    PROVE  RemoteInv'
<1> DEFINE x == remote[c]
<1>1. x \in RemoteCallType /\ CallSound(x)
    BY DEF RemoteInv
<1>2. ASSUME NEW e \in {"plain"} \cup Restored \cup {"ok"}, NEW lost \in BOOLEAN, Got(c, e, lost),
             x.pc \in {"sent", "handled"}, lost = FALSE => x.pc = "handled",
             lost \/ FitsError(x.method, x.error, e)
      PROVE  RemoteInv'
    <2> DEFINE gets == IF x.method \in Warned THEN "ok" ELSE e
               warned == e # "ok" /\ x.method \in Warned /\ x.error # "NotFound"
               next == [x EXCEPT !.pc = "done", !.got = gets, !.warned = warned, !.lost = lost]
    <2>1. remote' = [remote EXCEPT ![c] = next] /\ UNCHANGED <<hosted, served>>
        BY <1>2 DEF Got
    <2>2. gets \in {"plain"} \cup Restored \cup {"ok"} /\ warned \in BOOLEAN
        BY <1>2
    <2>3. /\ next \in RemoteCallType /\ next.pc = "done" /\ next.error = x.error /\ next.method = x.method
          /\ next.told = x.told /\ next.restored = x.restored /\ next.seen = x.seen /\ next.during = x.during
          /\ next.got = gets /\ (next.warned <=> warned) /\ next.lost = lost
        <3> HIDE DEF gets, warned
        <3>1. lost \in BOOLEAN /\ x \in RemoteCallType
            BY <1>1
        <3>2. next \in RemoteCallType
            BY <2>2, <3>1 DEF RemoteCallType
        <3> QED
            BY <2>2, <3>1, <3>2 DEF RemoteCallType
    <2> HIDE DEF next
    <2>4. ~lost => ErrorKept(next)
        BY <1>2, <2>3 DEF ErrorKept, FitsError
    <2>5. CallSound(next)
        <3> HIDE DEF gets, warned
        <3> QED
            BY <1>1, <1>2, <2>3, <2>4 DEF CallSound, ListSound
    <2> QED
        BY <1>2, <2>1, <2>3, <2>5, CallMovesOn
<1>3. CASE Replied(c)
    <2>1. x.pc = "handled" /\ Got(c, Arrives(x.method, x.error), FALSE)
        BY <1>3 DEF Replied, Arrives
    <2>2. x.error \in KnownErrors /\ (x.error = "NotFound" => x.method \in Warned)
        BY <1>1 DEF RemoteCallType, CallSound
    <2>3. FitsError(x.method, x.error, Arrives(x.method, x.error))
        BY <2>2, ErrorsArrive
    <2>4. Arrives(x.method, x.error) \in {"plain"} \cup Restored \cup {"ok"}
        BY <2>3 DEF FitsError
    <2> QED
        BY <1>2, <2>1, <2>3, <2>4
<1>4. CASE LostReply(c)
    BY <1>2, <1>4 DEF LostReply
<1> QED
    BY <1>3, <1>4

\* A step of a call that changes the settings.
LEMMA SettingsStepKeeps ==
    ASSUME RemoteInv, NEW c \in Clients, NEW next \in RemoteCallType, remote' = [remote EXCEPT ![c] = next],
           CallSound(next), next.method = "UpdateModelSettings",
           hosted' \in HostedType, hosted'.active = hosted.active, hosted'.images = hosted.images,
           served' \in ServedType, served'.touched = served.touched,
           ~served'.beside => SettingsSure'
    PROVE  RemoteInv'
<1>1. remote'[c] = next /\ \A d \in Clients : d # c => remote'[d] = remote[d]
    BY DEF RemoteInv
<1>2. remote' \in [Clients -> RemoteCallType] /\ \A d \in Clients : CallSound(remote'[d])
    BY <1>1 DEF RemoteInv
<1>3. \A d \in Clients : remote'[d].pc = "sent" /\ remote'[d].method = "ListAgents" => hosted'.active \in remote'[d].during
    BY <1>1 DEF RemoteInv
<1> QED
    BY <1>2, <1>3 DEF RemoteInv

\* A change of settings is sent, perhaps beside another.
LEMMA CallUpdateKeeps ==
    ASSUME RemoteInv, NEW c \in Clients, CallUpdate(c)
    PROVE  RemoteInv'
<1>1. PICK k \in SettingKeys, v \in {1, 9} :
          Sends(c, [NoCall EXCEPT !.method = "UpdateModelSettings", !.key = k, !.value = v])
    BY DEF CallUpdate
<1> DEFINE call == [NoCall EXCEPT !.method = "UpdateModelSettings", !.key = k, !.value = v]
           next == [call EXCEPT !.pc = "sent"]
           overlaps == served.beside \/ \E d \in Clients : InCall(d) /\ remote[d].method = "UpdateModelSettings"
<1>2. /\ call \in RemoteCallType /\ call.error = "ok" /\ call.told = call.restored /\ call.method = "UpdateModelSettings"
    <2>1. v \in Nat
        OBVIOUS
    <2> QED
        BY <2>1, NoCallIsSound DEF RemoteCallType, RemoteMethods
<1>3. Sends(c, call) /\ served' = [served EXCEPT !.calls = served.calls + 1, !.beside = overlaps]
    BY <1>1 DEF CallUpdate
<1> HIDE DEF call
<1>4. remote' = [remote EXCEPT ![c] = next] /\ UNCHANGED hosted /\ remote[c].pc \in {"none", "done"}
    BY <1>3 DEF Sends, InCall
<1>5. next \in RemoteCallType /\ next.pc = "sent" /\ next.error = "ok" /\ next.told = next.restored
      /\ next.method = "UpdateModelSettings"
    BY <1>2 DEF RemoteCallType
<1>6. CallSound(next)
    BY <1>5 DEF CallSound
<1> HIDE DEF next
<1>7. /\ served' \in ServedType /\ served'.touched = served.touched /\ served'.settings = served.settings
      /\ served'.unsaved = served.unsaved
      /\ served'.beside = overlaps
    <2>1. overlaps \in BOOLEAN /\ served \in ServedType
        BY DEF RemoteInv, ServedType
    <2>2. served.calls + 1 \in Int
        BY <2>1 DEF ServedType
    <2> HIDE DEF overlaps
    <2> QED
        BY <1>3, <2>1, <2>2 DEF ServedType
<1>8. ASSUME ~served'.beside PROVE SettingsSure'
    <2>1. SettingsSure /\ \A d \in Clients : ~Updating(remote[d])
        BY <1>7, <1>8 DEF RemoteInv, InCall, Updating
    <2>2. \A d \in Clients : /\ Updating(remote'[d]) => d = c
                             /\ remote'[d].pc \notin {"applies", "saves"}
                             /\ remote[d].pc # "saves"
        BY <1>4, <1>5, <2>1 DEF RemoteInv, Updating, CallSound
    <2> QED
        BY <1>4, <1>7, <2>1, <2>2 DEF SettingsSure
<1>9. hosted' \in HostedType
    BY <1>4 DEF RemoteInv
<1> QED
    BY <1>4, <1>5, <1>6, <1>7, <1>8, <1>9, SettingsStepKeeps

\* Settings are read, applied and saved: what a call is about to save is what it
\* read and changed.
LEMMA UpdatesKeep ==
    ASSUME RemoteInv, NEW c \in Clients, ReadSettings(c) \/ ApplySettings(c) \/ SaveSettings(c)
    PROVE  RemoteInv'
<1> DEFINE x == remote[c]
<1>1. x \in RemoteCallType /\ CallSound(x) /\ x.method = "UpdateModelSettings" /\ x.error = "ok"
      /\ x.pc \in {"sent", "applies", "saves"}
    BY DEF RemoteInv, ReadSettings, ApplySettings, SaveSettings, Doing, CallSound
<1>2. hosted \in HostedType /\ served \in ServedType /\ hosted.settings \in SettingValues /\ x.new \in SettingValues
    BY <1>1 DEF RemoteInv, HostedType, RemoteCallType
<1>3. ASSUME ~served.beside
      PROVE  SettingsSure /\ \A d \in Clients : d # c => remote[d].pc \notin {"applies", "saves"} /\ ~Updating(remote[d])
    BY <1>1, <1>3 DEF RemoteInv, SettingsSure, Updating, CallSound
<1>4. CASE ReadSettings(c) /\ x.value = 9
    <2>1. x.pc = "sent" /\ Handled(c, "InvalidSetting") /\ UNCHANGED <<hosted, served>>
        BY <1>4 DEF ReadSettings, Doing
    <2> QED
        BY <1>1, <2>1, HandledKeeps DEF KnownErrors, Reasoned
<1>5. CASE ReadSettings(c) /\ x.value # 9
    <2> DEFINE set == [hosted.settings EXCEPT ![x.key] = x.value]
               next == [x EXCEPT !.pc = "applies", !.new = set]
    <2>1. remote' = [remote EXCEPT ![c] = next] /\ UNCHANGED <<hosted, served>>
        BY <1>5 DEF ReadSettings
    <2>2. set \in SettingValues
        BY <1>1, <1>2 DEF RemoteCallType, SettingValues
    <2>3. /\ next \in RemoteCallType /\ next.pc = "applies" /\ next.new = set /\ next.key = x.key /\ next.value = x.value
          /\ next.method = x.method /\ next.error = x.error /\ next.told = x.told /\ next.restored = x.restored
        <3> HIDE DEF set
        <3> QED
            BY <1>1, <2>2 DEF RemoteCallType
    <2> HIDE DEF next
    <2>4. CallSound(next)
        BY <1>1, <2>3 DEF CallSound
    <2>5. ASSUME ~served'.beside PROVE SettingsSure'
        <3>1. remote'[c] = next /\ \A d \in Clients : d # c => remote'[d] = remote[d]
            BY <2>1 DEF RemoteInv
        <3>2. SettingsSure /\ \A d \in Clients : d # c => remote[d].pc \notin {"applies", "saves"} /\ ~Updating(remote[d])
            BY <1>3, <2>1, <2>5
        <3>3. remote[c].pc # "saves"
            BY <1>5 DEF ReadSettings, Doing
        <3> QED
            BY <2>1, <2>3, <3>1, <3>2, <3>3 DEF SettingsSure
    <2> QED
        BY <1>1, <1>2, <2>1, <2>3, <2>4, <2>5, SettingsStepKeeps
<1>6. CASE ApplySettings(c)
    <2> DEFINE next == [x EXCEPT !.pc = "saves"]
    <2>1. /\ remote' = [remote EXCEPT ![c] = next] /\ hosted' = [hosted EXCEPT !.settings = x.new]
          /\ served' = [served EXCEPT !.settings[x.key] = x.value] /\ x.pc = "applies"
        BY <1>6 DEF ApplySettings, Doing
    <2>2. /\ next \in RemoteCallType /\ next.pc = "saves" /\ next.new = x.new
          /\ next.method = x.method /\ next.error = x.error /\ next.told = x.told /\ next.restored = x.restored
        BY <1>1 DEF RemoteCallType
    <2> HIDE DEF next
    <2>3. CallSound(next)
        BY <1>1, <2>2 DEF CallSound
    <2>4. /\ hosted' \in HostedType /\ hosted'.active = hosted.active /\ hosted'.images = hosted.images
          /\ hosted'.settings = x.new /\ hosted'.file = hosted.file
        BY <1>2, <2>1 DEF HostedType
    <2>5. /\ served' \in ServedType /\ served'.touched = served.touched /\ served'.beside = served.beside
          /\ served'.settings = [served.settings EXCEPT ![x.key] = x.value] /\ served'.unsaved = served.unsaved
        BY <1>1, <1>2, <2>1 DEF ServedType, RemoteCallType, SettingValues
    <2>6. ASSUME ~served'.beside PROVE SettingsSure'
        <3>1. remote'[c] = next /\ \A d \in Clients : d # c => remote'[d] = remote[d]
            BY <2>1 DEF RemoteInv
        <3>2. SettingsSure /\ \A d \in Clients : d # c => remote[d].pc \notin {"applies", "saves"} /\ ~Updating(remote[d])
            BY <1>3, <2>5, <2>6
        <3>3. hosted'.settings = served'.settings
            BY <2>1, <2>4, <2>5, <3>2 DEF SettingsSure
        <3> QED
            BY <2>2, <2>4, <3>1, <3>2, <3>3 DEF SettingsSure
    <2> QED
        BY <1>1, <2>1, <2>2, <2>3, <2>4, <2>5, <2>6, SettingsStepKeeps
<1>7. CASE SaveSettings(c)
    <2> DEFINE next == [x EXCEPT !.pc = "handled", !.error = "ok"]
    <2>1. /\ remote' = [remote EXCEPT ![c] = next] /\ x.pc = "saves"
          /\ \/ hosted' = [hosted EXCEPT !.file = x.new] /\ served' = served
             \/ served' = [served EXCEPT !.unsaved = TRUE] /\ hosted' = hosted
        BY <1>7 DEF SaveSettings, Doing, Handled
    <2>2. /\ next \in RemoteCallType /\ next.pc = "handled" /\ next.error = "ok"
          /\ next.method = x.method /\ next.told = x.told /\ next.restored = x.restored
        BY <1>1 DEF RemoteCallType
    <2> HIDE DEF next
    <2>3. CallSound(next)
        BY <1>1, <2>2 DEF CallSound
    <2>4. /\ hosted' \in HostedType /\ hosted'.active = hosted.active /\ hosted'.images = hosted.images
          /\ hosted'.settings = hosted.settings /\ (hosted'.file = x.new \/ served'.unsaved = TRUE)
        BY <1>2, <2>1 DEF HostedType, ServedType
    <2>5. /\ served' \in ServedType /\ served'.touched = served.touched /\ served'.beside = served.beside
          /\ served'.settings = served.settings
        BY <1>2, <2>1 DEF ServedType
    <2>6. ASSUME ~served'.beside PROVE SettingsSure'
        <3>1. remote'[c] = next /\ \A d \in Clients : d # c => remote'[d] = remote[d]
            BY <2>1 DEF RemoteInv
        <3>2. SettingsSure /\ \A d \in Clients : d # c => remote[d].pc \notin {"applies", "saves"} /\ ~Updating(remote[d])
            BY <1>3, <2>5, <2>6
        <3>3. x.new = hosted.settings
            BY <2>1, <3>2 DEF SettingsSure
        <3>4. \A d \in Clients : remote'[d].pc \notin {"applies", "saves"} /\ (Updating(remote'[d]) => d = c)
            BY <2>2, <3>1, <3>2
        <3> QED
            BY <2>4, <2>5, <3>2, <3>3, <3>4 DEF SettingsSure
    <2> QED
        BY <1>1, <2>1, <2>2, <2>3, <2>4, <2>5, <2>6, SettingsStepKeeps
<1> QED
    BY <1>4, <1>5, <1>6, <1>7

\* What an undo restored is told.
LEMMA UndoKeeps ==
    ASSUME RemoteInv, NEW c \in Clients, UndoTurn(c)
    PROVE  RemoteInv'
<1> DEFINE x == remote[c]
<1>1. x \in RemoteCallType /\ CallSound(x) /\ x.method = "Undo" /\ x.pc = "sent" /\ UNCHANGED served
    BY DEF RemoteInv, UndoTurn, Doing
<1>2. PICK e \in {"ok", "UndoConflict", "plain"}, r \in {"none", "some", "all"} :
          /\ hosted' = [hosted EXCEPT !.checkpoints = IF r = "all" THEN @ - 1 ELSE @]
          /\ remote' = [remote EXCEPT ![c].pc = "handled", ![c].error = e, ![c].restored = r,
                                      ![c].told = IF e = "UndoConflict" /\ r = "none" THEN "none" ELSE r]
    BY DEF UndoTurn
<1>3. (IF e = "UndoConflict" /\ r = "none" THEN "none" ELSE r) = r
    OBVIOUS
<1> DEFINE next == [x EXCEPT !.pc = "handled", !.error = e, !.restored = r, !.told = r]
<1>4. remote' = [remote EXCEPT ![c] = next]
    BY <1>2, <1>3
<1>5. /\ next \in RemoteCallType /\ next.pc = "handled" /\ next.error = e /\ next.method = "Undo" /\ next.told = next.restored
    <2>1. e \in KnownErrors
        BY DEF KnownErrors, Reasoned
    <2> QED
        BY <1>1, <2>1 DEF RemoteCallType
<1>6. CallSound(next)
    BY <1>5 DEF CallSound
<1> HIDE DEF next
<1>7. /\ hosted' \in HostedType /\ hosted'.active = hosted.active /\ hosted'.settings = hosted.settings
      /\ hosted'.file = hosted.file /\ hosted'.images = hosted.images
    <2> DEFINE n == IF r = "all" THEN hosted.checkpoints - 1 ELSE hosted.checkpoints
    <2>1. n \in Int /\ hosted \in HostedType
        BY DEF RemoteInv, HostedType
    <2>2. hosted' = [hosted EXCEPT !.checkpoints = n]
        BY <1>2
    <2> HIDE DEF n
    <2> QED
        BY <2>1, <2>2 DEF HostedType
<1>8. served' \in ServedType /\ ImagesSound(hosted'.images, served'.touched)
    BY <1>1, <1>7 DEF RemoteInv
<1> QED
    BY <1>1, <1>4, <1>5, <1>6, <1>7, <1>8, CallKeeps DEF Updating

\* Another agent is active: it was so while the agents were told.
LEMMA SetActiveKeeps ==
    ASSUME RemoteInv, NEW c \in Clients, SetActive(c)
    PROVE  RemoteInv'
<1> DEFINE x == remote[c]
           known == x.name \in {"main", "other"}
           active == IF known THEN x.name ELSE hosted.active
           error == IF known THEN "ok" ELSE "UnknownAgent"
           next == [x EXCEPT !.pc = "handled", !.error = error]
           more(d) == [remote[d] EXCEPT !.during = @ \cup {active}]
<1>1. x \in RemoteCallType /\ CallSound(x) /\ x.method = "SetAgent" /\ x.pc = "sent" /\ UNCHANGED served
      /\ hosted \in HostedType
    BY DEF RemoteInv, SetActive, Doing
<1>2. ToSet(AgentNames) = {"main", "other"}
    BY DEF AgentNames, ToSet
<1>3. /\ hosted' = [hosted EXCEPT !.active = active]
      /\ remote' = [d \in Clients |->
             IF d = c THEN next
             ELSE IF Doing(d, "sent", "ListAgents") THEN [remote[d] EXCEPT !.during = @ \cup {hosted'.active}] ELSE remote[d]]
    BY <1>2 DEF SetActive
<1>4. active \in {"main", "other"} /\ error \in KnownErrors /\ error # "NotFound"
    BY <1>1 DEF HostedType, KnownErrors, Reasoned
<1> HIDE DEF active, error
<1>5. /\ hosted' \in HostedType /\ hosted'.active = active /\ hosted'.settings = hosted.settings
      /\ hosted'.file = hosted.file /\ hosted'.images = hosted.images
    BY <1>1, <1>3, <1>4 DEF HostedType
<1>6. /\ next \in RemoteCallType /\ next.pc = "handled" /\ next.method = "SetAgent" /\ next.told = x.told
      /\ next.restored = x.restored /\ next.error = error
    BY <1>1, <1>4 DEF RemoteCallType
<1>7. CallSound(next)
    BY <1>1, <1>4, <1>6 DEF CallSound
<1>8. ASSUME NEW d \in Clients, Doing(d, "sent", "ListAgents")
      PROVE  /\ more(d) \in RemoteCallType /\ CallSound(more(d)) /\ active \in more(d).during
             /\ more(d).pc = "sent" /\ more(d).method = "ListAgents"
    <2> DEFINE y == remote[d]
               z == more(d)
    <2>1. y \in RemoteCallType /\ CallSound(y) /\ y.pc = "sent" /\ y.method = "ListAgents" /\ ListSound(y)
        BY <1>8 DEF RemoteInv, Doing, CallSound
    <2>2. /\ z \in RemoteCallType /\ z.pc = y.pc /\ z.method = y.method /\ z.error = y.error /\ z.told = y.told
          /\ z.restored = y.restored /\ z.seen = y.seen /\ z.during = y.during \cup {active}
        BY <1>4, <2>1 DEF RemoteCallType
    <2> HIDE DEF z
    <2>3. ListSound(z)
        BY <2>1, <2>2 DEF ListSound
    <2>4. CallSound(z) /\ active \in z.during
        BY <2>1, <2>2, <2>3 DEF CallSound
    <2> QED
        BY <2>1, <2>2, <2>4 DEF z
<1> HIDE DEF next
<1>9. \A d \in Clients :
          /\ remote'[d] \in RemoteCallType /\ CallSound(remote'[d])
          /\ remote'[d].pc = "sent" /\ remote'[d].method = "ListAgents" => active \in remote'[d].during
          /\ remote'[d].pc \in {"applies", "saves"} \/ Updating(remote'[d]) \/ remote[d].pc = "saves" => remote'[d] = remote[d]
    <2> SUFFICES ASSUME NEW d \in Clients
                 PROVE  /\ remote'[d] \in RemoteCallType /\ CallSound(remote'[d])
                        /\ remote'[d].pc = "sent" /\ remote'[d].method = "ListAgents" => active \in remote'[d].during
                        /\ remote'[d].pc \in {"applies", "saves"} \/ Updating(remote'[d]) \/ remote[d].pc = "saves" => remote'[d] = remote[d]
        OBVIOUS
    <2>1. CASE d = c
        BY <1>1, <1>3, <1>6, <1>7, <2>1 DEF Updating
    <2>2. CASE d # c /\ Doing(d, "sent", "ListAgents")
        <3>1. remote'[d] = more(d)
            BY <1>3, <1>5, <2>2
        <3> QED
            BY <1>8, <2>2, <3>1 DEF Updating, Doing
    <2>3. CASE d # c /\ ~Doing(d, "sent", "ListAgents")
        BY <1>3, <2>3 DEF RemoteInv, Doing
    <2> QED
        BY <2>1, <2>2, <2>3
<1>10. ASSUME ~served'.beside PROVE SettingsSure'
    <2>1. SettingsSure /\ served' = served
        BY <1>1, <1>10 DEF RemoteInv
    <2> QED
        BY <1>5, <1>9, <2>1 DEF SettingsSure
<1>11. remote' \in [Clients -> RemoteCallType]
    BY <1>3, <1>9
<1> QED
    BY <1>1, <1>5, <1>9, <1>10, <1>11 DEF RemoteInv

\* What is left of a sequence without one of its places.
LEMMA RemovedPlaces ==
    ASSUME NEW S, NEW s \in Seq(S), NEW k \in 1 .. Len(s)
    PROVE  /\ RemoveAt(s, k) \in Seq(S) /\ Len(RemoveAt(s, k)) = Len(s) - 1
           /\ DOMAIN RemoveAt(s, k) = 1 .. Len(s) - 1
           /\ \A p \in 1 .. Len(s) - 1 : /\ p < k => RemoveAt(s, k)[p] = s[p]
                                         /\ p >= k => RemoveAt(s, k)[p] = s[p + 1]
<1> DEFINE front == SubSeq(s, 1, k - 1)
           back == SubSeq(s, k + 1, Len(s))
           t == front \o back
<1>1. Len(s) \in Nat /\ DOMAIN s = 1 .. Len(s) /\ k \in Nat \ {0} /\ k <= Len(s) /\ \A p \in 1 .. Len(s) : s[p] \in S
    BY LenProperties, ElementOfSeq
<1>2. /\ front \in Seq(S) /\ Len(front) = k - 1
      /\ \A p \in 1 .. k - 1 : front[p] = s[p]
    BY <1>1, StartPlaces
<1>3. /\ back \in Seq(S) /\ Len(back) = Len(s) - k
      /\ \A p \in 1 .. Len(s) - k : back[p] = s[p + k]
    <2>1. /\ back \in Seq(S) /\ Len(back) = (IF k + 1 <= Len(s) THEN Len(s) - (k + 1) + 1 ELSE 0)
          /\ \A p \in 1 .. Len(s) - (k + 1) + 1 : back[p] = s[(k + 1) + p - 1]
        BY <1>1, SubSeqProperties
    <2> HIDE DEF back
    <2>2. Len(s) - (k + 1) + 1 = Len(s) - k /\ \A p \in 1 .. Len(s) - k : (k + 1) + p - 1 = p + k
        BY <1>1
    <2>3. Len(back) = Len(s) - k
        <3>1. CASE k = Len(s)
            <4>1. ~(k + 1 <= Len(s)) /\ Len(s) - k = 0
                BY <1>1, <3>1
            <4> QED
                BY <2>1, <4>1
        <3>2. CASE k < Len(s)
            <4>1. k + 1 <= Len(s)
                BY <1>1, <3>2
            <4> QED
                BY <2>1, <2>2, <4>1
        <3>3. k = Len(s) \/ k < Len(s)
            <4>1. \A n \in Nat : k \in 1 .. n => k = n \/ k < n
                OBVIOUS
            <4> QED
                BY <1>1, <4>1
        <3> QED
            BY <3>1, <3>2, <3>3
    <2>4. ASSUME NEW p \in 1 .. Len(s) - k PROVE back[p] = s[p + k]
        <3>1. p \in 1 .. Len(s) - (k + 1) + 1
            BY <2>2
        <3>2. back[p] = s[(k + 1) + p - 1]
            BY <2>1, <3>1
        <3> QED
            BY <2>2, <3>2
    <2> QED
        BY <2>1, <2>3, <2>4
<1> HIDE DEF front, back
<1>4. /\ t \in Seq(S) /\ Len(t) = Len(front) + Len(back)
      /\ \A p \in 1 .. Len(front) + Len(back) : t[p] = IF p <= Len(front) THEN front[p] ELSE back[p - Len(front)]
    BY <1>2, <1>3, ConcatProperties
<1>5. DOMAIN t = 1 .. Len(t)
    BY <1>4, LenProperties
<1>6. RemoveAt(s, k) = t
    BY DEF RemoveAt, front, back
<1> HIDE DEF t
<1>7. Len(t) = Len(s) - 1
    BY <1>1, <1>2, <1>3, <1>4
<1>8. ASSUME NEW p \in 1 .. Len(s) - 1
      PROVE  (p < k => t[p] = s[p]) /\ (p >= k => t[p] = s[p + 1])
    <2>0. p \in 1 .. Len(front) + Len(back)
        BY <1>1, <1>2, <1>3
    <2>1. ASSUME p < k PROVE t[p] = s[p]
        <3>1. p \in 1 .. k - 1 /\ p <= Len(front)
            BY <1>1, <1>2, <2>1
        <3>2. t[p] = front[p]
            BY <1>4, <2>0, <3>1
        <3> QED
            BY <1>2, <3>1, <3>2
    <2>2. ASSUME p >= k PROVE t[p] = s[p + 1]
        <3>1. p - (k - 1) \in 1 .. Len(s) - k /\ p - (k - 1) + k = p + 1 /\ ~(p <= Len(front)) /\ p - Len(front) = p - (k - 1)
            BY <1>1, <1>2, <2>2
        <3>2. t[p] = back[p - (k - 1)]
            BY <1>4, <2>0, <3>1
        <3> QED
            BY <1>3, <3>1, <3>2
    <2> QED
        BY <2>1, <2>2
<1> QED
    BY <1>4, <1>5, <1>6, <1>7, <1>8

\* In the order they had, the images that are not i; each was at the place at
\* tells.
OthersInOrder(images, i, others, at) ==
    /\ others \in Seq(Nat) /\ at \in [DOMAIN others -> DOMAIN images]
    /\ \A p \in DOMAIN others : others[p] = images[at[p]] /\ others[p] # i
    /\ \A p, q \in DOMAIN others : p < q => at[p] < at[q]
    /\ \A q \in DOMAIN images : images[q] # i => \E p \in DOMAIN others : at[p] = q

\* An image touched comes last, and the others keep their order.
LEMMA TouchedLast ==
    ASSUME NEW images \in Seq(Nat), NEW i \in Nat,
           \A p, q \in DOMAIN images : images[p] = images[q] => p = q
    PROVE  /\ Touched(images, i) \in Seq(Nat)
           /\ Len(Touched(images, i)) = IF i \in ToSet(images) THEN Len(images) ELSE Len(images) + 1
           /\ \E others, at : Touched(images, i) = Append(others, i) /\ OthersInOrder(images, i, others, at)
<1>1. Len(images) \in Nat /\ DOMAIN images = 1 .. Len(images)
    BY LenProperties
<1>2. CASE i \notin ToSet(images)
    <2>1. Touched(images, i) = Append(images, i)
        BY <1>2 DEF Touched
    <2>2. \A p \in DOMAIN images : images[p] # i
        BY <1>2 DEF ToSet
    <2> DEFINE at == [p \in DOMAIN images |-> p]
    <2>3. at \in [DOMAIN images -> DOMAIN images] /\ \A p \in DOMAIN images : at[p] = p
        OBVIOUS
    <2> HIDE DEF at
    <2>4. Append(images, i) \in Seq(Nat) /\ Len(Append(images, i)) = Len(images) + 1
        BY AppendPlaces
    <2>5. OthersInOrder(images, i, images, at)
        BY <2>2, <2>3 DEF OthersInOrder
    <2> QED
        BY <1>2, <2>1, <2>4, <2>5
<1>3. CASE i \in ToSet(images)
    <2> DEFINE k == CHOOSE p \in DOMAIN images : images[p] = i
               others == RemoveAt(images, k)
               at == [p \in DOMAIN others |-> IF p < k THEN p ELSE p + 1]
    <2>1. k \in DOMAIN images /\ images[k] = i
        BY <1>3 DEF ToSet
    <2>2. Touched(images, i) = Append(others, i)
        BY <1>3 DEF Touched
    <2> HIDE DEF k
    <2>3. /\ others \in Seq(Nat) /\ Len(others) = Len(images) - 1 /\ DOMAIN others = 1 .. Len(images) - 1
          /\ \A p \in 1 .. Len(images) - 1 : /\ p < k => others[p] = images[p]
                                             /\ p >= k => others[p] = images[p + 1]
        <3>1. k \in 1 .. Len(images)
            BY <1>1, <2>1
        <3> QED
            BY <3>1, RemovedPlaces
    <2> HIDE DEF others
    <2>4. at \in [DOMAIN others -> DOMAIN images] /\ \A p \in DOMAIN others : at[p] = IF p < k THEN p ELSE p + 1
        BY <1>1, <2>1, <2>3
    <2> HIDE DEF at
    <2>5. \A p \in DOMAIN others : others[p] = images[at[p]] /\ at[p] # k
        <3>1. k \in Nat
            BY <1>1, <2>1
        <3>2. ASSUME NEW p \in DOMAIN others PROVE others[p] = images[at[p]] /\ at[p] # k
            <4>1. p \in 1 .. Len(images) - 1 /\ p \in Nat
                BY <2>3, LenProperties
            <4>2. CASE p < k
                BY <2>3, <2>4, <3>1, <4>1, <4>2
            <4>3. CASE p >= k
                BY <2>3, <2>4, <3>1, <4>1, <4>3
            <4> QED
                BY <3>1, <4>1, <4>2, <4>3
        <3> QED
            BY <3>2
    <2>6. \A p \in DOMAIN others : others[p] # i
        BY <2>1, <2>4, <2>5
    <2>7. ASSUME NEW p \in DOMAIN others, NEW q \in DOMAIN others, p < q PROVE at[p] < at[q]
        <3>1. p \in Int /\ q \in Int /\ k \in Int
            BY <1>1, <2>1, <2>3
        <3>2. (p < k => at[p] = p) /\ (p >= k => at[p] = p + 1) /\ (q < k => at[q] = q) /\ (q >= k => at[q] = q + 1)
            BY <2>4, <3>1
        <3> QED
            BY <2>7, <3>1, <3>2
    <2>8. ASSUME NEW q \in DOMAIN images, images[q] # i PROVE \E p \in DOMAIN others : at[p] = q
        <3>1. CASE q < k
            <4>1. q \in DOMAIN others
                BY <1>1, <2>1, <2>3, <3>1
            <4> QED
                BY <2>4, <3>1, <4>1
        <3>2. CASE q > k
            <4>1. q - 1 \in DOMAIN others /\ ~(q - 1 < k) /\ (q - 1) + 1 = q
                BY <1>1, <2>1, <2>3, <3>2
            <4> QED
                BY <2>4, <4>1
        <3> QED
            BY <1>1, <2>1, <2>8, <3>1, <3>2
    <2>9. Append(others, i) \in Seq(Nat) /\ Len(Append(others, i)) = Len(images)
        <3>1. Append(others, i) \in Seq(Nat) /\ Len(Append(others, i)) = Len(others) + 1
            BY <2>3, AppendPlaces
        <3> QED
            BY <1>1, <2>3, <3>1
    <2>10. OthersInOrder(images, i, others, at)
        BY <2>3, <2>4, <2>5, <2>6, <2>7, <2>8 DEF OthersInOrder
    <2> QED
        BY <1>3, <2>2, <2>9, <2>10
<1> QED
    BY <1>2, <1>3

\* Touching an image keeps the order.
LEMMA TouchKeepsOrder ==
    ASSUME NEW images \in Seq(Nat), NEW touched \in Seq(Nat), NEW i \in Nat, LastTouched(images, touched)
    PROVE  LastTouched(Touched(images, i), Append(touched, i))
<1> DEFINE after == Append(touched, i)
           last == Len(touched) + 1
<1>1. PICK others, at : Touched(images, i) = Append(others, i) /\ OthersInOrder(images, i, others, at)
    BY TouchedLast DEF LastTouched
<1> DEFINE now == Append(others, i)
           end == Len(others) + 1
<1>2. /\ DOMAIN after = DOMAIN touched \cup {last} /\ DOMAIN touched = 1 .. Len(touched) /\ Len(touched) \in Nat
      /\ \A n \in DOMAIN touched : after[n] = touched[n]
      /\ after[last] = i
    BY AppendPlaces
<1>3. /\ DOMAIN now = DOMAIN others \cup {end} /\ DOMAIN others = 1 .. Len(others) /\ Len(others) \in Nat
      /\ \A p \in DOMAIN others : now[p] = others[p]
      /\ now[end] = i /\ Len(now) = end
    BY <1>1, AppendPlaces DEF OthersInOrder
<1>4. DOMAIN images = 1 .. Len(images) /\ Len(images) \in Nat
    BY LenProperties
<1>5. Len(now) = IF i \in ToSet(images) THEN Len(images) ELSE Len(images) + 1
    BY <1>1, TouchedLast DEF LastTouched
<1> HIDE DEF now, after
\* Where the others were.
<1>6. /\ \A p \in DOMAIN others : at[p] \in DOMAIN images /\ now[p] = images[at[p]] /\ now[p] # i
      /\ \A p, q \in DOMAIN others : p < q => at[p] < at[q]
      /\ \A q \in DOMAIN images : images[q] # i => \E p \in DOMAIN others : at[p] = q /\ now[p] = images[q]
    BY <1>1, <1>3 DEF OthersInOrder
<1>7. \A p, q \in DOMAIN others : at[p] <= at[q] => p <= q
    <2> SUFFICES ASSUME NEW p \in DOMAIN others, NEW q \in DOMAIN others, at[p] <= at[q] PROVE p <= q
        OBVIOUS
    <2>1. p \in Int /\ q \in Int /\ at[p] \in Int /\ at[q] \in Int
        BY <1>3, <1>4, <1>6
    <2>2. q < p => at[q] < at[p]
        BY <1>6
    <2> QED
        BY <2>1, <2>2
<1>8. \A p, q \in DOMAIN others : p <= q => at[p] <= at[q]
    <2> SUFFICES ASSUME NEW p \in DOMAIN others, NEW q \in DOMAIN others, p <= q PROVE at[p] <= at[q]
        OBVIOUS
    <2>1. CASE p = q
        BY <1>4, <1>6, <2>1
    <2>2. CASE p < q
        BY <1>4, <1>6, <2>2
    <2> QED
        BY <1>3, <2>1, <2>2
<1>9. ASSUME NEW p \in DOMAIN now, NEW q \in DOMAIN now, now[p] = now[q] PROVE p = q
    <2>1. CASE p = end \/ q = end
        BY <1>3, <1>6, <1>9, <2>1
    <2>2. CASE p \in DOMAIN others /\ q \in DOMAIN others
        <3>1. at[p] = at[q]
            BY <1>6, <1>9, <2>2 DEF LastTouched
        <3>2. p <= q /\ q <= p
            BY <1>4, <1>6, <1>7, <2>2, <3>1
        <3> QED
            BY <1>3, <2>2, <3>2
    <2> QED
        BY <1>3, <2>1, <2>2
<1>10. ASSUME NEW p \in DOMAIN now
       PROVE  \E n \in DOMAIN after :
                /\ after[n] = now[p]
                /\ \A m \in DOMAIN after : m > n => after[m] # now[p]
                /\ \A m \in DOMAIN after : m >= n => \E q \in DOMAIN now : q >= p /\ now[q] = after[m]
                /\ \A q \in DOMAIN now : q >= p => \E m \in DOMAIN after : m >= n /\ now[q] = after[m]
    <2>1. CASE p = end
        <3>1. last \in DOMAIN after /\ after[last] = now[p]
            BY <1>2, <1>3, <2>1
        <3>2. \A m \in DOMAIN after : m <= last /\ (m >= last => m = last)
            BY <1>2
        <3>3. \A q \in DOMAIN now : q >= p => q = end
            BY <1>3, <2>1
        <3> QED
            BY <1>2, <1>3, <2>1, <3>1, <3>2, <3>3
    <2>2. CASE p \in DOMAIN others
        <3>0. at[p] \in DOMAIN images
            BY <1>6, <2>2
        <3>1. PICK n \in DOMAIN touched :
                 /\ touched[n] = images[at[p]]
                 /\ \A m \in DOMAIN touched : m > n => touched[m] # images[at[p]]
                 /\ \A m \in DOMAIN touched : m >= n => \E q \in DOMAIN images : q >= at[p] /\ images[q] = touched[m]
                 /\ \A q \in DOMAIN images : q >= at[p] => \E m \in DOMAIN touched : m >= n /\ images[q] = touched[m]
            BY <3>0 DEF LastTouched
        <3>2. n \in DOMAIN after /\ after[n] = now[p] /\ n <= last /\ p <= end
            BY <1>2, <1>3, <1>6, <2>2, <3>1
        <3>3. ASSUME NEW m \in DOMAIN after, m > n PROVE after[m] # now[p]
            BY <1>2, <1>6, <2>2, <3>1, <3>3
        <3>4. ASSUME NEW m \in DOMAIN after, m >= n PROVE \E q \in DOMAIN now : q >= p /\ now[q] = after[m]
            <4>1. CASE after[m] = i
                BY <1>3, <3>2, <4>1
            <4>2. CASE after[m] # i
                <5>1. m \in DOMAIN touched /\ after[m] = touched[m]
                    BY <1>2, <4>2
                <5>2. PICK k \in DOMAIN images : k >= at[p] /\ images[k] = touched[m]
                    BY <3>1, <3>4, <5>1
                <5>3. PICK q \in DOMAIN others : at[q] = k /\ now[q] = images[k]
                    BY <1>6, <4>2, <5>1, <5>2
                <5>4. at[p] <= at[q]
                    BY <1>4, <1>6, <2>2, <5>2, <5>3
                <5>5. q >= p
                    BY <1>3, <1>7, <2>2, <5>4
                <5> QED
                    BY <1>3, <5>1, <5>2, <5>3, <5>5
            <4> QED
                BY <4>1, <4>2
        <3>5. ASSUME NEW q \in DOMAIN now, q >= p PROVE \E m \in DOMAIN after : m >= n /\ now[q] = after[m]
            <4>1. CASE q = end
                BY <1>2, <1>3, <3>2, <4>1
            <4>2. CASE q \in DOMAIN others
                <5>1. at[q] >= at[p] /\ at[q] \in DOMAIN images
                    BY <1>3, <1>4, <1>6, <1>8, <2>2, <3>5, <4>2
                <5>2. PICK m \in DOMAIN touched : m >= n /\ images[at[q]] = touched[m]
                    BY <3>1, <5>1
                <5> QED
                    BY <1>2, <1>6, <4>2, <5>2
            <4> QED
                BY <1>3, <4>1, <4>2
        <3> QED
            BY <3>2, <3>3, <3>4, <3>5
    <2> QED
        BY <1>3, <2>1, <2>2
<1>11. ASSUME NEW n \in DOMAIN after, \A p \in DOMAIN now : now[p] # after[n]
       PROVE  /\ Len(now) >= KeptImages
              /\ \A p \in DOMAIN now : \E m \in DOMAIN after : m >= n /\ now[p] = after[m]
    <2>1. n \in DOMAIN touched /\ after[n] = touched[n] /\ touched[n] # i
        BY <1>2, <1>3, <1>11
    <2>2. \A p \in DOMAIN images : images[p] # touched[n]
        <3> SUFFICES ASSUME NEW q \in DOMAIN images, images[q] = touched[n] PROVE FALSE
            OBVIOUS
        <3>1. PICK p \in DOMAIN others : now[p] = images[q]
            BY <1>6, <2>1
        <3> QED
            BY <1>3, <1>11, <2>1, <3>1
    <2>3. /\ Len(images) >= KeptImages
          /\ \A p \in DOMAIN images : \E m \in DOMAIN touched : m >= n /\ images[p] = touched[m]
        BY <2>1, <2>2 DEF LastTouched
    <2>4. Len(now) = Len(images) \/ Len(now) = Len(images) + 1
        BY <1>5
    <2>5. Len(now) >= KeptImages
        BY <1>4, <2>3, <2>4, RemoteAssumption
    <2>6. ASSUME NEW p \in DOMAIN now PROVE \E m \in DOMAIN after : m >= n /\ now[p] = after[m]
        <3>1. CASE p = end
            BY <1>2, <1>3, <2>1, <3>1
        <3>2. CASE p \in DOMAIN others
            <4>1. PICK m \in DOMAIN touched : m >= n /\ images[at[p]] = touched[m]
                BY <1>6, <2>3, <3>2
            <4> QED
                BY <1>2, <1>6, <3>2, <4>1
        <3> QED
            BY <1>3, <3>1, <3>2
    <2> QED
        BY <2>5, <2>6
<1>12. LastTouched(now, after)
    BY <1>9, <1>10, <1>11 DEF LastTouched
<1> QED
    BY <1>1, <1>12 DEF now, after

\* The image used least recently goes when there is one too many.
LEMMA DropKeepsOrder ==
    ASSUME NEW images \in Seq(Nat), NEW touched \in Seq(Nat), LastTouched(images, touched), Len(images) = KeptImages + 1
    PROVE  Tail(images) \in Seq(Nat) /\ ImagesSound(Tail(images), touched)
<1> DEFINE rest == Tail(images)
<1>0. Len(images) \in Nat /\ images # <<>> /\ KeptImages \in Nat
    BY LenProperties, RemoteAssumption, EmptySeq
<1>1. /\ rest \in Seq(Nat) /\ Len(rest) = KeptImages
      /\ DOMAIN rest = 1 .. KeptImages /\ DOMAIN images = 1 .. KeptImages + 1 /\ 1 \in DOMAIN images
      /\ \A p \in DOMAIN rest : rest[p] = images[p + 1] /\ p + 1 \in DOMAIN images
      /\ \A p \in DOMAIN images \ {1} : p - 1 \in DOMAIN rest /\ rest[p - 1] = images[p]
    <2>1. Len(images) - 1 = KeptImages
        BY <1>0
    <2> QED
        BY <1>0, <2>1, TailPlaces
<1>2. DOMAIN touched = 1 .. Len(touched) /\ Len(touched) \in Nat
    BY LenProperties
<1> HIDE DEF rest
<1>3. ASSUME NEW p \in DOMAIN rest, NEW q \in DOMAIN rest, rest[p] = rest[q] PROVE p = q
    <2>1. p + 1 = q + 1
        BY <1>1, <1>3 DEF LastTouched
    <2> QED
        BY <1>0, <1>1, <2>1
<1>4. ASSUME NEW p \in DOMAIN rest
      PROVE  \E n \in DOMAIN touched :
                /\ touched[n] = rest[p]
                /\ \A m \in DOMAIN touched : m > n => touched[m] # rest[p]
                /\ \A m \in DOMAIN touched : m >= n => \E q \in DOMAIN rest : q >= p /\ rest[q] = touched[m]
                /\ \A q \in DOMAIN rest : q >= p => \E m \in DOMAIN touched : m >= n /\ rest[q] = touched[m]
    <2>1. PICK n \in DOMAIN touched :
             /\ touched[n] = images[p + 1]
             /\ \A m \in DOMAIN touched : m > n => touched[m] # images[p + 1]
             /\ \A m \in DOMAIN touched : m >= n => \E q \in DOMAIN images : q >= p + 1 /\ images[q] = touched[m]
             /\ \A q \in DOMAIN images : q >= p + 1 => \E m \in DOMAIN touched : m >= n /\ images[q] = touched[m]
        BY <1>1 DEF LastTouched
    <2>2. ASSUME NEW m \in DOMAIN touched, m >= n PROVE \E q \in DOMAIN rest : q >= p /\ rest[q] = touched[m]
        <3>1. PICK q \in DOMAIN images : q >= p + 1 /\ images[q] = touched[m]
            BY <2>1, <2>2
        <3>2. q # 1 /\ q - 1 >= p
            BY <1>0, <1>1, <3>1
        <3> QED
            BY <1>1, <3>1, <3>2
    <2>3. ASSUME NEW q \in DOMAIN rest, q >= p PROVE \E m \in DOMAIN touched : m >= n /\ rest[q] = touched[m]
        <3>1. q + 1 >= p + 1 /\ q + 1 \in DOMAIN images
            BY <1>0, <1>1, <2>3
        <3> QED
            BY <1>1, <2>1, <3>1
    <2>4. touched[n] = rest[p] /\ \A m \in DOMAIN touched : m > n => touched[m] # rest[p]
        BY <1>1, <2>1
    <2> QED
        BY <2>2, <2>3, <2>4
<1>5. ASSUME NEW n \in DOMAIN touched, \A p \in DOMAIN rest : rest[p] # touched[n]
      PROVE  /\ Len(rest) >= KeptImages
             /\ \A p \in DOMAIN rest : \E m \in DOMAIN touched : m >= n /\ rest[p] = touched[m]
    <2>1. Len(rest) >= KeptImages
        BY <1>0, <1>1
    <2>2. \A p \in DOMAIN images : \E m \in DOMAIN touched : m >= n /\ images[p] = touched[m]
        <3>1. CASE images[1] = touched[n]
            <4>1. PICK k \in DOMAIN touched :
                     /\ touched[k] = images[1]
                     /\ \A m \in DOMAIN touched : m > k => touched[m] # images[1]
                     /\ \A m \in DOMAIN touched : m >= k => \E q \in DOMAIN images : q >= 1 /\ images[q] = touched[m]
                     /\ \A q \in DOMAIN images : q >= 1 => \E m \in DOMAIN touched : m >= k /\ images[q] = touched[m]
                <5>1. 1 \in DOMAIN images
                    BY <1>1
                <5> QED
                    BY <5>1, Zenon DEF LastTouched
            <4>2. k >= n
                BY <1>2, <3>1, <4>1
            <4>3. ASSUME NEW p \in DOMAIN images PROVE \E m \in DOMAIN touched : m >= n /\ images[p] = touched[m]
                <5>1. PICK m \in DOMAIN touched : m >= k /\ images[p] = touched[m]
                    BY <1>0, <1>1, <4>1
                <5>2. m >= n
                    BY <1>2, <4>2, <5>1
                <5> QED
                    BY <5>1, <5>2
            <4> QED
                BY <4>3
        <3>2. CASE images[1] # touched[n]
            <4>1. \A p \in DOMAIN images : images[p] # touched[n]
                BY <1>1, <1>5, <3>2
            <4> QED
                BY <4>1 DEF LastTouched
        <3> QED
            BY <3>1, <3>2
    <2> QED
        BY <1>1, <2>1, <2>2
<1>6. LastTouched(rest, touched) /\ Len(rest) <= KeptImages
    BY <1>0, <1>1, <1>3, <1>4, <1>5 DEF LastTouched
<1> QED
    BY <1>1, <1>6 DEF ImagesSound, rest

\* Images are added and used.
LEMMA TouchesKeep ==
    ASSUME RemoteInv, NEW c \in Clients, KeepImage(c) \/ UseImage(c)
    PROVE  RemoteInv'
<1> DEFINE x == remote[c]
           images == Touched(hosted.images, x.image)
           touched == Append(served.touched, x.image)
<1>1. /\ x \in RemoteCallType /\ CallSound(x) /\ x.pc = "sent" /\ x.method \in {"AddImage", "RunTurn"} /\ x.image \in Nat
      /\ hosted \in HostedType /\ served \in ServedType
      /\ hosted.images \in Seq(Nat) /\ served.touched \in Seq(Nat)
      /\ Len(hosted.images) <= KeptImages /\ LastTouched(hosted.images, served.touched)
    BY DEF RemoteInv, KeepImage, UseImage, Doing, RemoteCallType, HostedType, ServedType, ImagesSound
<1>2. touched \in Seq(Nat)
    <2>1. \A s \in Seq(Nat), e \in Nat : Append(s, e) \in Seq(Nat)
        BY AppendProperties
    <2> QED
        BY <1>1, <2>1
<1>3. /\ images \in Seq(Nat) /\ LastTouched(images, touched)
      /\ Len(images) = IF x.image \in ToSet(hosted.images) THEN Len(hosted.images) ELSE Len(hosted.images) + 1
    <2>1. LastTouched(images, touched)
        BY <1>1, TouchKeepsOrder
    <2>2. \A p, q \in DOMAIN hosted.images : hosted.images[p] = hosted.images[q] => p = q
        BY <1>1 DEF LastTouched
    <2> QED
        BY <1>1, <2>1, <2>2, TouchedLast
<1> HIDE DEF images, touched
<1>4. ASSUME NEW kept \in Seq(Nat), ImagesSound(kept, touched), hosted' = [hosted EXCEPT !.images = kept],
             served' = [served EXCEPT !.touched = touched], NEW e \in {"ok", "PromptBlocked"}, Handled(c, e)
      PROVE  RemoteInv'
    <2> DEFINE next == [x EXCEPT !.pc = "handled", !.error = e]
    <2>1. remote' = [remote EXCEPT ![c] = next]
        BY <1>4 DEF Handled
    <2>2. e \in KnownErrors
        BY DEF KnownErrors, Reasoned
    <2>3. /\ next \in RemoteCallType /\ next.pc = "handled" /\ next.error = e /\ next.method = x.method
          /\ next.told = x.told /\ next.restored = x.restored
        BY <1>1, <2>2 DEF RemoteCallType
    <2> HIDE DEF next
    <2>4. CallSound(next)
        BY <1>1, <1>4, <2>3 DEF CallSound
    <2>5. /\ hosted' \in HostedType /\ hosted'.active = hosted.active /\ hosted'.settings = hosted.settings
          /\ hosted'.file = hosted.file /\ hosted'.images = kept
        BY <1>1, <1>4 DEF HostedType
    <2>6. /\ served' \in ServedType /\ served'.settings = served.settings /\ served'.beside = served.beside
          /\ served'.unsaved = served.unsaved /\ served'.touched = touched
        BY <1>1, <1>2, <1>4 DEF ServedType
    <2>7. ImagesSound(hosted'.images, served'.touched)
        BY <1>4, <2>5, <2>6
    <2> QED
        BY <1>1, <2>1, <2>3, <2>4, <2>5, <2>6, <2>7, CallKeeps DEF Updating
<1>5. CASE KeepImage(c)
    <2> DEFINE kept == IF Len(images) > KeptImages THEN Tail(images) ELSE images
    <2>1. /\ hosted' = [hosted EXCEPT !.images = kept] /\ Handled(c, "ok")
          /\ served' = [served EXCEPT !.touched = touched]
        BY <1>5 DEF KeepImage, images, touched
    <2>2. Len(hosted.images) \in Nat /\ Len(images) \in Nat /\ KeptImages \in Nat
        BY <1>1, <1>3, LenProperties, RemoteAssumption
    <2>3. CASE Len(images) > KeptImages
        <3>1. Len(images) = Len(hosted.images) \/ Len(images) = Len(hosted.images) + 1
            BY <1>3
        <3>2. Len(images) = KeptImages + 1
            BY <1>1, <2>2, <2>3, <3>1
        <3>3. kept \in Seq(Nat) /\ ImagesSound(kept, touched)
            BY <1>2, <1>3, <2>3, <3>2, DropKeepsOrder
        <3> HIDE DEF kept
        <3> QED
            BY <1>4, <2>1, <3>3
    <2>4. CASE ~(Len(images) > KeptImages)
        <3>1. kept \in Seq(Nat) /\ ImagesSound(kept, touched)
            BY <1>3, <2>2, <2>4 DEF ImagesSound
        <3> HIDE DEF kept
        <3> QED
            BY <1>4, <2>1, <3>1
    <2> QED
        BY <2>3, <2>4
<1>6. CASE UseImage(c) /\ x.image \in ToSet(hosted.images)
    <2>1. /\ hosted' = [hosted EXCEPT !.images = images] /\ served' = [served EXCEPT !.touched = touched]
          /\ \E e \in {"ok", "PromptBlocked"} : Handled(c, e)
        BY <1>6 DEF UseImage, images, touched
    <2>2. ImagesSound(images, touched)
        BY <1>1, <1>3, <1>6 DEF ImagesSound
    <2> QED
        BY <1>3, <1>4, <2>1, <2>2
<1>7. CASE UseImage(c) /\ x.image \notin ToSet(hosted.images)
    <2>1. Handled(c, "UnknownImage") /\ UNCHANGED <<hosted, served>> /\ x.method = "RunTurn"
        BY <1>7 DEF UseImage, Doing
    <2>2. "UnknownImage" \in KnownErrors
        BY DEF KnownErrors
    <2> QED
        BY <1>1, <2>1, <2>2, HandledKeeps
<1>8. UseImage(c) => RemoteInv'
    BY <1>6, <1>7
<1>9. KeepImage(c) => RemoteInv'
    BY <1>5
<1>10. KeepImage(c) \/ UseImage(c)
    OBVIOUS
<1> QED
    BY <1>8, <1>9, <1>10

\* Every step of the calls on a workspace.
LEMMA RemoteInvStep == RemoteInv /\ [RemoteNext]_remoteVars => RemoteInv'
<1> SUFFICES ASSUME RemoteInv, [RemoteNext]_remoteVars PROVE RemoteInv'
    OBVIOUS
<1>1. CASE UNCHANGED remoteVars
    BY <1>1 DEF remoteVars, RemoteInv, SettingsSure
<1>2. CASE RemoteNext
    <2>1. PICK c \in Clients :
             \/ CallMethod(c) \/ CallAgents(c) \/ CallSetAgent(c) \/ CallUpdate(c) \/ CallUndo(c) \/ CallImage(c)
             \/ NotOpened(c) \/ HandleSessions(c) \/ HandleModels(c) \/ HandleExtensions(c) \/ HandleContext(c)
             \/ HandleChanges(c) \/ HandleWorkers(c) \/ ReadAgent(c) \/ AgentsRead(c) \/ SetActive(c)
             \/ ReadSettings(c) \/ ApplySettings(c) \/ SaveSettings(c) \/ UndoTurn(c) \/ KeepImage(c) \/ UseImage(c)
             \/ Replied(c) \/ LostReply(c)
        BY <1>2 DEF RemoteNext
    <2>2. CASE CallMethod(c) \/ CallAgents(c) \/ CallSetAgent(c) \/ CallUndo(c) \/ CallImage(c)
        BY <2>2, ClientsCall
    <2>3. CASE \/ NotOpened(c) \/ HandleSessions(c) \/ HandleModels(c) \/ HandleExtensions(c) \/ HandleContext(c)
               \/ HandleChanges(c) \/ HandleWorkers(c) \/ AgentsRead(c)
        BY <2>3, HandlersKeep
    <2>4. CASE CallUpdate(c) \/ ReadSettings(c) \/ ApplySettings(c) \/ SaveSettings(c)
        BY <2>4, CallUpdateKeeps, UpdatesKeep
    <2>5. CASE ReadAgent(c) \/ SetActive(c) \/ UndoTurn(c)
        BY <2>5, ReadAgentKeeps, SetActiveKeeps, UndoKeeps
    <2>6. CASE KeepImage(c) \/ UseImage(c) \/ Replied(c) \/ LostReply(c)
        BY <2>6, TouchesKeep, RepliesKeep
    <2> QED
        BY <2>1, <2>2, <2>3, <2>4, <2>5, <2>6
<1> QED
    BY <1>1, <1>2

\* A sequence has no more values than places, and as many when none comes twice.
LEMMA ValuesOf ==
    ASSUME NEW S, NEW s \in Seq(S)
    PROVE  /\ IsFiniteSet(ToSet(s)) /\ Cardinality(ToSet(s)) \in Nat /\ Cardinality(ToSet(s)) <= Len(s)
           /\ (\A p, q \in DOMAIN s : s[p] = s[q] => p = q) => Cardinality(ToSet(s)) = Len(s)
<1>1. Len(s) \in Nat /\ DOMAIN s = 1 .. Len(s) /\ s \in [1 .. Len(s) -> S]
    BY LenProperties
<1>2. ToSet(s) = {s[p] : p \in 1 .. Len(s)}
    BY <1>1 DEF ToSet
<1>3. s \in Surjection(1 .. Len(s), ToSet(s))
    BY <1>1, <1>2 DEF Surjection
<1>4. IsFiniteSet(1 .. Len(s)) /\ Cardinality(1 .. Len(s)) = Len(s)
    <2>1. IsFiniteSet(1 .. Len(s)) /\ Cardinality(1 .. Len(s)) = IF 1 > Len(s) THEN 0 ELSE Len(s) - 1 + 1
        BY <1>1, FS_Interval
    <2> QED
        BY <1>1, <2>1
<1>5. /\ IsFiniteSet(ToSet(s)) /\ Cardinality(ToSet(s)) <= Cardinality(1 .. Len(s))
      /\ Cardinality(ToSet(s)) = Cardinality(1 .. Len(s)) <=> s \in Injection(1 .. Len(s), ToSet(s))
    BY <1>3, <1>4, FS_Surjection
<1>6. ASSUME \A p, q \in DOMAIN s : s[p] = s[q] => p = q PROVE s \in Injection(1 .. Len(s), ToSet(s))
    BY <1>1, <1>2, <1>6 DEF Injection, IsInjective
<1> QED
    BY <1>4, <1>5, <1>6, FS_CardinalityType

\* The end of a sequence from one of its places on.
LEMMA EndValues ==
    ASSUME NEW S, NEW s \in Seq(S), NEW n \in DOMAIN s
    PROVE  /\ SubSeq(s, n, Len(s)) \in Seq(S)
           /\ ToSet(SubSeq(s, n, Len(s))) = {s[m] : m \in {k \in DOMAIN s : k >= n}}
<1> DEFINE t == SubSeq(s, n, Len(s))
<1>1. Len(s) \in Nat /\ DOMAIN s = 1 .. Len(s) /\ n \in Nat \ {0} /\ n <= Len(s) /\ \A p \in 1 .. Len(s) : s[p] \in S
    BY LenProperties, ElementOfSeq
<1>2. /\ t \in Seq(S) /\ Len(t) = (IF n <= Len(s) THEN Len(s) - n + 1 ELSE 0)
      /\ \A p \in 1 .. Len(s) - n + 1 : t[p] = s[n + p - 1]
    BY <1>1, SubSeqProperties
<1> HIDE DEF t
<1>3. DOMAIN t = 1 .. Len(s) - n + 1
    BY <1>1, <1>2, LenProperties
<1>4. \A p \in 1 .. Len(s) - n + 1 : n + p - 1 \in DOMAIN s /\ n + p - 1 >= n
    BY <1>1
<1>5. \A m \in DOMAIN s : m >= n => m - n + 1 \in 1 .. Len(s) - n + 1 /\ n + (m - n + 1) - 1 = m
    BY <1>1
<1>6. ToSet(t) = {s[m] : m \in {k \in DOMAIN s : k >= n}}
    <2>1. ToSet(t) = {t[p] : p \in 1 .. Len(s) - n + 1}
        BY <1>3 DEF ToSet
    <2>2. ASSUME NEW p \in 1 .. Len(s) - n + 1 PROVE t[p] \in {s[m] : m \in {k \in DOMAIN s : k >= n}}
        BY <1>2, <1>4
    <2>3. ASSUME NEW m \in DOMAIN s, m >= n PROVE s[m] \in {t[p] : p \in 1 .. Len(s) - n + 1}
        BY <1>2, <1>5, <2>3
    <2> QED
        BY <2>1, <2>2, <2>3
<1> QED
    BY <1>2, <1>6 DEF t

\* What is kept are the images that fewer than KeptImages others followed.
LEMMA KeptAreLast ==
    ASSUME NEW images \in Seq(Nat), NEW touched \in Seq(Nat), ImagesSound(images, touched)
    PROVE  ToSet(images) =
               {i \in ToSet(touched) :
                   \E n \in DOMAIN touched :
                       touched[n] = i /\ Cardinality(ToSet(SubSeq(touched, n, Len(touched)))) <= KeptImages}
<1> DEFINE ends(n) == ToSet(SubSeq(touched, n, Len(touched)))
<1>1. /\ DOMAIN images = 1 .. Len(images) /\ Len(images) \in Nat /\ Len(images) <= KeptImages /\ KeptImages \in Nat
      /\ LastTouched(images, touched)
    BY LenProperties, RemoteAssumption DEF ImagesSound
<1>2. IsFiniteSet(ToSet(images)) /\ Cardinality(ToSet(images)) = Len(images)
    BY <1>1, ValuesOf DEF LastTouched
<1>3. \A n \in DOMAIN touched : ends(n) = {touched[m] : m \in {k \in DOMAIN touched : k >= n}}
    BY EndValues
<1>4. \A n \in DOMAIN touched : IsFiniteSet(ends(n)) /\ Cardinality(ends(n)) \in Nat
    BY EndValues, ValuesOf
<1> HIDE DEF ends
<1>5. ASSUME NEW i \in ToSet(images)
      PROVE  i \in ToSet(touched) /\ \E n \in DOMAIN touched : touched[n] = i /\ Cardinality(ends(n)) <= KeptImages
    <2>1. PICK p \in DOMAIN images : images[p] = i
        BY <1>5 DEF ToSet
    <2>2. PICK n \in DOMAIN touched :
             /\ touched[n] = i
             /\ \A m \in DOMAIN touched : m >= n => \E q \in DOMAIN images : images[q] = touched[m]
        BY <1>1, <2>1 DEF LastTouched
    <2>3. ends(n) \subseteq ToSet(images)
        BY <1>3, <2>2 DEF ToSet
    <2>4. Cardinality(ends(n)) <= Cardinality(ToSet(images))
        BY <1>2, <2>3, FS_Subset
    <2>5. Cardinality(ends(n)) <= KeptImages
        BY <1>1, <1>2, <1>4, <2>4
    <2> QED
        BY <2>2, <2>5 DEF ToSet
<1>6. ASSUME NEW n \in DOMAIN touched, Cardinality(ends(n)) <= KeptImages, touched[n] \notin ToSet(images) PROVE FALSE
    <2>1. \A p \in DOMAIN images : images[p] # touched[n]
        BY <1>6 DEF ToSet
    <2>2. /\ Len(images) >= KeptImages
          /\ \A p \in DOMAIN images : \E m \in DOMAIN touched : m >= n /\ images[p] = touched[m]
        BY <1>1, <2>1 DEF LastTouched
    <2>3. ToSet(images) \cup {touched[n]} \subseteq ends(n)
        <3>1. ToSet(images) \subseteq ends(n)
            BY <1>3, <2>2 DEF ToSet
        <3>2. n \in {k \in DOMAIN touched : k >= n}
            <4>1. n \in Nat
                BY LenProperties
            <4> QED
                BY <4>1
        <3>3. touched[n] \in ends(n)
            BY <1>3, <3>2
        <3> QED
            BY <3>1, <3>3
    <2>4. Cardinality(ToSet(images) \cup {touched[n]}) = Len(images) + 1
        BY <1>2, <1>6, FS_AddElement
    <2>5. Cardinality(ToSet(images) \cup {touched[n]}) <= Cardinality(ends(n))
        BY <1>4, <2>3, FS_Subset
    <2> QED
        BY <1>1, <1>4, <1>6, <2>2, <2>4, <2>5
<1>7. ToSet(images) = {i \in ToSet(touched) : \E n \in DOMAIN touched : touched[n] = i /\ Cardinality(ends(n)) <= KeptImages}
    BY <1>5, <1>6
<1> QED
    BY <1>7 DEF ends

\* What clients get and share is as the property says.
LEMMA RemoteIsLocal == RemoteInv => RemoteAsLocal
<1> SUFFICES ASSUME RemoteInv PROVE RemoteAsLocal
    OBVIOUS
<1>1. \A c \in Clients : remote[c] \in RemoteCallType /\ CallSound(remote[c])
    BY DEF RemoteInv
<1>2. ErrorsKept
    BY <1>1 DEF ErrorsKept, CallSound, ErrorKept
<1>3. ASSUME NEW c \in Clients, remote[c].pc = "done", ~remote[c].lost, remote[c].method = "ListAgents", remote[c].error = "ok"
      PROVE  LET marked == {AgentNames[i] : i \in {j \in DOMAIN remote[c].seen : remote[c].seen[j]}}
             IN marked \subseteq remote[c].during /\ (Cardinality(marked) = 1 \/ Cardinality(remote[c].during) > 1)
    <2> DEFINE x == remote[c]
               marked == {AgentNames[i] : i \in {j \in DOMAIN x.seen : x.seen[j]}}
    <2>1. ListSound(x) /\ Len(x.seen) = 2 /\ x.during \subseteq {"main", "other"} /\ x.seen \in Seq(BOOLEAN)
        BY <1>1, <1>3 DEF CallSound, RemoteCallType
    <2>2. DOMAIN x.seen = 1 .. 2 /\ AgentNames[1] = "main" /\ AgentNames[2] = "other"
        BY <2>1, LenProperties DEF AgentNames
    <2>3. marked \subseteq x.during
        BY <2>1 DEF ListSound
    <2>4. CASE x.during = {"main", "other"}
        <3>1. IsFiniteSet({"main"}) /\ Cardinality({"main"}) = 1
            BY FS_Singleton
        <3>2. {"main", "other"} = {"main"} \cup {"other"} /\ "other" \notin {"main"}
            OBVIOUS
        <3>3. Cardinality({"main", "other"}) = 2
            BY <3>1, <3>2, FS_AddElement
        <3> QED
            BY <2>3, <2>4, <3>3
    <2>5. CASE \E a \in {"main", "other"} : x.during = {a}
        <3>1. PICK a \in {"main", "other"} : x.during = {a}
            BY <2>5
        <3>2. \A i \in 1 .. 2 : x.seen[i] <=> AgentNames[i] = a
            BY <2>1, <2>2, <3>1 DEF ListSound
        <3>3. \E i \in 1 .. 2 : AgentNames[i] = a
            BY <2>2
        <3>4. marked = {a}
            BY <2>2, <3>2, <3>3
        <3> QED
            BY <2>3, <3>4, FS_Singleton
    <2>6. x.during = {"main", "other"} \/ \E a \in {"main", "other"} : x.during = {a}
        BY <2>1 DEF ListSound
    <2> QED
        BY <2>4, <2>5, <2>6
<1>4. /\ ~served.beside => hosted.settings = served.settings
      /\ ~served.beside /\ ~served.unsaved /\ (\A c \in Clients : remote[c].pc # "saves") => hosted.file = hosted.settings
    BY DEF RemoteInv, SettingsSure
<1>5. \A c \in Clients : remote[c].pc = "done" /\ ~remote[c].lost /\ remote[c].method = "Undo" => remote[c].told = remote[c].restored
    BY <1>1 DEF CallSound
<1>6. ToSet(hosted.images) =
          {i \in ToSet(served.touched) :
              \E n \in DOMAIN served.touched :
                  served.touched[n] = i /\ Cardinality(ToSet(SubSeq(served.touched, n, Len(served.touched)))) <= KeptImages}
    <2>1. hosted.images \in Seq(Nat) /\ served.touched \in Seq(Nat) /\ ImagesSound(hosted.images, served.touched)
        BY DEF RemoteInv, HostedType, ServedType
    <2> QED
        BY <2>1, KeptAreLast
<1>7. SharedSoundly
    BY <1>3, <1>4, <1>5, <1>6 DEF SharedSoundly
<1> QED
    BY <1>2, <1>7 DEF RemoteAsLocal

(* What a front end is told is the workspace's, whether it has the workspace  *)
(* or shares the service that has it: a pin kept is on file, the path of the  *)
(* socket leads to the service unless another starts or stops beside it, an   *)
(* error or a result arrives as it would locally, an undo tells what it       *)
(* restored, images are kept that were used last, and one owner at a time has *)
(* the workspace and lets go of all it took; for any number of clients,       *)
(* agents, models, services and owners (models.go, listen.go, convert.go,     *)
(* server/workspace.go and app/workspace.go).                                 *)
THEOREM WorkspacesAreShared == PinSpec /\ SocketSpec /\ RemoteSpec /\ OpeningSpec => []ServedAlike
<1>1. PinSpec => []PinInv
    BY PinInvInit, PinInvStep, PTL DEF PinSpec
<1>2. SocketSpec => []SocketInv
    BY SocketInvInit, SocketInvStep, PTL DEF SocketSpec
<1>3. RemoteSpec => []RemoteInv
    BY RemoteInvInit, RemoteInvStep, PTL DEF RemoteSpec
<1>4. OpeningSpec => []OpeningInv
    BY OpeningInvInit, OpeningInvStep, PTL DEF OpeningSpec
<1>5. PinInv /\ SocketInv /\ RemoteInv /\ OpeningInv => ServedAlike
    BY PinsAreKept, PathIsOnes, RemoteIsLocal, OneHasIt DEF ServedAlike
<1> QED
    BY <1>1, <1>2, <1>3, <1>4, <1>5, PTL

-------------------------------------------------------------------------------
\* The model calls of a service (ModelCalls).

\* A run's fields.
IsCallRun(q) ==
    q = [pc |-> q.pc, kind |-> q.kind, session |-> q.session, chain |-> q.chain, at |-> q.at, request |-> q.request,
         sent |-> q.sent, spoke |-> q.spoke, answer |-> q.answer, tell |-> q.tell]

\* What its models are sent comes from the request, which stays as it is, and
\* it has a notice to give only between noting a change and charging.
SentRight(q) ==
    /\ q.request = NoRequest
    /\ \A sent \in q.sent : \A k \in Keys : sent.config[k] # NoModel => sent.config[k] = sent.to /\ SettingSupported(sent.to, k)
    /\ q.tell \in BOOLEAN /\ (q.tell => q.pc = "charging")

ToTell == {r \in Runs : going[r].tell}

CallsInv ==
    /\ going = [r \in Runs |-> going[r]] /\ \A r \in Runs : IsCallRun(going[r]) /\ SentRight(going[r])
    /\ notices \in Nat /\ turnovers \in Nat /\ ToldOnce
    /\ wrote \in [CallSessions -> SUBSET {"turn"}]

LEMMA AtRestIsRight == IsCallRun(NoRun) /\ SentRight(NoRun) /\ NoRun.tell = FALSE
BY DEF IsCallRun, SentRight, NoRun

LEMMA RestedIsRight ==
    ASSUME NEW q PROVE IsCallRun(Rested(q)) /\ SentRight(Rested(q)) /\ Rested(q).tell = FALSE
<1>1. PICK v : v = Rested(q)
    OBVIOUS
<1>2. v = [pc |-> "between", kind |-> q.kind, session |-> q.session, chain |-> q.chain, at |-> 0, request |-> NoRequest,
           sent |-> {}, spoke |-> FALSE, answer |-> NoAnswer, tell |-> FALSE]
    BY <1>1 DEF Rested, NoRun
<1>3. IsCallRun(v) /\ v.request = NoRequest /\ v.sent = {} /\ v.tell = FALSE
    BY <1>2 DEF IsCallRun
<1>4. SentRight(v)
    BY <1>3 DEF SentRight
<1> QED
    BY <1>1, <1>3, <1>4

LEMMA CallsBegin == CallInit => CallsInv
<1> SUFFICES ASSUME CallInit PROVE CallsInv
    OBVIOUS
<1>1. going = [r \in Runs |-> NoRun] /\ notices = 0 /\ turnovers = 0 /\ wrote = [s \in CallSessions |-> {}]
    BY DEF CallInit
<1>2. {r \in Runs : going[r].tell} = {}
    BY <1>1, AtRestIsRight
<1>3. ToldOnce
    BY <1>1, <1>2, FS_EmptySet DEF ToldOnce
<1>4. going = [r \in Runs |-> going[r]] /\ \A r \in Runs : IsCallRun(going[r]) /\ SentRight(going[r])
    BY <1>1, AtRestIsRight
<1> QED
    BY <1>1, <1>3, <1>4 DEF CallsInv

\* One run goes on: the notices to give are counted.
LEMMA RunGoesOn ==
    ASSUME CallsInv, NEW r \in Runs, NEW v, IsCallRun(v), SentRight(v), going' = [going EXCEPT ![r] = v]
    PROVE  /\ going' = [q \in Runs |-> going'[q]] /\ \A q \in Runs : IsCallRun(going'[q]) /\ SentRight(going'[q])
           /\ Cardinality(ToTell) \in Nat /\ Cardinality(ToTell') \in Nat
           /\ going[r].tell = v.tell => ToTell' = ToTell
           /\ ~going[r].tell /\ v.tell => Cardinality(ToTell') = Cardinality(ToTell) + 1
           /\ going[r].tell /\ ~v.tell => Cardinality(ToTell') = Cardinality(ToTell) - 1
<1>1. going' = [q \in Runs |-> IF q = r THEN v ELSE going[q]]
    BY DEF CallsInv
<1>2. going' = [q \in Runs |-> going'[q]] /\ \A q \in Runs : IsCallRun(going'[q]) /\ SentRight(going'[q])
    BY <1>1 DEF CallsInv
<1>3. IsFiniteSet(ToTell)
  <2>1. ToTell \in SUBSET Runs
      BY DEF ToTell
  <2> QED
      BY <2>1, ModelAssumption, FS_Subset
<1>4. ToTell' = IF v.tell THEN ToTell \cup {r} ELSE ToTell \ {r}
    BY <1>1 DEF ToTell
<1>5. r \in ToTell <=> going[r].tell
    BY DEF ToTell
<1>6. v.tell \in BOOLEAN /\ going[r].tell \in BOOLEAN
    BY DEF CallsInv, SentRight
<1>7. Cardinality(ToTell) \in Nat
    BY <1>3, FS_CardinalityType
<1>8. IsFiniteSet(ToTell') /\ Cardinality(ToTell') \in Nat
  <2>1. IsFiniteSet(ToTell')
      BY <1>3, <1>4, FS_AddElement, FS_RemoveElement
  <2> QED
      BY <2>1, FS_CardinalityType
<1>9. going[r].tell = v.tell => ToTell' = ToTell
    BY <1>4, <1>5, <1>6
<1>10. ASSUME ~going[r].tell, v.tell PROVE Cardinality(ToTell') = Cardinality(ToTell) + 1
    BY <1>3, <1>4, <1>5, <1>10, FS_AddElement
<1>11. ASSUME going[r].tell, ~v.tell PROVE Cardinality(ToTell') = Cardinality(ToTell) - 1
    BY <1>3, <1>4, <1>5, <1>11, FS_RemoveElement
<1> QED
    BY <1>2, <1>7, <1>8, <1>9, <1>10, <1>11

\* A run that has nothing new to tell.
LEMMA RunTellsNothing ==
    ASSUME CallsInv, NEW r \in Runs, NEW v, IsCallRun(v), SentRight(v), going' = [going EXCEPT ![r] = v],
           v.tell = going[r].tell, notices' = notices, turnovers' = turnovers, wrote' = wrote
    PROVE  CallsInv'
<1>1. going' = [q \in Runs |-> going'[q]] /\ (\A q \in Runs : IsCallRun(going'[q]) /\ SentRight(going'[q])) /\ ToTell' = ToTell
    BY RunGoesOn
<1>2. ToldOnce'
    BY <1>1 DEF CallsInv, ToldOnce, ToTell
<1> QED
    BY <1>1, <1>2 DEF CallsInv

LEMMA CallsStep == CallsInv /\ [CallsNext]_callVars => CallsInv'
<1> SUFFICES ASSUME CallsInv, [CallsNext]_callVars PROVE CallsInv'
    OBVIOUS
<1>0. \A r \in Runs : IsCallRun(going[r]) /\ SentRight(going[r])
    BY DEF CallsInv
<1>1. ASSUME going' = going, notices' = notices, turnovers' = turnovers, wrote' = wrote PROVE CallsInv'
    BY <1>1 DEF CallsInv, ToldOnce
<1>2. ASSUME NEW m \in CallModels, NEW chain, ChangeModel(chain) PROVE CallsInv'
    BY <1>1, <1>2 DEF ChangeModel, Charges
<1>3. ASSUME NEW m \in CallModels, NEW keys, SetModelSettings(m, keys) PROVE CallsInv'
    BY <1>1, <1>3 DEF SetModelSettings, Charges
<1>4. CASE UNCHANGED callVars
    BY <1>1, <1>4 DEF callVars
<1>5. ASSUME NEW r \in Runs,
             \/ \E s \in CallSessions, kind \in {"turn", "agent", "aside"} : StartRun(r, s, kind)
             \/ EndRun(r) \/ AskModel(r) \/ SendRequest(r) \/ ModelFails(r) \/ Speaks(r)
             \/ \E named, metered \in BOOLEAN : ModelReplies(r, named, metered)
             \/ NoteFallback(r) \/ Charge(r)
      PROVE  CallsInv'
  <2> DEFINE q == going[r]
  <2>0. IsCallRun(q) /\ SentRight(q) /\ q.tell \in BOOLEAN /\ (q.pc # "charging" => q.tell = FALSE)
      BY <1>0 DEF SentRight
  <2>1. ASSUME NEW s, NEW kind, StartRun(r, s, kind) PROVE CallsInv'
    <3>1. PICK v : v = Rested([kind |-> kind, session |-> s, chain |-> modelNow])
        OBVIOUS
    <3>2. /\ going' = [going EXCEPT ![r] = v] /\ q.pc = "idle"
          /\ notices' = notices /\ turnovers' = turnovers /\ wrote' = wrote
        BY <2>1, <3>1 DEF StartRun, Charges
    <3> QED
        BY <2>0, <3>1, <3>2, RestedIsRight, RunTellsNothing
  <2>2. CASE EndRun(r)
    <3>1. /\ going' = [going EXCEPT ![r] = NoRun] /\ q.pc = "between"
          /\ notices' = notices /\ turnovers' = turnovers /\ wrote' = wrote
        BY <2>2 DEF EndRun, Charges
    <3> QED
        BY <2>0, <3>1, AtRestIsRight, RunTellsNothing
  <2>3. CASE AskModel(r)
    <3>1. PICK v : v = [q EXCEPT !.pc = "trying", !.at = 1, !.request = NoRequest, !.spoke = FALSE]
        OBVIOUS
    <3>2. /\ going' = [going EXCEPT ![r] = v] /\ q.pc = "between"
          /\ notices' = notices /\ turnovers' = turnovers /\ wrote' = wrote
        BY <2>3, <3>1 DEF AskModel, Charges
    <3>3. IsCallRun(v) /\ v.request = NoRequest /\ v.sent = q.sent /\ v.tell = q.tell
        BY <2>0, <3>1 DEF IsCallRun
    <3>4. SentRight(v)
        BY <2>0, <3>2, <3>3 DEF SentRight
    <3> QED
        BY <3>2, <3>3, <3>4, RunTellsNothing
  <2>4. CASE SendRequest(r)
    <3>1. PICK sent : sent = Apply(Model(r), q.request)
        OBVIOUS
    <3>2. PICK v : v = [q EXCEPT !.pc = "waiting", !.request = q.request, !.sent = {[to |-> Model(r), config |-> sent]}]
        OBVIOUS
    <3>3. /\ going' = [going EXCEPT ![r] = v] /\ q.pc = "trying"
          /\ notices' = notices /\ turnovers' = turnovers /\ wrote' = wrote
        BY <2>4, <3>1, <3>2 DEF SendRequest, Shared, Charges
    <3>4. IsCallRun(v) /\ v.request = q.request /\ v.sent = {[to |-> Model(r), config |-> sent]} /\ v.tell = q.tell
        BY <2>0, <3>2 DEF IsCallRun
    <3>5. \A k \in Keys : sent[k] # NoModel => sent[k] = Model(r) /\ SettingSupported(Model(r), k)
      <4>1. \A k \in Keys : q.request[k] = NoModel
          BY <2>0 DEF SentRight, NoRequest
      <4> QED
          BY <3>1, <4>1 DEF Apply
    <3>6. SentRight(v)
        BY <2>0, <3>3, <3>4, <3>5 DEF SentRight
    <3> QED
        BY <3>3, <3>4, <3>6, RunTellsNothing
  <2>5. CASE ModelFails(r)
    <3>1. q.pc = "waiting" /\ notices' = notices /\ turnovers' = turnovers /\ wrote' = wrote
        BY <2>5 DEF ModelFails, Charges
    <3>2. CASE ~q.spoke /\ q.at < Len(q.chain)
      <4>1. PICK v : v = [q EXCEPT !.pc = "trying", !.at = q.at + 1, !.sent = {}]
          OBVIOUS
      <4>2. going' = [going EXCEPT ![r] = v]
          BY <2>5, <3>2, <4>1 DEF ModelFails
      <4>3. IsCallRun(v) /\ v.request = q.request /\ v.sent = {} /\ v.tell = q.tell
          BY <2>0, <4>1 DEF IsCallRun
      <4>4. SentRight(v)
          BY <2>0, <3>1, <4>3 DEF SentRight
      <4> QED
          BY <3>1, <4>2, <4>3, <4>4, RunTellsNothing
    <3>3. CASE ~(~q.spoke /\ q.at < Len(q.chain))
      <4>1. PICK v : v = Rested(q)
          OBVIOUS
      <4>2. going' = [going EXCEPT ![r] = v]
          BY <2>5, <3>3, <4>1 DEF ModelFails
      <4> QED
          BY <2>0, <3>1, <4>1, <4>2, RestedIsRight, RunTellsNothing
    <3> QED
        BY <3>2, <3>3
  <2>6. CASE Speaks(r)
    <3>1. PICK v : v = [q EXCEPT !.spoke = TRUE]
        OBVIOUS
    <3>2. /\ going' = [going EXCEPT ![r] = v]
          /\ notices' = notices /\ turnovers' = turnovers /\ wrote' = wrote
        BY <2>6, <3>1 DEF Speaks
    <3>3. IsCallRun(v) /\ v.pc = q.pc /\ v.request = q.request /\ v.sent = q.sent /\ v.tell = q.tell
        BY <2>0, <3>1 DEF IsCallRun
    <3>4. SentRight(v)
        BY <2>0, <3>3 DEF SentRight
    <3> QED
        BY <3>2, <3>3, <3>4, RunTellsNothing
  <2>7. ASSUME NEW named \in BOOLEAN, NEW metered \in BOOLEAN, ModelReplies(r, named, metered) PROVE CallsInv'
    <3>1. PICK v : v = [q EXCEPT !.pc = "noting", !.sent = {},
                                 !.answer = [version |-> Version(r, named), by |-> Model(r), from |-> q.at > 1, metered |-> metered]]
        OBVIOUS
    <3>2. /\ going' = [going EXCEPT ![r] = v] /\ q.pc = "waiting"
          /\ notices' = notices /\ turnovers' = turnovers /\ wrote' = wrote
        BY <2>7, <3>1 DEF ModelReplies
    <3>3. IsCallRun(v) /\ v.request = q.request /\ v.sent = {} /\ v.tell = q.tell
        BY <2>0, <3>1 DEF IsCallRun
    <3>4. SentRight(v)
        BY <2>0, <3>2, <3>3 DEF SentRight
    <3> QED
        BY <3>2, <3>3, <3>4, RunTellsNothing
  <2>8. CASE NoteFallback(r)
    <3>1. PICK answers : answers = IF q.answer.from THEN q.answer.version ELSE NoModel
        OBVIOUS
    <3>2. PICK v : v = [q EXCEPT !.pc = "charging", !.tell = answers # fallbackBy]
        OBVIOUS
    <3>3. /\ going' = [going EXCEPT ![r] = v] /\ q.pc = "noting" /\ notices' = notices /\ wrote' = wrote
          /\ turnovers' = turnovers + (IF answers # fallbackBy THEN 1 ELSE 0)
        BY <2>8, <3>1, <3>2 DEF NoteFallback, TellChange
    <3>4. IsCallRun(v) /\ v.pc = "charging" /\ v.request = q.request /\ v.sent = q.sent /\ v.tell = (answers # fallbackBy)
        BY <2>0, <3>2 DEF IsCallRun
    <3>5. SentRight(v)
        BY <2>0, <3>4 DEF SentRight
    <3>6. /\ going' = [x \in Runs |-> going'[x]] /\ \A x \in Runs : IsCallRun(going'[x]) /\ SentRight(going'[x])
          /\ Cardinality(ToTell) \in Nat /\ Cardinality(ToTell') \in Nat
          /\ ~v.tell => ToTell' = ToTell
          /\ v.tell => Cardinality(ToTell') = Cardinality(ToTell) + 1
        BY <2>0, <3>3, <3>4, <3>5, RunGoesOn
    <3>7. notices \in Nat /\ turnovers \in Nat /\ notices + Cardinality(ToTell) = turnovers
        BY DEF CallsInv, ToldOnce, ToTell
    <3>8. turnovers' \in Nat /\ notices' + Cardinality(ToTell') = turnovers'
      <4>1. CASE answers = fallbackBy
        <5>1. turnovers' = turnovers + 0 /\ ToTell' = ToTell /\ notices' = notices
            BY <3>3, <3>4, <3>6, <4>1
        <5> QED
            BY <3>7, <5>1
      <4>2. CASE answers # fallbackBy
        <5>1. turnovers' = turnovers + 1 /\ Cardinality(ToTell') = Cardinality(ToTell) + 1 /\ notices' = notices
            BY <3>3, <3>4, <3>6, <4>2
        <5> QED
            BY <3>6, <3>7, <5>1
      <4> QED
          BY <4>1, <4>2
    <3>9. ToldOnce'
        BY <3>8 DEF ToldOnce, ToTell
    <3> QED
        BY <3>3, <3>6, <3>7, <3>8, <3>9 DEF CallsInv
  <2>9. CASE Charge(r)
    <3>1. /\ going' = [going EXCEPT ![r] = Rested(q)] /\ q.pc = "charging" /\ turnovers' = turnovers
          /\ notices' = notices + (IF q.tell THEN 1 ELSE 0)
          /\ wrote' = IF Writes(r) THEN [wrote EXCEPT ![q.session] = @ \cup {q.kind}] ELSE wrote
        BY <2>9 DEF Charge
    <3>2. PICK v : v = Rested(q)
        OBVIOUS
    <3>3. IsCallRun(v) /\ SentRight(v) /\ v.tell = FALSE /\ going' = [going EXCEPT ![r] = v]
        BY <3>1, <3>2, RestedIsRight
    <3>4. /\ going' = [x \in Runs |-> going'[x]] /\ \A x \in Runs : IsCallRun(going'[x]) /\ SentRight(going'[x])
          /\ Cardinality(ToTell) \in Nat /\ Cardinality(ToTell') \in Nat
          /\ ~q.tell => ToTell' = ToTell
          /\ q.tell => Cardinality(ToTell') = Cardinality(ToTell) - 1
        BY <2>0, <3>3, RunGoesOn
    <3>5. notices \in Nat /\ turnovers \in Nat /\ notices + Cardinality(ToTell) = turnovers
        BY DEF CallsInv, ToldOnce, ToTell
    <3>6. notices' \in Nat /\ notices' + Cardinality(ToTell') = turnovers'
        BY <3>1, <3>4, <3>5
    <3>7. ToldOnce'
        BY <3>6 DEF ToldOnce, ToTell
    <3>8. wrote' \in [CallSessions -> SUBSET {"turn"}]
        BY <3>1 DEF CallsInv, Writes
    <3> QED
        BY <3>1, <3>4, <3>5, <3>6, <3>7, <3>8 DEF CallsInv
  <2> QED
      BY <1>5, <2>1, <2>2, <2>3, <2>4, <2>5, <2>6, <2>7, <2>8, <2>9
<1> QED
    BY <1>2, <1>3, <1>4, <1>5 DEF CallsNext

(* For any turns, sub-agents and questions that overlap, and any models: a    *)
(* model is sent settings made for it alone, the user is told once of each    *)
(* change of the model that answers, and only turns write to the history      *)
(* (settings.go, engine.go, aside.go).                                        *)
THEOREM ModelCallsKeptApart == CallsSpec => [](OwnSettings /\ ToldOnce /\ HistoryOwn)
<1>1. CallsInv => OwnSettings /\ ToldOnce /\ HistoryOwn
    BY DEF CallsInv, SentRight, OwnSettings, HistoryOwn
<1> QED
    BY <1>1, CallsBegin, CallsStep, PTL DEF CallsSpec

-------------------------------------------------------------------------------
\* Pictures of a conversation (PictureStore).

PicParts == [kind : {"image", "text", "marker", "result"}, pic : Pics \cup {NoPic}]

PicLoads ==
    [pc : {"idle", "loading", "touching", "writing"}, wanted : Seq(WantedPic), at : Nat, out : Seq(Pics \cup {NoPic})]

\* While a load puts a picture it knows which.
PutsOne(q) == q.pc \in {"touching", "writing"} => q.at \in DOMAIN q.wanted /\ q.wanted[q.at].pic \in Pics

\* A picture may go when it is to be retained no longer, or was put too late.
MayGo(p) == since[p] > RetainDays \/ p \in hasty

Pruners == [pc : {"idle", "looking", "removing"}, list : SUBSET Pics, doomed : Pics \cup {NoPic}]

\* A file is as old as the picture's last Put, whatever touched it.
AgesRight ==
    /\ filed \in [Pics -> 0 .. Gone] /\ since \in [Pics -> 0 .. Gone]
    /\ pruner \in Pruners
    /\ \A p \in Pics : /\ filed[p] # Gone => filed[p] = since[p]
                       /\ filed[p] = Gone => MayGo(p)
                       /\ pruner.doomed = p => MayGo(p)

PicInv ==
    /\ AgesRight
    /\ loader \in [PicLoaders -> PicLoads] /\ \A l \in PicLoaders : PutsOne(loader[l])
    /\ history \in Seq(Seq(PicParts))

LEMMA PicBegins == PicInit => PicInv
<1> SUFFICES ASSUME PicInit PROVE PicInv
    OBVIOUS
<1>1. Unasked \in PicLoads /\ PutsOne(Unasked)
    BY DEF Unasked, PicLoads, PutsOne
<1>2. AgesRight
  <2>1. Gone \in Nat /\ RetainDays \in Nat /\ Gone > RetainDays
      BY PicAssumption DEF Gone
  <2>2. \A p \in Pics : filed[p] = Gone /\ since[p] = Gone /\ MayGo(p)
      BY <2>1 DEF PicInit, MayGo
  <2>3. filed \in [Pics -> 0 .. Gone] /\ since \in [Pics -> 0 .. Gone]
      BY <2>1 DEF PicInit
  <2>4. pruner \in Pruners
      BY DEF PicInit, Pruners
  <2> QED
      BY <2>2, <2>3, <2>4 DEF AgesRight
<1> QED
    BY <1>1, <1>2 DEF PicInit, PicInv

\* A load goes on, and the files stay.
LEMMA LoadGoesOn ==
    ASSUME PicInv, NEW l \in PicLoaders, NEW v \in PicLoads, PutsOne(v), loader' = [loader EXCEPT ![l] = v]
    PROVE  loader' \in [PicLoaders -> PicLoads] /\ \A k \in PicLoaders : PutsOne(loader'[k])
<1>1. \A k \in PicLoaders : loader'[k] = IF k = l THEN v ELSE loader[k]
    BY DEF PicInv
<1>2. loader' \in [PicLoaders -> PicLoads]
    BY DEF PicInv
<1> QED
    BY <1>1, <1>2 DEF PicInv

LEMMA FilesStay ==
    ASSUME AgesRight, filed' = filed, since' = since, pruner' = pruner, hasty' = hasty
    PROVE  AgesRight'
BY DEF AgesRight, MayGo, Gone

\* What a load makes of its next picture.
LEMMA OneLoaded ==
    ASSUME NEW q \in PicLoads, q.at \in DOMAIN q.wanted
    PROVE  NotLoaded(q) \in PicLoads /\ PutsOne(NotLoaded(q))
<1>1. Unasked \in PicLoads /\ PutsOne(Unasked)
    BY DEF Unasked, PicLoads, PutsOne
<1>2. PICK v : v = [q EXCEPT !.pc = "loading", !.at = @ + 1]
    OBVIOUS
<1>3. v \in PicLoads /\ v.pc = "loading"
  <2>1. v = [pc |-> "loading", wanted |-> q.wanted, at |-> q.at + 1, out |-> q.out]
      BY <1>2 DEF PicLoads
  <2> QED
      BY <2>1 DEF PicLoads
<1>4. NotLoaded(q) \in {v, Unasked}
    BY <1>2 DEF NotLoaded, PictureDone
<1> QED
    BY <1>1, <1>3, <1>4 DEF PutsOne

LEMMA OneAdded ==
    ASSUME NEW q \in PicLoads, NEW p \in Pics
    PROVE  Added(q, p) \in PicLoads /\ PutsOne(Added(q, p))
<1>1. PICK out : out = IF p \in ToSet(q.out) THEN q.out ELSE Append(q.out, p)
    OBVIOUS
<1>2. out \in Seq(Pics \cup {NoPic})
    BY <1>1 DEF PicLoads
<1>3. PICK v : v = [pc |-> "loading", wanted |-> q.wanted, at |-> q.at + 1, out |-> out]
    OBVIOUS
<1>4. v \in PicLoads /\ PutsOne(v)
    BY <1>2, <1>3 DEF PicLoads, PutsOne
<1>5. Added(q, p) = v
  <2>1. PICK w : w = [q EXCEPT !.out = out]
      OBVIOUS
  <2>2. w = [pc |-> q.pc, wanted |-> q.wanted, at |-> q.at, out |-> out]
      BY <2>1 DEF PicLoads
  <2>3. PictureDone(w) = v
    <3>1. w.at = q.at /\ w.wanted = q.wanted /\ w.out = out
        BY <2>2
    <3>2. w \in PicLoads
        BY <1>2, <2>2 DEF PicLoads
    <3>3. PICK u : u = PictureDone(w)
        OBVIOUS
    <3>4. u = [w EXCEPT !.pc = "loading", !.at = @ + 1]
        BY <3>3 DEF PictureDone
    <3>5. u = [pc |-> "loading", wanted |-> w.wanted, at |-> w.at + 1, out |-> w.out]
        BY <3>2, <3>4 DEF PicLoads
    <3> QED
        BY <3>1, <3>3, <3>5, <1>3
  <2>4. Added(q, p) = PictureDone(w)
      BY <1>1, <2>1 DEF Added
  <2> QED
      BY <2>3, <2>4
<1> QED
    BY <1>4, <1>5

\* A picture is put.
LEMMA PictureIsPut ==
    ASSUME PicInv, NEW l \in PicLoaders, NEW p \in Pics, filed' = [filed EXCEPT ![p] = 0], IsPut(l, p)
    PROVE  PicInv'
<1>1. /\ since' = [since EXCEPT ![p] = 0] /\ loader' = [loader EXCEPT ![l] = Added(loader[l], p)]
      /\ hasty' = IF pruner.doomed = p THEN hasty \cup {p} ELSE hasty \ {p}
      /\ pruner' = pruner /\ history' = history
    BY DEF IsPut
<1>2. loader[l] \in PicLoads
    BY DEF PicInv
<1>3. Added(loader[l], p) \in PicLoads /\ PutsOne(Added(loader[l], p))
    BY <1>2, OneAdded
<1>4. PICK v : v = Added(loader[l], p)
    OBVIOUS
<1>5. loader' \in [PicLoaders -> PicLoads] /\ \A k \in PicLoaders : PutsOne(loader'[k])
    BY <1>1, <1>3, <1>4, LoadGoesOn
<1>6. AgesRight'
  <2>0. AgesRight /\ Gone \in Nat /\ Gone # 0
      BY PicAssumption DEF PicInv, Gone
  <2>1. filed' \in [Pics -> 0 .. Gone] /\ since' \in [Pics -> 0 .. Gone]
      BY <1>1, <2>0 DEF AgesRight
  <2>2. \A x \in Pics : filed'[x] = (IF x = p THEN 0 ELSE filed[x]) /\ since'[x] = (IF x = p THEN 0 ELSE since[x])
      BY <1>1, <2>0 DEF AgesRight
  <2>3. ASSUME NEW x \in Pics, x # p, MayGo(x) PROVE MayGo(x)'
      BY <1>1, <2>2, <2>3 DEF MayGo
  <2>4. ASSUME NEW x \in Pics
        PROVE  /\ filed'[x] # Gone => filed'[x] = since'[x]
               /\ filed'[x] = Gone => MayGo(x)'
               /\ pruner'.doomed = x => MayGo(x)'
    <3>1. CASE x = p
      <4>1. pruner.doomed = p => p \in hasty'
          BY <1>1
      <4> QED
          BY <1>1, <2>0, <2>2, <3>1, <4>1 DEF MayGo
    <3>2. CASE x # p
        BY <1>1, <2>0, <2>2, <2>3, <3>2 DEF AgesRight
    <3> QED
        BY <3>1, <3>2
  <2>5. pruner' \in Pruners /\ Gone' = Gone
      BY <1>1, <2>0 DEF AgesRight, Gone
  <2> QED
      BY <2>1, <2>4, <2>5 DEF AgesRight, Gone
<1> QED
    BY <1>1, <1>5, <1>6 DEF PicInv

\* Loading a prompt's pictures.
LEMMA PicturesLoad ==
    ASSUME PicInv, NEW l \in PicLoaders,
           \/ \E wanted \in WantedPics : Want(l, wanted)
           \/ CannotRead(l) \/ PutLooks(l) \/ PutTouches(l) \/ PutRenames(l) \/ PutFails(l)
           \/ \E text \in {PromptText, MarkerText} : Prompted(l, text)
           \/ Viewed(l)
    PROVE  PicInv'
<1> DEFINE q == loader[l]
<1>0. /\ q \in PicLoads /\ PutsOne(q) /\ AgesRight /\ history \in Seq(Seq(PicParts))
      /\ Unasked \in PicLoads /\ PutsOne(Unasked)
    BY DEF PicInv, Unasked, PicLoads, PutsOne
<1>1. ASSUME NEW v \in PicLoads, PutsOne(v), loader' = [loader EXCEPT ![l] = v], history' \in Seq(Seq(PicParts)),
             UNCHANGED <<filed, since, pruner, hasty>>
      PROVE  PicInv'
  <2>1. loader' \in [PicLoaders -> PicLoads] /\ \A k \in PicLoaders : PutsOne(loader'[k])
      BY <1>1, LoadGoesOn
  <2>2. AgesRight'
      BY <1>0, <1>1, FilesStay
  <2> QED
      BY <1>1, <2>1, <2>2 DEF PicInv
<1>2. ASSUME NEW wanted \in WantedPics, Want(l, wanted) PROVE PicInv'
  <2>1. wanted \in Seq(WantedPic)
      BY DEF WantedPics, BoundedSeq, SeqOf
  <2>2. PICK v : v = [Unasked EXCEPT !.pc = "loading", !.wanted = wanted, !.at = 1]
      OBVIOUS
  <2>3. v \in PicLoads /\ PutsOne(v)
    <3>1. v = [pc |-> "loading", wanted |-> wanted, at |-> 1, out |-> <<>>]
        BY <2>2 DEF Unasked
    <3>2. <<>> \in Seq(Pics \cup {NoPic})
        OBVIOUS
    <3> QED
        BY <2>1, <3>1, <3>2 DEF PicLoads, PutsOne
  <2> QED
      BY <1>0, <1>1, <1>2, <2>2, <2>3 DEF Want
<1>3. ASSUME q.at \in DOMAIN q.wanted, loader' = [loader EXCEPT ![l] = NotLoaded(q)],
             UNCHANGED <<filed, since, pruner, history, hasty>>
      PROVE  PicInv'
  <2>1. PICK v : v = NotLoaded(q)
      OBVIOUS
  <2>2. v \in PicLoads /\ PutsOne(v)
      BY <1>0, <1>3, <2>1, OneLoaded
  <2> QED
      BY <1>0, <1>1, <1>3, <2>1, <2>2
<1>4. CASE CannotRead(l)
    BY <1>3, <1>4 DEF CannotRead, Loading
<1>5. CASE PutLooks(l)
  <2>1. PICK pc \in {"touching", "writing"} : loader' = [loader EXCEPT ![l].pc = pc]
      BY <1>5 DEF PutLooks
  <2>2. PICK v : v = [q EXCEPT !.pc = pc]
      OBVIOUS
  <2>3. v = [pc |-> pc, wanted |-> q.wanted, at |-> q.at, out |-> q.out]
      BY <1>0, <2>2 DEF PicLoads
  <2>4. q.at \in DOMAIN q.wanted /\ q.wanted[q.at].pic \in Pics
    <3>1. q.at \in DOMAIN q.wanted /\ q.wanted[q.at].pic # NoPic
        BY <1>5 DEF PutLooks, Loading, This
    <3>2. q.wanted[q.at] \in WantedPic
        BY <1>0, <3>1 DEF PicLoads
    <3> QED
        BY <3>1, <3>2 DEF WantedPic
  <2>5. v \in PicLoads /\ PutsOne(v)
      BY <1>0, <2>3, <2>4 DEF PicLoads, PutsOne
  <2>6. loader' = [loader EXCEPT ![l] = v]
      BY <2>1, <2>2
  <2> QED
      BY <1>0, <1>1, <1>5, <2>5, <2>6 DEF PutLooks
<1>6. CASE PutTouches(l) \/ PutRenames(l) \/ PutFails(l)
  <2>1. q.at \in DOMAIN q.wanted /\ This(l).pic \in Pics
      BY <1>0, <1>6 DEF PutTouches, PutRenames, PutFails, PutsOne, This
  <2>2. CASE PutTouches(l) /\ filed[This(l).pic] = Gone
      BY <1>3, <2>1, <2>2 DEF PutTouches
  <2>3. CASE PutTouches(l) /\ filed[This(l).pic] # Gone
    <3>1. filed' = [filed EXCEPT ![This(l).pic] = 0] /\ IsPut(l, This(l).pic)
        BY <2>3 DEF PutTouches, AgeReset
    <3> QED
        BY <2>1, <3>1, PictureIsPut
  <2>4. CASE PutRenames(l)
    <3>1. filed' = [filed EXCEPT ![This(l).pic] = 0] /\ IsPut(l, This(l).pic)
        BY <2>4 DEF PutRenames
    <3> QED
        BY <2>1, <3>1, PictureIsPut
  <2>5. CASE PutFails(l)
      BY <1>3, <2>1, <2>5 DEF PutFails
  <2> QED
      BY <1>6, <2>2, <2>3, <2>4, <2>5
<1>7. ASSUME NEW text \in {PromptText, MarkerText}, Prompted(l, text) PROVE PicInv'
  <2>1. PICK refs : refs = [i \in DOMAIN q.out |-> Ref(q.out[i])]
      OBVIOUS
  <2>2. refs \in Seq(PicParts)
    <3>1. q.out \in Seq(Pics \cup {NoPic})
        BY <1>0 DEF PicLoads
    <3>2. DOMAIN q.out = 1 .. Len(q.out) /\ Len(q.out) \in Nat /\ \A i \in DOMAIN q.out : q.out[i] \in Pics \cup {NoPic}
        BY <3>1
    <3>3. \A i \in DOMAIN q.out : Ref(q.out[i]) \in PicParts
        BY <3>2 DEF Ref, PicParts
    <3> QED
        BY <2>1, <3>2, <3>3
  <2>3. text \in PicParts
      BY DEF PromptText, MarkerText, PicParts
  <2>4. refs \o <<text>> \in Seq(PicParts)
      BY <2>2, <2>3
  <2>5. history' = (IF Len(history) < MaxPrompts THEN Append(history, refs \o <<text>>) ELSE history)
        /\ loader' = [loader EXCEPT ![l] = Unasked] /\ UNCHANGED <<filed, since, pruner, hasty>>
      BY <1>7, <2>1 DEF Prompted
  <2>6. history' \in Seq(Seq(PicParts))
      BY <1>0, <2>4, <2>5
  <2> QED
      BY <1>0, <1>1, <2>5, <2>6
<1>8. CASE Viewed(l)
  <2>1. /\ history' = Append(history, <<[kind |-> "result", pic |-> q.wanted[1].pic], [kind |-> "result", pic |-> NoPic]>>)
        /\ loader' = [loader EXCEPT ![l] = Unasked] /\ Len(q.wanted) = 1 /\ UNCHANGED <<filed, since, pruner, hasty>>
      BY <1>8 DEF Viewed
  <2>2. q.wanted[1] \in WantedPic
      BY <1>0, <2>1 DEF PicLoads
  <2>3. <<[kind |-> "result", pic |-> q.wanted[1].pic], [kind |-> "result", pic |-> NoPic]>> \in Seq(PicParts)
      BY <2>2 DEF WantedPic, PicParts
  <2>4. history' \in Seq(Seq(PicParts))
      BY <1>0, <2>1, <2>3
  <2> QED
      BY <1>0, <1>1, <2>1, <2>4
<1> QED
    BY <1>2, <1>4, <1>5, <1>6, <1>7, <1>8

\* The pruner goes on, and no picture that must stay is doomed.
LEMMA PruneGoesOn ==
    ASSUME AgesRight, NEW v \in Pruners, pruner' = v, filed' = filed, since' = since, hasty' = hasty,
           \A p \in Pics : v.doomed = p => MayGo(p)
    PROVE  AgesRight'
BY DEF AgesRight, MayGo, Gone

\* Days pass, and files are pruned.
LEMMA PicturesAge ==
    ASSUME PicInv, (\E p \in Pics : PruneLooks(p)) \/ PruneLists \/ PruneRemoves \/ PruneEnds \/ DayPasses
    PROVE  PicInv'
<1>0. /\ AgesRight /\ Gone \in Nat /\ Gone = MaxAge + 1 /\ MaxAge \in Nat /\ Gone' = Gone
      /\ RetainDays \in Nat /\ NoPic \notin Pics /\ pruner \in Pruners
    BY PicAssumption DEF PicInv, AgesRight, Gone
<1>1. loader' = loader /\ history' = history /\ hasty' = hasty
    BY DEF PruneLooks, PruneLists, PruneRemoves, PruneEnds, DayPasses
<1>2. ASSUME AgesRight' PROVE PicInv'
    BY <1>1, <1>2 DEF PicInv
<1>3. ASSUME NEW p \in Pics, PruneLooks(p) PROVE PicInv'
  <2>1. TooOld(p) => MayGo(p)
    <3>1. filed[p] \in 0 .. Gone /\ (filed[p] # Gone => filed[p] = since[p])
        BY <1>0 DEF AgesRight
    <3> QED
        BY <3>1 DEF TooOld, MayGo
  <2>2. PICK v : v = [pc |-> IF TooOld(p) THEN "removing" ELSE "looking", list |-> pruner.list \ {p},
                      doomed |-> IF TooOld(p) THEN p ELSE NoPic]
      OBVIOUS
  <2>3. pruner' = v /\ filed' = filed /\ since' = since
      BY <1>3, <2>2 DEF PruneLooks
  <2>4. v \in Pruners /\ v.doomed = IF TooOld(p) THEN p ELSE NoPic
      BY <1>0, <2>2 DEF Pruners
  <2>5. \A x \in Pics : v.doomed = x => MayGo(x)
      BY <1>0, <2>1, <2>4
  <2> QED
      BY <1>0, <1>1, <1>2, <2>3, <2>4, <2>5, PruneGoesOn
<1>4. CASE PruneLists
  <2>1. PICK v : v = [pc |-> "looking", list |-> {p \in Pics : filed[p] # Gone}, doomed |-> NoPic]
      OBVIOUS
  <2>2. pruner' = v /\ filed' = filed /\ since' = since
      BY <1>4, <2>1 DEF PruneLists
  <2>3. v \in Pruners /\ v.doomed = NoPic
      BY <2>1 DEF Pruners
  <2> QED
      BY <1>0, <1>1, <1>2, <2>2, <2>3, PruneGoesOn
<1>5. CASE PruneEnds
  <2>1. PICK v : v = [pruner EXCEPT !.pc = "idle"]
      OBVIOUS
  <2>2. pruner' = v /\ filed' = filed /\ since' = since
      BY <1>5, <2>1 DEF PruneEnds
  <2>3. v \in Pruners /\ v.doomed = pruner.doomed
      BY <1>0, <2>1 DEF Pruners
  <2>4. \A x \in Pics : v.doomed = x => MayGo(x)
      BY <1>0, <2>3 DEF AgesRight
  <2> QED
      BY <1>0, <1>1, <1>2, <2>2, <2>3, <2>4, PruneGoesOn
<1>6. CASE PruneRemoves
  <2>1. PICK v : v = [pruner EXCEPT !.pc = "looking", !.doomed = NoPic]
      OBVIOUS
  <2>2. pruner' = v /\ filed' = [filed EXCEPT ![pruner.doomed] = Gone] /\ since' = since
      BY <1>6, <2>1 DEF PruneRemoves
  <2>3. v \in Pruners /\ v.doomed = NoPic
      BY <1>0, <2>1 DEF Pruners
  <2>4. filed' \in [Pics -> 0 .. Gone] /\ \A x \in Pics : filed'[x] = IF x = pruner.doomed THEN Gone ELSE filed[x]
    <3>1. filed \in [Pics -> 0 .. Gone] /\ Gone \in 0 .. Gone
        BY <1>0 DEF AgesRight
    <3> QED
        BY <2>2, <3>1
  <2>5. \A x \in Pics : MayGo(x)' <=> MayGo(x)
      BY <1>1, <2>2 DEF MayGo
  <2>6. \A x \in Pics : /\ filed'[x] # Gone => filed'[x] = since'[x]
                        /\ filed'[x] = Gone => MayGo(x)
      BY <1>0, <2>2, <2>4 DEF AgesRight
  <2>7. since' \in [Pics -> 0 .. Gone] /\ pruner'.doomed \notin Pics
      BY <1>0, <2>2, <2>3 DEF AgesRight
  <2>8. AgesRight'
      BY <1>0, <2>2, <2>3, <2>4, <2>5, <2>6, <2>7 DEF AgesRight
  <2> QED
      BY <1>2, <2>8
<1>7. CASE DayPasses
  <2>1. /\ filed' = [p \in Pics |-> Older(filed[p])] /\ since' = [p \in Pics |-> Older(since[p])] /\ pruner' = pruner
      BY <1>7 DEF DayPasses
  <2>2. \A n \in 0 .. Gone : Older(n) \in 0 .. Gone /\ Older(n) >= n /\ (Older(n) = Gone <=> n = Gone)
      BY <1>0 DEF Older
  <2>3. \A x \in Pics : /\ filed[x] \in 0 .. Gone /\ since[x] \in 0 .. Gone
                        /\ filed'[x] = Older(filed[x]) /\ since'[x] = Older(since[x])
      BY <1>0, <2>1 DEF AgesRight
  <2>4. filed' \in [Pics -> 0 .. Gone] /\ since' \in [Pics -> 0 .. Gone]
      BY <2>1, <2>2, <2>3
  <2>5. ASSUME NEW x \in Pics, MayGo(x) PROVE MayGo(x)'
    <3>1. since'[x] >= since[x] /\ since'[x] \in Nat /\ since[x] \in Nat
        BY <1>0, <2>2, <2>3
    <3> QED
        BY <1>0, <1>1, <2>5, <3>1 DEF MayGo
  <2>6. ASSUME NEW x \in Pics
        PROVE  /\ filed'[x] # Gone => filed'[x] = since'[x]
               /\ filed'[x] = Gone => MayGo(x)'
               /\ pruner'.doomed = x => MayGo(x)'
      BY <1>0, <2>1, <2>2, <2>3, <2>5 DEF AgesRight
  <2>7. AgesRight'
      BY <1>0, <2>1, <2>4, <2>6 DEF AgesRight
  <2> QED
      BY <1>2, <2>7
<1> QED
    BY <1>3, <1>4, <1>5, <1>6, <1>7

LEMMA PicStep == PicInv /\ [PicNext]_picVars => PicInv'
<1> SUFFICES ASSUME PicInv, [PicNext]_picVars PROVE PicInv'
    OBVIOUS
<1>1. CASE UNCHANGED picVars
    BY <1>1, FilesStay DEF picVars, PicInv
<1> QED
    BY <1>1, PicturesLoad, PicturesAge DEF PicNext

\* What is in the history is a picture of the store.
LEMMA AttachedAreFiled == PicInv => Attached \subseteq Pics
<1> SUFFICES ASSUME PicInv, NEW p \in Attached PROVE p \in Pics
    OBVIOUS
<1>1. PICK c \in DOMAIN history : \E part \in ToSet(history[c]) : p = part.pic
    BY DEF Attached
<1>2. PICK i \in DOMAIN history[c] : p = history[c][i].pic
    BY <1>1 DEF ToSet
<1>3. history[c] \in Seq(PicParts)
    BY DEF PicInv
<1>4. history[c][i] \in PicParts
    BY <1>3
<1>5. p # NoPic
    BY DEF Attached
<1> QED
    BY <1>2, <1>4, <1>5 DEF PicParts

(* For any pictures, workspaces that share the store and days of retention: a *)
(* picture of the history is in the store for as long as it is to be kept     *)
(* after its last Put, which isn't there only if it was put when a Prune had  *)
(* just found it too old (images/store.go).                                   *)
THEOREM PicturesStay == PicSpec => []Retained
<1>1. PicInv => Retained
    BY AttachedAreFiled DEF PicInv, AgesRight, MayGo, Retained
<1> QED
    BY <1>1, PicBegins, PicStep, PTL DEF PicSpec

\* A part in proportion of what must be made smaller.
LEMMA InProportion ==
    ASSUME NEW w \in Nat \ {0}, NEW h \in Nat \ {0}, NEW most \in Nat \ {0}, h <= w, most <= w
    PROVE  (h * most) \div w \in 0 .. most /\ (h * most) \div w <= h
<1> DEFINE p == h * most
           q == p \div w
<1>1. p \in Nat /\ p <= w * most /\ p <= h * w
    OBVIOUS
<1>2. q \in Int /\ w * q <= p /\ p < w * (q + 1)
    BY <1>1
<1>3. q >= 0
    BY <1>1, <1>2
<1>4. w * q <= w * most /\ w * q <= w * h
    BY <1>1, <1>2
<1>5. q <= most /\ q <= h
    BY <1>2, <1>4
<1> QED
    BY <1>2, <1>3, <1>5

(* A picture of any size that is made smaller fits into the longest edge     *)
(* allowed, is still there, no edge grows, and it keeps its shape            *)
(* (images.go).                                                              *)
THEOREM ScaledPicturesFit ==
    ASSUME NEW w \in Nat \ {0}, NEW h \in Nat \ {0}, NEW most \in Nat \ {0}
    PROVE  /\ Scaled(w, h, most)[1] \in 1 .. most /\ Scaled(w, h, most)[2] \in 1 .. most
           /\ Scaled(w, h, most)[1] <= w /\ Scaled(w, h, most)[2] <= h
           /\ w >= h => Scaled(w, h, most)[1] >= Scaled(w, h, most)[2]
<1>1. CASE w <= most /\ h <= most
    BY <1>1 DEF Scaled
<1>2. CASE ~(w <= most /\ h <= most) /\ w >= h
  <2>1. h <= w /\ most <= w
      BY <1>2
  <2>2. (h * most) \div w \in 0 .. most /\ (h * most) \div w <= h
      BY <2>1, InProportion
  <2>3. PICK n : n = IF (h * most) \div w < 1 THEN 1 ELSE (h * most) \div w
      OBVIOUS
  <2>4. n \in 1 .. most /\ n <= h
      BY <2>2, <2>3
  <2>5. Scaled(w, h, most) = <<most, n>>
      BY <1>2, <2>3 DEF Scaled
  <2> QED
      BY <2>1, <2>4, <2>5
<1>3. CASE ~(w <= most /\ h <= most) /\ ~(w >= h)
  <2>1. w <= h /\ most <= h
      BY <1>3
  <2>2. (w * most) \div h \in 0 .. most /\ (w * most) \div h <= w
      BY <2>1, InProportion
  <2>3. PICK n : n = IF (w * most) \div h < 1 THEN 1 ELSE (w * most) \div h
      OBVIOUS
  <2>4. n \in 1 .. most /\ n <= w
      BY <2>2, <2>3
  <2>5. Scaled(w, h, most) = <<n, most>>
      BY <1>3, <2>3 DEF Scaled
  <2> QED
      BY <1>3, <2>1, <2>4, <2>5
<1> QED
    BY <1>1, <1>2, <1>3
===============================================================================
