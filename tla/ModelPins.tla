------------------------------- MODULE ModelPins -------------------------------
(***************************************************************************)
(* Which agent answers and which model each agent runs on: the engine's    *)
(* settings, the runner built from them (internal/runtime/engine.go), the  *)
(* calls that pin an agent to a model (internal/app/models.go) and the     *)
(* config file that keeps the pins (internal/config).  Calls of several    *)
(* clients overlap: the engine's lock covers each change of the engine,    *)
(* and nothing covers the edit of the file.                                *)
(*                                                                         *)
(* `unsure` are the agents whose pin is, by what the code doesn't protect  *)
(* or by a failure it reports, no longer known to be on file.              *)
(***************************************************************************)
EXTENDS FiniteSets

CONSTANTS PinCallers,   \* calls of PinModel and Unpin that may overlap
          PinAgents,    \* agents
          Chosen,       \* bound: those the user makes the active one
          OwnDefault,   \* those that declare a default_model
          Refs,         \* models a user may name
          NoRef         \* no pin

ASSUME PinAssumption == NoRef \notin Refs

VARIABLES engine,  \* the active agent, the model of unpinned agents, the pins
          runner,  \* the settings the runner was built from
          pinFile, \* [agent_models] of the config file
          pinCall, \* each call: its place, agent and model, and the file it read
          unsure

pinVars == <<engine, runner, pinFile, pinCall, unsure>>

PinIdle == [pc |-> "idle", agent |-> NoRef, ref |-> NoRef, doc |-> NoRef]

Busy(a) == \E c \in PinCallers : pinCall[c].pc # "idle" /\ pinCall[c].agent = a

(* agentModelRefs: a pin wins over the agent's own default. *)
RefsFrom(file) ==
    [a \in PinAgents |-> IF file[a] = NoRef /\ a \in OwnDefault THEN "own" ELSE file[a]]

Opened(file) == [active |-> "blitz", model |-> "configured", pins |-> RefsFrom(file)]

PinInit ==
    /\ pinFile = [a \in PinAgents |-> NoRef]
    /\ engine = Opened(pinFile) /\ runner = engine
    /\ pinCall = [c \in PinCallers |-> PinIdle]
    /\ unsure = {}

-------------------------------------------------------------------------------
(* The engine: each change holds its lock and builds a new runner, and is    *)
(* taken back when that fails.                                               *)

KeptOnFailure(set) == engine' = set
TakenBack(set) == UNCHANGED engine

Rebuilds(set) == engine' = set /\ runner' = set
RebuildFails(set) == TakenBack(set) /\ UNCHANGED runner

SetActiveAgent(a) ==
    /\ LET set == [engine EXCEPT !.active = a] IN Rebuilds(set) \/ RebuildFails(set)
    /\ UNCHANGED <<pinFile, pinCall, unsure>>

SetModel(ref) ==
    /\ LET set == [engine EXCEPT !.model = ref] IN Rebuilds(set) \/ RebuildFails(set)
    /\ UNCHANGED <<pinFile, pinCall, unsure>>

-------------------------------------------------------------------------------
(* PinModel and Unpin: the engine, and only then the file.                   *)

(* Two calls about one agent may do the two in different orders.             *)
Begin(c, a, ref, pc) ==
    /\ pinCall[c].pc = "idle"
    /\ pinCall' = [pinCall EXCEPT ![c] = [pc |-> pc, agent |-> a, ref |-> ref, doc |-> NoRef]]
    /\ unsure' = IF Busy(a) THEN unsure \cup {a} ELSE unsure
    /\ UNCHANGED <<engine, runner, pinFile>>

Pin(c, a, ref) == Begin(c, a, ref, "pin")
Unpin(c, a) == Begin(c, a, NoRef, "unpin")

To(c, pc) == pinCall' = [pinCall EXCEPT ![c] = IF pc = "idle" THEN PinIdle ELSE [@ EXCEPT !.pc = pc]]

Pinned(c, ref) == [engine EXCEPT !.pins[pinCall[c].agent] = ref]

EnginePins(c) ==
    /\ pinCall[c].pc = "pin"
    /\ LET set == Pinned(c, pinCall[c].ref)
       IN \/ Rebuilds(set) /\ To(c, "saving")
          \/ RebuildFails(set) /\ To(c, "idle")
    /\ UNCHANGED <<pinFile, unsure>>

(* An agent that isn't pinned needs no rebuild. *)
EngineUnpins(c) ==
    /\ pinCall[c].pc = "unpin"
    /\ LET set == Pinned(c, NoRef)
           next == IF pinCall[c].agent \in OwnDefault THEN "default" ELSE "saving"
       IN \/ (IF set = engine THEN UNCHANGED <<engine, runner>> ELSE Rebuilds(set)) /\ To(c, next)
          \/ set # engine /\ RebuildFails(set) /\ To(c, "idle")
    /\ UNCHANGED <<pinFile, unsure>>

(* When its own default can't be had the call fails half done: the pin is    *)
(* gone from the engine and still in the file.                               *)
PinDefault(c) ==
    /\ pinCall[c].pc = "default"
    /\ LET set == Pinned(c, "own")
       IN \/ Rebuilds(set) /\ To(c, "saving") /\ UNCHANGED unsure
          \/ RebuildFails(set) /\ To(c, "idle") /\ unsure' = unsure \cup {pinCall[c].agent}
    /\ UNCHANGED pinFile

(* editConfigFile: the file is read, and replaced whole; a change made to it *)
(* in between is lost.  A failure is reported, and the pin applies.          *)
ReadConfig(c) ==
    /\ pinCall[c].pc = "saving"
    /\ pinCall' = [pinCall EXCEPT ![c].pc = "replacing", ![c].doc = pinFile]
    /\ UNCHANGED <<engine, runner, pinFile, unsure>>

ReplaceConfig(c) ==
    /\ pinCall[c].pc = "replacing"
    /\ LET call == pinCall[c]
           lost == {a \in PinAgents \ {call.agent} : pinFile[a] # call.doc[a]}
       IN \/ /\ pinFile' = [call.doc EXCEPT ![call.agent] = call.ref]
             /\ unsure' = unsure \cup lost
          \/ unsure' = unsure \cup {call.agent} /\ UNCHANGED pinFile
    /\ To(c, "idle")
    /\ UNCHANGED <<engine, runner>>

(* The workspace is closed and opened again; a pin whose model can't be had  *)
(* is left out.                                                              *)
Reopen ==
    /\ \A c \in PinCallers : pinCall[c].pc = "idle"
    /\ \E missing \in SUBSET PinAgents :
          /\ engine' = [Opened(pinFile) EXCEPT
                           !.pins = [a \in PinAgents |-> IF a \in missing THEN NoRef ELSE RefsFrom(pinFile)[a]]]
          /\ unsure' = missing
    /\ runner' = engine'
    /\ UNCHANGED <<pinFile, pinCall>>

PinNext ==
    \/ \E a \in Chosen : SetActiveAgent(a)
    \/ \E ref \in Refs : SetModel(ref)
    \/ Reopen
    \/ \E c \in PinCallers :
          \/ \E a \in PinAgents : Unpin(c, a) \/ \E ref \in Refs : Pin(c, a, ref)
          \/ EnginePins(c) \/ EngineUnpins(c) \/ PinDefault(c) \/ ReadConfig(c) \/ ReplaceConfig(c)

PinSpec == PinInit /\ [][PinNext]_pinVars

-------------------------------------------------------------------------------
Models == Refs \cup {NoRef, "own"}

PinTypeOK ==
    /\ engine.active \in Chosen \cup {"blitz"} /\ engine.model \in Refs \cup {"configured"}
    /\ engine.pins \in [PinAgents -> Models]
    /\ pinFile \in [PinAgents -> Refs \cup {NoRef}]
    /\ \A c \in PinCallers :
          pinCall[c].pc \in {"idle", "pin", "unpin", "default", "saving", "replacing"}
    /\ unsure \subseteq PinAgents

(* What the engine says it runs is what its runner was built from, whichever *)
(* change failed half way (engine.go:192-292).                               *)
EngineWhole == runner = engine

(* An agent that no call is about runs, after the next opening too, on what  *)
(* the file says: a pin that was refused isn't saved and one that was        *)
(* applied is, whatever other calls did to the file, unless one of them      *)
(* overlapped it or a failure was reported (models.go:131-176).              *)
PinsOnFile == \A a \in PinAgents \ unsure : Busy(a) \/ engine.pins[a] = RefsFrom(pinFile)[a]

PinsKept == EngineWhole /\ PinsOnFile
===============================================================================
