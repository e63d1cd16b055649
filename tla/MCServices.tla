------------------------------ MODULE MCServices ------------------------------
(***************************************************************************)
(* The parts of the service that share no state with one another, checked  *)
(* side by side: `part` says which of them moves in a behaviour, and the   *)
(* others stay as they began.                                              *)
(***************************************************************************)
EXTENDS SessionStore, EventStore, Processes, MCPServers, Schedules, AgentLoop, PyEnvs, LogSink, TerminalInput,
        Wire, Fallback, ModelPins, CommandPolicy, WorkerRun, ScriptTools,
        TurnStream, WebAccess, RemoteCalls, Repl, PatchApply, ConfigFile, ModelCalls, Searches, PictureStore, WorkspaceOpening,
        Discovery, TLC

VARIABLE part

Parts == {"sessions", "events", "processes", "hooks", "servers", "transports",
          "runs", "schedules", "compaction", "loop", "envs", "log", "lines", "keys", "pins", "policy",
          "worker", "phrases", "skills", "stream", "messages",
          "web", "forge", "socket", "remote", "repl", "patches", "config", "calls", "searches", "pictures", "opening", "discovery", "listing",
          "fallback", "wire", "answers", "oneshot", "shell"}

serviceVars == <<sessionVars, eventVars, processVars, hookVars, mcpVars, transportVars,
                 runVars, scheduleVars, compactionVars, loopVars, envVars,
                 logVars, lineVars, keyVars, pinVars, policyVars, workerVars, phraseVars,
                 skillVars, streamVars, messageVars, webVars, forgeVars, socketVars, remoteVars, replVars, patchVars, configVars, callVars, searchVars, picVars, openVars, discoveryVars, listVars,
                 fallbackVars, wireVars, answerVars, shotVars, shellVars, part>>

ServicesInit ==
    /\ part \in Parts
    /\ part # "schedules" => content = NoHash \* one beginning for the others
    /\ part # "policy" => policy = NoLists
    /\ part # "worker" => definition = NoLimits
    /\ part # "phrases" => phrase = Hourly
    /\ part # "skills" => skill = Defaults
    /\ part # "web" => webConfig = NoDomains
    /\ part # "repl" => attached = {}
    /\ part # "oneshot" => line = PlainStart
    /\ part # "shell" => ordered = PlainOrder
    /\ SessionInit /\ EventsInit /\ ProcessInit /\ HookInit /\ McpInit /\ TransportInit
    /\ RunInit /\ ScheduleInit /\ CompactionInit /\ LoopInit /\ EnvInit
    /\ LogInit /\ LineInit /\ KeyInit /\ PinInit /\ PolicyInit
    /\ WorkerInit /\ PhraseInit /\ SkillInit /\ StreamInit /\ MessagesInit
    /\ WebInit /\ ForgeInit /\ SocketInit /\ RemoteInit /\ ReplInit /\ PatchInit /\ ConfigInit /\ CallInit /\ SearchInit /\ PicInit /\ OpeningInit /\ DiscoveryInit /\ ListInit
    /\ FallbackInit /\ WireInit /\ AnswersInit /\ ShotInit /\ ShellInit

(* All but the named part stay as they are. *)
Alone(name) ==
    /\ part = name
    /\ UNCHANGED part
    /\ name # "sessions" => UNCHANGED sessionVars
    /\ name # "events" => UNCHANGED eventVars
    /\ name # "processes" => UNCHANGED processVars
    /\ name # "hooks" => UNCHANGED hookVars
    /\ name # "servers" => UNCHANGED mcpVars
    /\ name # "transports" => UNCHANGED transportVars
    /\ name # "runs" => UNCHANGED runVars
    /\ name # "schedules" => UNCHANGED scheduleVars
    /\ name # "compaction" => UNCHANGED compactionVars
    /\ name # "loop" => UNCHANGED loopVars
    /\ name # "envs" => UNCHANGED envVars
    /\ name # "log" => UNCHANGED logVars
    /\ name # "lines" => UNCHANGED lineVars
    /\ name # "keys" => UNCHANGED keyVars
    /\ name # "pins" => UNCHANGED pinVars
    /\ name # "policy" => UNCHANGED policyVars
    /\ name # "worker" => UNCHANGED workerVars
    /\ name # "phrases" => UNCHANGED phraseVars
    /\ name # "skills" => UNCHANGED skillVars
    /\ name # "stream" => UNCHANGED streamVars
    /\ name # "messages" => UNCHANGED messageVars
    /\ name # "web" => UNCHANGED webVars
    /\ name # "forge" => UNCHANGED forgeVars
    /\ name # "socket" => UNCHANGED socketVars
    /\ name # "remote" => UNCHANGED remoteVars
    /\ name # "repl" => UNCHANGED replVars
    /\ name # "patches" => UNCHANGED patchVars
    /\ name # "config" => UNCHANGED configVars
    /\ name # "calls" => UNCHANGED callVars
    /\ name # "searches" => UNCHANGED searchVars
    /\ name # "pictures" => UNCHANGED picVars
    /\ name # "opening" => UNCHANGED openVars
    /\ name # "discovery" => UNCHANGED discoveryVars
    /\ name # "listing" => UNCHANGED listVars
    /\ name # "fallback" => UNCHANGED fallbackVars
    /\ name # "wire" => UNCHANGED wireVars
    /\ name # "answers" => UNCHANGED answerVars
    /\ name # "oneshot" => UNCHANGED shotVars
    /\ name # "shell" => UNCHANGED shellVars

ServicesNext ==
    \/ Alone("sessions") /\ SessionNext
    \/ Alone("events") /\ EventsNext
    \/ Alone("processes") /\ ProcessNext
    \/ Alone("hooks") /\ HookNext
    \/ Alone("servers") /\ McpNext
    \/ Alone("transports") /\ TransportNext
    \/ Alone("runs") /\ RunNext
    \/ Alone("schedules") /\ ScheduleNext
    \/ Alone("compaction") /\ CompactionNext
    \/ Alone("loop") /\ LoopNext
    \/ Alone("envs") /\ EnvNext
    \/ Alone("log") /\ LogNext
    \/ Alone("lines") /\ LineNext
    \/ Alone("keys") /\ KeyNext
    \/ Alone("pins") /\ PinNext
    \/ Alone("policy") /\ PolicyNext
    \/ Alone("worker") /\ WorkerRunNext
    \/ Alone("phrases") /\ PhraseNext
    \/ Alone("skills") /\ SkillNext
    \/ Alone("stream") /\ StreamNext
    \/ Alone("messages") /\ MessagesNext
    \/ Alone("web") /\ WebNext
    \/ Alone("forge") /\ ForgeNext
    \/ Alone("socket") /\ SocketNext
    \/ Alone("remote") /\ RemoteNext
    \/ Alone("repl") /\ ReplNext
    \/ Alone("patches") /\ PatchNext
    \/ Alone("config") /\ ConfigNext
    \/ Alone("calls") /\ CallsNext
    \/ Alone("searches") /\ SearchNext
    \/ Alone("pictures") /\ PicNext
    \/ Alone("opening") /\ OpeningNext
    \/ Alone("discovery") /\ DiscoveryNext
    \/ Alone("listing") /\ ListNext
    \/ Alone("fallback") /\ FallbackNext
    \/ Alone("wire") /\ WireNext
    \/ Alone("answers") /\ AnswersNext
    \/ Alone("oneshot") /\ ShotNext
    \/ Alone("shell") /\ ShellNext

ServicesSpec == ServicesInit /\ [][ServicesNext]_serviceVars

(* A part's state is of interest in its own behaviours. *)
In(name, P) == part = name => P

(* Every part's variables have their types. *)
ServicesTypeOK ==
    /\ In("sessions", SessionTypeOK) /\ In("listing", ListTypeOK) /\ In("events", EventsTypeOK)
    /\ In("processes", ProcessTypeOK) /\ In("hooks", HookTypeOK)
    /\ In("servers", McpTypeOK) /\ In("transports", TransportTypeOK)
    /\ In("runs", RunTypeOK) /\ In("schedules", ScheduleTypeOK) /\ In("phrases", PhraseTypeOK)
    /\ In("worker", WorkerRunTypeOK) /\ In("compaction", CompactionTypeOK) /\ In("loop", LoopTypeOK)
    /\ In("envs", EnvTypeOK) /\ In("log", LogTypeOK) /\ In("lines", LineTypeOK) /\ In("keys", KeyTypeOK)
    /\ In("pins", PinTypeOK) /\ In("policy", PolicyTypeOK) /\ In("skills", SkillTypeOK)
    /\ In("stream", StreamTypeOK) /\ In("messages", MessagesTypeOK) /\ In("web", WebTypeOK)
    /\ In("forge", ForgeTypeOK) /\ In("socket", SocketTypeOK) /\ In("remote", RemoteTypeOK)
    /\ In("repl", ReplTypeOK) /\ In("patches", PatchTypeOK) /\ In("config", ConfigTypeOK)
    /\ In("calls", CallTypeOK) /\ In("searches", SearchTypeOK) /\ In("pictures", PicTypeOK)
    /\ In("opening", OpeningTypeOK) /\ In("discovery", DiscoveryTypeOK)
    /\ In("fallback", FallbackTypeOK) /\ In("wire", WireTypeOK) /\ In("answers", AnswersTypeOK)
    /\ In("oneshot", ShotTypeOK) /\ In("shell", ShellTypeOK)

(* What is written down is done as it is written: a worker runs at the times *)
(* its definition says, a patch lands, an edit of the configuration file     *)
(* changes that setting alone, agents, skills, workers, instructions and     *)
(* servers are found by what their files define, and a command is run, asked *)
(* about or refused as the lists of commands say.                            *)
DoneAsWritten ==
    /\ In("phrases", PhrasesMeant) /\ In("patches", PatchLands)
    /\ In("config", ConfigEdited) /\ In("discovery", FoundTruly) /\ In("policy", PolicySound)

(* What the model is sent is the conversation, whole where it is short and   *)
(* its beginning summarised where it isn't, with the settings of the model   *)
(* asked, what its searches find, of the files and of the web, and the       *)
(* pictures; its answers are charged and kept where they belong, and the     *)
(* list of sessions shows what was kept.                                     *)
ConversationKept ==
    /\ In("compaction", CompactionKeeps) /\ In("messages", SentInTurn) /\ In("calls", CallsAccounted)
    /\ In("searches", SearchesSound) /\ In("web", ResultsAllowed) /\ In("pictures", PicturesKept) /\ In("listing", SessionsListed)

(* Callers of one kind are alike, and so are contents and servers.  The same  *)
(* two names stand for the callers of every part, as only one part moves.    *)
Symmetry == Permutations(Storages) \cup Permutations(Scanners)
===============================================================================
