------------------------------ MODULE RemoteCalls ------------------------------
(***************************************************************************)
(* The calls front ends make on a workspace the service holds: the client  *)
(* that turns app.Backend's methods into calls (internal/client), the      *)
(* handlers (internal/server workspace.go, session.go), and the methods    *)
(* they call (internal/app), between clients that share the workspace.     *)
(* A call may not reach the service, and its reply may be lost.  Replies   *)
(* are told apart by the error they carry; what a turn streams is          *)
(* TurnStream's, pins are ModelPins's and sessions SessionStore's.         *)
(***************************************************************************)
EXTENDS ModelPins, WorkspaceOpening, Naturals, Sequences, SequencesExt, FiniteSets

CONSTANTS Clients,    \* calls at a time
          KeptImages, \* keptImages
          MaxRemote   \* bound: calls made

ASSUME RemoteAssumption == KeptImages \in Nat \ {0} /\ MaxRemote \in Nat

VARIABLES hosted, \* the workspace: active agent, model settings and saved ones, checkpoints, images
          remote, \* the call of each client
          served  \* calls made, images touched, settings as last set, and what happened to them

remoteVars == <<hosted, remote, served>>

-------------------------------------------------------------------------------
(* The errors each method of app.Workspace may return; none: it returns no   *)
(* error.                                                                    *)

SessionErrors ==
    [ListSessions |-> {"plain"}, NewSession |-> {"plain"}, LoadSession |-> {"plain"},
     OpenSession |-> {"Resume", "plain"}, SaveSnapshot |-> {"NoActiveSession", "SnapshotNameTaken", "plain"},
     RenameSession |-> {"NoActiveSession", "plain"}, ActiveSession |-> {}]

ModelErrors ==
    [SetModel |-> {"Canceled", "plain"}, PinModel |-> {"UnknownAgent", "Canceled", "plain"},
     Unpin |-> {"UnknownAgent", "plain"}, ModelSettings |-> {"BadModelRef"}, Set |-> {"InvalidAgency", "UnknownSetting", "plain"},
     Settings |-> {}, Model |-> {}, AllModelSettings |-> {}]

ExtensionErrors ==
    [ListEnvs |-> {"ScriptsDisabled"}, RemoveEnv |-> {"ScriptsDisabled", "plain"}, PruneEnvs |-> {"ScriptsDisabled"},
     ListSkills |-> {}, SearchSkills |-> {}, Skill |-> {"NotFound"}, ListMCPServers |-> {}, ActiveAgentTools |-> {}]

ContextErrors ==
    [SessionUsage |-> {"NoActiveSession"}, Context |-> {"NoActiveSession"},
     Compact |-> {"NoActiveSession", "NothingToCompact", "Canceled", "plain"},
     ReloadMemory |-> {"plain"}, AddMemory |-> {"plain"}, SetLocale |-> {"UnknownLocale"},
     LoadImage |-> {"ImagesDisabled", "plain"}, SearchProvider |-> {"NoFetch"}, SearchWeb |-> {"NoFetch", "NoSearch", "Canceled", "plain"},
     MemoryFiles |-> {}, AvailableLocales |-> {}, SandboxSummary |-> {}, SearchSession |-> {}]

ChangeErrors ==
    [GitDiff |-> {"Canceled", "plain"}, ListCheckpoints |-> {}, SessionDiff |-> {}, ListApprovals |-> {}, RevokeApprovals |-> {},
     ClearApprovals |-> {}]

WorkerErrors ==
    [ListWorkers |-> {"WorkersDisabled", "plain"}, DisableWorker |-> {"UnknownWorker", "plain"},
     EnableWorker |-> {"UnknownWorker", "InvalidWorker", "HashMismatch", "plain"},
     RunWorker |-> {"UnknownWorker", "WorkerNotEnabled", "RunInProgress", "plain"}]

LocalMethods ==
    UNION {DOMAIN SessionErrors, DOMAIN ModelErrors, DOMAIN ExtensionErrors, DOMAIN ContextErrors, DOMAIN ChangeErrors,
           DOMAIN WorkerErrors}

(* Methods that return no error warn of a call that failed. *)
SessionWarned == {"ActiveSession", "SearchSession"}
ModelWarned == {"ListAgents", "Model", "AllModelSettings", "Settings"}
ExtensionWarned == {"ListSkills", "SearchSkills", "Skill", "ListMCPServers", "ActiveAgentTools"}
ContextWarned == {"MemoryFiles", "AvailableLocales", "SandboxSummary"}
ChangeWarned == {"ListCheckpoints", "SessionDiff", "ListApprovals", "RevokeApprovals", "ClearApprovals"}
Warned == SessionWarned \cup ModelWarned \cup ExtensionWarned \cup ContextWarned \cup ChangeWarned

-------------------------------------------------------------------------------
(* toAPI gives an error a reason; fromAPI makes an error of a reason.        *)

(* Server.workspace: also what isn't a directory, or the service stopping, is  *)
(* a workspace that couldn't be opened.                                      *)
Opening == {"WorkspaceBusy", "OpenFailed", "Canceled"}

Reasoned ==
    {"UnknownAgent", "Resume", "InvalidSetting", "UnknownSetting", "PromptBlocked", "InvalidWorker", "NoActiveSession",
     "SnapshotNameTaken", "BadModelRef", "InvalidAgency", "UndoConflict", "ScriptsDisabled", "UnknownLocale",
     "ImagesDisabled", "NoFetch", "NoSearch", "NothingToCompact", "UnknownWorker", "WorkerNotEnabled", "RunInProgress",
     "WorkersDisabled", "HashMismatch"}

Restored ==
    {"UnknownAgent", "Resume", "InvalidSetting", "UnknownSetting", "PromptBlocked", "NoActiveSession", "SnapshotNameTaken",
     "BadModelRef", "InvalidAgency", "UndoConflict", "ScriptsDisabled", "UnknownLocale", "ImagesDisabled", "NoFetch",
     "NoSearch", "NothingToCompact", "WorkspaceBusy", "UnknownWorker", "WorkerNotEnabled", "RunInProgress",
     "WorkersDisabled", "HashMismatch"}

Reason(error) == IF error \in Reasoned THEN error ELSE IF error = "Canceled" THEN "none" ELSE "Internal"

(* LoadSession, GitDiff: any failure has the reason of the call. *)
HandlersReason(method, error) ==
    CASE error = "ok" -> "ok"
      [] method = "LoadSession" /\ error # "ok" -> "SessionNotFound"
      [] method = "GitDiff" /\ error # "ok" -> "GitFailed"
      [] OTHER -> Reason(error)

FromReason(reason) == IF reason = "ok" THEN "ok" ELSE IF reason \in Restored THEN reason ELSE "plain"

-------------------------------------------------------------------------------
AgentNames == <<"main", "other">>
SettingKeys == {"temperature", "seed"}
NoSettings == [k \in SettingKeys |-> 0]

(* A call: its request, what the client got, and what its handler found: the *)
(* agents seen active and those that were so meanwhile, the settings to be   *)
(* saved, and what was restored and told.                                    *)
NoCall ==
    [pc |-> "none", method |-> "none", name |-> "none", key |-> "none", value |-> 0, image |-> 0,
     error |-> "ok", got |-> "ok", warned |-> FALSE, lost |-> FALSE,
     seen |-> <<>>, during |-> {}, new |-> NoSettings, restored |-> "none", told |-> "none"]

RemoteInit ==
    /\ hosted = [active |-> "main", settings |-> NoSettings, file |-> NoSettings, checkpoints |-> 2, images |-> <<>>]
    /\ remote = [c \in Clients |-> NoCall]
    /\ served = [calls |-> 0, touched |-> <<>>, settings |-> NoSettings, beside |-> FALSE, unsaved |-> FALSE]

InCall(c) == remote[c].pc \notin {"none", "done"}
Sends(c, call) ==
    /\ ~InCall(c) /\ served.calls < MaxRemote
    /\ remote' = [remote EXCEPT ![c] = [call EXCEPT !.pc = "sent"]]
    /\ UNCHANGED hosted

(* Calls with no state of their own; bound: alone. *)
CallMethod(c) ==
    /\ served.calls = 0
    /\ \E m \in LocalMethods : Sends(c, [NoCall EXCEPT !.method = m])
    /\ served' = [served EXCEPT !.calls = MaxRemote]

CallAgents(c) ==
    /\ Sends(c, [NoCall EXCEPT !.method = "ListAgents", !.during = {hosted.active}])
    /\ served' = [served EXCEPT !.calls = @ + 1]

CallSetAgent(c) ==
    /\ \E a \in ToSet(AgentNames) \cup {"unknown"} : Sends(c, [NoCall EXCEPT !.method = "SetAgent", !.name = a])
    /\ served' = [served EXCEPT !.calls = @ + 1]

CallUpdate(c) ==
    /\ \E k \in SettingKeys, v \in {1, 9} :
           Sends(c, [NoCall EXCEPT !.method = "UpdateModelSettings", !.key = k, !.value = v])
    /\ served' = [served EXCEPT !.calls = @ + 1,
                                !.beside = @ \/ \E d \in Clients : InCall(d) /\ remote[d].method = "UpdateModelSettings"]

CallUndo(c) ==
    /\ Sends(c, [NoCall EXCEPT !.method = "Undo"])
    /\ served' = [served EXCEPT !.calls = @ + 1]

CallImage(c) ==
    /\ \E m \in {"AddImage", "RunTurn"}, i \in 1 .. KeptImages + 1 : Sends(c, [NoCall EXCEPT !.method = m, !.image = i])
    /\ served' = [served EXCEPT !.calls = @ + 1]

-------------------------------------------------------------------------------
(* The handlers.                                                             *)

Doing(c, pc, method) == remote[c].pc = pc /\ remote[c].method = method
Handled(c, error) == remote' = [remote EXCEPT ![c].pc = "handled", ![c].error = error]

(* Server.workspace. *)
NotOpened(c) ==
    /\ remote[c].pc = "sent" /\ \E e \in Opening : Handled(c, e)
    /\ UNCHANGED <<hosted, served>>

(* A method's result or error, with the workspace as it is. *)
Tells(c, errors) ==
    /\ remote[c].pc = "sent" /\ remote[c].method \in DOMAIN errors
    /\ \E e \in errors[remote[c].method] \cup {"ok"} : Handled(c, e)
    /\ UNCHANGED <<hosted, served>>

HandleSessions(c) == Tells(c, SessionErrors)
HandleModels(c) == Tells(c, ModelErrors)
HandleExtensions(c) == Tells(c, ExtensionErrors)
HandleContext(c) == Tells(c, ContextErrors)
HandleChanges(c) == Tells(c, ChangeErrors)
HandleWorkers(c) == Tells(c, WorkerErrors)

(* One agent after the other, each with whether it is the active one now. *)
ReadAgent(c) ==
    /\ Doing(c, "sent", "ListAgents") /\ Len(remote[c].seen) < Len(AgentNames)
    /\ remote' = [remote EXCEPT ![c].seen = Append(@, AgentNames[Len(@) + 1] = hosted.active)]
    /\ UNCHANGED <<hosted, served>>

AgentsRead(c) ==
    /\ Doing(c, "sent", "ListAgents") /\ Len(remote[c].seen) = Len(AgentNames) /\ Handled(c, "ok")
    /\ UNCHANGED <<hosted, served>>

SetActive(c) ==
    /\ Doing(c, "sent", "SetAgent")
    /\ LET known == remote[c].name \in ToSet(AgentNames)
       IN /\ hosted' = [hosted EXCEPT !.active = IF known THEN remote[c].name ELSE @]
          /\ remote' = [d \in Clients |->
                 IF d = c THEN [remote[c] EXCEPT !.pc = "handled", !.error = IF known THEN "ok" ELSE "UnknownAgent"]
                 ELSE IF Doing(d, "sent", "ListAgents") THEN [remote[d] EXCEPT !.during = @ \cup {hosted'.active}] ELSE remote[d]]
    /\ UNCHANGED served

(* UpdateModelSettings: the settings are read, changed, applied and saved; 9 *)
(* is out of range.                                                          *)
ReadSettings(c) ==
    /\ Doing(c, "sent", "UpdateModelSettings")
    /\ IF remote[c].value = 9 THEN Handled(c, "InvalidSetting")
       ELSE remote' = [remote EXCEPT ![c].pc = "applies",
                                          ![c].new = [hosted.settings EXCEPT ![remote[c].key] = remote[c].value]]
    /\ UNCHANGED <<hosted, served>>

ApplySettings(c) ==
    /\ Doing(c, "applies", "UpdateModelSettings")
    /\ remote' = [remote EXCEPT ![c].pc = "saves"]
    /\ hosted' = [hosted EXCEPT !.settings = remote[c].new]
    /\ served' = [served EXCEPT !.settings[remote[c].key] = remote[c].value]

(* A file that can't be written is told with the change. *)
SaveSettings(c) ==
    /\ Doing(c, "saves", "UpdateModelSettings") /\ Handled(c, "ok")
    /\ \/ hosted' = [hosted EXCEPT !.file = remote[c].new] /\ UNCHANGED served
       \/ served' = [served EXCEPT !.unsaved = TRUE] /\ UNCHANGED hosted

(* Undo: a conflict before anything was restored fails the call; any other   *)
(* error is told with what was restored.                                     *)
UndoTurn(c) ==
    /\ Doing(c, "sent", "Undo")
    /\ \E e \in {"ok", "UndoConflict", "plain"}, r \in {"none", "some", "all"} :
           /\ e = "ok" <=> r = "all"
           /\ hosted.checkpoints = 0 => e = "plain" /\ r = "none"
           /\ hosted' = [hosted EXCEPT !.checkpoints = IF r = "all" THEN @ - 1 ELSE @]
           /\ remote' = [remote EXCEPT ![c].pc = "handled", ![c].error = e, ![c].restored = r,
                                       ![c].told = IF e = "UndoConflict" /\ r = "none" THEN "none" ELSE r]
    /\ UNCHANGED served

(* keepImage, image: the last ones used are kept, each once. *)
Touched(images, i) ==
    Append(IF i \in ToSet(images) THEN RemoveAt(images, CHOOSE p \in DOMAIN images : images[p] = i) ELSE images, i)

KeepImage(c) ==
    /\ Doing(c, "sent", "AddImage")
    /\ LET images == Touched(hosted.images, remote[c].image)
       IN hosted' = [hosted EXCEPT !.images = IF Len(images) > KeptImages THEN Tail(images) ELSE images]
    /\ served' = [served EXCEPT !.touched = Append(@, remote[c].image)]
    /\ Handled(c, "ok")

UseImage(c) ==
    /\ Doing(c, "sent", "RunTurn")
    /\ IF remote[c].image \in ToSet(hosted.images)
       THEN /\ hosted' = [hosted EXCEPT !.images = Touched(@, remote[c].image)]
            /\ served' = [served EXCEPT !.touched = Append(@, remote[c].image)]
            /\ \E e \in {"ok", "PromptBlocked"} : Handled(c, e)
       ELSE Handled(c, "UnknownImage") /\ UNCHANGED <<hosted, served>>

-------------------------------------------------------------------------------
(* The client.                                                               *)

Got(c, e, lost) ==
    /\ remote' = [remote EXCEPT ![c].pc = "done", ![c].got = IF remote[c].method \in Warned THEN "ok" ELSE e,
                                ![c].warned = e # "ok" /\ remote[c].method \in Warned /\ remote[c].error # "NotFound",
                                ![c].lost = lost]
    /\ UNCHANGED <<hosted, served>>

(* The reply, with the reason of the call's or of the turn's error. *)
Replied(c) ==
    /\ remote[c].pc = "handled"
    /\ Got(c, FromReason(IF remote[c].error \in Opening THEN remote[c].error ELSE HandlersReason(remote[c].method, remote[c].error)),
           FALSE)

LostReply(c) == InCall(c) /\ remote[c].pc \in {"sent", "handled"} /\ Got(c, "plain", TRUE)

RemoteNext ==
    \E c \in Clients :
        \/ CallMethod(c) \/ CallAgents(c) \/ CallSetAgent(c) \/ CallUpdate(c) \/ CallUndo(c) \/ CallImage(c)
        \/ NotOpened(c) \/ HandleSessions(c) \/ HandleModels(c) \/ HandleExtensions(c) \/ HandleContext(c)
        \/ HandleChanges(c) \/ HandleWorkers(c) \/ ReadAgent(c) \/ AgentsRead(c) \/ SetActive(c)
        \/ ReadSettings(c) \/ ApplySettings(c) \/ SaveSettings(c) \/ UndoTurn(c) \/ KeepImage(c) \/ UseImage(c)
        \/ Replied(c) \/ LostReply(c)

RemoteSpec == RemoteInit /\ [][RemoteNext]_remoteVars

-------------------------------------------------------------------------------
RemoteTypeOK ==
    /\ hosted.active \in ToSet(AgentNames) /\ hosted.checkpoints \in 0 .. 2
    /\ hosted.settings \in [SettingKeys -> 0 .. 1] /\ hosted.file \in [SettingKeys -> 0 .. 1]
    /\ Len(hosted.images) <= KeptImages
    /\ \A c \in Clients : remote[c].pc \in {"none", "sent", "applies", "saves", "handled", "done"}
    /\ served.calls \in 0 .. MaxRemote

(* "front ends handle a remote workspace's results exactly like a local      *)
(* one's" (client/convert.go:17-18): an error is never taken for a result,   *)
(* app's typed errors arrive as themselves, and what can't return one warns. *)
(* Only a cancelled call, an invalid worker and what fails with the reason   *)
(* of its call arrive without a type.                                        *)
Untyped == {"plain", "Canceled", "InvalidWorker", "UnknownImage"} \cup (Opening \ {"WorkspaceBusy"})
ErrorsKept ==
    \A c \in Clients :
        remote[c].pc = "done" /\ ~remote[c].lost =>
            LET e == remote[c].error
            IN IF remote[c].method \in Warned THEN remote[c].warned <=> e \notin {"ok", "NotFound"}
               ELSE remote[c].got = IF e \in Untyped \/ (e # "ok" /\ e \notin Opening /\ remote[c].method \in {"LoadSession", "GitDiff"})
                                    THEN "plain" ELSE e

(* What clients do beside each other: an agent told to be active was so      *)
(* while they asked, and exactly one unless another was set meanwhile; a     *)
(* change of settings is kept, and saved, unless two calls change them at    *)
(* the same time; what an undo restored is told also when it failed half     *)
(* way (server/workspace.go:334-340); and an image can be used until         *)
(* KeptImages others were (server.go:204-227).                               *)
SharedSoundly ==
    /\ \A c \in Clients : remote[c].pc = "done" /\ ~remote[c].lost /\ remote[c].method = "ListAgents" /\ remote[c].error = "ok" =>
           LET told == {AgentNames[i] : i \in {j \in DOMAIN remote[c].seen : remote[c].seen[j]}}
           IN told \subseteq remote[c].during /\ (Cardinality(told) = 1 \/ Cardinality(remote[c].during) > 1)
    /\ ~served.beside => hosted.settings = served.settings
    /\ ~served.beside /\ ~served.unsaved /\ (\A c \in Clients : remote[c].pc # "saves") => hosted.file = hosted.settings
    /\ \A c \in Clients : remote[c].pc = "done" /\ ~remote[c].lost /\ remote[c].method = "Undo" => remote[c].told = remote[c].restored
    /\ ToSet(hosted.images) =
           {i \in ToSet(served.touched) :
               \E n \in DOMAIN served.touched :
                   served.touched[n] = i /\ Cardinality(ToSet(SubSeq(served.touched, n, Len(served.touched)))) <= KeptImages}

RemoteAsLocal == ErrorsKept /\ SharedSoundly

-------------------------------------------------------------------------------
(***************************************************************************)
(* Services that start and stop over one socket path (internal/server/     *)
(* listen.go Listen and Serve, cmd/blitz/serve.go runServe), and a program *)
(* that attaches to the one that answers or works by itself                *)
(* (cmd/blitz/setup.go openBackend).  A path names the socket of the       *)
(* service that made it, which answers while it listens.  A process may be *)
(* killed at any point.                                                    *)
(***************************************************************************)

CONSTANTS Services, \* starts of the service
          NoService

ASSUME SocketAssumption == NoService \notin Services

VARIABLES service, \* what each start does
          socket,  \* the service whose socket the path names
          beside,  \* what else started or stopped when a service listened
          program  \* the program's backend

socketVars == <<service, socket, beside, program>>

SocketInit ==
    /\ service = [s \in Services |-> "off"]
    /\ socket = NoService
    /\ beside = [s \in Services |-> {}]
    /\ program = [pc |-> "off", service |-> NoService]

Starting(s) == service[s] \in {"looks", "asks", "removes", "binds"}
Listening(s) == service[s] \in {"restricts", "serves"}
Stopping(s) == service[s] \in {"waits", "cleans"}

(* Running: the path answers, also before its service accepts. *)
AnswersThere == socket # NoService /\ Listening(socket)

Moves(s, from, to) == service[s] = from /\ service' = [service EXCEPT ![s] = to]
Same == UNCHANGED <<socket, beside, program>>

-------------------------------------------------------------------------------
(* Listen. *)

BeginService(s) == Moves(s, "off", "looks") /\ Same

LooksUp(s) == Moves(s, "looks", IF socket = NoService THEN "binds" ELSE "asks") /\ Same

(* Only a socket that doesn't answer is replaced; and any. *)
AsksNone == "removes"
AsksFirst == IF AnswersThere THEN "refused" ELSE "removes"

AsksSocket(s) == Moves(s, "asks", AsksFirst) /\ Same

(* Removing what is gone already is an error. *)
RemovesStale(s) ==
    /\ Moves(s, "removes", IF socket = NoService THEN "refused" ELSE "binds")
    /\ socket' = NoService
    /\ UNCHANGED <<beside, program>>

(* The path must be free. *)
Binds(s) ==
    /\ Moves(s, "binds", IF socket = NoService THEN "restricts" ELSE "refused")
    /\ socket' = IF socket = NoService THEN s ELSE socket
    /\ beside' = [beside EXCEPT ![s] = {t \in Services \ {s} : Starting(t) \/ Stopping(t)}]
    /\ UNCHANGED program

Restricts(s) == Moves(s, "restricts", "serves") /\ Same

-------------------------------------------------------------------------------
(* Serve: Shutdown closes the listener, which removes its path, waits for    *)
(* the calls in progress, and runServe removes the path once more.           *)

Shutdown(s) ==
    /\ Moves(s, "serves", "waits")
    /\ socket' = NoService
    /\ UNCHANGED <<beside, program>>

CallsDone(s) == Moves(s, "waits", "cleans") /\ Same

Cleans(s) ==
    /\ Moves(s, "cleans", "gone")
    /\ socket' = NoService
    /\ UNCHANGED <<beside, program>>

(* What is killed leaves its path. *)
Killed(s) ==
    /\ service[s] \notin {"off", "refused", "gone"}
    /\ service' = [service EXCEPT ![s] = "gone"]
    /\ Same

-------------------------------------------------------------------------------
(* openBackend: asks, and then attaches; a service gone in between is an     *)
(* error.  Later calls go to whoever has the path.                           *)

Probes ==
    /\ program.pc = "off"
    /\ program' = [program EXCEPT !.pc = IF AnswersThere THEN "attaching" ELSE "alone"]
    /\ UNCHANGED <<service, socket, beside>>

Attaches ==
    /\ program.pc = "attaching"
    /\ program' = IF AnswersThere THEN [pc |-> "attached", service |-> socket] ELSE [program EXCEPT !.pc = "failed"]
    /\ UNCHANGED <<service, socket, beside>>

SocketNext ==
    \/ \E s \in Services :
           \/ BeginService(s) \/ LooksUp(s) \/ AsksSocket(s) \/ RemovesStale(s) \/ Binds(s) \/ Restricts(s)
           \/ Shutdown(s) \/ CallsDone(s) \/ Cleans(s) \/ Killed(s)
    \/ Probes \/ Attaches

SocketSpec == SocketInit /\ [][SocketNext]_socketVars

-------------------------------------------------------------------------------
SocketTypeOK ==
    /\ service \in [Services -> {"off", "looks", "asks", "removes", "binds", "restricts", "serves", "waits", "cleans",
                                 "refused", "gone"}]
    /\ socket \in Services \cup {NoService}
    /\ beside \in [Services -> SUBSET Services]
    /\ program.pc \in {"off", "attaching", "alone", "attached", "failed"}

(* "It refuses when a service already answers there, and replaces a socket   *)
(* left by one that died" (server/listen.go:34-36): services that start      *)
(* after another has its path, or has died, stay reachable until they stop   *)
(* and are the only ones; only a start beside another start or stop takes a  *)
(* path away.  What answers is never a service that was refused.             *)
StartedApart(s) == beside[s] = {}
StaysReachable ==
    /\ (\A t \in Services : StartedApart(t)) =>
           /\ \A s \in Services : Listening(s) => socket = s
           /\ Cardinality({s \in Services : Listening(s)}) <= 1
    /\ program.pc = "attached" => service[program.service] \notin {"off", "looks", "asks", "removes", "binds", "refused"}

(* What a front end is told is the workspace's, whether it has the workspace *)
(* or shares the one service that has it; and one at a time has it.          *)
ServedAlike == PinsKept /\ StaysReachable /\ RemoteAsLocal /\ OpenedAlone
===============================================================================
