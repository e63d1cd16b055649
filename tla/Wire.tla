--------------------------------- MODULE Wire ---------------------------------
(***************************************************************************)
(* What crosses between a front end and the service that has its workspace *)
(* (internal/server, internal/client): the values of internal/app, field   *)
(* by field, and the answers to approvals.  Calls and their errors are     *)
(* RemoteCalls's, the events of a turn TurnStream's.                       *)
(***************************************************************************)
EXTENDS Integers, FiniteSets, TLC

(* Values are converted to the API's messages (server/convert.go,            *)
(* server/worker.go) and back (client/convert.go, client/workers.go).  A     *)
(* value stands for those the conversion tells apart.                        *)

CONSTANT MaxInt \* math.MaxInt32

ASSUME WireAssumption == MaxInt \in Nat \ {0}

VARIABLE crossing \* the field that crosses: of which type, under which name, its value, and what was sent

wireVars == <<crossing>>

(* The types of internal/app, with their fields. *)
SessionTypes ==
    [SessionInfo |-> {"ID", "Title", "Agent", "Workspace", "Snapshot", "From", "MessageCount", "Created", "Updated", "Messages"},
     Message |-> {"Role", "Text", "Time"}]

ModelTypes ==
    [AgentInfo |-> {"Name", "DisplayName", "Description", "Active", "PinnedModel"}, Saved |-> {"Path", "Err"},
     ModelSettingsInfo |-> {"Model", "Provider", "Settings", "GlobalTemperature", "GlobalMaxTokens"}]

SettingTypes == [ModelSettings |-> {"Temperature", "MaxTokens", "TopP", "Seed"}]

UsageTypes == [Usage |-> {"Calls", "Input", "Cached", "CacheWrite", "Output", "LastPrompt", "CostUSD", "Priced"}]

SkillTypes ==
    [SkillInfo |-> {"Name", "Description", "Version", "License", "Category", "Compatibility", "Tags", "Hash", "Tools", "Scripts",
                    "Tier", "Bypass", "Network", "NeedsNetwork", "Env", "Withheld", "Blocked"},
     SkillTool |-> {"Name", "Scopes", "Why"},
     SkillScript |-> {"Name", "Language", "Source", "Timeout", "Deps", "Allowed", "Reasons"}]

ImageTypes == [Image |-> {"Name", "Data", "MIME", "Width", "Height", "SHA256", "OriginalBytes", "Resized", "Size"}]

ApprovalTypes == [Approval |-> {"Key", "Kind", "Subject", "Dir", "Always", "Added"}]

RequestTypes == [ApprovalRequest |-> {"Tool", "Kind", "Detail", "Diff", "Key", "KeyLabel", "Targets"}]

EventTypes ==
    [Text |-> {"Text", "Partial", "Repeat", "Thought"}, ToolCall |-> {"ID", "Name", "Args", "Partial"},
     ToolResult |-> {"ID", "Name", "Result"}]

WorkerTypes ==
    [WorkerInfo |-> {"Workspace", "Name", "Description", "Path", "Hash", "State", "Schedule", "Cron", "Timezone", "Next", "Agent",
                     "Model", "CatchUp", "Permissions", "Limits", "Problems"}]

LimitTypes == [Limits |-> {"MaxTurns", "MaxCostUSD", "Timeout", "TimeoutRaw"}]

RunTypes ==
    [Run |-> {"ID", "Workspace", "Worker", "Hash", "Status", "Manual", "Started", "Duration", "CostUSD", "Calls", "SessionID",
              "Refusals", "Error"},
     Refusal |-> {"Tool", "Kind", "Detail", "Time"}]

AppTypes ==
    SessionTypes @@ ModelTypes @@ SettingTypes @@ UsageTypes @@ SkillTypes @@ ImageTypes @@ ApprovalTypes @@ RequestTypes
        @@ EventTypes @@ WorkerTypes @@ LimitTypes @@ RunTypes

(* What each conversion writes: the field on the left, from the one on the   *)
(* right; most have one name on both sides.                                  *)
AsNamed(fields) == [f \in fields |-> f]

SentSession ==
    [SessionInfo |-> "Id" :> "ID" @@ AsNamed({"Title", "Agent", "Workspace", "Snapshot", "From", "MessageCount", "Created",
                                              "Updated", "Messages"}),
     Message |-> AsNamed({"Role", "Text", "Time"})]

SentUsage ==
    [Usage |-> "CostUsd" :> "CostUSD" @@ AsNamed({"Calls", "Input", "Cached", "CacheWrite", "Output", "LastPrompt", "Priced"})]

SentModels ==
    [Saved |-> "Path" :> "Path" @@ "Error" :> "Err",
     AgentInfo |-> AsNamed({"Name", "DisplayName", "Description", "Active", "PinnedModel"}),
     ModelSettings |-> AsNamed({"Temperature", "TopP", "MaxTokens", "Seed"}),
     ModelSettingsInfo |-> AsNamed({"Model", "Provider", "Settings", "GlobalTemperature", "GlobalMaxTokens"})]

SentSkill ==
    [SkillInfo |-> AsNamed({"Name", "Description", "Version", "License", "Category", "Compatibility", "Tags", "Hash", "Tier",
                            "Bypass", "Network", "NeedsNetwork", "Env", "Withheld", "Blocked", "Tools", "Scripts"}),
     SkillTool |-> AsNamed({"Name", "Scopes", "Why"}),
     SkillScript |-> AsNamed({"Name", "Language", "Source", "Timeout", "Deps", "Allowed", "Reasons"})]

SentImage ==
    [Image |-> "Id" :> "SHA256" @@ "MimeType" :> "MIME" @@ "Size" :> "Data" @@ AsNamed({"Name", "Width", "Height", "Resized"})]

SentApproval == [Approval |-> AsNamed({"Key", "Kind", "Subject", "Dir", "Always", "Added"})]

SentRequest == [ApprovalRequest |-> "ScopeLabel" :> "KeyLabel" @@ AsNamed({"Tool", "Kind", "Detail", "Diff"})]

SentEvent ==
    [Text |-> AsNamed({"Text", "Partial", "Repeat", "Thought"}), ToolCall |-> "Id" :> "ID" @@ AsNamed({"Name", "Args", "Partial"}),
     ToolResult |-> "Id" :> "ID" @@ AsNamed({"Name", "Result"})]

SentWorker ==
    [WorkerInfo |-> "NextRun" :> "Next" @@ AsNamed({"Workspace", "Name", "Description", "Path", "Hash", "State", "Schedule", "Cron",
                                                    "Timezone", "Agent", "Model", "Permissions", "Limits", "Problems"}),
     Limits |-> "MaxCostUsd" :> "MaxCostUSD" @@ AsNamed({"MaxTurns", "Timeout"})]

SentRun ==
    [Run |-> "Id" :> "ID" @@ "SessionId" :> "SessionID" @@ "CostUsd" :> "CostUSD"
                 @@ AsNamed({"Workspace", "Worker", "Hash", "Status", "Manual", "Started", "Duration", "Calls", "Refusals", "Error"}),
     Refusal |-> AsNamed({"Tool", "Kind", "Detail", "Time"})]

Sent ==
    SentSession @@ SentUsage @@ SentModels @@ SentSkill @@ SentImage @@ SentApproval @@ SentRequest @@ SentEvent @@ SentWorker
        @@ SentRun

ReadSession ==
    [SessionInfo |-> "ID" :> "Id" @@ AsNamed({"Title", "Agent", "Workspace", "Snapshot", "From", "MessageCount", "Created",
                                              "Updated", "Messages"}),
     Message |-> AsNamed({"Role", "Text", "Time"})]

ReadModels ==
    [Saved |-> "Path" :> "Path" @@ "Err" :> "Error",
     AgentInfo |-> AsNamed({"Name", "DisplayName", "Description", "Active", "PinnedModel"}),
     ModelSettings |-> AsNamed({"Temperature", "TopP", "MaxTokens", "Seed"}),
     ModelSettingsInfo |-> AsNamed({"Model", "Provider", "Settings", "GlobalTemperature", "GlobalMaxTokens"}),
     Usage |-> "CostUSD" :> "CostUsd" @@ AsNamed({"Calls", "Input", "Cached", "CacheWrite", "Output", "LastPrompt", "Priced"})]

ReadSkill ==
    [SkillInfo |-> AsNamed({"Name", "Description", "Version", "License", "Category", "Compatibility", "Tags", "Hash", "Tier",
                            "Bypass", "Network", "NeedsNetwork", "Env", "Withheld", "Blocked", "Tools", "Scripts"}),
     SkillTool |-> AsNamed({"Name", "Scopes", "Why"}),
     SkillScript |-> AsNamed({"Name", "Language", "Source", "Timeout", "Deps", "Allowed", "Reasons"})]

ReadImage ==
    [Image |-> "SHA256" :> "Id" @@ "MIME" :> "MimeType" @@ AsNamed({"Name", "Width", "Height", "Size", "Resized"})]

ReadApproval == [Approval |-> AsNamed({"Key", "Kind", "Subject", "Dir", "Always", "Added"})]

ReadRequest == [ApprovalRequest |-> "KeyLabel" :> "ScopeLabel" @@ AsNamed({"Tool", "Kind", "Detail", "Diff"})]

ReadEvent ==
    [Text |-> AsNamed({"Text", "Partial", "Repeat", "Thought"}), ToolCall |-> "ID" :> "Id" @@ AsNamed({"Name", "Args", "Partial"}),
     ToolResult |-> "ID" :> "Id" @@ AsNamed({"Name", "Result"})]

ReadWorker ==
    [WorkerInfo |-> "Next" :> "NextRun" @@ AsNamed({"Workspace", "Name", "Description", "Path", "Hash", "State", "Schedule", "Cron",
                                                    "Timezone", "Agent", "Model", "Permissions", "Limits", "Problems"}),
     Limits |-> "MaxCostUSD" :> "MaxCostUsd" @@ AsNamed({"MaxTurns", "Timeout"})]

ReadRun ==
    [Run |-> "ID" :> "Id" @@ "SessionID" :> "SessionId" @@ "CostUSD" :> "CostUsd"
                 @@ AsNamed({"Workspace", "Worker", "Hash", "Status", "Manual", "Started", "Duration", "Calls", "Refusals", "Error"}),
     Refusal |-> AsNamed({"Tool", "Kind", "Detail", "Time"})]

Read == ReadSession @@ ReadModels @@ ReadSkill @@ ReadImage @@ ReadApproval @@ ReadRequest @@ ReadEvent @@ ReadWorker @@ ReadRun

-------------------------------------------------------------------------------
(* What each conversion does to a value. *)

Kind(t, f) ==
    CASE f \in {"MessageCount", "Calls", "MaxTurns", "GlobalMaxTokens", "Width", "Height"} -> "whole"
      [] f \in {"MaxTokens", "Seed"} -> "optional"
      [] f \in {"Created", "Updated", "Time", "Added", "Next", "Started"} -> "instant"
      [] f \in {"Args", "Result"} -> "object"
      [] f = "Kind" /\ t # "Approval" -> "action"
      [] f = "State" -> "state"
      [] f = "Status" -> "status"
      [] OTHER -> "plain"

(* The values of each kind: optional numbers may be left out, 0 is the time  *)
(* that isn't set, and an object may hold what JSON can't carry.             *)
FieldValues ==
    [whole |-> 0 .. MaxInt + 1, optional |-> {{}} \cup {{n} : n \in -(MaxInt + 1) .. MaxInt + 1}, instant |-> {0, 1},
     object |-> {"nil", "values", "unfit"}, plain |-> {"nothing", "something"},
     action |-> {"run_command", "write_file", "delete_file", "network", "mcp_tool"},
     state |-> {"new", "enabled", "disabled", "changed", "invalid"},
     status |-> {"running", "succeeded", "failed", "limited", "skipped"}]

Int32(n) == ((n + MaxInt + 1) % (2 * (MaxInt + 1))) - (MaxInt + 1)

Timestamp(t) == {t} \ {0}
TimeOf(m) == IF m = {} THEN 0 ELSE CHOOSE t \in m : TRUE

StructMsg(v) == IF v = "values" THEN v ELSE "nil"
AsMap(m) == IF m = "nil" THEN "no values" ELSE m

(* The API's names of actions, states and statuses, and what each is read as. *)
ActionNames ==
    [run_command |-> "COMMAND", write_file |-> "WRITE", delete_file |-> "DELETE", network |-> "NETWORK", mcp_tool |-> "MCP"]
ActionsRead ==
    [COMMAND |-> "run_command", WRITE |-> "write_file", DELETE |-> "delete_file", NETWORK |-> "network", MCP |-> "mcp_tool"]

StateNames ==
    "new" :> "NEW" @@ "enabled" :> "ENABLED" @@ "disabled" :> "DISABLED" @@ "changed" :> "CHANGED" @@ "invalid" :> "INVALID"
StatesRead ==
    "NEW" :> "new" @@ "ENABLED" :> "enabled" @@ "DISABLED" :> "disabled" @@ "CHANGED" :> "changed" @@ "INVALID" :> "invalid"

StatusNames ==
    [running |-> "RUNNING", succeeded |-> "SUCCEEDED", failed |-> "FAILED", limited |-> "LIMITED", skipped |-> "SKIPPED"]
StatusesRead ==
    [RUNNING |-> "running", SUCCEEDED |-> "succeeded", FAILED |-> "failed", LIMITED |-> "limited", SKIPPED |-> "skipped"]

Named(names, v, none) == IF v \in DOMAIN names THEN names[v] ELSE none

ToMessage(kind, v) ==
    CASE kind = "whole" -> Int32(v)
      [] kind = "optional" -> {Int32(n) : n \in v}
      [] kind = "instant" -> Timestamp(v)
      [] kind = "object" -> StructMsg(v)
      [] kind = "action" -> Named(ActionNames, v, "UNSPECIFIED")
      [] kind = "state" -> Named(StateNames, v, "UNSPECIFIED")
      [] kind = "status" -> Named(StatusNames, v, "UNSPECIFIED")
      [] kind = "plain" -> v

FromMessage(kind, m) ==
    CASE kind = "instant" -> TimeOf(m)
      [] kind = "object" -> AsMap(m)
      [] kind = "action" -> Named(ActionsRead, m, "")
      [] kind = "state" -> Named(StatesRead, m, "")
      [] kind = "status" -> Named(StatusesRead, m, "")
      [] kind \in {"whole", "optional", "plain"} -> m

(* An idle wire; "at" says how far the field has come. *)
NothingCrosses == [type |-> "Saved", field |-> "Path", as |-> "Path", at |-> "idle", sent |-> "nothing", value |-> "nothing"]

WireInit == crossing = NothingCrosses

SendsField(t, f) ==
    /\ crossing.at = "idle"
    /\ \E v \in FieldValues[Kind(t, f)] :
           crossing' = [type |-> t, field |-> f, as |-> f, at |-> "app", sent |-> v, value |-> v]

(* The fields of a message take the app's, and those of the front end the    *)
(* message's; a field that no one takes stays behind.                        *)
Crosses(at, next, table, convert(_)) ==
    /\ crossing.at = at
    /\ LET to == {g \in DOMAIN table[crossing.type] : table[crossing.type][g] = crossing.as} IN
       crossing' = IF to = {} THEN [crossing EXCEPT !.at = "left"]
                   ELSE [crossing EXCEPT !.at = next, !.as = CHOOSE g \in to : TRUE, !.value = convert(@)]

ServiceConverts ==
    LET convert(v) == ToMessage(Kind(crossing.type, crossing.field), v) IN Crosses("app", "message", Sent, convert)

ClientConverts ==
    LET convert(v) == FromMessage(Kind(crossing.type, crossing.field), v) IN Crosses("message", "arrived", Read, convert)

WireNext == (\E t \in DOMAIN AppTypes : \E f \in AppTypes[t] : SendsField(t, f)) \/ ServiceConverts \/ ClientConverts

WireSpec == WireInit /\ [][WireNext]_wireVars

WireTypeOK ==
    /\ crossing.type \in DOMAIN AppTypes
    /\ crossing.field \in AppTypes[crossing.type]
    /\ crossing.at \in {"idle", "app", "message", "arrived", "left"}
    /\ crossing.sent \in FieldValues[Kind(crossing.type, crossing.field)]

(* "So front ends handle a remote workspace's results exactly like a local   *)
(* one's" (client/convert.go:16-18): a field arrives in the field it was     *)
(* taken from, with its value, if its number fits the API's 32 bits and its  *)
(* object JSON; an object that doesn't arrives without values.  Only a       *)
(* picture's bytes stay with the service, and their number arrives as its    *)
(* size; and these fields no front end is given.                             *)
StaysBehind ==
    {<<"Image", "OriginalBytes">>, <<"Image", "Size">>, <<"Limits", "TimeoutRaw">>, <<"WorkerInfo", "CatchUp">>,
     <<"ApprovalRequest", "Key">>, <<"ApprovalRequest", "Targets">>}

Fits ==
    LET kind == Kind(crossing.type, crossing.field) IN
    /\ kind = "whole" => crossing.sent <= MaxInt
    /\ kind = "optional" => \A n \in crossing.sent : n <= MaxInt
    /\ kind = "object" => crossing.sent = "values"

ArrivesAsSent ==
    /\ crossing.at = "arrived" =>
           /\ crossing.as = IF crossing.type = "Image" /\ crossing.field = "Data" THEN "Size" ELSE crossing.field
           /\ IF Fits THEN crossing.value = crossing.sent
              ELSE Kind(crossing.type, crossing.field) = "object" => crossing.value = "no values"
    /\ crossing.at = "left" => <<crossing.type, crossing.field>> \in StaysBehind

-------------------------------------------------------------------------------
(* The answers to an approval: the terminal of the front end asks            *)
(* (tui/input.go), whether the workspace is its own or the service's; the    *)
(* request then crosses, and the decision the other way.                     *)

CONSTANT DiffLines \* [ui] diff_lines

ASSUME AnswersAssumption == DiffLines \in Nat \ {0}

VARIABLE question \* the request, as the tool and as the front end has it, what was typed and decided

answerVars == <<question>>

NoQuestion ==
    [pc |-> "idle", remote |-> FALSE, key |-> FALSE, keyShown |-> FALSE, lines |-> 0, seen |-> 0, typed |-> "", decision |-> "deny"]

AnswersInit == question = NoQuestion

(* How many lines of a diff are shown; 0 shows all. *)
RenderDiff(lines, max) == IF max > 0 /\ lines > max THEN max ELSE lines

(* The request of a tool: with a key that session and always approvals are   *)
(* for, or without.                                                          *)
AsksApproval(remote, key, lines) ==
    /\ question.pc = "idle"
    /\ question' = [NoQuestion EXCEPT !.pc = IF remote THEN "crosses" ELSE "shown", !.remote = remote, !.key = key,
                                         !.keyShown = key /\ ~remote, !.lines = lines,
                                         !.seen = IF remote THEN 0 ELSE RenderDiff(lines, DiffLines)]

(* Whether the front end is given a field of the request. *)
Given(f) ==
    \E g \in DOMAIN Sent.ApprovalRequest :
        Sent.ApprovalRequest[g] = f /\ f \in DOMAIN Read.ApprovalRequest /\ Read.ApprovalRequest[f] = g

RequestCrosses ==
    /\ question.pc = "crosses"
    /\ question' = [question EXCEPT !.pc = "shown", !.keyShown = question.key /\ Given("Key"),
                                     !.seen = RenderDiff(question.lines, DiffLines)]

Truncated == question.lines > DiffLines

DecisionTyped(typed) ==
    CASE typed = "y" -> "once"
      [] typed = "s" /\ question.keyShown -> "session"
      [] typed = "a" /\ question.keyShown -> "always"
      [] OTHER -> "deny"

ShowsWholeDiff ==
    /\ question.pc = "shown" /\ Truncated
    /\ question' = [question EXCEPT !.seen = RenderDiff(question.lines, 0)]

(* What is typed, or nothing where the input fails. *)
TypesAnswer(typed) ==
    /\ question.pc = "shown"
    /\ ~(typed = "d" /\ Truncated)
    /\ question' = [question EXCEPT !.pc = IF question.remote THEN "answered" ELSE "settled", !.typed = typed,
                                     !.decision = DecisionTyped(typed)]

DecisionMsg(d) == Named([once |-> "ONCE", session |-> "SESSION", always |-> "ALWAYS"], d, "DENY")

(* A slip the checks must notice: any answer but a longer one is a yes. *)
DecisionAnyway(m) == Named([SESSION |-> "session", ALWAYS |-> "always"], m, "once")
Decision(m) == Named([ONCE |-> "once", SESSION |-> "session", ALWAYS |-> "always"], m, "deny")

DecisionCrosses ==
    /\ question.pc = "answered"
    /\ question' = [question EXCEPT !.pc = "settled", !.decision = Decision(DecisionMsg(question.decision))]

AnswersTyped == {"y", "s", "a", "d", "n", ""}

AnswersNext ==
    \/ \E remote, key \in BOOLEAN, lines \in 0 .. DiffLines + 1 : AsksApproval(remote, key, lines)
    \/ RequestCrosses \/ ShowsWholeDiff \/ DecisionCrosses
    \/ \E typed \in AnswersTyped : TypesAnswer(typed)

AnswersSpec == AnswersInit /\ [][AnswersNext]_answerVars

AnswersTypeOK ==
    question \in [pc : {"idle", "crosses", "shown", "answered", "settled"}, remote : BOOLEAN, key : BOOLEAN, keyShown : BOOLEAN,
                  lines : 0 .. DiffLines + 1, seen : 0 .. DiffLines + 1, typed : AnswersTyped,
                  decision : {"deny", "once", "session", "always"}]

(* "Anything other than an explicit yes is a denial" (tui/input.go:140-141), *)
(* also when the answer crosses to the service: the tool is told what was    *)
(* typed or that it's denied, and an approval for longer than once only      *)
(* where its request has a key to keep it under.                             *)
AnswersMeant ==
    question.pc = "settled" =>
        /\ question.decision = "once" <=> question.typed = "y"
        /\ question.decision = "session" => question.typed = "s" /\ question.key
        /\ question.decision = "always" => question.typed = "a" /\ question.key
        /\ ~question.remote /\ question.key =>
               /\ question.typed = "s" => question.decision = "session"
               /\ question.typed = "a" => question.decision = "always"

(* What crosses arrives, and an answer means what was typed. *)
CrossesWhole == ArrivesAsSent /\ AnswersMeant

(* "Answers: y once, s for the rest of the session, a always" (README.md:159) *)
(* and "so front ends handle a remote workspace's results exactly like a      *)
(* local one's" (client/convert.go:16-18): whoever asks, s and a are taken    *)
(* for what they say.                                                         *)
AnswersKept ==
    question.pc = "settled" /\ question.key =>
        /\ question.typed = "s" => question.decision = "session"
        /\ question.typed = "a" => question.decision = "always"
===============================================================================
