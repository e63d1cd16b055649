------------------------------ MODULE MCPServers ------------------------------
(***************************************************************************)
(* MCP servers as the agents see them (internal/tools/mcp.go): every model *)
(* call lists the tools of the servers offered to its agent, each behind   *)
(* a breaker; the manager remembers which server owns a tool name, and a   *)
(* call is approved under the owner's name and then run by the tool that   *)
(* was listed.  Agents (the primary one, sub-agents, worker runs) overlap, *)
(* and a server may list other tools every time.                           *)
(***************************************************************************)
EXTENDS Breaker, FiniteSets, Naturals

CONSTANTS Agents,     \* agents that may list and call at once
          Servers,
          ToolNames,  \* names tools are exposed under
          Reserved,   \* those of built-in tools
          NoServer

ASSUME McpAssumption == NoServer \notin Servers

VARIABLES serverHealth, \* each server's breaker
          owner,        \* the server that serves a name
          agent         \* each agent's place, the tools offered to it and what it was asked

mcpVars == <<serverHealth, owner, agent>>

AgentAtRest == [pc |-> "idle", server |-> NoServer, name |-> {}, asked |-> NoServer, trial |-> FALSE,
                offered |-> {}]

McpInit ==
    /\ serverHealth = [s \in Servers |-> New]
    /\ owner = [n \in ToolNames |-> NoServer]
    /\ agent = [a \in Agents |-> AgentAtRest]

OffersNothing(a, s) == {t \in agent[a].offered : t[1] # s}

Outcome(a, verdict) == serverHealth' = [serverHealth EXCEPT ![agent[a].server] = verdict]

-------------------------------------------------------------------------------
(* recordingToolset.Tools. *)

ListTools(a, s) ==
    /\ agent[a].pc = "idle"
    /\ IF Allows(serverHealth[s])
       THEN /\ agent' = [agent EXCEPT ![a].pc = "listing", ![a].server = s, ![a].trial = serverHealth[s].open]
            /\ serverHealth' = [serverHealth EXCEPT ![s] = Allowed(@)]
       ELSE /\ agent' = [agent EXCEPT ![a].offered = OffersNothing(a, s)]
            /\ UNCHANGED serverHealth
    /\ UNCHANGED owner

(* No answer, or the turn was cancelled: either way a failure. *)
ListFails(a) ==
    /\ agent[a].pc = "listing"
    /\ agent' = [agent EXCEPT ![a].pc = "idle", ![a].trial = FALSE,
                              ![a].offered = OffersNothing(a, agent[a].server)]
    /\ Outcome(a, Failure(serverHealth[agent[a].server]))
    /\ UNCHANGED owner

ListAnswers(a, names) ==
    /\ agent[a].pc = "listing"
    /\ agent' = [agent EXCEPT ![a].pc = "recording", ![a].trial = FALSE, ![a].name = names]
    /\ Outcome(a, Success(serverHealth[agent[a].server]))
    /\ UNCHANGED owner

(* The names a server may take: not a built-in's, not another server's. *)
TakesAny(s, names) == names \ Reserved
Takes(s, names) == {n \in names \ Reserved : owner[n] \in {s, NoServer}}

Record(a) ==
    LET s == agent[a].server
        taken == Takes(s, agent[a].name)
    IN /\ agent[a].pc = "recording"
       /\ owner' = [n \in ToolNames |-> IF n \in taken THEN s ELSE owner[n]]
       /\ agent' = [agent EXCEPT ![a].pc = "idle", ![a].name = {},
                                 ![a].offered = OffersNothing(a, s) \cup {<<s, n>> : n \in taken}]
       /\ UNCHANGED serverHealth

-------------------------------------------------------------------------------
(* A tool call: ApproveMCP and managedTool.Run. *)

Approve(a, t) ==
    /\ agent[a].pc = "idle" /\ t \in agent[a].offered
    /\ agent' = [agent EXCEPT ![a].pc = "asking", ![a].server = t[1], ![a].name = {t[2]},
                              ![a].asked = owner[t[2]]]
    /\ UNCHANGED <<serverHealth, owner>>

Returned(a) == agent' = [agent EXCEPT ![a] = [AgentAtRest EXCEPT !.offered = agent[a].offered]]

Denied(a) == agent[a].pc = "asking" /\ Returned(a) /\ UNCHANGED <<serverHealth, owner>>

Run(a) ==
    LET s == agent[a].server IN
    /\ agent[a].pc = "asking"
    /\ IF Allows(serverHealth[s])
       THEN /\ agent' = [agent EXCEPT ![a].pc = "calling", ![a].trial = serverHealth[s].open]
            /\ serverHealth' = [serverHealth EXCEPT ![s] = Allowed(@)]
       ELSE Returned(a) /\ UNCHANGED serverHealth
    /\ UNCHANGED owner

(* A result or the tool's own error; a timeout or a call that didn't reach   *)
(* the server, cancelled calls among them.                                   *)
RunEnds(a) ==
    LET b == serverHealth[agent[a].server] IN
    /\ agent[a].pc = "calling"
    /\ Returned(a)
    /\ \E verdict \in {Success(b), Failure(b)} : Outcome(a, verdict)
    /\ UNCHANGED owner

ServerTick ==
    /\ \E s \in Servers : serverHealth[s].left > 0
    /\ serverHealth' = [s \in Servers |-> Elapsed(serverHealth[s])]
    /\ UNCHANGED <<owner, agent>>

McpNext ==
    \/ ServerTick
    \/ \E a \in Agents :
        \/ ListFails(a) \/ Record(a) \/ Denied(a) \/ Run(a) \/ RunEnds(a)
        \/ \E s \in Servers : ListTools(a, s)
        \/ \E names \in SUBSET ToolNames : ListAnswers(a, names)
        \/ \E t \in agent[a].offered : Approve(a, t)

McpSpec == McpInit /\ [][McpNext]_mcpVars

-------------------------------------------------------------------------------
McpTypeOK ==
    /\ serverHealth \in [Servers -> Breakers]
    /\ owner \in [ToolNames -> Servers \cup {NoServer}]
    /\ \A a \in Agents : agent[a].offered \subseteq Servers \X ToolNames

(* The user is asked about the server that will run the call, and no tool    *)
(* shadows a built-in one, however the servers' lists change and overlap     *)
(* (mcp.go:388-412 and 534-541).                                             *)
AskedAboutRunner ==
    \A a \in Agents :
        /\ agent[a].pc \in {"asking", "calling"} => agent[a].asked = agent[a].server
        /\ \A t \in agent[a].offered : t[2] \notin Reserved

(* A server isn't paused for good: a breaker with its trial out has a call   *)
(* or a listing that will report the outcome (mcp.go:366-374 and 447-466).   *)
ServerTrialsReport ==
    \A s \in Servers : serverHealth[s].trial =>
        \E a \in Agents : agent[a].server = s /\ agent[a].trial /\ agent[a].pc \in {"listing", "calling"}

(* A call is about the server the user was asked about, and leaves it usable. *)
ServersUsable == AskedAboutRunner /\ ServerTrialsReport

-------------------------------------------------------------------------------
(***************************************************************************)
(* The connection to one stdio MCP server (stdioTransport inside           *)
(* closingTransport, internal/tools/mcp.go): every Connect starts a new    *)
(* server process and kills the previous one, and MCPManager.Close ends    *)
(* what is connected and refuses the rest.  The library's toolset connects *)
(* lazily, one Connect at a time, and again after the server died; Close   *)
(* comes at any point of it.                                               *)
(*                                                                         *)
(* Each step of Connect and of Close holds at most one of the two locks.   *)
(***************************************************************************)

CONSTANTS MaxServers \* bound: server processes ever started

ASSUME TransportAssumption == MaxServers \in Nat

VARIABLES server,     \* what has become of each server process
          cur,        \* stdioTransport.cur, 0 for nil
          conns,      \* the connections closingTransport remembers
          refuses,    \* closingTransport is closed
          connecting, \* where the Connect under way is
          latest,     \* the command it builds
          closing     \* MCPManager.Close: its place and the connections it took

transportVars == <<server, cur, conns, refuses, connecting, latest, closing>>

Commands == 1 .. MaxServers

TransportInit ==
    /\ server = [c \in Commands |-> "none"]
    /\ cur = 0 /\ conns = {} /\ refuses = FALSE
    /\ connecting = "no" /\ latest = 0
    /\ closing = [pc |-> "open", took |-> {}]

(* stopProcess: a command that wasn't started yet has no process to kill.    *)
Stopped(c) == IF c # 0 /\ server[c] = "running" THEN [server EXCEPT ![c] = "dead"] ELSE server

-------------------------------------------------------------------------------
(* Connect. *)

Build ==
    /\ connecting = "no" /\ latest < MaxServers
    /\ latest' = latest + 1
    /\ cur' = latest'
    /\ server' = Stopped(cur)
    /\ connecting' = "built"
    /\ UNCHANGED <<conns, refuses, closing>>

StartServer ==
    /\ connecting = "built"
    /\ \/ /\ server' = [server EXCEPT ![latest] = "running"]
          /\ connecting' = "started"
       \/ connecting' = "no" /\ UNCHANGED server
    /\ UNCHANGED <<cur, conns, refuses, latest, closing>>

RegisterAlways ==
    /\ connecting = "started"
    /\ conns' = conns \cup {latest} /\ UNCHANGED server
    /\ connecting' = "no"
    /\ UNCHANGED <<cur, refuses, latest, closing>>

(* A connection made after Close is closed, which ends its server. *)
Register ==
    /\ connecting = "started"
    /\ IF refuses
       THEN server' = [server EXCEPT ![latest] = "dead"] /\ UNCHANGED conns
       ELSE conns' = conns \cup {latest} /\ UNCHANGED server
    /\ connecting' = "no"
    /\ UNCHANGED <<cur, refuses, latest, closing>>

(* The server dies by itself. *)
ServerDies(c) ==
    /\ server[c] = "running"
    /\ server' = [server EXCEPT ![c] = "dead"]
    /\ UNCHANGED <<cur, conns, refuses, connecting, latest, closing>>

(* The library gives up a connection before it makes another one. *)
ConnClosed(c) ==
    /\ connecting = "no" /\ c \in conns
    /\ conns' = conns \ {c}
    /\ server' = [server EXCEPT ![c] = "dead"]
    /\ UNCHANGED <<cur, refuses, connecting, latest, closing>>

-------------------------------------------------------------------------------
(* MCPManager.Close: the connections first, then the current process. *)

TakeConns ==
    /\ closing.pc = "open"
    /\ refuses' = TRUE
    /\ conns' = {}
    /\ closing' = [pc |-> "taken", took |-> conns]
    /\ UNCHANGED <<server, cur, connecting, latest>>

CloseConns ==
    /\ closing.pc = "taken"
    /\ server' = [c \in Commands |-> IF c \in closing.took THEN "dead" ELSE server[c]]
    /\ closing' = [pc |-> "stdio", took |-> {}]
    /\ UNCHANGED <<cur, conns, refuses, connecting, latest>>

CloseProcess ==
    /\ closing.pc = "stdio"
    /\ server' = Stopped(cur)
    /\ cur' = 0
    /\ closing' = [closing EXCEPT !.pc = "closed"]
    /\ UNCHANGED <<conns, refuses, connecting, latest>>

TransportNext ==
    \/ Build \/ StartServer \/ Register
    \/ TakeConns \/ CloseConns \/ CloseProcess
    \/ \E c \in Commands : ServerDies(c) \/ ConnClosed(c)

TransportSpec == TransportInit /\ [][TransportNext]_transportVars

-------------------------------------------------------------------------------
TransportTypeOK ==
    /\ server \in [Commands -> {"none", "running", "dead"}]
    /\ cur \in 0 .. latest
    /\ conns \subseteq 1 .. latest
    /\ connecting \in {"no", "built", "started"}

(* Between connects at most one server process runs, and after Close none:   *)
(* also one whose Connect was under way, before its process existed for      *)
(* Close to kill (mcp.go:81-101 and 118-150, 340-352).                       *)
ServersEnd ==
    connecting = "no" =>
        LET running == {c \in Commands : server[c] = "running"}
        IN IF closing.pc = "closed" THEN running = {} ELSE Cardinality(running) <= 1

(* A server that fails is paused and tried again, for every agent, and ends   *)
(* with the last that closes it.                                             *)
ServersKept == ServersUsable /\ ServersEnd
===============================================================================
