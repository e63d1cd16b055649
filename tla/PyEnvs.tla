-------------------------------- MODULE PyEnvs --------------------------------
(***************************************************************************)
(* The Python environments of skill scripts (internal/tools/pyenv.go).     *)
(* One environment is modelled: a directory with a virtual environment,    *)
(* its packages and, written last, a marker that says it is complete.      *)
(* Every open workspace has a manager of its own over the one directory    *)
(* ~/.blitz/envs, with a lock of its own for each environment; a step here *)
(* is one change of the directory, under the lock of its manager.          *)
(***************************************************************************)
EXTENDS Naturals, FiniteSets

CONSTANTS Scripts,   \* scripts that need the environment, and calls of Remove
          Managers,  \* PyEnvs objects
          NoScript,  \* a lock that is free
          MaxCuts    \* bound: builds and removals cut short by the end of the process

ASSUME EnvAssumption == NoScript \notin Scripts

VARIABLES env,      \* what is in the directory: parts of {"dir", "venv", "packages", "marker"}
          envLock,  \* who holds each manager's lock
          script,   \* each call: its place, its manager, and whether it was given a whole environment
          cuts,     \* builds and removals cut short so far
          spoiled   \* a removal was cut short, or failed

envVars == <<env, envLock, script, cuts, spoiled>>

Whole == {"dir", "venv", "packages", "marker"}

Unused(m) == [pc |-> "idle", manager |-> m, whole |-> FALSE]

EnvInit ==
    /\ env = {} /\ cuts = 0 /\ spoiled = FALSE
    /\ envLock = [m \in Managers |-> NoScript]
    /\ script \in [Scripts -> {Unused(m) : m \in Managers}]

Holds(s) == envLock[script[s].manager] = s

Release(s) == envLock' = [envLock EXCEPT ![script[s].manager] = NoScript]

Goes(s, pc) == script' = [script EXCEPT ![s].pc = pc]

(* The place a call goes on from once it has the lock: read finds a marker,  *)
(* or whatever is there is an interrupted build.                             *)
ReadDir == IF "dir" \in env THEN "touching" ELSE "clearing"
ReadMarker == IF "marker" \in env THEN "touching" ELSE "clearing"

LockEnv(s, pc) ==
    /\ script[s].pc = "idle" /\ envLock[script[s].manager] = NoScript
    /\ envLock' = [envLock EXCEPT ![script[s].manager] = s]
    /\ Goes(s, pc)
    /\ UNCHANGED <<env, cuts, spoiled>>

Ensure(s) == LockEnv(s, ReadMarker)

RemoveEnv(s) == LockEnv(s, "removing")

(* RemoveAll removes the entries one by one in no order, the directory last. *)
RemoveEntry(s) ==
    /\ script[s].pc \in {"clearing", "removing", "cleaning"} /\ env # {}
    /\ \E x \in (IF env = {"dir"} THEN env ELSE env \ {"dir"}) : env' = env \ {x}
    /\ UNCHANGED <<envLock, script, cuts, spoiled>>

Cleared(s) ==
    /\ script[s].pc = "clearing" /\ env = {}
    /\ Goes(s, "making")
    /\ UNCHANGED <<env, envLock, cuts, spoiled>>

Made(s) ==
    /\ script[s].pc = "making"
    /\ env' = env \cup {"dir"}
    /\ Goes(s, "venv")
    /\ UNCHANGED <<envLock, cuts, spoiled>>

(* A step of the build works in the directory, and the install needs the     *)
(* virtual environment's interpreter.                                        *)
Builds(s, from, needs, part, to) ==
    /\ script[s].pc = from /\ needs \in env
    /\ env' = env \cup {part}
    /\ Goes(s, to)
    /\ UNCHANGED <<envLock, cuts, spoiled>>

MakeVenv(s) == Builds(s, "venv", "dir", "venv", "packages")
Install(s) == Builds(s, "packages", "venv", "packages", "marker")
WriteMarker(s) == Builds(s, "marker", "dir", "marker", "touching")

BuildFails(s) ==
    /\ script[s].pc \in {"venv", "packages", "marker"}
    /\ Goes(s, "cleaning")
    /\ UNCHANGED <<env, envLock, cuts, spoiled>>

(* The use is written into the marker, its failure ignored; the call returns *)
(* and the script runs.                                                      *)
Touch(s) ==
    /\ script[s].pc = "touching"
    /\ env' = IF "dir" \in env THEN env \cup {"marker"} ELSE env
    /\ script' = [script EXCEPT ![s].pc = "using", ![s].whole = env' = Whole]
    /\ Release(s)
    /\ UNCHANGED <<cuts, spoiled>>

ScriptEnds(s) ==
    /\ script[s].pc = "using"
    /\ script' = [script EXCEPT ![s] = Unused(@.manager)]
    /\ UNCHANGED <<env, envLock, cuts, spoiled>>

(* Removed; or an entry can't be, an error of the call, which ends.          *)
RemoveReturns(s) ==
    /\ \/ script[s].pc \in {"removing", "cleaning"} /\ env = {} /\ UNCHANGED <<cuts, spoiled>>
       \/ /\ script[s].pc \in {"clearing", "removing", "cleaning"} /\ env # {}
          /\ cuts < MaxCuts /\ cuts' = cuts + 1
          /\ spoiled' = (spoiled \/ script[s].pc = "removing")
    /\ Goes(s, "idle")
    /\ Release(s)
    /\ UNCHANGED env

(* The process ends: calls are gone, and what they were removing is spoiled. *)
EndProcess ==
    /\ cuts < MaxCuts
    /\ cuts' = cuts + 1
    /\ script' = [s \in Scripts |-> Unused(script[s].manager)]
    /\ envLock' = [m \in Managers |-> NoScript]
    /\ spoiled' = (spoiled \/ \E s \in Scripts : script[s].pc = "removing")
    /\ UNCHANGED env

EnvNext ==
    \/ EndProcess
    \/ \E s \in Scripts :
        \/ Ensure(s) \/ RemoveEnv(s) \/ RemoveEntry(s) \/ RemoveReturns(s)
        \/ Cleared(s) \/ Made(s) \/ MakeVenv(s) \/ Install(s) \/ WriteMarker(s) \/ BuildFails(s)
        \/ Touch(s) \/ ScriptEnds(s)

EnvSpec == EnvInit /\ [][EnvNext]_envVars

-------------------------------------------------------------------------------
EnvTypeOK ==
    /\ env \subseteq Whole /\ (env # {} => "dir" \in env)
    /\ \A m \in Managers : envLock[m] # NoScript => script[envLock[m]].manager = m
    /\ \A s \in Scripts : script[s].pc \notin {"idle", "using"} => Holds(s)

(* "only used once its marker file is written, so an interrupted build is     *)
(* rebuilt rather than used" (pyenv.go:27-28): a script is given an           *)
(* environment with all its packages, whatever was cut short before.          *)
UsedWhole == \A s \in Scripts : script[s].pc = "using" => script[s].whole

(* The same, as far as it goes: a removal that was cut short may have left    *)
(* the marker (pyenv.go:132-160 and 245-256).                                 *)
UsedWholeUnlessSpoiled == spoiled \/ UsedWhole
===============================================================================
