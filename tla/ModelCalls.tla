------------------------------- MODULE ModelCalls -------------------------------
(***************************************************************************)
(* The model calls of an engine (internal/runtime): the turn of a session, *)
(* the sub-agents it runs and the questions asked beside it each go to a   *)
(* chain of models, every one of which is sent its own settings; what      *)
(* comes back is written to the session or nowhere, told to the user when  *)
(* another model than the first answers, and charged.                      *)
(*                                                                         *)
(* A setting is named by the model it was made for.  When a model fails,   *)
(* which version it says it is and whether it says what the call cost is   *)
(* left open; the breakers of the chain are in Fallback.                   *)
(***************************************************************************)
EXTENDS Naturals, Sequences, FiniteSets, Functions

CONSTANTS Runs,        \* turns, sub-agents and questions that may overlap
          CallSessions,
          CallModels,  \* models by name
          SpareModel,  \* llm.fallback_models: one of them
          Paid,        \* models with a price in [pricing]
          SeedTakers,  \* models of a provider whose API has a seed
          NoModel,
          MaxAnswers,  \* bound: answers
          MaxSettings  \* bound: changes of settings and of the model

ASSUME ModelAssumption == SpareModel \in CallModels /\ SeedTakers \subseteq CallModels /\ IsFiniteSet(Runs)

VARIABLES modelNow,  \* the chain of the agents that have no pin
          modelSettings, \* [model_settings]: the keys set for each model
          going,       \* each turn, sub-agent and question
          wrote,     \* what has added to each session's history
          usage,     \* calls charged to each session, by the model they are priced as
          unpriced,  \* sessions with a call that had no price
          fallbackBy, \* the fallback model answering now
          notices,   \* notices given of it
          toCharge, said, turnovers, \* what the properties compare these with
          budget     \* answers and changes so far

callVars == <<modelNow, modelSettings, going, wrote, usage, unpriced, fallbackBy, notices,
              toCharge, said, turnovers, budget>>

Keys == {"seed", "max_tokens"}

(* The request of a run's model call is shared by the models of its chain.   *)
NoRequest == [k \in Keys |-> NoModel]

NoAnswer == [version |-> NoModel, by |-> NoModel, from |-> FALSE, metered |-> FALSE]

NoRun == [pc |-> "idle", kind |-> "turn", session |-> NoModel, chain |-> <<>>, at |-> 0,
          request |-> NoRequest, sent |-> {}, spoke |-> FALSE, answer |-> NoAnswer, tell |-> FALSE]

(* A run between its model calls. *)
Rested(q) == [NoRun EXCEPT !.pc = "between", !.kind = q.kind, !.session = q.session, !.chain = q.chain]

(* NewModel: the model and its fallbacks, which are left out where their     *)
(* credentials are missing.                                                  *)
Chains(m) == {<<m>>, <<m, SpareModel>>}

CallInit ==
    /\ \E m \in CallModels \ {SpareModel} : modelNow = <<m, SpareModel>>
    /\ modelSettings = [m \in CallModels |-> {}]
    /\ going = [r \in Runs |-> NoRun]
    /\ wrote = [s \in CallSessions |-> {}]
    /\ usage = [s \in CallSessions |-> [m \in CallModels |-> 0]] /\ unpriced = {}
    /\ fallbackBy = NoModel /\ notices = 0
    /\ toCharge = [s \in CallSessions |-> 0]
    /\ said = [s \in CallSessions |-> [m \in CallModels |-> 0]]
    /\ turnovers = 0
    /\ budget = [answers |-> 0, changes |-> 0]

Charges == <<wrote, usage, unpriced, fallbackBy, notices, toCharge, said, turnovers>>

-------------------------------------------------------------------------------
(* What the user changes while runs go on. *)

ChangeModel(chain) ==
    /\ budget.changes < MaxSettings
    /\ modelNow' = chain
    /\ budget' = [budget EXCEPT !.changes = @ + 1]
    /\ UNCHANGED <<modelSettings, going>> /\ UNCHANGED Charges

SetModelSettings(m, keys) ==
    /\ budget.changes < MaxSettings /\ keys # modelSettings[m]
    /\ modelSettings' = [modelSettings EXCEPT ![m] = keys]
    /\ budget' = [budget EXCEPT !.changes = @ + 1]
    /\ UNCHANGED <<modelNow, going>> /\ UNCHANGED Charges

-------------------------------------------------------------------------------
(* Execute, InvokeSubagent and Aside: a run keeps the agents it began with.  *)

Of(s, kind) == {r \in Runs : going[r].pc # "idle" /\ going[r].session = s /\ going[r].kind = kind}

StartRun(r, s, kind) ==
    /\ going[r].pc = "idle"
    /\ kind = "turn" => Of(s, "turn") = {}
    /\ kind = "agent" => \E t \in Of(s, "turn") : going[t].pc = "between" \* one of its tool calls
    /\ going' = [going EXCEPT ![r] = Rested([kind |-> kind, session |-> s, chain |-> modelNow])]
    /\ UNCHANGED <<modelNow, modelSettings, budget>> /\ UNCHANGED Charges

EndRun(r) ==
    /\ going[r].pc = "between"
    /\ going[r].kind = "turn" => Of(going[r].session, "agent") = {}
    /\ going' = [going EXCEPT ![r] = NoRun]
    /\ UNCHANGED <<modelNow, modelSettings, budget>> /\ UNCHANGED Charges

(* A run of tool calls calls the model again when they are done.             *)
AskModel(r) ==
    /\ going[r].pc = "between"
    /\ going[r].kind = "turn" => Of(going[r].session, "agent") = {}
    /\ budget.answers < MaxAnswers
    /\ going' = [going EXCEPT ![r].pc = "trying", ![r].at = 1, ![r].request = NoRequest, ![r].spoke = FALSE]
    /\ budget' = [budget EXCEPT !.answers = @ + 1]
    /\ UNCHANGED <<modelNow, modelSettings>> /\ UNCHANGED Charges

-------------------------------------------------------------------------------
(* settingsModel: a copy of the request, with what the model's provider      *)
(* takes of the model's settings.                                            *)

SettingSupported(m, k) == k = "seed" => m \in SeedTakers

ApplyAll(m, req) == [k \in Keys |-> IF k \in modelSettings[m] THEN m ELSE req[k]]
Apply(m, req) ==
    [k \in Keys |-> IF k \in modelSettings[m] /\ SettingSupported(m, k) THEN m ELSE req[k]]

SharedKept(r, sent) == sent
Shared(r, sent) == going[r].request

Model(r) == going[r].chain[going[r].at]

SendRequest(r) ==
    /\ going[r].pc = "trying"
    /\ LET sent == Apply(Model(r), going[r].request)
       IN going' = [going EXCEPT ![r].pc = "waiting", ![r].request = Shared(r, sent),
                             ![r].sent = {[to |-> Model(r), config |-> sent]}]
    /\ UNCHANGED <<modelNow, modelSettings, budget>> /\ UNCHANGED Charges

(* The next of the chain, if nothing of the answer is out; or the call ends. *)
ModelFails(r) ==
    /\ going[r].pc = "waiting"
    /\ LET q == going[r]
       IN going' = [going EXCEPT ![r] = IF ~q.spoke /\ q.at < Len(q.chain)
                                 THEN [q EXCEPT !.pc = "trying", !.at = @ + 1, !.sent = {}]
                                 ELSE Rested(q)]
    /\ UNCHANGED <<modelNow, modelSettings, budget>> /\ UNCHANGED Charges

(* Text as it is written; afterModel leaves it alone, usage it may hold too. *)
PartialCharged(r) ==
    /\ usage' = [usage EXCEPT ![going[r].session][Model(r)] = @ + 1] /\ UNCHANGED unpriced
PartialUncharged(r) == UNCHANGED <<usage, unpriced>>

Speaks(r) ==
    /\ going[r].pc = "waiting" /\ ~going[r].spoke
    /\ going' = [going EXCEPT ![r].spoke = TRUE]
    /\ PartialUncharged(r)
    /\ UNCHANGED <<modelNow, modelSettings, budget, wrote, fallbackBy, notices, toCharge, said, turnovers>>

(* markFallback names a fallback that doesn't name itself.                   *)
Version(r, named) == IF named \/ going[r].at > 1 THEN Model(r) ELSE NoModel

ModelReplies(r, named, metered) ==
    /\ going[r].pc = "waiting"
    /\ LET s == going[r].session
           by == Model(r)
           v == Version(r, named)
       IN /\ going' = [going EXCEPT ![r].pc = "noting", ![r].sent = {},
                                ![r].answer = [version |-> v, by |-> by, from |-> going[r].at > 1,
                                               metered |-> metered]]
          /\ toCharge' = [toCharge EXCEPT ![s] = @ + (IF metered THEN 1 ELSE 0)]
          /\ said' = [said EXCEPT ![s][by] = @ + (IF metered /\ v = by /\ by \in Paid THEN 1 ELSE 0)]
    /\ UNCHANGED <<modelNow, modelSettings, budget, wrote, usage, unpriced, fallbackBy, notices, turnovers>>

-------------------------------------------------------------------------------
(* afterModel. *)

TellAlways(served) == served # NoModel
TellChange(served) == served # fallbackBy

(* noteFallback: the change under its lock, the notice after it.             *)
NoteFallback(r) ==
    /\ going[r].pc = "noting"
    /\ LET served == IF going[r].answer.from THEN going[r].answer.version ELSE NoModel
       IN /\ fallbackBy' = served
          /\ turnovers' = turnovers + (IF served # fallbackBy THEN 1 ELSE 0)
          /\ going' = [going EXCEPT ![r].pc = "charging", ![r].tell = TellChange(served)]
    /\ UNCHANGED <<modelNow, modelSettings, budget, wrote, usage, unpriced, notices, toCharge, said>>

(* The price is that of the model that answered, or of the one the agent     *)
(* runs on by now if that isn't known or has none.                           *)
PricedAsSet(answer) == Head(modelNow)
PricedAs(answer) == IF answer.version \in Paid THEN answer.version ELSE Head(modelNow)

OwnSession(r) == IF going[r].kind = "turn" THEN {going[r].session} ELSE {}
ChargedTo(r) == {going[r].session}

AsideWrites(r) == going[r].kind # "agent"
Writes(r) == going[r].kind = "turn"

Charge(r) ==
    /\ going[r].pc = "charging"
    /\ LET s == going[r].session
           as == PricedAs(going[r].answer)
           charged == going[r].answer.metered /\ s \in ChargedTo(r)
       IN /\ usage' = IF charged THEN [usage EXCEPT ![s][as] = @ + 1] ELSE usage
          /\ unpriced' = IF charged /\ as \notin Paid THEN unpriced \cup {s} ELSE unpriced
          /\ wrote' = IF Writes(r) THEN [wrote EXCEPT ![s] = @ \cup {going[r].kind}] ELSE wrote
    /\ notices' = notices + (IF going[r].tell THEN 1 ELSE 0)
    /\ going' = [going EXCEPT ![r] = Rested(@)]
    /\ UNCHANGED <<modelNow, modelSettings, budget, fallbackBy, toCharge, said, turnovers>>

CallsNext ==
    \/ \E m \in CallModels : \/ \E chain \in Chains(m) : ChangeModel(chain)
                             \/ \E keys \in SUBSET Keys : SetModelSettings(m, keys)
    \/ \E r \in Runs :
          \/ \E s \in CallSessions, kind \in {"turn", "agent", "aside"} : StartRun(r, s, kind)
          \/ EndRun(r) \/ AskModel(r) \/ SendRequest(r) \/ ModelFails(r) \/ Speaks(r)
          \/ \E named, metered \in BOOLEAN : ModelReplies(r, named, metered)
          \/ NoteFallback(r) \/ Charge(r)

CallsSpec == CallInit /\ [][CallsNext]_callVars

-------------------------------------------------------------------------------
CallTypeOK ==
    /\ modelSettings \in [CallModels -> SUBSET Keys]
    /\ \A r \in Runs : going[r].pc \in {"idle", "between", "trying", "waiting", "noting", "charging"}
    /\ fallbackBy \in CallModels \cup {NoModel} /\ unpriced \subseteq CallSessions

Uncharged(s) == {r \in Runs : /\ going[r].pc \in {"noting", "charging"} /\ going[r].session = s
                            /\ going[r].answer.metered}

Calls(s) == FoldFunction(LAMBDA n, m : n + m, 0, usage[s])

(* Every answer that says what it cost is charged once, to the session the   *)
(* tokens were spent for, whether its turn, a sub-agent of it or a question  *)
(* beside it asked; and by the price of the model that answered if that is   *)
(* known (engine.go:419-441, aside.go:24-25).                                *)
ChargedOnce ==
    \A s \in CallSessions :
        /\ Calls(s) + Cardinality(Uncharged(s)) = toCharge[s]
        /\ \A m \in Paid : usage[s][m] + Cardinality(Uncharged(s)) >= said[s][m]

(* A model of a chain is sent settings made for it and for no other, and     *)
(* none that its provider can't take (settings.go:50-51 and 22-25).          *)
OwnSettings ==
    \A r \in Runs : \A q \in going[r].sent : \A k \in Keys :
        q.config[k] # NoModel => q.config[k] = q.to /\ SettingSupported(q.to, k)

(* The user is told once each time a fallback takes over or the first model  *)
(* is back, not on every call (engine.go:445-446); and neither a question    *)
(* beside a session nor a sub-agent adds to its history (aside.go:19-25).    *)
ToldOnce == notices + Cardinality({r \in Runs : going[r].tell}) = turnovers
HistoryOwn == \A s \in CallSessions : wrote[s] \subseteq {"turn"}

CallsAccounted == ChargedOnce /\ OwnSettings /\ ToldOnce /\ HistoryOwn
===============================================================================
