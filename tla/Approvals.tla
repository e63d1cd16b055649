------------------------------ MODULE Approvals ------------------------------
(***************************************************************************)
(* The approval of sensitive actions (Hooks.Approve, internal/tools/       *)
(* hooks.go), the saved rules (approval_store.go) and the broker that      *)
(* carries a request to the client of the turn and its answer back         *)
(* (internal/server/broker.go).                                            *)
(*                                                                         *)
(* Tool calls ask at the same time, clients answer in any order, turns are *)
(* cancelled, approvals are revoked, a rule's file cannot be written, and  *)
(* the service restarts.  Each open workspace has rules of its own in      *)
(* memory; the file they are saved to is one for all.                      *)
(***************************************************************************)
EXTENDS Integers, FiniteSets, TLC

CONSTANTS Workspaces,
          Calls,         \* tool calls at once
          Turns,         \* contexts: each tool call is made in a turn
          Keys,          \* what a rule can cover
          NoKey,         \* the empty key: approved once or not at all
          AutoApproved,  \* the keys of actions the policy approves
          Permitted      \* the keys an unattended run is permitted

ASSUME ApprovalAssumption ==
    NoKey \notin Keys /\ AutoApproved \cup Permitted \subseteq Keys \cup {NoKey}

VARIABLES session,  \* Hooks.session, of each workspace
          rules,    \* ApprovalStore.rules, of each workspace
          file,     \* the approvals file
          pending,  \* broker.pending: the calls whose request waits
          reply,    \* the one-slot channel of each call's request
          call,     \* each tool call's Approve
          done,     \* the turns whose context is done
          granted,  \* for the properties: the keys users granted at some time
          always    \* and what they always allow, since it was saved without error

ruleVars == <<session, rules, file, granted, always>>
askVars == <<pending, reply>>
approvalVars == <<ruleVars, askVars, call, done>>

None == "none"
Decisions == {"deny", "once", "session", "always"}
CallPC == {"idle", "look", "store", "wait", "decided", "save", "allowed", "refused"}

NoCall == [pc |-> "idle"]

(* alone: the call is made in an unattended run; answer: what its request    *)
(* was answered; saved: the rule could be saved.                             *)
CallRecord == [pc : CallPC, turn : Turns, ws : Workspaces, key : Keys \cup {NoKey},
               alone : BOOLEAN, answer : Decisions \cup {None}, saved : BOOLEAN]

ApprovalTypeOK ==
    /\ session \in [Workspaces -> SUBSET Keys]
    /\ rules \in [Workspaces -> SUBSET Keys]
    /\ file \in SUBSET Keys
    /\ pending \in SUBSET Calls
    /\ reply \in [Calls -> Decisions \cup {None}]
    /\ call \in [Calls -> CallRecord \cup {NoCall}]
    /\ done \in SUBSET Turns

ApprovalInit ==
    /\ session = [w \in Workspaces |-> {}]
    /\ rules = [w \in Workspaces |-> {}]
    /\ file = {}
    /\ pending = {} /\ reply = [c \in Calls |-> None]
    /\ call = [c \in Calls |-> NoCall]
    /\ done = {}
    /\ granted = {}
    /\ always = {}

CallAt(c, pc) == call[c].pc = pc
CallGoto(c, pc) == call' = [call EXCEPT ![c].pc = pc]

-------------------------------------------------------------------------------
(* Approve, up to the question. *)

Approve(c, t, w, k, alone) ==
    /\ CallAt(c, "idle")
    /\ call' = [call EXCEPT ![c] = [pc |-> "look", turn |-> t, ws |-> w, key |-> k,
                                    alone |-> alone, answer |-> None, saved |-> TRUE]]
    /\ UNCHANGED <<ruleVars, askVars, done>>

\* An unattended run gets what its permissions allow, and nothing else.
DecideAlone(c) ==
    /\ CallAt(c, "look") /\ call[c].alone
    /\ CallGoto(c, IF call[c].key \in Permitted THEN "allowed" ELSE "refused")
    /\ UNCHANGED <<ruleVars, askVars, done>>

\* Under mu: the policy and the rules of this session.
LookSession(c) ==
    /\ CallAt(c, "look") /\ ~call[c].alone
    /\ CallGoto(c, IF call[c].key \in AutoApproved \cup session[call[c].ws]
                   THEN "allowed" ELSE "store")
    /\ UNCHANGED <<ruleVars, askVars, done>>

\* The saved rules; or the broker asks: the request is made and sent; or
\* there is nobody to ask.
LookSaved(c) ==
    /\ CallAt(c, "store")
    /\ \/ /\ call[c].key \in rules[call[c].ws]
          /\ CallGoto(c, "allowed")
          /\ UNCHANGED askVars
       \/ /\ call[c].key \notin rules[call[c].ws]
          /\ pending' = pending \cup {c}
          /\ reply' = [reply EXCEPT ![c] = None]
          /\ CallGoto(c, "wait")
       \/ /\ call[c].key \notin rules[call[c].ws]
          /\ CallGoto(c, "refused")
          /\ UNCHANGED askVars
    /\ UNCHANGED <<ruleVars, done>>

-------------------------------------------------------------------------------
(* The broker. *)

\* answer: the request is taken off under mu, so one answer at most is sent
\* to its channel.  An answer to no request is refused.
Answer(c, d) ==
    /\ c \in pending
    /\ pending' = pending \ {c}
    /\ reply' = [reply EXCEPT ![c] = d]
    /\ UNCHANGED <<ruleVars, call, done>>

\* The select of ask: the answer, ...
Answered(c) ==
    /\ CallAt(c, "wait") /\ reply[c] # None
    /\ call' = [call EXCEPT ![c].pc = "decided", ![c].answer = reply[c]]
    /\ pending' = pending \ {c}
    /\ granted' = granted \cup (IF reply[c] \in {"session", "always"} THEN {call[c].key} ELSE {})
    /\ UNCHANGED <<session, rules, file, always, reply, done>>

\* Mutants: a question runs out; the request stays when the turn ends.
AskTimesOut(c) ==
    /\ CallAt(c, "wait")
    /\ CallGoto(c, "refused")
    /\ pending' = pending \ {c}
    /\ UNCHANGED <<ruleVars, reply, done>>

AskCancelledStays(c) ==
    /\ CallAt(c, "wait") /\ call[c].turn \in done
    /\ CallGoto(c, "refused")
    /\ UNCHANGED <<ruleVars, askVars, done>>

\* ... or the end of the turn, also when the answer is there already.
AskCancelled(c) ==
    /\ CallAt(c, "wait") /\ call[c].turn \in done
    /\ CallGoto(c, "refused")
    /\ pending' = pending \ {c}
    /\ UNCHANGED <<ruleVars, reply, done>>

-------------------------------------------------------------------------------
(* Approve, from the decision. *)

\* Mutants: approved once is remembered like the rest; an empty key is a key.
DecideRemembers(c) ==
    LET remember == call[c].answer # "deny" /\ call[c].key # NoKey IN
    /\ CallAt(c, "decided")
    /\ CallGoto(c, IF call[c].answer = "deny" THEN "refused" ELSE "allowed")
    /\ session' = IF remember THEN [session EXCEPT ![call[c].ws] = @ \cup {call[c].key}] ELSE session
    /\ UNCHANGED <<rules, file, granted, always, askVars, done>>

DecideAnyKey(c) ==
    LET remember == call[c].answer \in {"session", "always"} IN
    /\ CallAt(c, "decided")
    /\ CallGoto(c, IF call[c].answer = "deny" THEN "refused" ELSE "allowed")
    /\ session' = IF remember THEN [session EXCEPT ![call[c].ws] = @ \cup {call[c].key}] ELSE session
    /\ UNCHANGED <<rules, file, granted, always, askVars, done>>

\* A decision that can be remembered is: for the session, before it is saved.
Decide(c) ==
    LET remember == call[c].answer \in {"session", "always"} /\ call[c].key # NoKey IN
    /\ CallAt(c, "decided")
    /\ CallGoto(c, CASE call[c].answer = "deny" -> "refused"
                     [] remember /\ call[c].answer = "always" -> "save"
                     [] OTHER -> "allowed")
    /\ session' = IF remember THEN [session EXCEPT ![call[c].ws] = @ \cup {call[c].key}] ELSE session
    /\ UNCHANGED <<rules, file, granted, always, askVars, done>>

\* A mutant: a rule that could not be saved lets the action go.
SaveFailsQuietly(c) ==
    LET mine == rules[call[c].ws] \cup {call[c].key} IN
    /\ CallAt(c, "save")
    /\ rules' = [rules EXCEPT ![call[c].ws] = mine]
    /\ file' \in {mine, file}
    /\ always' = always \cup {call[c].key}
    /\ CallGoto(c, "allowed")
    /\ UNCHANGED <<session, granted, askVars, done>>

\* store.Add under its mu: the rule, then the file, which is replaced by this
\* workspace's rules or, when that fails, stays as it was.
Save(c) ==
    LET mine == rules[call[c].ws] \cup {call[c].key} IN
    /\ CallAt(c, "save")
    /\ rules' = [rules EXCEPT ![call[c].ws] = mine]
    /\ \/ /\ file' = mine
          /\ always' = always \cup {call[c].key}
          /\ CallGoto(c, "allowed")
       \/ /\ call' = [call EXCEPT ![c].pc = "refused", ![c].saved = FALSE]
          /\ UNCHANGED <<file, always>>
    /\ UNCHANGED <<session, granted, askVars, done>>

\* The tool has acted, or not: its call is over.
CallEnds(c) ==
    /\ call[c].pc \in {"allowed", "refused"}
    /\ call' = [call EXCEPT ![c] = NoCall]
    /\ reply' = [reply EXCEPT ![c] = None]
    /\ UNCHANGED <<ruleVars, pending, done>>

-------------------------------------------------------------------------------
(* Around the calls. *)

\* RevokeApprovals, in two steps: the session's rule goes, ...
RevokeSession(w, k) ==
    /\ k \in session[w]
    /\ session' = [session EXCEPT ![w] = @ \ {k}]
    /\ UNCHANGED <<rules, file, granted, always, askVars, call, done>>

\* ... then the saved one; that the file could not be written is ignored.
RevokeSaved(w, k) ==
    /\ k \in rules[w]
    /\ rules' = [rules EXCEPT ![w] = @ \ {k}]
    /\ file' \in {rules[w] \ {k}, file}
    /\ always' = always \ {k}
    /\ UNCHANGED <<session, granted, askVars, call, done>>

\* The workspace is closed and opened again: only the file is left.
Reopen(w) ==
    /\ \A c \in {d \in Calls : ~CallAt(d, "idle")} : call[c].ws # w
    /\ session' = [session EXCEPT ![w] = {}]
    /\ rules' = [rules EXCEPT ![w] = file]
    /\ UNCHANGED <<file, granted, always, askVars, call, done>>

\* The context of a turn is cancelled: an interrupt, a client that went.
Cancel(t) ==
    /\ t \notin done
    /\ done' = done \cup {t}
    /\ UNCHANGED <<ruleVars, askVars, call>>

CallStep(c) ==
    \/ DecideAlone(c) \/ LookSession(c) \/ LookSaved(c) \/ Answered(c) \/ AskCancelled(c)
    \/ Decide(c) \/ Save(c)

Revoke == \E w \in Workspaces, k \in Keys : RevokeSession(w, k) \/ RevokeSaved(w, k)

\* The tool calls of any turns and workspaces; the turns themselves are in Turns.
ApprovalNext ==
    \/ \E c \in Calls :
         \/ \E t \in Turns, w \in Workspaces, k \in Keys \cup {NoKey}, alone \in BOOLEAN :
                Approve(c, t, w, k, alone)
         \/ CallStep(c) \/ CallEnds(c)
         \/ \E d \in Decisions : Answer(c, d)
    \/ Revoke
    \/ \E w \in Workspaces : Reopen(w)
    \/ \E t \in Turns : Cancel(t)

ApprovalSpec == ApprovalInit /\ [][ApprovalNext]_approvalVars

-------------------------------------------------------------------------------
(* A request is in the broker exactly while it waits for its first answer:   *)
(* none is left behind by a turn that ended, and no later answer is taken    *)
(* for it (the defer of ask, broker.go:57-61).                               *)
PendingExact == pending = {c \in Calls : CallAt(c, "wait") /\ reply[c] = None}

(* An action goes ahead only by the user's own answer to its request, by the *)
(* policy, or by a rule the user once granted for its key: one without a key *)
(* never goes by another's answer.  An unattended run goes by its            *)
(* permissions alone (hooks.go:186-196).                                     *)
NothingUnasked ==
    \A c \in Calls : CallAt(c, "allowed") =>
        IF call[c].alone THEN call[c].key \in Permitted
        ELSE \/ call[c].answer \in {"once", "session", "always"}
             \/ call[c].key \in AutoApproved
             \/ call[c].key \in granted \cap Keys

(* An answer the client was told was taken decides the action, unless its    *)
(* turn ended or the rule could not be saved (broker.go:71-81).              *)
AnswersCount ==
    \A c \in Calls : CallAt(c, "refused") /\ reply[c] \in {"once", "session", "always"} =>
        call[c].turn \in done \/ ~call[c].saved

(* A request is settled by its first answer or by the end of its turn, and   *)
(* by nothing else (broker.go:47-81).                                        *)
RequestsSettled == PendingExact /\ AnswersCount

(* What the user always allows is on file until it is revoked: "DecisionAlways *)
(* allow actions with the same Key, persisted" (hooks.go:54).                *)
AlwaysPersists == always \subseteq file

(* Calls and turns are alike, for TLC. *)
Symmetry == Permutations(Calls) \cup Permutations(Turns)
===============================================================================
