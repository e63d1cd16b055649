--------------------------- MODULE ApprovalsProofs ---------------------------
(***************************************************************************)
(* Proofs about Approvals: what a tool call may rest on when it goes       *)
(* ahead, for any tool calls, turns, keys and workspaces; and about the    *)
(* answers typed to them, which may cross to the service (Wire).           *)
(***************************************************************************)
EXTENDS Approvals, Wire, TLAPS

(* What the user granted is all that a session, a store and the file hold. *)
RulesGranted ==
    /\ granted \subseteq Keys \cup {NoKey} /\ always \subseteq Keys /\ file \subseteq granted
    /\ \A w \in Workspaces : session[w] \subseteq granted /\ rules[w] \subseteq granted

(* How far a call is, and what it knows by then: an answer is the reply to  *)
(* its own request, and only attended calls ask.                           *)
CallKnows(c) ==
    /\ call[c].pc \in {"idle", "look", "store"} => reply[c] = None
    /\ call[c].pc \in {"store", "wait", "decided", "save"} => ~call[c].alone
    /\ call[c].pc \in {"decided", "save"} => call[c].answer = reply[c] /\ reply[c] # None
    /\ call[c].pc = "decided" /\ call[c].answer \in {"session", "always"} => call[c].key \in granted
    /\ call[c].pc = "save" => call[c].answer = "always" /\ call[c].key \in Keys \cap granted

CallsKnow == \A c \in Calls : CallKnows(c)

IInv == /\ ApprovalTypeOK /\ PendingExact /\ RulesGranted /\ CallsKnow
        /\ NothingUnasked /\ AnswersCount

-------------------------------------------------------------------------------
(* A call that has started is a full record. *)
LEMMA Started ==
    ASSUME NEW c \in Calls, call \in [Calls -> CallRecord \cup {NoCall}], call[c].pc # "idle"
    PROVE  call[c] \in CallRecord
BY DEF NoCall

(* Each record that a step makes of a call is a call record again. *)
LEMMA TypeStep == ApprovalTypeOK /\ RulesGranted /\ CallsKnow /\ [ApprovalNext]_approvalVars => ApprovalTypeOK'
<1> SUFFICES ASSUME ApprovalTypeOK, RulesGranted, CallsKnow, [ApprovalNext]_approvalVars
             PROVE  ApprovalTypeOK'
    OBVIOUS
<1> USE DEF ApprovalTypeOK
<1>0. ASSUME UNCHANGED approvalVars PROVE ApprovalTypeOK'
    BY <1>0 DEF approvalVars, ruleVars, askVars
<1>1. ASSUME NEW c \in Calls, NEW t \in Turns, NEW w \in Workspaces, NEW k \in Keys \cup {NoKey},
             NEW alone \in BOOLEAN, Approve(c, t, w, k, alone)
      PROVE  ApprovalTypeOK'
    BY <1>1 DEF Approve, ruleVars, askVars, CallRecord, CallPC
<1>2. ASSUME NEW c \in Calls, DecideAlone(c) \/ LookSession(c) \/ LookSaved(c) \/ AskCancelled(c)
      PROVE  ApprovalTypeOK'
  <2>1. call[c] \in CallRecord
      BY <1>2, Started DEF DecideAlone, LookSession, LookSaved, AskCancelled, CallAt
  <2>2. ASSUME NEW pc \in CallPC PROVE [call[c] EXCEPT !.pc = pc] \in CallRecord
      BY <2>1 DEF CallRecord
  <2>3. \E pc \in CallPC : call' = [call EXCEPT ![c].pc = pc]
      BY <1>2 DEF DecideAlone, LookSession, LookSaved, AskCancelled, CallGoto, CallPC
  <2>4. call' \in [Calls -> CallRecord \cup {NoCall}]
      BY <2>2, <2>3
  <2>5. pending' \in SUBSET Calls /\ reply' \in [Calls -> Decisions \cup {None}]
      BY <1>2 DEF DecideAlone, LookSession, LookSaved, AskCancelled, askVars
  <2> QED BY <1>2, <2>4, <2>5 DEF DecideAlone, LookSession, LookSaved, AskCancelled, ruleVars
<1>3. ASSUME NEW c \in Calls, Answered(c) PROVE ApprovalTypeOK'
  <2>1. call[c] \in CallRecord
      BY <1>3, Started DEF Answered, CallAt
  <2>2. [call[c] EXCEPT !.pc = "decided", !.answer = reply[c]] \in CallRecord
      BY <2>1 DEF CallRecord, CallPC
  <2> QED BY <1>3, <2>2 DEF Answered
<1>4. ASSUME NEW c \in Calls, Decide(c) PROVE ApprovalTypeOK'
  <2>1. call[c] \in CallRecord
      BY <1>4, Started DEF Decide, CallAt
  <2>2. ASSUME NEW pc \in CallPC PROVE [call[c] EXCEPT !.pc = pc] \in CallRecord
      BY <2>1 DEF CallRecord
  <2>3. \E pc \in CallPC : call' = [call EXCEPT ![c].pc = pc]
      BY <1>4 DEF Decide, CallGoto, CallPC
  <2>4. call[c].ws \in Workspaces /\ call[c].key \in Keys \cup {NoKey}
      BY <2>1 DEF CallRecord
  <2>5. session' \in [Workspaces -> SUBSET Keys]
      BY <1>4, <2>4 DEF Decide
  <2> QED BY <1>4, <2>2, <2>3, <2>5 DEF Decide, askVars
<1>5. ASSUME NEW c \in Calls, Save(c) PROVE ApprovalTypeOK'
  <2>1. call[c] \in CallRecord /\ call[c].key \in Keys
      BY <1>5, Started DEF Save, CallAt, CallsKnow, CallKnows
  <2>2. [call[c] EXCEPT !.pc = "allowed"] \in CallRecord
        /\ [call[c] EXCEPT !.pc = "refused", !.saved = FALSE] \in CallRecord
      BY <2>1 DEF CallRecord, CallPC
  <2>3. call' \in [Calls -> CallRecord \cup {NoCall}]
      BY <1>5, <2>2 DEF Save, CallGoto
  <2>4. call[c].ws \in Workspaces
      BY <2>1 DEF CallRecord
  <2>5. rules' \in [Workspaces -> SUBSET Keys] /\ file' \in SUBSET Keys
      BY <1>5, <2>1, <2>4 DEF Save
  <2> QED BY <1>5, <2>3, <2>5 DEF Save, askVars
<1>6. ASSUME NEW c \in Calls, CallEnds(c) PROVE ApprovalTypeOK'
    BY <1>6 DEF CallEnds, ruleVars
<1>7. ASSUME NEW c \in Calls, NEW d \in Decisions, Answer(c, d) PROVE ApprovalTypeOK'
    BY <1>7 DEF Answer, ruleVars
<1>8. ASSUME Revoke PROVE ApprovalTypeOK'
    BY <1>8 DEF Revoke, RevokeSession, RevokeSaved, askVars
<1>9. ASSUME NEW w \in Workspaces, Reopen(w) PROVE ApprovalTypeOK'
    BY <1>9 DEF Reopen, askVars
<1>10. ASSUME NEW t \in Turns, Cancel(t) PROVE ApprovalTypeOK'
    BY <1>10 DEF Cancel, ruleVars, askVars
<1>11. ASSUME NEW c \in Calls, CallStep(c) PROVE ApprovalTypeOK'
    BY <1>2, <1>3, <1>4, <1>5, <1>11 DEF CallStep
<1>12. CASE ApprovalNext
    BY ONLY <1>1, <1>6, <1>7, <1>8, <1>9, <1>10, <1>11, <1>12 DEF ApprovalNext
<1> QED BY <1>0, <1>12

(* Answers, rules and requests: each action keeps what the rest know.       *)
LEMMA RulesStep == IInv /\ [ApprovalNext]_approvalVars => RulesGranted'
<1> SUFFICES ASSUME IInv, [ApprovalNext]_approvalVars PROVE RulesGranted'
    OBVIOUS
<1> USE DEF IInv, RulesGranted, ApprovalTypeOK
<1>0. ASSUME UNCHANGED ruleVars PROVE RulesGranted'
    BY <1>0 DEF ruleVars
<1>1. ASSUME NEW c \in Calls, Answered(c) PROVE RulesGranted'
  <2>1. call[c].key \in Keys \cup {NoKey}
      BY <1>1, Started DEF Answered, CallAt, CallRecord
  <2> QED BY <1>1, <2>1 DEF Answered
<1>2. ASSUME NEW c \in Calls, Decide(c) PROVE RulesGranted'
  <2>1. call[c].answer \in {"session", "always"} => call[c].key \in granted
      BY <1>2 DEF Decide, CallAt, CallsKnow, CallKnows
  <2> QED BY <1>2, <2>1 DEF Decide
<1>3. ASSUME NEW c \in Calls, Save(c) PROVE RulesGranted'
  <2>1. call[c].ws \in Workspaces
      BY <1>3, Started DEF Save, CallAt, CallRecord
  <2>2. call[c].key \in Keys \cap granted
      BY <1>3 DEF Save, CallAt, CallsKnow, CallKnows
  <2>3. file' \subseteq granted /\ always' \subseteq Keys
      BY <1>3, <2>1, <2>2 DEF Save
  <2> QED BY <1>3, <2>1, <2>2, <2>3 DEF Save
<1>4. CASE Revoke
  <2>1. ASSUME NEW w \in Workspaces, NEW k \in Keys, RevokeSession(w, k) PROVE RulesGranted'
      BY <2>1 DEF RevokeSession
  <2>2. ASSUME NEW w \in Workspaces, NEW k \in Keys, RevokeSaved(w, k) PROVE RulesGranted'
      BY <2>2 DEF RevokeSaved
  <2> QED BY <1>4, <2>1, <2>2 DEF Revoke
<1>5. ASSUME NEW w \in Workspaces, Reopen(w) PROVE RulesGranted'
    BY <1>5 DEF Reopen
<1>6. ASSUME NEW c \in Calls, CallStep(c) PROVE RulesGranted'
    BY <1>0, <1>1, <1>2, <1>3, <1>6 DEF CallStep, DecideAlone, LookSession, LookSaved, AskCancelled
<1>7. ASSUME NEW c \in Calls, CallEnds(c) PROVE RulesGranted'
    BY <1>0, <1>7 DEF CallEnds
<1>8. ASSUME NEW c \in Calls, NEW d \in Decisions, Answer(c, d) PROVE RulesGranted'
    BY <1>0, <1>8 DEF Answer
<1>9. ASSUME NEW c \in Calls, NEW t \in Turns, NEW w \in Workspaces, NEW k \in Keys \cup {NoKey},
             NEW alone \in BOOLEAN, Approve(c, t, w, k, alone)
      PROVE  RulesGranted'
    BY <1>0, <1>9 DEF Approve
<1>10. ASSUME NEW t \in Turns, Cancel(t) PROVE RulesGranted'
    BY <1>0, <1>10 DEF Cancel
<1>11. CASE ApprovalNext
    BY ONLY <1>4, <1>5, <1>6, <1>7, <1>8, <1>9, <1>10, <1>11 DEF ApprovalNext
<1> QED BY <1>0, <1>11 DEF approvalVars

(* The parts of IInv that are about one call, and its request. *)
CallSound(c) ==
    /\ CallKnows(c)
    /\ c \in pending <=> CallAt(c, "wait") /\ reply[c] = None
    /\ CallAt(c, "allowed") =>
         IF call[c].alone THEN call[c].key \in Permitted
         ELSE \/ call[c].answer \in {"once", "session", "always"}
              \/ call[c].key \in AutoApproved
              \/ call[c].key \in granted \cap Keys
    /\ CallAt(c, "refused") /\ reply[c] \in {"once", "session", "always"} =>
         call[c].turn \in done \/ ~call[c].saved

LEMMA CallsSound ==
    ASSUME ApprovalTypeOK
    PROVE  CallsKnow /\ PendingExact /\ NothingUnasked /\ AnswersCount
           <=> \A c \in Calls : CallSound(c)
BY DEF ApprovalTypeOK, CallsKnow, PendingExact, NothingUnasked, AnswersCount, CallSound

(* A step that leaves a call and its request alone leaves it sound: what is *)
(* granted and which turns are done only grows.                            *)
LEMMA OthersSound ==
    ASSUME NEW c \in Calls, CallSound(c), call'[c] = call[c], reply'[c] = reply[c],
           c \in pending' <=> c \in pending, granted \subseteq granted', done \subseteq done'
    PROVE  CallSound(c)'
BY DEF CallSound, CallKnows, CallAt

LEMMA CallsStep == IInv /\ [ApprovalNext]_approvalVars => \A c \in Calls : CallSound(c)'
<1> SUFFICES ASSUME IInv, [ApprovalNext]_approvalVars, NEW e \in Calls PROVE CallSound(e)'
    OBVIOUS
<1> USE DEF IInv
<1>a. /\ session \in [Workspaces -> SUBSET Keys] /\ rules \in [Workspaces -> SUBSET Keys]
      /\ pending \in SUBSET Calls /\ reply \in [Calls -> Decisions \cup {None}]
      /\ call \in [Calls -> CallRecord \cup {NoCall}]
    BY DEF ApprovalTypeOK
<1>b. \A c \in Calls : CallSound(c)
    BY CallsSound
<1>c. None \notin Decisions
    BY DEF None, Decisions
<1>0. ASSUME UNCHANGED <<call, pending, reply>>, granted \subseteq granted', done \subseteq done'
      PROVE  CallSound(e)'
    BY <1>0, <1>b, OthersSound
<1>1. ASSUME NEW c \in Calls, call' = [call EXCEPT ![c] = call'[c]],
             reply' = [reply EXCEPT ![c] = reply'[c]],
             pending' \ {c} = pending \ {c}, granted \subseteq granted', done \subseteq done',
             CallSound(c)'
      PROVE  CallSound(e)'
  <2>1. CASE e = c
      BY <1>1, <2>1
  <2>2. CASE e # c
    <3>1. call'[e] = call[e] /\ reply'[e] = reply[e] /\ (e \in pending' <=> e \in pending)
        BY <1>1, <1>a, <2>2
    <3> QED BY <1>1, <1>b, <3>1, OthersSound
  <2> QED BY <2>1, <2>2
<1>2. ASSUME NEW c \in Calls, CallStep(c) PROVE CallSound(e)'
  <2>a. CallSound(c) /\ (call[c].pc # "idle" => call[c] \in CallRecord)
      BY <1>a, <1>b, Started
  <2>b. CASE DecideAlone(c)
    <3>1. CallSound(c)'
        BY <1>a, <1>c, <2>a, <2>b DEF DecideAlone, CallSound, CallKnows, CallAt, CallGoto, askVars, ruleVars, CallRecord, None
    <3> QED BY <1>1, <1>a, <2>b, <3>1 DEF DecideAlone, CallGoto, askVars, ruleVars
  <2>c. CASE LookSession(c)
    <3>1. call[c].ws \in Workspaces /\ session[call[c].ws] \subseteq granted \cap Keys
        BY <1>a, <2>a, <2>c DEF LookSession, CallAt, CallRecord, RulesGranted
    <3>2. CallSound(c)'
        BY <1>a, <2>a, <2>c, <3>1 DEF LookSession, CallSound, CallKnows, CallAt, CallGoto, askVars, ruleVars, CallRecord, None
    <3> QED BY <1>1, <1>a, <2>c, <3>2 DEF LookSession, CallGoto, askVars, ruleVars
  <2>d. CASE LookSaved(c)
    <3>1. call[c].ws \in Workspaces /\ rules[call[c].ws] \subseteq granted \cap Keys
        BY <1>a, <2>a, <2>d DEF LookSaved, CallAt, CallRecord, RulesGranted
    <3>2. CallSound(c)'
        BY <1>a, <2>a, <2>d, <3>1 DEF LookSaved, CallSound, CallKnows, CallAt, CallGoto, askVars, ruleVars, CallRecord, None
    <3> QED BY <1>1, <1>a, <2>d, <3>2 DEF LookSaved, CallGoto, askVars, ruleVars
  <2>e. CASE Answered(c)
    <3>1. CallSound(c)'
        BY <1>a, <2>a, <2>e DEF Answered, CallSound, CallKnows, CallAt, CallRecord
    <3> QED BY <1>1, <1>a, <2>e, <3>1 DEF Answered
  <2>f. CASE AskCancelled(c)
    <3>1. CallSound(c)'
        BY <1>a, <2>a, <2>f DEF AskCancelled, CallSound, CallKnows, CallAt, CallGoto, ruleVars, CallRecord
    <3> QED BY <1>1, <1>a, <2>f, <3>1 DEF AskCancelled, CallGoto, ruleVars
  <2>g. CASE Decide(c)
    <3>1. CallSound(c)'
        BY <1>a, <1>c, <2>a, <2>g DEF Decide, CallSound, CallKnows, CallAt, CallGoto, askVars, CallRecord, Decisions
    <3> QED BY <1>1, <1>a, <2>g, <3>1 DEF Decide, CallGoto, askVars
  <2>h. CASE Save(c)
    <3>1. CallSound(c)'
        BY <1>a, <2>a, <2>h DEF Save, CallSound, CallKnows, CallAt, CallGoto, askVars, CallRecord
    <3>2. call' = [call EXCEPT ![c] = call'[c]]
        BY <1>a, <2>h DEF Save, CallGoto
    <3> QED BY <1>1, <1>a, <2>h, <3>1, <3>2 DEF Save, askVars
  <2> QED BY <1>2, <2>b, <2>c, <2>d, <2>e, <2>f, <2>g, <2>h DEF CallStep
<1>3. ASSUME NEW c \in Calls, CallEnds(c) PROVE CallSound(e)'
  <2>1. CallSound(c)'
      BY <1>3, <1>a, <1>b DEF CallEnds, CallSound, CallKnows, CallAt, NoCall
  <2> QED BY <1>1, <1>3, <1>a, <2>1 DEF CallEnds, ruleVars
<1>4. ASSUME NEW c \in Calls, NEW d \in Decisions, Answer(c, d) PROVE CallSound(e)'
  <2>1. CallSound(c)'
      BY <1>4, <1>a, <1>b, <1>c DEF Answer, CallSound, CallKnows, CallAt, ruleVars
  <2> QED BY <1>1, <1>4, <1>a, <2>1 DEF Answer, ruleVars
<1>5. ASSUME NEW c \in Calls, NEW t \in Turns, NEW w \in Workspaces, NEW k \in Keys \cup {NoKey},
             NEW alone \in BOOLEAN, Approve(c, t, w, k, alone)
      PROVE  CallSound(e)'
  <2>1. CallSound(c)'
      BY <1>5, <1>a, <1>b DEF Approve, CallSound, CallKnows, CallAt, askVars, ruleVars
  <2> QED BY <1>1, <1>5, <1>a, <2>1 DEF Approve, askVars, ruleVars
<1>6. ASSUME Revoke PROVE CallSound(e)'
    BY <1>0, <1>6 DEF Revoke, RevokeSession, RevokeSaved, askVars
<1>7. ASSUME NEW w \in Workspaces, Reopen(w) PROVE CallSound(e)'
    BY <1>0, <1>7 DEF Reopen, askVars
<1>8. ASSUME NEW t \in Turns, Cancel(t) PROVE CallSound(e)'
    BY <1>0, <1>8 DEF Cancel, askVars, ruleVars
<1>9. CASE UNCHANGED approvalVars
    BY <1>0, <1>9 DEF approvalVars, askVars, ruleVars
<1>10. CASE ApprovalNext
    BY ONLY <1>2, <1>3, <1>4, <1>5, <1>6, <1>7, <1>8, <1>10 DEF ApprovalNext
<1> QED BY <1>9, <1>10

-------------------------------------------------------------------------------
LEMMA Invariance == ApprovalSpec => []IInv
<1>1. ApprovalInit => IInv
  <2> SUFFICES ASSUME ApprovalInit PROVE IInv
      OBVIOUS
  <2>1. ApprovalTypeOK
      BY DEF ApprovalInit, ApprovalTypeOK
  <2>2. RulesGranted
      BY DEF ApprovalInit, RulesGranted
  <2>3. \A c \in Calls : CallSound(c)
      BY DEF ApprovalInit, CallSound, CallKnows, CallAt, NoCall, None
  <2> QED BY <2>1, <2>2, <2>3, CallsSound DEF IInv
<1>2. IInv /\ [ApprovalNext]_approvalVars => IInv'
  <2> SUFFICES ASSUME IInv, [ApprovalNext]_approvalVars PROVE IInv'
      OBVIOUS
  <2>1. ApprovalTypeOK'
      BY TypeStep DEF IInv
  <2>2. RulesGranted'
      BY RulesStep
  <2>3. (\A c \in Calls : CallSound(c))'
      BY CallsStep
  <2>4. (CallsKnow /\ PendingExact /\ NothingUnasked /\ AnswersCount)'
      BY <2>1, <2>3, CallsSound, PTL
  <2> QED BY <2>1, <2>2, <2>4 DEF IInv
<1> QED BY <1>1, <1>2, PTL DEF ApprovalSpec

(* The variables keep their types; with it, an empty key is never a rule    *)
(* (hooks.go:266-269).                                                     *)
THEOREM TypeCorrect == ApprovalSpec => []ApprovalTypeOK
BY Invariance, PTL DEF IInv

(* The broker holds exactly the requests that wait for their first answer   *)
(* (broker.go:47-81).                                                      *)
THEOREM RequestsExact == ApprovalSpec => []PendingExact
BY Invariance, PTL DEF IInv

(* No action goes ahead but by an answer to its own request, the policy, a  *)
(* rule the user granted for its key, or a run's permissions               *)
(* (hooks.go:206-282).                                                     *)
THEOREM NothingGoesUnasked == ApprovalSpec => []NothingUnasked
BY Invariance, PTL DEF IInv

(* A yes decides the action unless its turn ended or its rule could not be  *)
(* saved (broker.go:47-81, hooks.go:263-282).                              *)
THEOREM YesCounts == ApprovalSpec => []AnswersCount
BY Invariance, PTL DEF IInv

(* Requests are settled by their first answer or the end of their turn alone *)
(* (broker.go:47-81).                                                      *)
THEOREM RequestsAreSettled == ApprovalSpec => []RequestsSettled
BY RequestsExact, YesCounts, PTL DEF RequestsSettled

-------------------------------------------------------------------------------
(* With one workspace, what is always allowed stays in its rules and file.  *)
Kept == always \subseteq file /\ \A w \in Workspaces : always \subseteq rules[w]

(* What the user always allows stays on file as long as one workspace at    *)
(* most uses the file (approval_store.go:82-127).                          *)
THEOREM AlwaysOnFile ==
    ASSUME \A v, w \in Workspaces : v = w
    PROVE  ApprovalSpec => []AlwaysPersists
<1>1. ApprovalInit => Kept
    BY DEF ApprovalInit, Kept
<1>2. IInv /\ Kept /\ [ApprovalNext]_approvalVars => Kept'
  <2> SUFFICES ASSUME IInv, Kept, [ApprovalNext]_approvalVars PROVE Kept'
      OBVIOUS
  <2> USE DEF Kept
  <2>a. rules \in [Workspaces -> SUBSET Keys] /\ call \in [Calls -> CallRecord \cup {NoCall}]
      BY DEF IInv, ApprovalTypeOK
  <2>0. ASSUME UNCHANGED <<rules, file, always>> PROVE Kept'
      BY <2>0
  <2>1. ASSUME NEW c \in Calls, Save(c) PROVE Kept'
    <3>1. call[c].ws \in Workspaces
        BY <2>a, <2>1, Started DEF Save, CallAt, CallRecord
    <3> QED BY <2>a, <2>1, <3>1 DEF Save
  <2>2. ASSUME Revoke PROVE Kept'
      BY <2>a, <2>2 DEF Revoke, RevokeSession, RevokeSaved
  <2>3. ASSUME NEW w \in Workspaces, Reopen(w) PROVE Kept'
      BY <2>a, <2>3 DEF Reopen
  <2>4. ASSUME NEW c \in Calls, CallStep(c) PROVE Kept'
      BY <2>0, <2>1, <2>4 DEF CallStep, DecideAlone, LookSession, LookSaved, Answered, AskCancelled,
         Decide, ruleVars
  <2>5. CASE ApprovalNext
      BY <2>0, <2>2, <2>3, <2>4, <2>5 DEF ApprovalNext, Approve, CallEnds, Answer, Cancel, ruleVars
  <2> QED BY <2>0, <2>5 DEF approvalVars, ruleVars
<1>3. Kept => AlwaysPersists
    BY DEF Kept, AlwaysPersists
<1> QED BY <1>1, <1>2, <1>3, Invariance, PTL DEF ApprovalSpec

-------------------------------------------------------------------------------
\* The answer to an approval (Wire).

\* The key is shown where there is one, and to a front end of its own always;
\* once something was typed, the decision is what it says.
AnswersInv ==
    /\ AnswersTypeOK
    /\ question.keyShown => question.key
    /\ ~question.remote => question.pc # "crosses" /\ (question.key => question.keyShown)
    /\ question.pc \in {"answered", "settled"} => question.decision = DecisionTyped(question.typed)

LEMMA AnswersSay == AnswersInv => AnswersMeant
<1> SUFFICES ASSUME AnswersInv, question.pc = "settled" PROVE AnswersMeant
    BY DEF AnswersMeant
<1>1. /\ question.decision = DecisionTyped(question.typed) /\ question.typed \in AnswersTyped
      /\ question.keyShown \in BOOLEAN /\ question.key \in BOOLEAN /\ question.remote \in BOOLEAN
    BY DEF AnswersInv, AnswersTypeOK
<1>2. /\ question.decision = "once" <=> question.typed = "y"
      /\ question.decision = "session" <=> question.typed = "s" /\ question.keyShown
      /\ question.decision = "always" <=> question.typed = "a" /\ question.keyShown
    BY <1>1 DEF DecisionTyped, AnswersTyped
<1> QED
    BY <1>1, <1>2 DEF AnswersInv, AnswersMeant

LEMMA AnswersBegin == AnswersInit => AnswersInv
<1> SUFFICES ASSUME AnswersInit PROVE AnswersInv
    OBVIOUS
<1>1. question = NoQuestion /\ 0 \in 0 .. DiffLines + 1
    BY AnswersAssumption DEF AnswersInit
<1>2. AnswersTypeOK
    BY <1>1 DEF AnswersTypeOK, NoQuestion, AnswersTyped
<1>3. question.keyShown = FALSE /\ question.key = FALSE /\ question.pc = "idle"
    BY <1>1 DEF NoQuestion
<1> QED
    BY <1>2, <1>3 DEF AnswersInv

LEMMA LinesRendered ==
    ASSUME NEW lines \in 0 .. DiffLines + 1, NEW max \in {0, DiffLines}
    PROVE  RenderDiff(lines, max) \in 0 .. DiffLines + 1
BY AnswersAssumption DEF RenderDiff

\* The decision is the same on both sides.
LEMMA DecisionArrives == ASSUME NEW d \in {"deny", "once", "session", "always"} PROVE Decision(DecisionMsg(d)) = d
<1> DEFINE api == [once |-> "ONCE", session |-> "SESSION", always |-> "ALWAYS"]
           own == [ONCE |-> "once", SESSION |-> "session", ALWAYS |-> "always"]
<1>1. DecisionMsg(d) = IF d = "deny" THEN "DENY" ELSE api[d]
    BY DEF DecisionMsg, Named
<1>2. CASE d = "deny"
    BY <1>1, <1>2 DEF Decision, Named
<1>3. CASE d = "once"
    BY <1>1, <1>3 DEF Decision, Named
<1>4. CASE d = "session"
    BY <1>1, <1>4 DEF Decision, Named
<1>5. CASE d = "always"
    BY <1>1, <1>5 DEF Decision, Named
<1> QED
    BY <1>2, <1>3, <1>4, <1>5

LEMMA AnswersStep == AnswersInv /\ [AnswersNext]_answerVars => AnswersInv'
<1> SUFFICES ASSUME AnswersInv, [AnswersNext]_answerVars PROVE AnswersInv'
    OBVIOUS
<1> DEFINE Questions ==
        [pc : {"idle", "crosses", "shown", "answered", "settled"}, remote : BOOLEAN, key : BOOLEAN, keyShown : BOOLEAN,
         lines : 0 .. DiffLines + 1, seen : 0 .. DiffLines + 1, typed : AnswersTyped,
         decision : {"deny", "once", "session", "always"}]
<1>0. /\ question \in Questions /\ (question.keyShown => question.key)
      /\ (~question.remote => question.pc # "crosses" /\ (question.key => question.keyShown))
    BY DEF AnswersInv, AnswersTypeOK
<1>1. ASSUME NEW v \in Questions, question' = v, v.keyShown => v.key, ~v.remote => v.pc # "crosses" /\ (v.key => v.keyShown),
             v.pc \notin {"answered", "settled"}
      PROVE  AnswersInv'
    BY <1>1 DEF AnswersInv, AnswersTypeOK
<1>2. CASE UNCHANGED answerVars
    BY <1>2 DEF answerVars, AnswersInv, AnswersTypeOK, DecisionTyped
<1>3. ASSUME NEW remote \in BOOLEAN, NEW key \in BOOLEAN, NEW lines \in 0 .. DiffLines + 1, AsksApproval(remote, key, lines)
      PROVE  AnswersInv'
  <2>1. PICK seen : seen = IF remote THEN 0 ELSE RenderDiff(lines, DiffLines)
      OBVIOUS
  <2>2. seen \in 0 .. DiffLines + 1
      BY <2>1, LinesRendered, AnswersAssumption
  <2>3. PICK shown \in BOOLEAN : shown = (key /\ ~remote)
      OBVIOUS
  <2>4. PICK v : v = [NoQuestion EXCEPT !.pc = IF remote THEN "crosses" ELSE "shown", !.remote = remote, !.key = key,
                                        !.keyShown = shown, !.lines = lines, !.seen = seen]
      OBVIOUS
  <2>5. question' = v
      BY <1>3, <2>1, <2>3, <2>4 DEF AsksApproval
  <2>6. /\ v.pc = (IF remote THEN "crosses" ELSE "shown") /\ v.remote = remote /\ v.key = key /\ v.keyShown = shown
        /\ v \in Questions
      BY <2>2, <2>3, <2>4 DEF NoQuestion, AnswersTyped
  <2> QED
      BY <1>1, <2>3, <2>5, <2>6
<1>4. CASE RequestCrosses
  <2>1. PICK shown \in BOOLEAN : shown = (question.key /\ Given("Key"))
      BY <1>0
  <2>2. PICK v : v = [question EXCEPT !.pc = "shown", !.keyShown = shown, !.seen = RenderDiff(question.lines, DiffLines)]
      OBVIOUS
  <2>3. question' = v /\ question.pc = "crosses"
      BY <1>4, <2>1, <2>2 DEF RequestCrosses
  <2>4. v \in Questions /\ v.pc = "shown" /\ v.keyShown = shown /\ v.key = question.key /\ v.remote = question.remote
      BY <1>0, <2>2, LinesRendered
  <2> QED
      BY <1>0, <1>1, <2>1, <2>3, <2>4
<1>5. CASE ShowsWholeDiff
  <2>1. PICK v : v = [question EXCEPT !.seen = RenderDiff(question.lines, 0)]
      OBVIOUS
  <2>2. question' = v /\ question.pc = "shown"
      BY <1>5, <2>1 DEF ShowsWholeDiff
  <2>3. /\ v \in Questions /\ v.pc = question.pc /\ v.keyShown = question.keyShown /\ v.key = question.key
        /\ v.remote = question.remote
      BY <1>0, <2>1, LinesRendered
  <2> QED
      BY <1>0, <1>1, <2>2, <2>3
<1>6. ASSUME NEW typed \in AnswersTyped, TypesAnswer(typed) PROVE AnswersInv'
  <2>1. PICK v : v = [question EXCEPT !.pc = IF question.remote THEN "answered" ELSE "settled", !.typed = typed,
                                      !.decision = DecisionTyped(typed)]
      OBVIOUS
  <2>2. question' = v
      BY <1>6, <2>1 DEF TypesAnswer
  <2>3. DecisionTyped(typed) \in {"deny", "once", "session", "always"}
      BY DEF DecisionTyped
  <2>4. /\ v \in Questions /\ v.pc \in {"answered", "settled"} /\ v.typed = typed /\ v.decision = DecisionTyped(typed)
        /\ v.keyShown = question.keyShown /\ v.key = question.key /\ v.remote = question.remote
      BY <1>0, <2>1, <2>3
  <2>5. question'.decision = DecisionTyped(typed)'
      BY <2>2, <2>4 DEF DecisionTyped
  <2>6. AnswersTypeOK' /\ question'.typed = typed
      BY <2>2, <2>4 DEF AnswersTypeOK
  <2> QED
      BY <1>0, <2>2, <2>4, <2>5, <2>6 DEF AnswersInv
<1>7. CASE DecisionCrosses
  <2>1. /\ question' = [question EXCEPT !.pc = "settled", !.decision = Decision(DecisionMsg(question.decision))]
        /\ question.pc = "answered"
      BY <1>7 DEF DecisionCrosses
  <2>2. Decision(DecisionMsg(question.decision)) = question.decision
      BY <1>0, DecisionArrives
  <2>3. PICK v : v = [question EXCEPT !.pc = "settled"]
      OBVIOUS
  <2>4. question' = v
      BY <1>0, <2>1, <2>2, <2>3
  <2>5. /\ v \in Questions /\ v.pc = "settled" /\ v.typed = question.typed /\ v.decision = question.decision
        /\ v.keyShown = question.keyShown /\ v.key = question.key /\ v.remote = question.remote
      BY <1>0, <2>3
  <2>6. question.decision = DecisionTyped(question.typed)
      BY <2>1 DEF AnswersInv
  <2>7. question'.decision = DecisionTyped(question.typed)'
      BY <2>4, <2>5, <2>6 DEF DecisionTyped
  <2> QED
      BY <1>0, <2>4, <2>5, <2>7 DEF AnswersInv, AnswersTypeOK
<1> QED
    BY <1>2, <1>3, <1>4, <1>5, <1>6, <1>7 DEF AnswersNext

(* For any diff and any number of lines shown of it, with a workspace of its  *)
(* own or the service's: only an explicit yes approves, for longer than once  *)
(* only what has a key to be kept under, and the tool is told what was typed  *)
(* or that it is denied (tui/input.go, server/broker.go, client/client.go).   *)
THEOREM AnswersMeanWhatIsTyped == AnswersSpec => []AnswersMeant
<1> QED
    BY AnswersBegin, AnswersSay, AnswersStep, PTL DEF AnswersSpec
===============================================================================
