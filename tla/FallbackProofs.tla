---------------------------- MODULE FallbackProofs ----------------------------
(***************************************************************************)
(* The safety of Fallback, for any callers, any chain and any threshold    *)
(* and cooldowns.                                                          *)
(***************************************************************************)
EXTENDS Fallback, FiniteSetTheorems, TLAPS

USE BreakerAssumption, ChainAssumption DEF Chain

(***************************************************************************)
(* The breaker's methods: each keeps the type and the soundness of a       *)
(* breaker, and clears or keeps its trial.                                 *)
(***************************************************************************)
LEMMA NewSound == New \in Breakers /\ Sound(New) /\ ~New.trial
BY DEF New, Breakers, Sound, MaxStreak

LEMMA AllowedSound ==
    ASSUME NEW b \in Breakers, Sound(b), Allows(b)
    PROVE  Allowed(b) \in Breakers /\ Sound(Allowed(b)) /\ Allowed(b).trial = b.open
BY DEF Breakers, Sound, Allows, Allowed

LEMMA SuccessSound ==
    ASSUME NEW b \in Breakers
    PROVE  Success(b) \in Breakers /\ Sound(Success(b)) /\ ~Success(b).trial
BY DEF Breakers, Sound, Success, MaxStreak

LEMMA AbandonSound ==
    ASSUME NEW b \in Breakers, Sound(b)
    PROVE  Abandon(b) \in Breakers /\ Sound(Abandon(b)) /\ ~Abandon(b).trial
BY DEF Breakers, Sound, Abandon

LEMMA ElapsedSound ==
    ASSUME NEW b \in Breakers, Sound(b)
    PROVE  Elapsed(b) \in Breakers /\ Sound(Elapsed(b)) /\ Elapsed(b).trial = b.trial
BY DEF Breakers, Sound, Elapsed

LEMMA StreakGrows ==
    ASSUME NEW b \in Breakers
    PROVE  /\ Streak(b) \in 1 .. MaxStreak
           /\ b.failures >= Threshold => Streak(b) >= Threshold
BY DEF Breakers, Streak, Lower, MaxStreak

LEMMA ReopenedSound ==
    ASSUME NEW b \in Breakers, Streak(b) >= Threshold,
           NEW cooldown \in InitialCooldown .. MaxCooldown
    PROVE  /\ Reopened(b, cooldown) \in Breakers
           /\ Sound(Reopened(b, cooldown))
           /\ ~Reopened(b, cooldown).trial
<1>1. Streak(b) \in 0 .. MaxStreak /\ MaxStreak \in Nat
  BY StreakGrows DEF MaxStreak
<1>2. cooldown \in 0 .. MaxCooldown
  OBVIOUS
<1>3. Reopened(b, cooldown) \in Breakers
  BY <1>1, <1>2 DEF Reopened, Breakers
<1> QED
  BY <1>1, <1>2, <1>3 DEF Reopened, Sound

(* A failure clears the trial: it reopens the breaker, or there was none.  *)
LEMMA FailureSound ==
    ASSUME NEW b \in Breakers, Sound(b)
    PROVE  Failure(b) \in Breakers /\ Sound(Failure(b)) /\ ~Failure(b).trial
<1>1. CASE b.open /\ b.trial
  <2>1. Failure(b) = Reopened(b, Lower(2 * b.cooldown, MaxCooldown))
    BY <1>1 DEF Failure
  <2>2. Lower(2 * b.cooldown, MaxCooldown) \in InitialCooldown .. MaxCooldown
    BY <1>1 DEF Lower, Sound, Breakers
  <2>3. Streak(b) >= Threshold
    BY <1>1, StreakGrows DEF Sound
  <2> QED
    BY <2>1, <2>2, <2>3, ReopenedSound
<1>2. CASE ~b.open /\ Streak(b) >= Threshold
  <2>1. Failure(b) = Reopened(b, InitialCooldown)
    BY <1>2 DEF Failure
  <2>2. InitialCooldown \in InitialCooldown .. MaxCooldown
    OBVIOUS
  <2> QED
    BY <1>2, <2>1, <2>2, ReopenedSound
<1>3. CASE ~(b.open /\ b.trial) /\ ~(~b.open /\ Streak(b) >= Threshold)
  <2>1. Failure(b) = [b EXCEPT !.failures = Streak(b)]
    BY <1>3 DEF Failure
  <2>2. Streak(b) \in 0 .. MaxStreak /\ Streak(b) \in Int
    BY StreakGrows DEF MaxStreak
  <2>3. Failure(b) \in Breakers
    BY <2>1, <2>2 DEF Breakers
  <2>4. b.open => Streak(b) >= Threshold
    BY StreakGrows DEF Sound
  <2> QED
    BY <1>3, <2>1, <2>2, <2>3, <2>4 DEF Sound, Breakers
<1> QED
  BY <1>1, <1>2, <1>3

-------------------------------------------------------------------------------
(***************************************************************************)
(* Type correctness and the breakers' soundness.                           *)
(***************************************************************************)
CallsTyped == /\ call \in [ChainCallers -> ChainCalls]
              /\ \A c \in ChainCallers :
                    /\ call[c].at = Length + 1 => call[c].pc \in {"choosing", "failed"}
                    /\ call[c].trial => Asking(c)

HealthSound == health \in [Chain -> Breakers] /\ BreakersSound

LEMMA TypeSplit == FallbackTypeOK /\ BreakersSound <=> CallsTyped /\ HealthSound
<1>1. FallbackTypeOK => CallsTyped /\ health \in [Chain -> Breakers]
  BY DEF FallbackTypeOK, CallsTyped
<1>2. CallsTyped /\ health \in [Chain -> Breakers] => FallbackTypeOK
  BY DEF FallbackTypeOK, CallsTyped
<1> QED
  BY <1>1, <1>2 DEF HealthSound

(* A verdict on one model. *)
LEMMA VerdictSound ==
    ASSUME HealthSound, NEW m \in Chain, NEW b \in Breakers, Sound(b),
           health' = [health EXCEPT ![m] = b]
    PROVE  HealthSound'
BY DEF HealthSound, BreakersSound

LEMMA AskingAt ==
    ASSUME CallsTyped, NEW c \in ChainCallers, Asking(c)
    PROVE  /\ call[c].at \in Chain
           /\ HealthSound => Mine(c) \in Breakers /\ Sound(Mine(c))
BY DEF CallsTyped, Asking, ChainCalls, HealthSound, BreakersSound, Mine

(* Only a call c changes, to a record r of its type. *)
InPlace(r) == /\ r.at = Length + 1 => r.pc \in {"choosing", "failed"}
              /\ r.trial => r.pc = "asking"

LEMMA OneCallTyped ==
    ASSUME CallsTyped, NEW c \in ChainCallers, NEW r \in ChainCalls, InPlace(r),
           call' = [call EXCEPT ![c] = r]
    PROVE  CallsTyped'
BY DEF CallsTyped, Asking, InPlace

LEMMA CallsStep ==
    ASSUME CallsTyped, HealthSound, NEW c \in ChainCallers,
           \/ Skip(c) \/ TryModel(c) \/ SecondPass(c) \/ AllFailed(c)
           \/ Speak(c) \/ ModelAnswered(c) \/ ConsumerStops(c) \/ CallCancelled(c)
           \/ StreamBreaks(c) \/ MoveOn(c) \/ Again(c)
    PROVE  CallsTyped'
<1>1. CASE Skip(c)
  <2> DEFINE r == [call[c] EXCEPT !.at = call[c].at + 1, !.refused = @ \cup {call[c].at}]
  <2>1. call[c].at \in Chain /\ call[c].pc = "choosing"
    BY <1>1 DEF Skip, Choosing
  <2>2. call' = [call EXCEPT ![c] = r]
    BY <1>1 DEF Skip, CallsTyped
  <2>3. r \in ChainCalls
    <3>1. call[c] \in ChainCalls
      BY DEF CallsTyped
    <3>2. call[c].at + 1 \in 1 .. Length + 1
      BY <2>1
    <3>3. call[c].refused \cup {call[c].at} \in SUBSET Chain
      BY <2>1, <3>1 DEF ChainCalls
    <3> QED
      BY <3>1, <3>2, <3>3 DEF ChainCalls
  <2>4. InPlace(r)
    BY <2>1 DEF CallsTyped, ChainCalls, InPlace, Asking
  <2> HIDE DEF r
  <2> QED
    BY <2>2, <2>3, <2>4, OneCallTyped
<1>2. CASE TryModel(c)
  <2>1. health[call[c].at].open \in BOOLEAN /\ call[c].at \in Chain
    BY <1>2 DEF TryModel, Choosing, HealthSound, Breakers
  <2> DEFINE r == [call[c] EXCEPT !.pc = "asking", !.tried = TRUE, !.produced = FALSE,
                       !.trial = health[call[c].at].open /\ ~call[c].force,
                       !.asked = @ \cup {call[c].at}]
  <2>2. call' = [call EXCEPT ![c] = r]
    BY <1>2 DEF TryModel, CallsTyped
  <2>3. r \in ChainCalls
    BY <2>1 DEF CallsTyped, ChainCalls
  <2>4. InPlace(r)
    BY <2>1 DEF CallsTyped, ChainCalls, InPlace
  <2> HIDE DEF r
  <2> QED
    BY <2>2, <2>3, <2>4, OneCallTyped
<1>3. CASE SecondPass(c)
  BY <1>3 DEF SecondPass, CallsTyped, Passed, Asking, ChainCalls
<1>4. CASE AllFailed(c)
  BY <1>4 DEF AllFailed, CallsTyped, Passed, Asking, ChainCalls, ChainEnds
<1>5. CASE Speak(c)
  <2> DEFINE r == [call[c] EXCEPT !.produced = TRUE, !.spoke = @ \cup {call[c].at}]
  <2>1. call[c].at \in Chain /\ Asking(c)
    BY <1>5, AskingAt DEF Speak
  <2>2. call' = [call EXCEPT ![c] = r]
    BY <1>5 DEF Speak, CallsTyped
  <2>3. r \in ChainCalls
    BY <2>1 DEF CallsTyped, ChainCalls
  <2>4. InPlace(r)
    BY <2>1 DEF CallsTyped, ChainCalls, InPlace, Asking
  <2> HIDE DEF r
  <2> QED
    BY <2>2, <2>3, <2>4, OneCallTyped
<1>6. ASSUME NEW end \in ChainEnds, Asking(c), Ended(c, end)
      PROVE  CallsTyped'
  <2> DEFINE r == [call[c] EXCEPT !.pc = end, !.trial = FALSE]
  <2>1. call[c].at \in Chain
    BY <1>6, AskingAt
  <2>2. call' = [call EXCEPT ![c] = r]
    BY <1>6 DEF Ended, CallsTyped
  <2>3. r \in ChainCalls
    BY <1>6 DEF CallsTyped, ChainCalls
  <2>4. InPlace(r)
    BY <2>1 DEF CallsTyped, ChainCalls, InPlace
  <2> HIDE DEF r
  <2> QED
    BY <2>2, <2>3, <2>4, OneCallTyped
<1>7. CASE ModelAnswered(c) \/ CallCancelled(c) \/ StreamBreaks(c)
  BY <1>6, <1>7 DEF ModelAnswered, CallCancelled, StreamBreaks, ChainEnds
<1>8. CASE ConsumerStops(c)
  <2> DEFINE r == [call[c] EXCEPT !.pc = "stopped", !.trial = FALSE, !.produced = TRUE,
                       !.spoke = @ \cup {call[c].at}]
  <2>1. call[c].at \in Chain
    BY <1>8, AskingAt DEF ConsumerStops
  <2>2. call' = [call EXCEPT ![c] = r]
    BY <1>8 DEF ConsumerStops, CallsTyped
  <2>3. r \in ChainCalls
    BY <2>1 DEF CallsTyped, ChainCalls, ChainEnds
  <2>4. InPlace(r)
    BY <2>1 DEF CallsTyped, ChainCalls, InPlace
  <2> HIDE DEF r
  <2> QED
    BY <2>2, <2>3, <2>4, OneCallTyped
<1>9. CASE MoveOn(c)
  BY <1>9, AskingAt DEF MoveOn, CallsTyped, Asking, ChainCalls
<1>10. CASE Again(c)
  BY <1>10 DEF Again, CallsTyped, Fresh, Asking, ChainCalls
<1> QED
  BY <1>1, <1>2, <1>3, <1>4, <1>5, <1>7, <1>8, <1>9, <1>10

LEMMA HealthStep ==
    ASSUME CallsTyped, HealthSound, FallbackNext
    PROVE  HealthSound'
<1>1. CASE Tick
  <2>1. \A m \in Chain : Elapsed(health[m]) \in Breakers /\ Sound(Elapsed(health[m]))
    BY ElapsedSound DEF HealthSound, BreakersSound
  <2> QED
    BY <1>1, <2>1 DEF Tick, HealthSound, BreakersSound
<1>2. ASSUME NEW c \in ChainCallers, TryModel(c)
      PROVE  HealthSound'
  <2> DEFINE m == call[c].at
  <2>1. m \in Chain /\ health[m] \in Breakers /\ Sound(health[m])
    BY <1>2 DEF TryModel, Choosing, HealthSound, BreakersSound
  <2>2. CASE call[c].force
    BY <1>2, <2>2 DEF TryModel, HealthSound, BreakersSound
  <2>3. CASE ~call[c].force
    <3>1. health' = [health EXCEPT ![m] = Allowed(health[m])] /\ Allows(health[m])
      BY <1>2, <2>3 DEF TryModel
    <3> QED
      BY <2>1, <3>1, AllowedSound, VerdictSound
  <2> QED
    BY <2>2, <2>3
<1>3. ASSUME NEW c \in ChainCallers, Asking(c),
             \/ Verdict(c, Success(Mine(c))) \/ Verdict(c, Abandon(Mine(c)))
             \/ Verdict(c, Failure(Mine(c)))
      PROVE  HealthSound'
  <2>1. call[c].at \in Chain /\ Mine(c) \in Breakers /\ Sound(Mine(c))
    BY <1>3, AskingAt
  <2> QED
    BY <1>3, <2>1, SuccessSound, AbandonSound, FailureSound, VerdictSound DEF Verdict
<1>4. ASSUME UNCHANGED health PROVE HealthSound'
  BY <1>4 DEF HealthSound, BreakersSound
<1> QED
  BY <1>1, <1>2, <1>3, <1>4
  DEF FallbackNext, Skip, SecondPass, AllFailed, Speak, ModelAnswered, ConsumerStops, CallCancelled, StreamBreaks,
      MoveOn, Again

Typed == CallsTyped /\ HealthSound

LEMMA TypedStep ==
    ASSUME Typed, [FallbackNext]_fallbackVars
    PROVE  Typed'
<1>1. CASE UNCHANGED fallbackVars
  BY <1>1 DEF fallbackVars, Typed, CallsTyped, HealthSound, BreakersSound, Asking
<1>2. CASE Tick
  BY <1>2, HealthStep DEF FallbackNext, Tick, Typed, CallsTyped, Asking
<1>3. CASE FallbackNext /\ ~Tick
  BY <1>3, HealthStep, CallsStep DEF FallbackNext, Typed
<1> QED
  BY <1>1, <1>2, <1>3

LEMMA TypedHolds == FallbackSpec => []Typed
<1>1. FallbackInit => Typed
  BY NewSound DEF FallbackInit, Typed, CallsTyped, HealthSound, BreakersSound, Fresh, ChainCalls, Asking
<1>2. Typed /\ [FallbackNext]_fallbackVars => Typed'
  BY TypedStep
<1> QED
  BY <1>1, <1>2, PTL DEF FallbackSpec

(* Every breaker and every call has its type.                              *)
THEOREM TypeCorrect == FallbackSpec => []FallbackTypeOK
<1>1. Typed => FallbackTypeOK
  BY TypeSplit DEF Typed
<1> QED
  BY <1>1, TypedHolds, PTL

(* A breaker opens at its threshold, cools down within its bounds and has  *)
(* a trial only when it is open, whatever verdicts overlapping calls give. *)
THEOREM BreakersStaySound == FallbackSpec => []BreakersSound
<1>1. Typed => BreakersSound
  BY DEF Typed, HealthSound
<1> QED
  BY <1>1, TypedHolds, PTL

-------------------------------------------------------------------------------
(***************************************************************************)
(* A trial in flight has its call.                                         *)
(***************************************************************************)
(* The calls other than c stay where they are. *)
LEMMA OthersOnTrial ==
    ASSUME CallsTyped, NEW c \in ChainCallers, NEW d \in ChainCallers, d # c, NEW m \in Chain,
           \/ Skip(c) \/ TryModel(c) \/ SecondPass(c) \/ AllFailed(c)
           \/ Speak(c) \/ ModelAnswered(c) \/ ConsumerStops(c) \/ CallCancelled(c)
           \/ StreamBreaks(c) \/ MoveOn(c) \/ Again(c),
           OnTrial(d, m)
    PROVE  OnTrial(d, m)'
<1>1. call'[d] = call[d]
  BY DEF CallsTyped, Skip, TryModel, SecondPass, AllFailed, Speak, ModelAnswered, ConsumerStops, CallCancelled,
         StreamBreaks, MoveOn, Again, Ended
<1> QED
  BY <1>1 DEF OnTrial, Asking

(* A call that ends or moves on settles its model's trial. *)
LEMMA VerdictSettles ==
    ASSUME Typed, TrialsHaveCalls, NEW c \in ChainCallers, Asking(c),
           \/ ModelAnswered(c) \/ ConsumerStops(c) \/ CallCancelled(c) \/ StreamBreaks(c) \/ MoveOn(c)
    PROVE  TrialsHaveCalls'
<1> DEFINE n == call[c].at
<1>1. n \in Chain /\ Mine(c) \in Breakers /\ Sound(Mine(c))
  BY AskingAt DEF Typed
<1>2. PICK b \in Breakers : ~b.trial /\ health' = [health EXCEPT ![n] = b]
  BY <1>1, SuccessSound, AbandonSound, FailureSound
  DEF ModelAnswered, ConsumerStops, CallCancelled, StreamBreaks, MoveOn, Verdict
<1>3. SUFFICES ASSUME NEW m \in Chain, health'[m].trial
               PROVE  \E d \in ChainCallers : OnTrial(d, m)'
  BY DEF TrialsHaveCalls
<1>4. m # n /\ health[m].trial
  BY <1>1, <1>2, <1>3 DEF Typed, HealthSound
<1>5. PICK d \in ChainCallers : OnTrial(d, m)
  BY <1>4 DEF TrialsHaveCalls
<1>6. d # c
  BY <1>4, <1>5 DEF OnTrial
<1> QED
  BY <1>5, <1>6, OthersOnTrial DEF Typed

(* A call let in half open is the trial of its model.  A forced one leaves *)
(* the breaker as it was.                                                  *)
LEMMA AskReserves ==
    ASSUME Typed, TrialsHaveCalls, NEW c \in ChainCallers, TryModel(c)
    PROVE  TrialsHaveCalls'
<1> DEFINE n == call[c].at
<1>1. n \in Chain /\ call[c].pc = "choosing"
  BY DEF TryModel, Choosing
<1>2. SUFFICES ASSUME NEW m \in Chain, health'[m].trial
               PROVE  \E d \in ChainCallers : OnTrial(d, m)'
  BY DEF TrialsHaveCalls
<1>3. CASE health[m].trial
  <2>1. PICK d \in ChainCallers : OnTrial(d, m)
    BY <1>3 DEF TrialsHaveCalls
  <2>2. d # c
    BY <1>1, <2>1 DEF OnTrial, Asking
  <2> QED
    BY <2>1, <2>2, OthersOnTrial DEF Typed
<1>4. CASE ~health[m].trial
  <2>1. ~call[c].force
    BY <1>2, <1>4 DEF TryModel
  <2>2. health' = [health EXCEPT ![n] = Allowed(health[n])] /\ Allows(health[n])
    BY <2>1 DEF TryModel
  <2>3. m = n
    BY <1>2, <1>4, <2>2 DEF Typed, HealthSound
  <2>4. health[n].open
    BY <1>1, <1>2, <2>2, <2>3, AllowedSound DEF Typed, HealthSound, BreakersSound
  <2>5. OnTrial(c, m)'
    BY <1>1, <2>1, <2>3, <2>4 DEF TryModel, OnTrial, Asking, Typed, CallsTyped, ChainCalls
  <2> QED
    BY <2>5
<1> QED
  BY <1>3, <1>4

LEMMA TrialsStep ==
    ASSUME Typed, TrialsHaveCalls, [FallbackNext]_fallbackVars
    PROVE  TrialsHaveCalls'
<1>1. CASE UNCHANGED fallbackVars
  BY <1>1 DEF fallbackVars, TrialsHaveCalls, OnTrial, Asking
<1>2. CASE Tick
  <2>1. \A m \in Chain : health'[m].trial = health[m].trial
    BY <1>2, ElapsedSound DEF Tick, Typed, HealthSound, BreakersSound
  <2> QED
    BY <1>2, <2>1 DEF Tick, TrialsHaveCalls, OnTrial, Asking
<1>3. ASSUME NEW c \in ChainCallers, Speak(c) PROVE TrialsHaveCalls'
  <2>1. \A d \in ChainCallers, m \in Chain : OnTrial(d, m) => OnTrial(d, m)'
    BY <1>3 DEF Speak, OnTrial, Asking, Typed, CallsTyped, ChainCalls
  <2> QED
    BY <1>3, <2>1 DEF Speak, TrialsHaveCalls
<1>4. ASSUME NEW c \in ChainCallers, Skip(c) \/ SecondPass(c) \/ AllFailed(c) \/ Again(c)
      PROVE  TrialsHaveCalls'
  <2>1. ~Asking(c) /\ UNCHANGED health
    BY <1>4 DEF Skip, SecondPass, AllFailed, Again, Choosing, Passed, Asking, ChainEnds
  <2>2. \A d \in ChainCallers, m \in Chain : OnTrial(d, m) => OnTrial(d, m)'
    BY <1>4, <2>1, OthersOnTrial DEF OnTrial, Typed
  <2> QED
    BY <2>1, <2>2 DEF TrialsHaveCalls
<1>5. ASSUME NEW c \in ChainCallers,
             \/ ModelAnswered(c) \/ ConsumerStops(c) \/ CallCancelled(c) \/ StreamBreaks(c) \/ MoveOn(c)
      PROVE  TrialsHaveCalls'
  BY <1>5, VerdictSettles DEF ModelAnswered, ConsumerStops, CallCancelled, StreamBreaks, MoveOn
<1> QED
  BY <1>1, <1>2, <1>3, <1>4, <1>5, AskReserves DEF FallbackNext

(* A breaker that says a trial is in flight has one: no model is refused   *)
(* for ever because an outcome was not recorded.                           *)
THEOREM TrialsAlwaysHaveCalls == FallbackSpec => []TrialsHaveCalls
<1>1. FallbackInit => TrialsHaveCalls
  BY NewSound DEF FallbackInit, TrialsHaveCalls
<1>2. Typed /\ TrialsHaveCalls /\ [FallbackNext]_fallbackVars => TrialsHaveCalls'
  BY TrialsStep
<1> QED
  BY <1>1, <1>2, TypedHolds, PTL DEF FallbackSpec

-------------------------------------------------------------------------------
(***************************************************************************)
(* What a call has done so far.  A call is silent until the model it is at *)
(* speaks.  In the first pass every model passed was either asked or       *)
(* refused; the second is made only when the first was refused by all, and *)
(* asks every model it passes.                                             *)
(***************************************************************************)
Voice(r) ==
    /\ r.spoke \subseteq {r.at}
    /\ r.pc \in {"choosing", "failed"} => r.spoke = {}
    /\ r.pc = "asking" /\ ~r.produced => r.spoke = {}

FirstPass(r, k) ==
    /\ r.asked \cup r.refused = 1 .. k /\ r.asked \cap r.refused = {}
    /\ r.tried <=> r.asked # {}

PassedTo(r, k) == IF r.force THEN r.refused = Chain /\ r.asked = 1 .. k ELSE FirstPass(r, k)

FailedFairly(r) ==
    /\ r.asked \cup r.refused = Chain
    /\ r.asked # {}
    /\ r.refused = Chain => r.asked = Chain

Ledger(r) ==
    /\ r.pc = "choosing" => PassedTo(r, r.at - 1)
    /\ r.pc = "asking" => PassedTo(r, r.at)
    /\ r.pc = "failed" => FailedFairly(r)

Kept == \A c \in ChainCallers : Voice(call[c]) /\ Ledger(call[c])

LEMMA OneCallKept ==
    ASSUME CallsTyped, Kept, NEW c \in ChainCallers, Voice(call'[c]), Ledger(call'[c]),
           \A d \in ChainCallers \ {c} : call'[d] = call[d]
    PROVE  Kept'
BY DEF Kept

LEMMA OnlyOneChanges ==
    ASSUME CallsTyped, NEW c \in ChainCallers,
           \/ Skip(c) \/ TryModel(c) \/ SecondPass(c) \/ AllFailed(c)
           \/ Speak(c) \/ ModelAnswered(c) \/ ConsumerStops(c) \/ CallCancelled(c)
           \/ StreamBreaks(c) \/ MoveOn(c) \/ Again(c)
    PROVE  \A d \in ChainCallers \ {c} : call'[d] = call[d]
BY DEF CallsTyped, Skip, TryModel, SecondPass, AllFailed, Speak, ModelAnswered, ConsumerStops, CallCancelled,
       StreamBreaks, MoveOn, Again, Ended

LEMMA VoiceStep ==
    ASSUME CallsTyped, NEW c \in ChainCallers, Voice(call[c]),
           \/ Skip(c) \/ TryModel(c) \/ SecondPass(c) \/ AllFailed(c)
           \/ Speak(c) \/ ModelAnswered(c) \/ ConsumerStops(c) \/ CallCancelled(c)
           \/ StreamBreaks(c) \/ MoveOn(c) \/ Again(c)
    PROVE  Voice(call'[c])
<1> DEFINE r == call[c]
           q == call'[c]
<1>0. r \in ChainCalls
  BY DEF CallsTyped
<1>1. CASE Skip(c) \/ TryModel(c) \/ SecondPass(c) \/ AllFailed(c) \/ MoveOn(c)
  <2>1. r.spoke = {}
    BY <1>1 DEF Skip, TryModel, SecondPass, AllFailed, MoveOn, Choosing, Passed, Asking, Voice
  <2>2. q.spoke = r.spoke
    BY <1>0, <1>1 DEF Skip, TryModel, SecondPass, AllFailed, MoveOn, CallsTyped, ChainCalls
  <2> QED
    BY <2>1, <2>2 DEF Voice
<1>2. CASE Speak(c)
  <2>1. q.pc = "asking" /\ q.produced = TRUE /\ q.at = r.at /\ q.spoke = r.spoke \cup {r.at}
    BY <1>0, <1>2 DEF Speak, Asking, CallsTyped, ChainCalls
  <2> QED
    BY <2>1 DEF Voice
<1>3. CASE ConsumerStops(c)
  <2>1. q.pc = "stopped" /\ q.at = r.at /\ q.spoke = r.spoke \cup {r.at}
    BY <1>0, <1>3 DEF ConsumerStops, CallsTyped, ChainCalls
  <2> QED
    BY <2>1 DEF Voice
<1>4. CASE ModelAnswered(c) \/ CallCancelled(c) \/ StreamBreaks(c)
  <2>1. /\ q.pc \in {"answered", "cancelled", "broken"}
        /\ q.at = r.at /\ q.spoke = r.spoke
    BY <1>0, <1>4 DEF ModelAnswered, CallCancelled, StreamBreaks, Ended, CallsTyped, ChainCalls
  <2> QED
    BY <2>1 DEF Voice
<1>5. CASE Again(c)
  <2>1. q = Fresh
    BY <1>5 DEF Again, CallsTyped
  <2> QED
    BY <2>1 DEF Fresh, Voice
<1> QED
  BY <1>1, <1>2, <1>3, <1>4, <1>5

LEMMA LedgerStep ==
    ASSUME CallsTyped, NEW c \in ChainCallers, Ledger(call[c]),
           \/ Skip(c) \/ TryModel(c) \/ SecondPass(c) \/ AllFailed(c)
           \/ Speak(c) \/ ModelAnswered(c) \/ ConsumerStops(c) \/ CallCancelled(c)
           \/ StreamBreaks(c) \/ MoveOn(c) \/ Again(c)
    PROVE  Ledger(call'[c])
<1> DEFINE m == call[c].at
           r == call[c]
<1>0. r \in ChainCalls /\ r.force \in BOOLEAN /\ r.tried \in BOOLEAN
  BY DEF CallsTyped, ChainCalls
<1>1. CASE Skip(c)
  <2>1. m \in Chain /\ r.pc = "choosing" /\ ~r.force
    BY <1>1 DEF Skip, Choosing
  <2>2. FirstPass(r, m - 1)
    BY <2>1 DEF Ledger, PassedTo
  <2>3. /\ call'[c].pc = "choosing" /\ call'[c].force = r.force /\ call'[c].tried = r.tried
        /\ call'[c].at = m + 1 /\ call'[c].asked = r.asked /\ call'[c].refused = r.refused \cup {m}
    BY <1>1, <2>1 DEF Skip, CallsTyped
  <2>4. (1 .. m - 1) \cup {m} = 1 .. m /\ m \notin 1 .. m - 1 /\ m + 1 - 1 = m
    BY <2>1
  <2>5. FirstPass(call'[c], m)
    BY <2>2, <2>3, <2>4 DEF FirstPass
  <2> QED
    BY <2>1, <2>3, <2>4, <2>5 DEF Ledger, PassedTo
<1>2. CASE TryModel(c)
  <2>1. m \in Chain /\ r.pc = "choosing" /\ PassedTo(r, m - 1)
    BY <1>2 DEF TryModel, Choosing, Ledger
  <2>2. /\ call'[c].pc = "asking" /\ call'[c].force = r.force /\ call'[c].tried = TRUE
        /\ call'[c].at = m /\ call'[c].asked = r.asked \cup {m} /\ call'[c].refused = r.refused
    BY <1>2 DEF TryModel, CallsTyped
  <2>3. (1 .. m - 1) \cup {m} = 1 .. m /\ m \notin 1 .. m - 1
    BY <2>1
  <2>4. PassedTo(call'[c], m)
    BY <2>1, <2>2, <2>3 DEF PassedTo, FirstPass
  <2> QED
    BY <2>2, <2>4 DEF Ledger
<1>3. CASE SecondPass(c)
  <2>1. r.pc = "choosing" /\ m = Length + 1 /\ ~r.tried /\ ~r.force
    BY <1>3 DEF SecondPass, Passed
  <2>2. r.asked = {} /\ r.refused = Chain
    <3>1. FirstPass(r, Length)
      BY <2>1 DEF Ledger, PassedTo
    <3> QED
      BY <2>1, <3>1 DEF FirstPass
  <2>3. /\ call'[c].pc = "choosing" /\ call'[c].force = TRUE /\ call'[c].at = 1
        /\ call'[c].asked = r.asked /\ call'[c].refused = r.refused
    BY <1>3, <2>1 DEF SecondPass, CallsTyped
  <2> QED
    BY <2>2, <2>3 DEF Ledger, PassedTo
<1>4. CASE AllFailed(c)
  <2>1. r.pc = "choosing" /\ m = Length + 1 /\ (r.tried \/ r.force)
    BY <1>4 DEF AllFailed, Passed
  <2>2. PassedTo(r, Length)
    BY <2>1 DEF Ledger
  <2>3. FailedFairly(r)
    <3>1. Chain # {}
      BY 1 \in Chain
    <3> QED
      BY <2>1, <2>2, <3>1 DEF PassedTo, FirstPass, FailedFairly
  <2>4. /\ call'[c].pc = "failed" /\ call'[c].asked = r.asked /\ call'[c].refused = r.refused
    BY <1>4 DEF AllFailed, CallsTyped
  <2> QED
    BY <2>3, <2>4 DEF Ledger, FailedFairly
<1>5. CASE Speak(c)
  <2>1. /\ call'[c].pc = r.pc /\ call'[c].force = r.force /\ call'[c].tried = r.tried
        /\ call'[c].at = m /\ call'[c].asked = r.asked /\ call'[c].refused = r.refused
    BY <1>5 DEF Speak, CallsTyped
  <2> QED
    BY <2>1 DEF Ledger, PassedTo, FirstPass, FailedFairly
<1>6. CASE ModelAnswered(c) \/ ConsumerStops(c) \/ CallCancelled(c) \/ StreamBreaks(c)
  <2>1. call'[c].pc \in {"answered", "stopped", "cancelled", "broken"}
    <3>1. CASE ConsumerStops(c)
      BY <1>0, <3>1 DEF ConsumerStops, CallsTyped, ChainCalls
    <3>2. CASE ModelAnswered(c) \/ CallCancelled(c) \/ StreamBreaks(c)
      BY <1>0, <3>2 DEF ModelAnswered, CallCancelled, StreamBreaks, Ended, CallsTyped, ChainCalls
    <3> QED
      BY <1>6, <3>1, <3>2
  <2> QED
    BY <2>1 DEF Ledger
<1>7. CASE MoveOn(c)
  <2>1. m \in Chain /\ r.pc = "asking"
    BY <1>7, AskingAt DEF MoveOn, Asking
  <2>2. /\ call'[c].pc = "choosing" /\ call'[c].force = r.force /\ call'[c].tried = r.tried
        /\ call'[c].at = m + 1 /\ call'[c].asked = r.asked /\ call'[c].refused = r.refused
    BY <1>7 DEF MoveOn, CallsTyped
  <2>3. PassedTo(r, m)
    BY <2>1 DEF Ledger
  <2>4. PassedTo(call'[c], m)
    BY <2>2, <2>3 DEF PassedTo, FirstPass
  <2>5. call'[c].at - 1 = m
    BY <2>1, <2>2
  <2> QED
    BY <2>2, <2>4, <2>5 DEF Ledger
<1>8. CASE Again(c)
  <2>1. call'[c] = Fresh
    BY <1>8 DEF Again, CallsTyped
  <2> QED
    BY <2>1 DEF Fresh, Ledger, PassedTo, FirstPass
<1> QED
  BY <1>1, <1>2, <1>3, <1>4, <1>5, <1>6, <1>7, <1>8

LEMMA KeptHolds == FallbackSpec => []Kept
<1>1. FallbackInit => Kept
  BY DEF FallbackInit, Fresh, Kept, Voice, Ledger, PassedTo, FirstPass
<1>2. Typed /\ Kept /\ [FallbackNext]_fallbackVars => Kept'
  <2> SUFFICES ASSUME Typed, Kept, [FallbackNext]_fallbackVars PROVE Kept'
    OBVIOUS
  <2>1. CASE UNCHANGED fallbackVars \/ Tick
    BY <2>1 DEF fallbackVars, Tick, Kept
  <2>2. CASE FallbackNext /\ ~Tick
    <3>1. PICK c \in ChainCallers :
           \/ Skip(c) \/ TryModel(c) \/ SecondPass(c) \/ AllFailed(c)
           \/ Speak(c) \/ ModelAnswered(c) \/ ConsumerStops(c) \/ CallCancelled(c)
           \/ StreamBreaks(c) \/ MoveOn(c) \/ Again(c)
      BY <2>2 DEF FallbackNext
    <3>2. Voice(call'[c]) /\ Ledger(call'[c])
      BY <3>1, VoiceStep, LedgerStep DEF Typed, Kept
    <3> QED
      BY <3>1, <3>2, OnlyOneChanges, OneCallKept DEF Typed
  <2> QED
    BY <2>1, <2>2
<1> QED
  BY <1>1, <1>2, TypedHolds, PTL DEF FallbackSpec

(* The consumer of a call never sees the output of two models.             *)
THEOREM OneModelSpeaks == FallbackSpec => []OneVoice
<1>1. Kept => OneVoice
  <2> SUFFICES ASSUME Kept, NEW c \in ChainCallers
               PROVE  /\ Cardinality(call[c].spoke) <= 1
                      /\ call[c].spoke # {} => call[c].pc \notin {"choosing", "failed"}
    BY DEF OneVoice
  <2>1. call[c].spoke = {} \/ call[c].spoke = {call[c].at}
    BY DEF Kept, Voice
  <2>2. Cardinality(call[c].spoke) <= 1
    <3>1. Cardinality({}) = 0 /\ Cardinality({call[c].at}) = 1
      BY FS_EmptySet, FS_Singleton
    <3> QED
      BY <2>1, <3>1
  <2>3. call[c].pc \in {"choosing", "failed"} => call[c].spoke = {}
    BY DEF Kept, Voice
  <2> QED
    BY <2>2, <2>3
<1> QED
  BY <1>1, KeptHolds, PTL

(* A call that fails has asked a model, and every model that was not asked *)
(* had refused it.                                                         *)
THEOREM NoneFailsUnasked == FallbackSpec => []NeverFailsUnasked
<1>1. Kept => NeverFailsUnasked
  BY DEF Kept, Ledger, FailedFairly, NeverFailsUnasked
<1> QED
  BY <1>1, KeptHolds, PTL

(* A call ends with one voice, or with every model asked or refused. *)
THEOREM CallsAlwaysEndFairly == FallbackSpec => []CallsEndFairly
BY OneModelSpeaks, NoneFailsUnasked, PTL DEF CallsEndFairly
===============================================================================
