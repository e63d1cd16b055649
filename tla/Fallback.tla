------------------------------- MODULE Fallback -------------------------------
(***************************************************************************)
(* Model fallback (internal/runtime/fallback.go): the engine's sessions    *)
(* and sub-agents call one chain of models, each behind a circuit breaker. *)
(* A call goes down the chain asking every model whose breaker lets it in, *)
(* and a second time, asking all, when none did.                           *)
(*                                                                         *)
(* A caller's breaker calls are atomic (Breaker); the models' answers come *)
(* in between, interleaved with those of the other callers and with time.  *)
(* Which answers, errors or cancellations come is left open.               *)
(***************************************************************************)
EXTENDS Breaker, FiniteSets

CONSTANTS ChainCallers, \* calls of GenerateContent that may overlap
          Length        \* models in the chain

ASSUME ChainAssumption == Length \in Nat /\ Length >= 2

VARIABLES health,   \* each model's breaker
          call      \* each caller's call of GenerateContent

fallbackVars == <<health, call>>

Chain == 1 .. Length

ChainEnds == {"answered", "stopped", "cancelled", "broken", "failed"}

(* "trial", "asked", "refused" and "spoke" record what happened in a call:   *)
(* whether the breaker let it in half open, the models it asked, those whose *)
(* breaker refused it, and those whose output the consumer was given.        *)
ChainCalls == [pc : {"choosing", "asking"} \cup ChainEnds, at : 1 .. Length + 1, force : BOOLEAN,
               tried : BOOLEAN, produced : BOOLEAN, trial : BOOLEAN,
               asked : SUBSET Chain, refused : SUBSET Chain, spoke : SUBSET Chain]

Fresh == [pc |-> "choosing", at |-> 1, force |-> FALSE, tried |-> FALSE,
          produced |-> FALSE, trial |-> FALSE, asked |-> {}, refused |-> {}, spoke |-> {}]

FallbackInit == /\ health = [m \in Chain |-> New]
                /\ call = [c \in ChainCallers |-> Fresh]

Choosing(c) == call[c].pc = "choosing" /\ call[c].at \in Chain

Asking(c) == call[c].pc = "asking"

OnTrial(c, m) == Asking(c) /\ call[c].at = m /\ call[c].trial

-------------------------------------------------------------------------------
(* One pass down the chain. *)

(* The breaker of the model refuses and the pass isn't forced. *)
Skip(c) ==
    LET m == call[c].at IN
    /\ Choosing(c) /\ ~call[c].force /\ ~Allows(health[m])
    /\ call' = [call EXCEPT ![c].at = m + 1, ![c].refused = @ \cup {m}]
    /\ UNCHANGED health

(* The model is asked; a half-open breaker reserves its trial, unless the    *)
(* pass is forced and Allow isn't consulted.                                 *)
TryModel(c) ==
    LET m == call[c].at IN
    /\ Choosing(c)
    /\ call[c].force \/ Allows(health[m])
    /\ call' = [call EXCEPT ![c].pc = "asking", ![c].tried = TRUE, ![c].produced = FALSE,
                            ![c].trial = health[m].open /\ ~call[c].force,
                            ![c].asked = @ \cup {m}]
    /\ health' = IF call[c].force THEN health ELSE [health EXCEPT ![m] = Allowed(@)]

Passed(c) == call[c].pc = "choosing" /\ call[c].at = Length + 1

(* Every breaker was open: all are asked rather than fail unasked. *)
SecondPass(c) ==
    /\ Passed(c) /\ ~call[c].tried /\ ~call[c].force
    /\ call' = [call EXCEPT ![c].at = 1, ![c].force = TRUE]
    /\ UNCHANGED health

AllFailedUnasked(c) ==
    /\ Passed(c)
    /\ call' = [call EXCEPT ![c].pc = "failed"]
    /\ UNCHANGED health

(* "every model failed". *)
AllFailed(c) ==
    /\ Passed(c) /\ (call[c].tried \/ call[c].force)
    /\ call' = [call EXCEPT ![c].pc = "failed"]
    /\ UNCHANGED health

-------------------------------------------------------------------------------
(* One model's answer (try). *)

Ended(c, end) == call' = [call EXCEPT ![c].pc = end, ![c].trial = FALSE]

(* The breaker of the model a call is at, and the verdict it is given. *)
Mine(c) == health[call[c].at]

Verdict(c, b) == health' = [health EXCEPT ![call[c].at] = b]

Speak(c) ==
    /\ Asking(c)
    /\ call' = [call EXCEPT ![c].produced = TRUE, ![c].spoke = @ \cup {call[c].at}]
    /\ UNCHANGED health

(* The stream ends without an error, whatever it held. *)
ModelAnswered(c) == Asking(c) /\ Ended(c, "answered") /\ Verdict(c, Success(Mine(c)))

(* The consumer takes a response and wants no more. *)
ConsumerStops(c) ==
    /\ Asking(c)
    /\ call' = [call EXCEPT ![c].pc = "stopped", ![c].trial = FALSE, ![c].produced = TRUE,
                            ![c].spoke = @ \cup {call[c].at}]
    /\ Verdict(c, Success(Mine(c)))

(* An error once the call's context is done, or one that says it was. *)
CallCancelled(c) == Asking(c) /\ Ended(c, "cancelled") /\ Verdict(c, Abandon(Mine(c)))

(* An error after output: too late to switch. *)
StreamBreaks(c) == Asking(c) /\ call[c].produced /\ Ended(c, "broken") /\ Verdict(c, Failure(Mine(c)))

MoveOnAlways(c) ==
    /\ Asking(c)
    /\ call' = [call EXCEPT ![c].pc = "choosing", ![c].at = @ + 1, ![c].trial = FALSE]
    /\ Verdict(c, Failure(Mine(c)))

(* An error before any output: the next model's turn. *)
MoveOn(c) ==
    /\ Asking(c) /\ ~call[c].produced
    /\ call' = [call EXCEPT ![c].pc = "choosing", ![c].at = @ + 1, ![c].trial = FALSE]
    /\ Verdict(c, Failure(Mine(c)))

(* The caller's next call. *)
Again(c) ==
    /\ call[c].pc \in ChainEnds
    /\ call' = [call EXCEPT ![c] = Fresh]
    /\ UNCHANGED health

Tick ==
    /\ \E m \in Chain : health[m].left > 0
    /\ health' = [m \in Chain |-> Elapsed(health[m])]
    /\ UNCHANGED call

FallbackNext ==
    \/ Tick
    \/ \E c \in ChainCallers :
        \/ Skip(c) \/ TryModel(c) \/ SecondPass(c) \/ AllFailed(c)
        \/ Speak(c) \/ ModelAnswered(c) \/ ConsumerStops(c) \/ CallCancelled(c)
        \/ StreamBreaks(c) \/ MoveOn(c) \/ Again(c)

FallbackSpec == FallbackInit /\ [][FallbackNext]_fallbackVars

-------------------------------------------------------------------------------
(* Every breaker and every call has its type, a call is past its chain only  *)
(* while choosing or failed, and only a call being asked can be on trial.    *)
FallbackTypeOK ==
    /\ health \in [Chain -> Breakers]
    /\ call \in [ChainCallers -> ChainCalls]
    /\ \A c \in ChainCallers : /\ call[c].at = Length + 1 => call[c].pc \in {"choosing", "failed"}
                               /\ call[c].trial => Asking(c)

(* No model is refused without cause: a closed breaker is below its          *)
(* threshold, an open one has reached it and cools down within its bounds,   *)
(* however the verdicts of overlapping calls, some of them let in before it  *)
(* opened and some forced, come in (breaker.go:66-82).                       *)
BreakersSound == \A m \in Chain : Sound(health[m])

(* A breaker that says a trial is in flight has one: a call it let in half   *)
(* open that is still being asked.  Otherwise it would refuse its model to   *)
(* every later call, with nobody left to report the outcome                  *)
(* (breaker.go:47 and fallback.go:87-118).                                   *)
TrialsHaveCalls ==
    \A m \in Chain : health[m].trial => \E c \in ChainCallers : OnTrial(c, m)

(* "every model failed" is said only of models that were asked, or refused   *)
(* while another one was asked: never by a call that asked none              *)
(* (fallback.go:61-63).                                                      *)
NeverFailsUnasked ==
    \A c \in ChainCallers : call[c].pc = "failed" =>
        /\ call[c].asked \cup call[c].refused = Chain
        /\ call[c].asked # {}
        /\ call[c].refused = Chain => call[c].asked = Chain

(* The consumer never sees the output of two models in one call, and a call  *)
(* that gave it output ends with that model (fallback.go:27-29).             *)
OneVoice ==
    \A c \in ChainCallers : /\ Cardinality(call[c].spoke) <= 1
                            /\ call[c].spoke # {} => call[c].pc \notin {"choosing", "failed"}

(* A call down the chain ends as it may: with one voice, or with every model *)
(* asked or refused (fallback.go:27-120).                                    *)
CallsEndFairly == NeverFailsUnasked /\ OneVoice

(* "When the cooldown ends, one caller is let through as a trial": never two *)
(* at once (breaker.go:13-14; breaker_test.go:36-38).                        *)
OneTrial ==
    \A m \in Chain : Cardinality({c \in ChainCallers : OnTrial(c, m)}) <= 1
===============================================================================
