------------------------------- MODULE Breaker -------------------------------
(***************************************************************************)
(* The circuit breaker of internal/breaker, which guards model APIs        *)
(* (Fallback) and MCP servers.  Every method of the code holds b.mu from   *)
(* its first line to its last, so each is one operator from a breaker to   *)
(* the breaker it leaves; the modules of its users say who calls it when.  *)
(*                                                                         *)
(* Time is a countdown: "left" is what remains until openUntil, and        *)
(* Elapsed is the clock's tick.  The streak of failures is compared only   *)
(* with the threshold and with 1, so it stops growing at MaxStreak.        *)
(***************************************************************************)
EXTENDS Integers

CONSTANTS Threshold,         \* consecutive failures that open it
          InitialCooldown,   \* ticks, 15 s in the code
          MaxCooldown        \* ticks, 5 min in the code

ASSUME BreakerAssumption ==
    /\ Threshold \in Nat \ {0}
    /\ InitialCooldown \in Nat \ {0}
    /\ MaxCooldown \in Nat /\ MaxCooldown >= InitialCooldown

MaxStreak == Threshold + 1

Lower(x, y) == IF x <= y THEN x ELSE y

Breakers == [failures : 0 .. MaxStreak, open : BOOLEAN, trial : BOOLEAN,
             left : 0 .. MaxCooldown, cooldown : 0 .. MaxCooldown]

New == [failures |-> 0, open |-> FALSE, trial |-> FALSE, left |-> 0, cooldown |-> 0]

(* Allow: whether a call may proceed, and the breaker that leaves. *)
Allows(b) == ~b.open \/ (b.left = 0 /\ ~b.trial)

Allowed(b) == [b EXCEPT !.trial = b.open]

(* Success closes it; openUntil keeps running down unread. *)
Success(b) == [failures |-> 0, open |-> FALSE, trial |-> FALSE, left |-> b.left, cooldown |-> 0]

Streak(b) == Lower(b.failures + 1, MaxStreak)

Reopened(b, cooldown) ==
    [failures |-> Streak(b), open |-> TRUE, trial |-> FALSE,
     left |-> cooldown, cooldown |-> cooldown]

FailureUncapped(b) ==
    CASE b.open /\ b.trial -> Reopened(b, 2 * b.cooldown)
      [] ~b.open /\ Streak(b) >= Threshold -> Reopened(b, InitialCooldown)
      [] OTHER -> [b EXCEPT !.failures = Streak(b)]

FailureOverThreshold(b) ==
    CASE b.open /\ b.trial -> Reopened(b, Lower(2 * b.cooldown, MaxCooldown))
      [] ~b.open /\ Streak(b) > Threshold -> Reopened(b, InitialCooldown)
      [] OTHER -> [b EXCEPT !.failures = Streak(b)]

(* Failure: a failed trial backs off further, the threshold's failure opens. *)
Failure(b) ==
    CASE b.open /\ b.trial -> Reopened(b, Lower(2 * b.cooldown, MaxCooldown))
      [] ~b.open /\ Streak(b) >= Threshold -> Reopened(b, InitialCooldown)
      [] OTHER -> [b EXCEPT !.failures = Streak(b)]

AbandonKeepsTrial(b) == b

(* Abandon: a cancelled call says nothing, and another trial may be let in. *)
Abandon(b) == [b EXCEPT !.trial = FALSE]

Elapsed(b) == [b EXCEPT !.left = IF b.left > 0 THEN b.left - 1 ELSE 0]

(* What every use of a breaker keeps: it refuses calls only after          *)
(* Threshold failures in a row, for a cooldown within its two bounds, and  *)
(* only an open breaker has a trial out.                                   *)
Sound(b) ==
    /\ ~b.open => b.failures < Threshold /\ ~b.trial
    /\ b.open => /\ b.failures >= Threshold
                 /\ InitialCooldown <= b.cooldown
                 /\ b.left <= b.cooldown
                 /\ b.trial => b.left = 0
==============================================================================
