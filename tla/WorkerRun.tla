------------------------------- MODULE WorkerRun -------------------------------
(***************************************************************************)
(* One run of a worker, unattended: what it may do and spend               *)
(* (internal/app/workers.go RunWorker, internal/workers/policy.go and      *)
(* permission.go).  What a run starts beside others is in WorkerScheduler, *)
(* the loop of calls in AgentLoop and the way of a request in Approvals.   *)
(*                                                                         *)
(* A target of a request is a command or a path, and "odd" when it is      *)
(* several commands in one or leads outside of the workspace.  A pattern   *)
(* is the target it spells and those it matches otherwise.                 *)
(***************************************************************************)
EXTENDS Sequences, SequencesExt, FiniteSetsExt, Integers, FiniteSets

CONSTANTS MaxLimit, \* bound: of the limits written down
          MaxAsked, \* bound: requests of a run
          MaxSpent  \* bound: cost of a run

VARIABLES definition, \* Worker and WorkerPolicy: permissions, limits and what the host makes of them
          unattended  \* the run: its phase, context, cost, requests and record

workerVars == <<definition, unattended>>

ActionKinds == {"shell", "write"}
Targets == [kind : ActionKinds, odd : BOOLEAN]
TargetsOf(kind) == {t \in Targets : t.kind = kind}

Spelled(t) == [kind |-> t.kind, text |-> {t}, matches |-> {}]
Glob(kind) == [kind |-> kind, text |-> {}, matches |-> TargetsOf(kind)]

(* ParsePermission refuses a path outside of the workspace. *)
AllPermissions == {Spelled(t) : t \in {u \in Targets : ~(u.kind = "write" /\ u.odd)}} \cup {Glob(k) : k \in ActionKinds}

-------------------------------------------------------------------------------
(* Apply: the policy drops permissions, fills in and caps limits. *)

Permitted == {p \in definition.permissions : p.kind \in definition.policyAllows}

Limit(own, default, most) ==
    LET asked == IF own = 0 THEN default ELSE own
    IN IF most > 0 /\ asked > most THEN most ELSE asked

CostLimit == Limit(definition.limit, definition.default, definition.most)

(* covered: a glob never covers a command that is several; and one that does. *)
GlobCovers(p, t) == t \in p.matches
PatternCovers(p, t) == t \in p.matches /\ ~(t.kind = "shell" /\ t.odd)

Covered(t) ==
    /\ ~(t.kind = "write" /\ t.odd)
    /\ \E p \in Permitted : p.kind = t.kind /\ (t \in p.text \/ PatternCovers(p, t))

AllowsAll(targets) == targets # {} /\ \A t \in targets : Covered(t)

-------------------------------------------------------------------------------
(* RunWorker. *)

(* Permissions vary with the limits at one, and limits without permissions. *)
NoLimits == [permissions |-> {}, policyAllows |-> {}, limit |-> 0, default |-> 0, most |-> 0]

WorkerInit ==
    /\ \/ definition \in [permissions : UNION {kSubset(n, AllPermissions) : n \in 0 .. 2},
                          policyAllows : SUBSET ActionKinds, limit : {1}, default : {1}, most : {1}]
       \/ definition \in [permissions : {{}}, policyAllows : {{}},
                          limit : 0 .. MaxLimit, default : 0 .. MaxLimit, most : 0 .. MaxLimit]
    /\ unattended = [phase |-> "calling", cause |-> "none", cost |-> 0, asked |-> <<>>, done |-> {},
                     refusals |-> <<>>, status |-> "running"]

Going == unattended.status = "running"

(* The consumer of events asks for the cost so far at each of them, and      *)
(* cancels the run; the first cause counts.                                  *)
AtEvent(r) ==
    [r EXCEPT !.cause = IF @ = "none" /\ CostLimit > 0 /\ r.cost > CostLimit THEN "budget" ELSE @]

(* The model of the run's agent answers, with tool calls or the end; under a *)
(* cancelled context it doesn't.                                             *)
AgentAnswers(price, next) ==
    /\ Going /\ unattended.phase = "calling" /\ unattended.cause = "none" /\ unattended.cost + price <= MaxSpent
    /\ unattended' = AtEvent([unattended EXCEPT !.cost = @ + price, !.phase = next])
    /\ UNCHANGED definition

(* The calls of a sub-agent are the run's, and its events are nobody's. *)
SubAgentAnswers ==
    /\ Going /\ unattended.phase = "tools" /\ unattended.cost < MaxSpent
    /\ unattended' = [unattended EXCEPT !.cost = @ + 1]
    /\ UNCHANGED definition

(* decide: a tool asks to act, whether or not the run was cancelled. *)
Decide(targets) ==
    /\ Going /\ unattended.phase = "tools" /\ Len(unattended.asked) < MaxAsked
    /\ LET n == Len(unattended.asked) + 1
       IN unattended' = [unattended EXCEPT !.asked = Append(@, targets),
                             !.done = IF AllowsAll(targets) THEN @ \cup {n} ELSE @,
                             !.refusals = IF AllowsAll(targets) THEN @ ELSE Append(@, n)]
    /\ UNCHANGED definition

(* The results of the tools are an event too. *)
ToolsAnswered ==
    /\ Going /\ unattended.phase = "tools"
    /\ unattended' = AtEvent([unattended EXCEPT !.phase = "calling"])
    /\ UNCHANGED definition

(* The time limit, or the caller's context. *)
RunCancelled(cause) ==
    /\ Going /\ unattended.cause = "none"
    /\ unattended' = [unattended EXCEPT !.cause = cause]
    /\ UNCHANGED definition

(* The turn returns, with an error unless its last model call was the end;   *)
(* a limit that was reached names the status.                                *)
Status(error) ==
    CASE error = "none" -> "succeeded"
      [] error # "none" /\ (error = "max turns" \/ unattended.cause \in {"budget", "time"}) -> "limited"
      [] OTHER -> "failed"

Errors ==
    IF unattended.phase = "answered" THEN {"none"} \cup (IF unattended.cause = "none" THEN {} ELSE {"cancelled"})
    ELSE {"model"} \cup (IF unattended.cause = "none" THEN {} ELSE {"cancelled"})
                   \cup (IF unattended.phase = "calling" THEN {"max turns"} ELSE {})

Returns(error) ==
    /\ Going /\ error \in Errors
    /\ unattended' = [unattended EXCEPT !.status = Status(error)]
    /\ UNCHANGED definition

PossibleRequests == UNION {SUBSET TargetsOf(k) : k \in ActionKinds}

WorkerRunNext ==
    \/ \E price \in 0 .. 1, next \in {"tools", "answered"} : AgentAnswers(price, next)
    \/ SubAgentAnswers
    \/ \E targets \in PossibleRequests : Decide(targets)
    \/ ToolsAnswered
    \/ \E cause \in {"time", "caller"} : RunCancelled(cause)
    \/ \E error \in {"none", "cancelled", "max turns", "model"} : Returns(error)

WorkerRunSpec == WorkerInit /\ [][WorkerRunNext]_workerVars

-------------------------------------------------------------------------------
WorkerRunTypeOK ==
    /\ definition.permissions \subseteq AllPermissions
    /\ unattended.phase \in {"calling", "tools", "answered"}
    /\ unattended.cause \in {"none", "budget", "time", "caller"}
    /\ unattended.status \in {"running", "succeeded", "limited", "failed"}
    /\ unattended.done \subseteq DOMAIN unattended.asked

(* "gets exactly the worker's permissions after the host policy": what was   *)
(* done, the worker asked for and the host lets workers do, a chain of       *)
(* commands only as it was written down, nothing outside of the workspace;   *)
(* and what was not done is on record (app/workers.go:204-208).              *)
DoneAsPermitted ==
    /\ \A n \in unattended.done : unattended.asked[n] # {} /\ \A t \in unattended.asked[n] :
           \E p \in definition.permissions :
               /\ p.kind = t.kind /\ t.kind \in definition.policyAllows
               /\ t \in (IF t.odd THEN p.text ELSE p.text \cup p.matches)
    /\ ToSet(unattended.refusals) = DOMAIN unattended.asked \ unattended.done

(* "and stops at its limits": the run's agent makes no model call once its   *)
(* own or a sub-agent's have gone over, and a limit that is named is never   *)
(* lost and never over the host's (app/workers.go:276-283).                  *)
StopsAtLimits ==
    /\ Going /\ unattended.phase = "calling" /\ unattended.cause = "none" /\ CostLimit > 0 => unattended.cost <= CostLimit
    /\ definition.most > 0 /\ (definition.limit > 0 \/ definition.default > 0) => CostLimit \in 1 .. definition.most

WorkerKept == DoneAsPermitted /\ StopsAtLimits

-------------------------------------------------------------------------------
(***************************************************************************)
(* Schedules of workers in plain text, translated to cron                  *)
(* (internal/workers/schedule.go): "every 90 minutes", "weekdays at 9:30   *)
(* pm".  A phrase is what its words say; an entry is what cron runs by,    *)
(* the minutes, hours and days it matches or a fixed delay.  How cron      *)
(* matches is the library's.                                               *)
(***************************************************************************)

CONSTANTS MinuteCounts, HourCounts, DayCounts, \* n of "every n minutes", "hours" and "days"
          ClockHours, ClockMinutes             \* of "at 9:30 pm"

ASSUME PhraseAssumption == MinuteCounts \cup HourCounts \cup DayCounts \cup ClockHours \cup ClockMinutes \subseteq Nat

VARIABLES phrase, \* the text of the schedule
          entry   \* the schedule it was understood as

phraseVars == <<phrase, entry>>

Weekdays == [daily |-> 0 .. 6, weekdays |-> 1 .. 5, weekends |-> {0, 6}, monday |-> {1}]

EveryPhrases(unit, counts) == [form : {"every"}, unit : {unit}, n : counts]
AtPhrases == [form : {"at"}, days : DOMAIN Weekdays, hour : ClockHours, minute : ClockMinutes, half : {"", "am", "pm"}]

Unread == [kind |-> "unread"]
NotUnderstood == [kind |-> "error"]
Delay(minutes) == [kind |-> "delay", minutes |-> minutes]
Cron(minutes, hours, days, weekdays) ==
    [kind |-> "cron", minute |-> minutes, hour |-> hours, day |-> days, weekday |-> weekdays]

(* A field "*\/n" of cron. *)
Step(n, range) == {i \in range : \E k \in 0 .. 60 : i = k * n + (IF 0 \in range THEN 0 ELSE 1)}

-------------------------------------------------------------------------------
(* plainToCron: a step that does not divide the hour or the day would start  *)
(* over at its end; and one that does so.                                    *)
StepFits(n, whole) == n < whole
Divides(n, whole) == n < whole /\ whole % n = 0

Every(unit, n) ==
    CASE n < 1 -> NotUnderstood
      [] n >= 1 /\ unit = "minute" -> IF Divides(n, 60) THEN Cron(Step(n, 0 .. 59), 0 .. 23, 1 .. 31, 0 .. 6) ELSE Delay(n)
      [] n >= 1 /\ unit = "hour" -> IF Divides(n, 24) THEN Cron({0}, Step(n, 0 .. 23), 1 .. 31, 0 .. 6) ELSE Delay(60 * n)
      [] n >= 1 /\ unit = "day" -> Cron({0}, {0}, Step(n, 1 .. 31), 0 .. 6)

(* clock: the hour on a clock of 24, or of 12 with its half of the day. *)
Clock(hour, half) ==
    CASE half = "am" -> IF hour = 12 THEN 0 ELSE hour
      [] half = "pm" -> IF hour = 12 THEN 12 ELSE hour + 12
      [] half = "" -> hour

ClockKnown(hour, minute, half) ==
    /\ half # "" => hour \in 1 .. 12
    /\ Clock(hour, half) <= 23 /\ minute <= 59

AtTime(p) ==
    IF ClockKnown(p.hour, p.minute, p.half)
    THEN Cron({p.minute}, {Clock(p.hour, p.half)}, 1 .. 31, Weekdays[p.days])
    ELSE NotUnderstood

Understood(p) == IF p.form = "every" THEN Every(p.unit, p.n) ELSE AtTime(p)

Hourly == [form |-> "every", unit |-> "hour", n |-> 1]

PhraseInit ==
    /\ phrase \in EveryPhrases("minute", MinuteCounts) \cup EveryPhrases("hour", HourCounts)
                  \cup EveryPhrases("day", DayCounts) \cup AtPhrases
    /\ entry = Unread

(* ParseSchedule. *)
PhraseNext == entry = Unread /\ entry' = Understood(phrase) /\ UNCHANGED phrase

PhraseSpec == PhraseInit /\ [][PhraseNext]_phraseVars

-------------------------------------------------------------------------------
PhraseTypeOK == entry.kind \in {"unread", "error", "delay", "cron"}

Day == 24 * 60
TimesOfDay == {60 * h + m : h \in entry.hour, m \in entry.minute}

(* The gap from one run of the day to the next is as many minutes. *)
Apart(gap) ==
    \A t \in TimesOfDay : (t + gap) % Day \in TimesOfDay /\ \A k \in 1 .. gap - 1 : (t + k) % Day \notin TimesOfDay

(* Runs n days apart, or fewer where a month of some length ends between. *)
DaysApart(n) ==
    \A length \in 28 .. 31 : \A d \in entry.day : d <= length =>
        LET next == {e \in entry.day : e > d /\ e <= length}
        IN IF next = {} THEN length + 1 - d <= n ELSE d + n \in next /\ \A e \in next : e >= d + n

(* "Plain text is translated by fixed rules, never guessed": a run comes as  *)
(* many minutes or hours after the last as the phrase says, over the ends of *)
(* hours and days, and at no more days; a time of day is met on the days     *)
(* named and at that minute after midnight or noon, and an hour no clock     *)
(* shows is refused (workers/schedule.go:31-35).                             *)
PhrasesMeant ==
    /\ entry.kind # "unread" /\ phrase.form = "every" /\ phrase.n > 0 =>
           LET minutes == phrase.n * (IF phrase.unit = "hour" THEN 60 ELSE 1)
           IN CASE entry.kind = "delay" -> phrase.unit # "day" /\ entry.minutes = minutes
                [] entry.kind = "cron" -> IF phrase.unit = "day" THEN TimesOfDay = {0} /\ DaysApart(phrase.n)
                                          ELSE Apart(minutes) /\ entry.day = 1 .. 31 /\ entry.weekday = 0 .. 6
                [] OTHER -> FALSE
    /\ entry.kind = "cron" /\ phrase.form = "at" =>
           /\ TimesOfDay = {(IF phrase.half = "" THEN phrase.hour ELSE phrase.hour % 12) * 60 + phrase.minute
                                + (IF phrase.half = "pm" THEN Day \div 2 ELSE 0)}
           /\ TimesOfDay \subseteq 0 .. Day - 1 /\ entry.weekday = Weekdays[phrase.days] /\ entry.day = 1 .. 31
    /\ entry.kind = "error" /\ phrase.form = "at" => phrase.hour \notin 1 .. 12 \/ phrase.minute > 59
===============================================================================
