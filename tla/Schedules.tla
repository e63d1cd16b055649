------------------------------- MODULE Schedules -------------------------------
(***************************************************************************)
(* Which workers run and when: the store of reviewed workers               *)
(* (internal/workers/state.go), the calls that enable and disable one      *)
(* (internal/app/workers.go), and the rescans that bring cron in line with *)
(* both (internal/server/scheduler.go).  One worker of one workspace is    *)
(* modelled.  Its files may change at any moment; the ticker's rescan and  *)
(* those of Enable and Disable overlap; saving the store may fail, and the *)
(* process may end and start again.                                        *)
(*                                                                         *)
(* A hash stands for a content of the worker's files, schedule included.   *)
(***************************************************************************)
EXTENDS Naturals, FiniteSets

CONSTANTS Hashes,     \* contents of the worker's files
          NoHash,     \* no file, or one that doesn't load
          Scanners,   \* rescans that may overlap
          MaxUpsets,  \* bound: changes of the files and ends of the process
          MaxReviews  \* bound: calls of EnableWorker and DisableWorker

VARIABLES content, \* the worker's files as they are
          stored,  \* the store's entry in memory
          saved,   \* the store's file
          cron,    \* the hash cron's entry was registered at, or NoHash
          scan,    \* each rescan: its place, what it loaded and saw, and whether it has been alone
          review,  \* the call of EnableWorker and that of DisableWorker under way
          launch,  \* the run: its place, what it loaded, and whether it was loaded while off
          due,     \* a run was missed and is to be caught up
          asked,   \* hashes EnableWorker was called with
          off,     \* DisableWorker has returned and EnableWorker wasn't called since
          spent    \* edits and restarts, and reviews, so far

scheduleVars == <<content, stored, saved, cron, scan, review, launch, due, asked, off, spent>>

NoEntry == [hash |-> NoHash, enabled |-> FALSE]
EntriesOf == [hash : Hashes \cup {NoHash}, enabled : BOOLEAN]

AtEase == [pc |-> "idle", loaded |-> NoHash, seen |-> FALSE, alone |-> FALSE]
NoLaunch == [pc |-> "idle", hash |-> NoHash, off |-> FALSE]
NoReview == [enable |-> [pc |-> "idle", hash |-> NoHash, loaded |-> NoHash],
             disable |-> [pc |-> "idle", read |-> NoEntry]]

ScheduleInit ==
    /\ content \in Hashes \cup {NoHash}
    /\ stored = NoEntry /\ saved = NoEntry /\ cron = NoHash
    /\ scan = [r \in Scanners |-> AtEase]
    /\ review = NoReview /\ launch = NoLaunch
    /\ due = FALSE /\ asked = {} /\ off = FALSE
    /\ spent = [upsets |-> 0, reviews |-> 0]

(* State: whether files that load as h may run. *)
Enabled(h) == h # NoHash /\ stored.enabled /\ stored.hash = h

(* What a rescan should leave cron with. *)
Wanted == IF Enabled(content) THEN content ELSE NoHash

Disturbed == [r \in Scanners |-> [scan[r] EXCEPT !.alone = FALSE]]

EditFiles ==
    /\ spent.upsets < MaxUpsets
    /\ spent' = [spent EXCEPT !.upsets = @ + 1]
    /\ content' \in (Hashes \cup {NoHash}) \ {content}
    /\ scan' = Disturbed
    /\ UNCHANGED <<stored, saved, cron, review, launch, due, asked, off>>

-------------------------------------------------------------------------------
(* EnableWorker: the hash reviewed must be the hash of what loads now.       *)

EnableLoads(h) ==
    /\ review.enable.pc = "idle" /\ spent.reviews < MaxReviews /\ content # NoHash
    /\ spent' = [spent EXCEPT !.reviews = @ + 1]
    /\ review' = [review EXCEPT !.enable = [pc |-> "setting", hash |-> h, loaded |-> content]]
    /\ asked' = asked \cup {h}
    /\ off' = FALSE
    /\ UNCHANGED <<content, stored, saved, cron, scan, launch, due>>

(* set keeps the entry in memory, whether or not the file could be written.  *)
Set(e) == stored' = e /\ saved' \in {saved, e} /\ scan' = Disturbed

MatchesAny(hash, loaded) == TRUE
Matches(hash, loaded) == hash = loaded

EnableSets ==
    LET e == review.enable IN
    /\ e.pc = "setting"
    /\ review' = [review EXCEPT !.enable = NoReview.enable]
    /\ IF Matches(e.hash, e.loaded) THEN Set([hash |-> e.loaded, enabled |-> TRUE])
       ELSE UNCHANGED <<stored, saved, scan>>
    /\ UNCHANGED <<content, cron, launch, due, asked, off, spent>>

(* DisableWorker: the entry is read and written in two steps.                *)
DisableReads ==
    /\ review.disable.pc = "idle" /\ spent.reviews < MaxReviews /\ content # NoHash
    /\ spent' = [spent EXCEPT !.reviews = @ + 1]
    /\ review' = [review EXCEPT !.disable = [pc |-> "setting", read |-> stored]]
    /\ UNCHANGED <<content, stored, saved, cron, scan, launch, due, asked, off>>

(* What it writes, and what an entry read before would keep. *)
AsRead(e) == e
TurnedOff(e) == [e EXCEPT !.enabled = FALSE]

DisableSets ==
    /\ review.disable.pc = "setting"
    /\ Set(TurnedOff(review.disable.read))
    /\ off' = (off \/ (saved' = stored' /\ review.enable.pc = "idle"))
    /\ review' = [review EXCEPT !.disable = NoReview.disable]
    /\ UNCHANGED <<content, cron, launch, due, asked, spent>>

-------------------------------------------------------------------------------
(* rescan: of the ticker, or after EnableWorker or DisableWorker.            *)

Others(r) == {q \in Scanners \ {r} : scan[q].pc \notin {"idle", "done"}}

(* Only a workspace with an enabled worker is looked at. *)
RescanStarts(r) ==
    /\ scan[r].pc = "idle"
    /\ scan' = [q \in Scanners |->
                   IF q = r THEN [AtEase EXCEPT !.pc = IF stored.enabled THEN "loading" ELSE "pruning",
                                                !.alone = Others(r) = {}]
                   ELSE Disturbed[q]]
    /\ UNCHANGED <<content, stored, saved, cron, review, launch, due, asked, off, spent>>

LoadFiles(r) ==
    /\ scan[r].pc = "loading"
    /\ scan' = [scan EXCEPT ![r].pc = "checking", ![r].loaded = content]
    /\ UNCHANGED <<content, stored, saved, cron, review, launch, due, asked, off, spent>>

CheckState(r) ==
    /\ scan[r].pc = "checking"
    /\ scan' = [scan EXCEPT ![r].seen = Enabled(scan[r].loaded),
                            ![r].pc = IF Enabled(scan[r].loaded) THEN "registering" ELSE "pruning"]
    /\ UNCHANGED <<content, stored, saved, cron, review, launch, due, asked, off, spent>>

(* An entry is kept only if it was registered at the same content.           *)
KeptAlways(h) == cron # NoHash
Kept(h) == cron = h

(* A worker that had no entry may have missed a run. *)
RegisterEntry(r) ==
    LET h == scan[r].loaded IN
    /\ scan[r].pc = "registering"
    /\ cron' = IF Kept(h) THEN cron ELSE h
    /\ due' \in IF cron = NoHash THEN {due, TRUE} ELSE {due}
    /\ scan' = [scan EXCEPT ![r].pc = "pruning"]
    /\ UNCHANGED <<content, stored, saved, review, launch, asked, off, spent>>

Prune(r) ==
    /\ scan[r].pc = "pruning"
    /\ cron' = IF scan[r].seen THEN cron ELSE NoHash
    /\ scan' = [scan EXCEPT ![r].pc = "done"]
    /\ UNCHANGED <<content, stored, saved, review, launch, due, asked, off, spent>>

RescanReturns(r) ==
    /\ scan[r].pc = "done"
    /\ scan' = [scan EXCEPT ![r] = AtEase]
    /\ UNCHANGED <<content, stored, saved, cron, review, launch, due, asked, off, spent>>

-------------------------------------------------------------------------------
(* RunWorker: on its schedule, to catch up, or on request.  The worker is    *)
(* loaded first; what was loaded is what is checked, and what runs.          *)

LaunchLoads(why) ==
    /\ launch.pc = "idle"
    /\ CASE why = "tick" -> cron # NoHash
         [] why = "due" -> due
         [] OTHER -> TRUE
    /\ due' = (due /\ why # "due")
    /\ launch' = [pc |-> "checking", hash |-> content, off |-> off]
    /\ UNCHANGED <<content, stored, saved, cron, scan, review, asked, off, spent>>

LaunchChecks ==
    /\ launch.pc = "checking"
    /\ launch' = IF Enabled(launch.hash) THEN [launch EXCEPT !.pc = "running", !.off = @ /\ off] ELSE NoLaunch
    /\ UNCHANGED <<content, stored, saved, cron, scan, review, due, asked, off, spent>>

LaunchEnds ==
    /\ launch.pc = "running"
    /\ launch' = NoLaunch
    /\ UNCHANGED <<content, stored, saved, cron, scan, review, due, asked, off, spent>>

(* The process ends and another one reads the file. *)
RestartService ==
    /\ spent.upsets < MaxUpsets
    /\ spent' = [spent EXCEPT !.upsets = @ + 1]
    /\ stored' = saved /\ cron' = NoHash
    /\ scan' = [r \in Scanners |-> AtEase]
    /\ review' = NoReview /\ launch' = NoLaunch /\ due' = FALSE
    /\ UNCHANGED <<content, saved, asked, off>>

ScheduleNext ==
    \/ EditFiles \/ RestartService
    \/ EnableSets \/ DisableReads \/ DisableSets
    \/ LaunchChecks \/ LaunchEnds
    \/ \E h \in Hashes : EnableLoads(h)
    \/ \E why \in {"tick", "due", "manual"} : LaunchLoads(why)
    \/ \E r \in Scanners : \/ RescanStarts(r) \/ LoadFiles(r) \/ CheckState(r)
                           \/ RegisterEntry(r) \/ Prune(r) \/ RescanReturns(r)

ScheduleSpec == ScheduleInit /\ [][ScheduleNext]_scheduleVars

-------------------------------------------------------------------------------
ScheduleTypeOK ==
    /\ content \in Hashes \cup {NoHash} /\ cron \in Hashes \cup {NoHash}
    /\ stored \in EntriesOf /\ saved \in EntriesOf
    /\ \A r \in Scanners : scan[r].seen => scan[r].loaded # NoHash
    /\ launch.pc = "running" => launch.hash # NoHash

(* What runs is a content somebody reviewed and enabled, whatever became of  *)
(* the files since, and no run that starts after a DisableWorker has         *)
(* returned runs, through overlapping reviews, a stale cron entry, a failed  *)
(* save and a restart (state.go:95-118, workers.go:230-237).                 *)
RunsAsReviewed ==
    launch.pc = "running" => launch.hash \in asked /\ ~launch.off

(* A rescan that nothing disturbed leaves cron with the worker exactly when  *)
(* it may run, at the schedule of its present content; overlapping ones may  *)
(* not, until the next (scheduler.go:138-203).                               *)
RescanSettles ==
    \A r \in Scanners : scan[r].pc = "done" /\ scan[r].alone => cron = Wanted

(* What cron will run and what runs are what was reviewed.                   *)
ScheduledAsReviewed == RunsAsReviewed /\ RescanSettles
===============================================================================
