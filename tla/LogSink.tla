-------------------------------- MODULE LogSink --------------------------------
(***************************************************************************)
(* The diagnostic log (internal/observability/logfile.go): loggers queue   *)
(* lines without ever waiting, one goroutine writes them to a buffered     *)
(* daily file, flushes when the queue is empty, and says how many lines a  *)
(* full queue has cost.                                                    *)
(*                                                                         *)
(* A logger holds the sink's read lock from its look at the queue to the   *)
(* count of a dropped line; Close takes the write lock.  The files of      *)
(* successive days are one sequence here, and old files stay.  Of a number *)
(* of dropped lines the lines are kept, to tell what the number stands for. *)
(***************************************************************************)
EXTENDS Naturals, Sequences

CONSTANTS Loggers,    \* goroutines that log
          LogClosers, \* calls of Close
          LogQueue,   \* logQueueSize
          MaxLines,   \* bound: lines ever logged
          MaxDays,    \* bound: changes of the day
          MaxDiskFaults \* bound: files that can't be opened, flushes that fail

VARIABLES logger,    \* the line each logger has found no room for and not counted yet, or 0
          lines,     \* lines logged while the sink was open, in number
          queued,    \* fileSink.queue
          shut,      \* fileSink.closed: the queue's channel is closed
          dropped,   \* fileSink.dropped, as the lines it counts
          writer,    \* where run() is, and the line it holds
          today,     \* the day it is
          logFile,   \* fileSink.f and w: the day it was opened, unflushed entries, whether w still writes
          logged,    \* entries on disk: lines, and reports of dropped ones
          spilt,     \* entries lost to the disk
          logCloser  \* each Close: "idle", "waiting", "returned"

logVars == <<logger, lines, queued, shut, dropped, writer, today, logFile, logged, spilt, logCloser>>

Line(n) == [kind |-> "line", of |-> {n}]
Report(ns) == [kind |-> "dropped", of |-> ns]

NoFile == [day |-> 0, buffer |-> <<>>, works |-> TRUE]

LogInit ==
    /\ logger = [g \in Loggers |-> 0]
    /\ lines = 0 /\ queued = <<>> /\ shut = FALSE /\ dropped = {}
    /\ writer = [pc |-> "idle", line |-> 0]
    /\ today = 1 /\ logFile = NoFile /\ logged = <<>> /\ spilt = <<>>
    /\ logCloser = [e \in LogClosers |-> "idle"]

-------------------------------------------------------------------------------
(* Write: the line goes into the queue, or is dropped and then counted.      *)

LogLine(g) ==
    /\ logger[g] = 0 /\ lines < MaxLines
    /\ IF shut THEN UNCHANGED <<lines, queued, logger>>
       ELSE /\ lines' = lines + 1
            /\ IF Len(queued) < LogQueue
               THEN queued' = Append(queued, lines') /\ UNCHANGED logger
               ELSE logger' = [logger EXCEPT ![g] = lines'] /\ UNCHANGED queued
    /\ UNCHANGED <<shut, dropped, writer, today, logFile, logged, spilt, logCloser>>

CountDropped(g) ==
    /\ logger[g] # 0
    /\ dropped' = dropped \cup {logger[g]}
    /\ logger' = [logger EXCEPT ![g] = 0]
    /\ UNCHANGED <<lines, queued, shut, writer, today, logFile, logged, spilt, logCloser>>

-------------------------------------------------------------------------------
(* The writer. *)

NextDay ==
    /\ today <= MaxDays
    /\ today' = today + 1
    /\ UNCHANGED <<logger, lines, queued, shut, dropped, writer, logFile, logged, spilt, logCloser>>

(* A disk that fails is met at most so often. *)
MayFail == Len(spilt) < MaxDiskFaults

(* Flush, of a buffer that may hold nothing: once it has failed, the         *)
(* buffered writer fails for good, with all that it holds and is given.      *)
Flushed(file) ==
    IF ~file.works THEN [disk |-> logged, lost |-> spilt \o file.buffer, works |-> FALSE]
    ELSE [disk |-> logged \o file.buffer, lost |-> spilt, works |-> TRUE]

FlushFails(file) == [disk |-> logged, lost |-> spilt \o file.buffer, works |-> FALSE]

Flushes(file) == {Flushed(file)} \cup IF MayFail /\ file.buffer # <<>> THEN {FlushFails(file)} ELSE {}

(* write, after rotate: a new day's file is opened when the last is closed.  *)
InFile(entry, file) == [file EXCEPT !.buffer = Append(@, entry)]

WriteEntry(entry) ==
    IF logFile.day = today
    THEN logFile' = InFile(entry, logFile) /\ UNCHANGED <<logged, spilt>>
    ELSE \E flush \in Flushes(logFile) :
            /\ logged' = flush.disk
            /\ \/ /\ spilt' = flush.lost
                  /\ logFile' = InFile(entry, [NoFile EXCEPT !.day = today])
               \/ /\ MayFail
                  /\ spilt' = Append(flush.lost, entry)
                  /\ logFile' = NoFile

TakeLine ==
    /\ writer.pc = "idle" /\ queued # <<>>
    /\ writer' = [pc |-> "writing", line |-> Head(queued)]
    /\ queued' = Tail(queued)
    /\ UNCHANGED <<logger, lines, shut, dropped, today, logFile, logged, spilt, logCloser>>

WriteLine ==
    /\ writer.pc = "writing"
    /\ WriteEntry(Line(writer.line))
    /\ writer' = [pc |-> "written", line |-> 0]
    /\ UNCHANGED <<logger, lines, queued, shut, dropped, today, logCloser>>

(* The group commit: no flush while more lines wait; and one that counted on *)
(* a later one.                                                              *)
CommitLater == writer' = [writer EXCEPT !.pc = "idle"]
Commit == writer' = [writer EXCEPT !.pc = IF queued = <<>> THEN "reporting" ELSE "idle"]

LookForMore ==
    /\ writer.pc = "written"
    /\ Commit
    /\ UNCHANGED <<logger, lines, queued, shut, dropped, today, logFile, logged, spilt, logCloser>>

NoMoreLines ==
    /\ writer.pc = "idle" /\ queued = <<>> /\ shut
    /\ writer' = [writer EXCEPT !.pc = "lastly"]
    /\ UNCHANGED <<logger, lines, queued, shut, dropped, today, logFile, logged, spilt, logCloser>>

(* reportDropped: the count is taken and, with room for it now, written.     *)
ReportDropped ==
    /\ writer.pc \in {"reporting", "lastly"}
    /\ dropped' = {}
    /\ IF dropped # {} THEN WriteEntry(Report(dropped)) ELSE UNCHANGED <<logFile, logged, spilt>>
    /\ writer' = [writer EXCEPT !.pc = IF @ = "lastly" THEN "closing" ELSE "flushing"]
    /\ UNCHANGED <<logger, lines, queued, shut, today, logCloser>>

Flush ==
    /\ writer.pc \in {"flushing", "closing"}
    /\ \E flush \in Flushes(logFile) :
          /\ logged' = flush.disk /\ spilt' = flush.lost
          /\ logFile' = IF writer.pc = "closing" THEN NoFile
                        ELSE [logFile EXCEPT !.buffer = <<>>, !.works = flush.works]
    /\ writer' = [writer EXCEPT !.pc = IF @ = "closing" THEN "done" ELSE "idle"]
    /\ UNCHANGED <<logger, lines, queued, shut, dropped, today, logCloser>>

-------------------------------------------------------------------------------
(* Close waits for the loggers inside Write, and then for the writer.        *)

CloseLog(e) ==
    /\ logCloser[e] = "idle" /\ \A g \in Loggers : logger[g] = 0
    /\ shut' = TRUE
    /\ logCloser' = [logCloser EXCEPT ![e] = "waiting"]
    /\ UNCHANGED <<logger, lines, queued, dropped, writer, today, logFile, logged, spilt>>

LogClosed(e) ==
    /\ logCloser[e] = "waiting" /\ writer.pc = "done"
    /\ logCloser' = [logCloser EXCEPT ![e] = "returned"]
    /\ UNCHANGED <<logger, lines, queued, shut, dropped, writer, today, logFile, logged, spilt>>

LogNext ==
    \/ \E g \in Loggers : LogLine(g) \/ CountDropped(g)
    \/ NextDay \/ TakeLine \/ WriteLine \/ LookForMore \/ NoMoreLines \/ ReportDropped \/ Flush
    \/ \E e \in LogClosers : CloseLog(e) \/ LogClosed(e)

LogSpec == LogInit /\ [][LogNext]_logVars

-------------------------------------------------------------------------------
LogTypeOK ==
    /\ logger \in [Loggers -> 0 .. lines]
    /\ queued \in Seq(1 .. lines) /\ Len(queued) <= LogQueue
    /\ dropped \subseteq 1 .. lines
    /\ writer.pc \in {"idle", "writing", "written", "reporting", "flushing", "lastly", "closing", "done"}
    /\ logFile.day <= today

(* The lines that entries stand for, each once, and the written ones in turn. *)
Told(entries) == UNION {entries[i].of : i \in DOMAIN entries}
CountedOnce(entries) == \A i, j \in DOMAIN entries : i # j => entries[i].of \cap entries[j].of = {}
LinesInTurn(entries) ==
    \A i, j \in DOMAIN entries :
        i < j /\ entries[i].kind = "line" /\ entries[j].kind = "line" =>
            \A n \in entries[i].of, m \in entries[j].of : n < m

(* "Close writes everything queued": when it returns every line logged is in *)
(* the file, once and in the order of the queue, or is one of those a report *)
(* there counts, unless the disk failed under it; and no report counts more  *)
(* than was lost (logfile.go:86-114).                                        *)
ClosedTellsAll ==
    (\E e \in LogClosers : logCloser[e] = "returned") =>
        /\ Told(logged \o spilt) = 1 .. lines
        /\ CountedOnce(logged \o spilt)
        /\ LinesInTurn(logged)

(* Lines queued together are written with one flush, and none is left in the *)
(* buffer while the writer waits for more (logfile.go:116-126).              *)
WaitsFlushed == writer.pc = "idle" /\ queued = <<>> => logFile.buffer = <<>>

(* The log misses nothing it doesn't tell of.                                *)
LogTruthful == ClosedTellsAll /\ WaitsFlushed
===============================================================================
