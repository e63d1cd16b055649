-------------------------------- MODULE Searches --------------------------------
(***************************************************************************)
(* The tools that look into the workspace without changing it: grep, which *)
(* scans files side by side and gives their matches in the order of the    *)
(* walk (internal/tools/grep.go), list_files over the same walk, and       *)
(* read_file (internal/tools/file_ops.go).                                 *)
(*                                                                         *)
(* A file is the number of lines in it that match; lines are numbered and  *)
(* each takes one unit of the room for output.  A walk is the sequence of  *)
(* entries it passes, each with its depth.                                 *)
(***************************************************************************)
EXTENDS Integers, Sequences, SequencesExt, FiniteSets

CONSTANTS MaxFiles,    \* bound: files a search comes past
          GrepWorkers,    \* files scanned at once: GOMAXPROCS and at most 8
          OrderSize,   \* files in flight: twice that
          MaxMatches,  \* max_matches
          MaxEntriesWalked, \* bound: entries of a walk
          MaxMessages, \* bound: messages of a transcript
          Room         \* lines that fit into the output of read_file

ASSUME SearchAssumption == GrepWorkers \in Nat \ {0} /\ OrderSize \in Nat \ {0} /\ MaxMatches \in Nat \ {0}

VARIABLES hits,     \* the matches in each file of the walk
          producer, \* its place and the next file
          order,    \* the channel of result channels: the files in it
          scanning, \* files being scanned
          result,   \* what is in each file's channel: its matches, -1 once closed without any
          consumer, \* its place and the file it waits for
          found,    \* matches so far, as the files they are in
          stopped,  \* [scan, caller]: the search's context and the one it came with
          shown     \* the last listing, and the last file read, with what was asked for

searchVars == <<hits, producer, order, scanning, result, consumer, found, stopped, shown>>

(* The first n of a sequence, or all of it. *)
FirstOf(seq, n) == SubSeq(seq, 1, IF n < Len(seq) THEN n ELSE Len(seq))

Unscanned == -2
NoScan == -1

NothingAsked == [tool |-> "none"]

SearchInit ==
    /\ hits = <<>>
    /\ producer = [pc |-> "done", next |-> 1] /\ consumer = [pc |-> "idle", file |-> 0]
    /\ order = <<>> /\ scanning = {} /\ result = <<>> /\ found = <<>>
    /\ stopped = [scan |-> FALSE, caller |-> FALSE]
    /\ shown = NothingAsked

(* The walk is over before the scan begins. *)
StartSearch(files) ==
    /\ hits' = files
    /\ producer' = [pc |-> "sending", next |-> 1]
    /\ result' = [f \in DOMAIN files |-> Unscanned]
    /\ consumer' = [pc |-> "taking", file |-> 0]
    /\ UNCHANGED <<order, scanning, found, stopped, shown>>

CallerCancels ==
    /\ consumer.pc # "idle" /\ ~stopped.caller
    /\ stopped' = [scan |-> TRUE, caller |-> TRUE]
    /\ UNCHANGED <<hits, producer, order, scanning, result, consumer, found, shown>>

-------------------------------------------------------------------------------
(* The producer: a place in the order, then a worker. *)

SendChannel ==
    /\ producer.pc = "sending" /\ producer.next \in DOMAIN hits
    /\ Len(order) < OrderSize
    /\ order' = Append(order, producer.next)
    /\ producer' = [producer EXCEPT !.pc = "acquiring"]
    /\ UNCHANGED <<hits, scanning, result, consumer, found, stopped, shown>>

StartWorker ==
    /\ producer.pc = "acquiring" /\ Cardinality(scanning) < GrepWorkers
    /\ scanning' = scanning \cup {producer.next}
    /\ producer' = [pc |-> "sending", next |-> producer.next + 1]
    /\ UNCHANGED <<hits, order, result, consumer, found, stopped, shown>>

(* It ends with the files or with the search, and closes the order.          *)
ProducerEnds ==
    /\ \/ producer.pc = "sending" /\ (producer.next \notin DOMAIN hits \/ stopped.scan) /\ UNCHANGED result
       \/ producer.pc = "acquiring" /\ stopped.scan /\ result' = [result EXCEPT ![producer.next] = NoScan]
    /\ producer' = [producer EXCEPT !.pc = "done"]
    /\ UNCHANGED <<hits, order, scanning, consumer, found, stopped, shown>>

(* grepFile: at most as many as are wanted, fewer if the search ends first.  *)
UpTo(n) == IF n < MaxMatches THEN n ELSE MaxMatches

ScanEnds(f) ==
    /\ f \in scanning
    /\ \/ result' = [result EXCEPT ![f] = UpTo(hits[f])]
       \/ stopped.scan /\ \E n \in NoScan .. UpTo(hits[f]) : result' = [result EXCEPT ![f] = n]
    /\ scanning' = scanning \ {f}
    /\ UNCHANGED <<hits, producer, order, consumer, found, stopped, shown>>

-------------------------------------------------------------------------------
(* The consumer: the channels in the order of the walk, whichever is ready;  *)
(* and one that takes what is ready.                                         *)
AnyReady(i) == order # <<>> /\ i \in DOMAIN order /\ result[order[i]] # Unscanned
InOrder(i) == order # <<>> /\ i = 1

TakeChannel ==
    /\ consumer.pc = "taking"
    /\ \E i \in 1 .. OrderSize :
          /\ InOrder(i)
          /\ consumer' = [pc |-> "waiting", file |-> order[i]]
          /\ order' = RemoveAt(order, i)
    /\ UNCHANGED <<hits, producer, scanning, result, found, stopped, shown>>

NotCancelled == stopped
ScanCancelled == [stopped EXCEPT !.scan = TRUE]

(* Returning cancels the rest of the scan. *)
ReturnWith(pc) == consumer' = [pc |-> pc, file |-> 0] /\ stopped' = ScanCancelled

TakeResult ==
    /\ consumer.pc = "waiting" /\ result[consumer.file] # Unscanned
    /\ LET n == result[consumer.file]
           all == found \o [i \in 1 .. n |-> consumer.file]
       IN IF n = NoScan
          THEN /\ IF stopped.caller THEN ReturnWith("failed") ELSE consumer' = [pc |-> "taking", file |-> 0] /\ UNCHANGED stopped
               /\ UNCHANGED found
          ELSE /\ found' = FirstOf(all, MaxMatches)
               /\ IF Len(all) >= MaxMatches THEN ReturnWith("returned")
                  ELSE consumer' = [pc |-> "taking", file |-> 0] /\ UNCHANGED stopped
    /\ UNCHANGED <<hits, producer, order, scanning, result, shown>>

OrderClosed ==
    /\ consumer.pc = "taking" /\ order = <<>> /\ producer.pc = "done"
    /\ ReturnWith("returned")
    /\ UNCHANGED <<hits, producer, order, scanning, result, found, shown>>

-------------------------------------------------------------------------------
(* list_files: Walk leaves out what is blocked and what is beneath it; the   *)
(* tool what is hidden, and what is beneath a directory unless recursive.    *)

Entry(depth, dir, kind) == [depth |-> depth, dir |-> dir, kind |-> kind]
WalkedKinds == {"seen", "hidden", "blocked"}
WalkEntries == {Entry(1, dir, k) : dir \in BOOLEAN, k \in WalkedKinds} \cup {Entry(2, FALSE, k) : k \in WalkedKinds}

(* What a walk passes: an entry is deeper by one than the directory before it. *)
Walks == {w \in BoundedSeq(WalkEntries, MaxEntriesWalked) :
             \A i \in DOMAIN w : IF i = 1 THEN w[i].depth = 1
                                 ELSE w[i].depth = 2 => w[i-1].depth = 2 \/ w[i-1].dir}

(* The steps of the walk: "skip" is the depth below which entries are passed *)
(* over, after SkipDir.                                                      *)
SkipsNone(e, recursive) == FALSE
SkipsBelow(e, recursive) == e.dir /\ (e.kind # "seen" \/ ~recursive)

Deep == 3

WalkStep(recursive, max, e, i, at) ==
    IF at.done \/ e.depth > at.skip THEN at
    ELSE LET listed == IF e.kind = "seen" THEN Append(at.listed, i) ELSE at.listed
         IN [listed |-> listed, done |-> Len(listed) >= max,
             skip |-> IF SkipsBelow(e, recursive) THEN e.depth ELSE Deep]

Listing(w, recursive, max) ==
    LET at[i \in 0 .. Len(w)] == IF i = 0 THEN [listed |-> <<>>, done |-> FALSE, skip |-> Deep]
                                 ELSE WalkStep(recursive, max, w[i], i, at[i - 1])
    IN at[Len(w)].listed

ListFiles(w, recursive, max) ==
    /\ shown' = [tool |-> "list", walk |-> w, recursive |-> recursive, max |-> max,
                 listed |-> Listing(w, recursive, max)]
    /\ UNCHANGED <<hits, producer, order, scanning, result, consumer, found, stopped>>

(* readFileLines: 0 and less stand for a bound that isn't given; a start     *)
(* past the end shows the last line.                                         *)
NoClamp(start, lines) == {}
Clamped(start, lines) == IF start > lines THEN {lines} ELSE {}

Shown(lines, start, end) ==
    LET from == IF start > 1 THEN start ELSE 1
        to == IF end > 0 /\ end < from THEN from ELSE end
        asked == {n \in 1 .. lines : n >= from /\ (to <= 0 \/ n <= to)} \cup Clamped(from, lines)
        out == FirstOf(SetToSortSeq(asked, <), Room)
    IN [tool |-> "read", lines |-> lines, from |-> from, to |-> to,
        out |-> out, truncated |-> Cardinality(asked) > Room]

ReadFile(lines, start, end) ==
    /\ shown' = Shown(lines, start, end)
    /\ UNCHANGED <<hits, producer, order, scanning, result, consumer, found, stopped>>

-------------------------------------------------------------------------------
(* The search of a transcript (internal/session/search.go): a message is the *)
(* set of words in it, or a /search command.                                 *)

TermsUsed == {1, 2}
SearchCommand == {0}
Mentioned == (SUBSET TermsUsed) \cup {SearchCommand}

(* SearchTerms: each word or phrase once, the first time it comes.           *)
SearchTerms(query) ==
    LET first == {i \in DOMAIN query : \A j \in 1 .. i - 1 : query[j] # query[i]}
    IN {query[i] : i \in first}

HitsIn(message, query) == IF message = SearchCommand THEN 0 ELSE Cardinality(message \cap SearchTerms(query))

Oldest(msgs, query, i, j) == HitsIn(msgs[i], query) = HitsIn(msgs[j], query) /\ i < j
Newest(msgs, query, i, j) == HitsIn(msgs[i], query) = HitsIn(msgs[j], query) /\ i > j

Better(msgs, query, i, j) ==
    HitsIn(msgs[i], query) > HitsIn(msgs[j], query) \/ Newest(msgs, query, i, j)

(* The best, in the order of the transcript; a limit of 0 is none.           *)
BestMatches(msgs, query, limit) ==
    LET all == {i \in DOMAIN msgs : HitsIn(msgs[i], query) > 0}
        best == SetToSortSeq(all, LAMBDA i, j : Better(msgs, query, i, j))
    IN SetToSortSeq(ToSet(IF limit > 0 THEN FirstOf(best, limit) ELSE best), <)

SearchTranscript(msgs, query, limit) ==
    /\ shown' = [tool |-> "transcript", msgs |-> msgs, query |-> query, limit |-> limit,
                 out |-> BestMatches(msgs, query, limit)]
    /\ UNCHANGED <<hits, producer, order, scanning, result, consumer, found, stopped>>

(* One use of a tool in a behaviour.                                         *)
UseTool ==
    /\ consumer.pc = "idle" /\ shown = NothingAsked
    /\ \/ \E files \in BoundedSeq(0 .. MaxMatches, MaxFiles) : StartSearch(files)
       \/ \E w \in Walks, recursive \in BOOLEAN, max \in 1 .. 2 : ListFiles(w, recursive, max)
       \/ \E lines \in 1 .. 4, start, end \in -1 .. 5 : ReadFile(lines, start, end)
       \/ \E msgs \in BoundedSeq(Mentioned, MaxMessages), query \in BoundedSeq(TermsUsed, 2), limit \in 0 .. 2 :
              SearchTranscript(msgs, query, limit)

SearchNext ==
    \/ UseTool
    \/ CallerCancels \/ SendChannel \/ StartWorker \/ ProducerEnds
    \/ \E f \in 1 .. MaxFiles : ScanEnds(f)
    \/ TakeChannel \/ TakeResult \/ OrderClosed

SearchSpec == SearchInit /\ [][SearchNext]_searchVars

-------------------------------------------------------------------------------
SearchTypeOK ==
    /\ producer.pc \in {"sending", "acquiring", "done"} /\ Len(order) <= OrderSize
    /\ consumer.pc \in {"idle", "taking", "waiting", "returned", "failed"}
    /\ scanning \subseteq DOMAIN hits /\ Cardinality(scanning) <= GrepWorkers

AllHits == FlattenSeq([f \in DOMAIN hits |-> [i \in 1 .. hits[f] |-> f]])

(* However the scans of files overlap, a search that nobody cancelled gives  *)
(* the first matches in the order of the walk (grep.go:150-155).             *)
FirstMatches ==
    consumer.pc = "returned" /\ ~stopped.caller => found = FirstOf(AllHits, MaxMatches)

(* And none of its goroutines is left waiting: as long as one is there, one  *)
(* can go on, also when the search returned early with files unread          *)
(* (grep.go:153-155).                                                        *)
NoneLeft ==
    \/ producer.pc = "done" /\ scanning = {} /\ consumer.pc \in {"idle", "returned", "failed"}
    \/ scanning # {}
    \/ consumer.pc = "taking" /\ (order # <<>> \/ producer.pc = "done")
    \/ consumer.pc = "waiting" /\ result[consumer.file] # Unscanned
    \/ producer.pc = "sending" /\ (Len(order) < OrderSize \/ stopped.scan)
    \/ producer.pc = "acquiring"

(* A listing has what isn't hidden or blocked, nor beneath what is, in the   *)
(* order of the walk; a read has the lines asked for that there are, or the  *)
(* last, and says so when it leaves some out.                                *)
Parent(w, i) == Max({j \in 1 .. i - 1 : w[j].depth = 1})

Listed(w, recursive) ==
    {i \in DOMAIN w : /\ w[i].kind = "seen"
                      /\ w[i].depth = 2 => recursive /\ w[Parent(w, i)].kind = "seen"}

ShownTruly ==
    /\ shown.tool = "list" =>
          LET all == SetToSortSeq(Listed(shown.walk, shown.recursive), <)
          IN shown.listed = FirstOf(all, shown.max)
    /\ shown.tool = "read" =>
          /\ shown.out # <<>>
          /\ \A n \in ToSet(shown.out) : n \in 1 .. shown.lines
          /\ ~shown.truncated => \A n \in 1 .. shown.lines :
                (n >= shown.from /\ (shown.to <= 0 \/ n <= shown.to)) => n \in ToSet(shown.out)

(* A search of a transcript shows, in its order, as many of the messages that *)
(* mention what is asked as it may; of any left out, those shown mention more *)
(* of it, or as much and later (search.go:45-48).                            *)
BestShown ==
    shown.tool = "transcript" =>
        LET out == ToSet(shown.out)
            Mentions(i) == IF shown.msgs[i] = SearchCommand THEN {} ELSE shown.msgs[i] \cap ToSet(shown.query)
            N(i) == Cardinality(Mentions(i))
            left == {i \in DOMAIN shown.msgs : N(i) > 0} \ out
        IN /\ \A i \in DOMAIN shown.out : N(shown.out[i]) > 0 /\ (i > 1 => shown.out[i - 1] < shown.out[i])
           /\ left # {} => shown.limit > 0 /\ Len(shown.out) = shown.limit
           /\ \A i \in out, j \in left : N(i) > N(j) \/ (N(i) = N(j) /\ i > j)

SearchesSound == BestShown /\ FirstMatches /\ NoneLeft /\ ShownTruly
===============================================================================
