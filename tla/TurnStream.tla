------------------------------ MODULE TurnStream ------------------------------
(***************************************************************************)
(* The way of a turn's events from the model to the screen of a client of  *)
(* the service: the model's stream (internal/runtime/anthropic.go,         *)
(* httpclient.go), the relay that marks what repeats it (app/turn.go), the *)
(* stream of the call (server/session.go, broker.go) and the client, which *)
(* shows text once and answers requests (client/client.go, tui/repl.go).   *)
(*                                                                         *)
(* Pieces of text are numbered as they are made.                           *)
(***************************************************************************)
EXTENDS Naturals, Sequences, SequencesExt, FiniteSets

CONSTANTS MaxPieces, \* bound: pieces of text
          MaxAsks    \* bound: requests of the turn

VARIABLES message, \* the model's message under way and what was said so far
          relay,   \* relay: streamed and output
          wire,    \* events sent and not received, and whether sending still works
          asks,    \* the broker's requests: "no", "pending", "answered" or "gone"
          viewer   \* the client's Run: what it does, asked for, showed and returned

streamVars == <<message, relay, wire, asks, viewer>>

StreamRequests == 1 .. MaxAsks

TextEvent(pieces, repeat) == [kind |-> "text", pieces |-> pieces, repeat |-> repeat]
AskEvent(r) == [kind |-> "ask", request |-> r]
FinishedEvent(output) == [kind |-> "finished", output |-> output]

StreamInit ==
    /\ message = [pc |-> "between", pieces |-> <<>>, said |-> 0, kept |-> <<>>, notes |-> {}]
    /\ relay = [streamed |-> FALSE, output |-> <<>>]
    /\ wire = [events |-> <<>>, works |-> TRUE]
    /\ asks = [r \in StreamRequests |-> "no"]
    /\ viewer = [pc |-> "reading", request |-> 0, shown |-> <<>>, output |-> <<>>]

(* send, under its lock: after one failure nothing is sent. *)
SendAll(events) == wire' = [wire EXCEPT !.events = IF wire.works THEN @ \o events ELSE @]

Running == message.pc # "stopped"
Cancelled == ~wire.works

-------------------------------------------------------------------------------
(* The model: text in chunks and then whole, or whole alone.                 *)

NextPiece == message.said + 1

(* A delta of text becomes a partial response at once. *)
Chunk ==
    /\ message.pc \in {"between", "streaming"} /\ message.said < MaxPieces
    /\ message' = [message EXCEPT !.pc = "streaming", !.pieces = Append(@, NextPiece), !.said = NextPiece]
    /\ relay' = [relay EXCEPT !.streamed = TRUE]
    /\ SendAll(<<TextEvent(<<NextPiece>>, FALSE)>>)
    /\ UNCHANGED <<asks, viewer>>

(* A text is a repeat when chunks came before it; and only when all its      *)
(* pieces did: forgetting the mark says everything twice.                    *)
RepeatNever(pieces) == FALSE
Repeats(pieces) == relay.streamed

(* messageToResponse and relay.handle: the final response has the text again *)
(* and, if the model refused, a part that says so.                           *)
Final(pieces, refused) ==
    LET note == message.said + (IF message.pc = "streaming" THEN 1 ELSE Len(pieces) + 1)
        texts == (IF pieces = <<>> THEN <<>> ELSE <<TextEvent(pieces, Repeats(pieces))>>)
                 \o (IF refused THEN <<TextEvent(<<note>>, Repeats(<<note>>))>> ELSE <<>>)
        kept == pieces \o (IF refused THEN <<note>> ELSE <<>>)
    IN /\ relay' = [streamed |-> FALSE, output |-> relay.output \o kept]
       /\ SendAll(texts)
       /\ message' = [message EXCEPT !.pc = "tools", !.pieces = <<>>, !.kept = @ \o kept,
                         !.said = IF kept = <<>> \/ Last(kept) <= @ THEN @ ELSE Last(kept),
                         !.notes = IF refused /\ relay.streamed THEN @ \cup {note} ELSE @]
       /\ UNCHANGED <<asks, viewer>>

MessageEnds ==
    \/ \E refused \in BOOLEAN :
           message.pc = "streaming" /\ (refused => message.said < MaxPieces) /\ Final(message.pieces, refused)
    \/ \E n \in 0 .. 1, refused \in BOOLEAN :
           /\ message.pc = "between" /\ message.said + n + (IF refused THEN 1 ELSE 0) <= MaxPieces
           /\ Final([i \in 1 .. n |-> message.said + i], refused)

(* A tool call asks (broker.ask); two may at once. *)
Requested(r) ==
    /\ message.pc = "tools" /\ asks[r] = "no" /\ \A s \in 1 .. r - 1 : asks[s] # "no"
    /\ asks' = [asks EXCEPT ![r] = "pending"]
    /\ SendAll(<<AskEvent(r)>>)
    /\ UNCHANGED <<message, relay, viewer>>

Waiting == {r \in StreamRequests : asks[r] = "pending"}

(* The tools are done, and the model is asked again. *)
ToolsDone ==
    /\ message.pc = "tools" /\ Waiting = {} /\ ~Cancelled
    /\ message' = [message EXCEPT !.pc = "between"]
    /\ UNCHANGED <<relay, wire, asks, viewer>>

(* The turn's context ends with the connection, and each request with it. *)
AskEnds(r) ==
    /\ Cancelled /\ asks[r] = "pending"
    /\ asks' = [asks EXCEPT ![r] = "gone"]
    /\ UNCHANGED <<message, relay, wire, viewer>>

(* The agent stops: done, or with the error of a model that failed or went   *)
(* quiet (stallBody), of a message cut short or of the context.              *)
Stops ==
    /\ Running /\ Waiting = {}
    /\ message' = [message EXCEPT !.pc = "stopped"]
    /\ SendAll(<<FinishedEvent(relay.output)>>)
    /\ UNCHANGED <<relay, asks, viewer>>

-------------------------------------------------------------------------------
(* The client: one event after the other, a request until it is answered.    *)

Show(v, e) == [v EXCEPT !.shown = IF e.repeat THEN @ ELSE @ \o e.pieces]

Receive ==
    /\ viewer.pc = "reading" /\ wire.events # <<>>
    /\ LET e == Head(wire.events)
       IN viewer' = CASE e.kind = "text" -> Show(viewer, e)
                      [] e.kind = "ask" -> [viewer EXCEPT !.pc = "asking", !.request = e.request]
                      [] e.kind = "finished" -> [viewer EXCEPT !.pc = "returned", !.output = e.output]
    /\ wire' = [wire EXCEPT !.events = Tail(@)]
    /\ UNCHANGED <<message, relay, asks>>

(* The user's answer, or a refusal for one who can't be asked, is a call of  *)
(* its own; a request that is gone is unknown to it (broker.answer).         *)
Reply ==
    /\ viewer.pc = "asking"
    /\ asks' = [asks EXCEPT ![viewer.request] = IF @ = "pending" THEN "answered" ELSE @]
    /\ viewer' = [viewer EXCEPT !.pc = "reading"]
    /\ UNCHANGED <<message, relay, wire>>

(* The call of the answer fails, and the client goes on with a warning. *)
ReplyLost ==
    /\ viewer.pc = "asking" /\ Cancelled
    /\ viewer' = [viewer EXCEPT !.pc = "reading"]
    /\ UNCHANGED <<message, relay, wire, asks>>

(* The connection is lost, or the user's interrupt closes the stream: what   *)
(* was on the way may still arrive in part, and the client fails.            *)
Lost ==
    /\ wire.works /\ viewer.pc # "returned"
    /\ \E n \in 0 .. Len(wire.events) : wire' = [events |-> SubSeq(wire.events, 1, n), works |-> FALSE]
    /\ UNCHANGED <<message, relay, asks, viewer>>

Breaks ==
    /\ viewer.pc = "reading" /\ Cancelled /\ wire.events = <<>>
    /\ viewer' = [viewer EXCEPT !.pc = "broken"]
    /\ UNCHANGED <<message, relay, wire, asks>>

StreamNext ==
    \/ Chunk \/ MessageEnds \/ ToolsDone \/ Stops
    \/ \E r \in StreamRequests : Requested(r) \/ AskEnds(r)
    \/ Receive \/ Reply \/ ReplyLost \/ Lost \/ Breaks

StreamSpec == StreamInit /\ [][StreamNext]_streamVars

-------------------------------------------------------------------------------
StreamTypeOK ==
    /\ message.pc \in {"between", "streaming", "tools", "stopped"} /\ message.said \in 0 .. MaxPieces
    /\ asks \in [StreamRequests -> {"no", "pending", "answered", "gone"}]
    /\ viewer.pc \in {"reading", "asking", "returned", "broken"}
    /\ relay.streamed \in BOOLEAN /\ wire.works \in BOOLEAN

(* What was said, but for notes of refusals after streamed text. *)
Said == (1 .. message.said) \ message.notes

(* "To show text once, show partial chunks and final text that isn't a       *)
(* Repeat" (app/event.go:24-27): the screen shows what was said, in order    *)
(* and once, all of it when the turn has returned; the note of a refusal     *)
(* after streamed text alone is never shown.                                 *)
ShownOnce ==
    /\ \A i, j \in DOMAIN viewer.shown : i < j => viewer.shown[i] < viewer.shown[j]
    /\ ToSet(viewer.shown) \subseteq Said
    /\ \A n \in ToSet(viewer.shown), m \in Said : m < n => m \in ToSet(viewer.shown)
    /\ viewer.pc = "returned" => ToSet(viewer.shown) = Said

(* The result is the whole text of the messages that ended: what the user    *)
(* saw, but for a message cut short.                                         *)
ResultComplete ==
    viewer.pc = "returned" => /\ viewer.output = message.kept
                              /\ \A i \in 1 .. message.said : i \notin ToSet(viewer.output) => i \in ToSet(message.pieces)

(* A tool that waits has a request the user will see: on its way, or before  *)
(* the user; unless the turn is being cancelled.  A client that returned     *)
(* leaves none behind (server/broker.go:50-73, client/client.go:126-147).    *)
AskedOrCancelled ==
    /\ \A r \in Waiting : \/ Cancelled
                          \/ \E i \in DOMAIN wire.events : wire.events[i] = AskEvent(r)
                          \/ viewer.pc = "asking" /\ viewer.request = r
    /\ viewer.pc = "returned" => Waiting = {} /\ wire.events = <<>>

TurnsFollowed == ShownOnce /\ ResultComplete /\ AskedOrCancelled

-------------------------------------------------------------------------------
(***************************************************************************)
(* The conversation as it is sent to the Messages API                      *)
(* (internal/runtime/anthropic.go convertContents): a content is what one  *)
(* event said, a message has a role and blocks, and messages take turns.   *)
(* Contents come as a conversation makes them: an answer with tool calls   *)
(* is followed by their results, in one content or several, each perhaps   *)
(* with an image.                                                          *)
(***************************************************************************)

CONSTANTS MaxContents, \* bound: contents of a conversation
          MaxCalls     \* bound: tool calls of an answer

VARIABLES contents, \* req.Contents
          calls     \* tool calls without a result, and how many were made

messageVars == <<contents, calls>>

Part(kind, id) == [kind |-> kind, id |-> id]
Content(role, parts) == [role |-> role, parts |-> parts]

MessagesInit == contents = <<>> /\ calls = [open |-> <<>>, made |-> 0]

-------------------------------------------------------------------------------
(* convertContents. *)

(* Thoughts go back to the model that signed them, and parts without text or *)
(* a known type of image become nothing or a note.                           *)
Skipped(role, p) == p.kind \in {"empty", "unsigned"} \/ (p.kind = "thought" /\ role # "model")

Block(p) == [part |-> p, images |-> <<>>]
IsResult(b) == b.part.kind = "result"

(* An image right after a tool result belongs to it. *)
AddPart(blocks, p) ==
    IF p.kind = "image" /\ blocks # <<>> /\ IsResult(Last(blocks))
    THEN Append(Front(blocks), [Last(blocks) EXCEPT !.images = Append(@, p)])
    ELSE Append(blocks, Block(p))

Blocks(c) == FoldLeft(AddPart, <<>>, SelectSeq(c.parts, LAMBDA p : ~Skipped(c.role, p)))

(* Contents of one role in a row are one message; and each one of its own. *)
AddAlone(messages, c) == Append(messages, [role |-> c.role, blocks |-> Blocks(c)])
AddContent(messages, c) ==
    CASE Blocks(c) = <<>> -> messages
      [] Blocks(c) # <<>> /\ messages # <<>> /\ Last(messages).role = c.role ->
            Append(Front(messages), [Last(messages) EXCEPT !.blocks = @ \o Blocks(c)])
      [] OTHER -> Append(messages, [role |-> c.role, blocks |-> Blocks(c)])

Messages == FoldLeft(AddContent, <<>>, contents)

(* A conversation that doesn't begin with the user is refused. *)
Refused == Messages # <<>> /\ Messages[1].role # "user"

-------------------------------------------------------------------------------
(* Conversations. *)

Says(c) == Len(contents) < MaxContents /\ contents' = Append(contents, c)

(* What a user says, a message to the running turn among it; images of the   *)
(* prompt come after its text.                                               *)
UserSays(withImage) ==
    /\ calls.open = <<>>
    /\ Says(Content("user", <<Part("text", 0)>> \o (IF withImage THEN <<Part("image", 0)>> ELSE <<>>)))
    /\ UNCHANGED calls

(* An answer thinks, speaks or not, and calls tools; an empty one has an     *)
(* empty text.                                                               *)
ModelSays(thinks, speaks, n) ==
    /\ calls.open = <<>> /\ contents # <<>>
    /\ LET ids == [i \in 1 .. n |-> calls.made + i]
           parts == (IF thinks = "no" THEN <<>> ELSE <<Part(thinks, 0)>>) \o (IF speaks THEN <<Part("text", 0)>> ELSE <<>>)
                    \o [i \in 1 .. n |-> Part("call", ids[i])]
       IN /\ Says(Content("model", IF parts = <<>> THEN <<Part("empty", 0)>> ELSE parts))
          /\ calls' = [open |-> ids, made |-> calls.made + n]

(* Results of the calls, all together or the first of them alone. *)
ResultsCome(n, withImage) ==
    /\ calls.open # <<>> /\ n \in {1, Len(calls.open)}
    /\ LET ofOne == [i \in 1 .. n |-> <<Part("result", calls.open[i])>>
                                      \o (IF withImage THEN <<Part("image", calls.open[i])>> ELSE <<>>)]
       IN Says(Content("user", FlattenSeq(ofOne)))
    /\ calls' = [calls EXCEPT !.open = SubSeq(@, n + 1, Len(@))]

MessagesNext ==
    \/ \E i \in BOOLEAN : UserSays(i)
    \/ \E t \in {"no", "thought", "unsigned"}, s \in BOOLEAN, n \in 0 .. MaxCalls : ModelSays(t, s, n)
    \/ \E n \in 1 .. MaxCalls, i \in BOOLEAN : ResultsCome(n, i)

MessagesSpec == MessagesInit /\ [][MessagesNext]_messageVars

-------------------------------------------------------------------------------
MessagesTypeOK ==
    /\ \A i \in DOMAIN contents : contents[i].role \in {"user", "model"}
    /\ calls.made \in 0 .. MaxContents * MaxCalls

PartsOf(m) == FlattenSeq([i \in DOMAIN m.blocks |-> <<m.blocks[i].part>> \o m.blocks[i].images])

AllParts == FlattenSeq([i \in DOMAIN contents |->
                SelectSeq(contents[i].parts, LAMBDA p : ~Skipped(contents[i].role, p))])

(* What is sent is what was said, nothing lost or twice, in order, with the  *)
(* roles in turn; and where the API needs the results of an answer's calls   *)
(* they are: all in the next message, each with its own images               *)
(* (runtime/anthropic.go:181-183, 220-228).                                  *)
SentInTurn ==
    /\ FlattenSeq([i \in DOMAIN Messages |-> PartsOf(Messages[i])]) = AllParts
    /\ \A i \in 1 .. Len(Messages) - 1 : Messages[i].role # Messages[i + 1].role
    /\ calls.open = <<>> => \A i \in DOMAIN Messages : \A b \in ToSet(Messages[i].blocks) :
           b.part.kind = "call" => /\ i < Len(Messages)
                                   /\ \E r \in ToSet(Messages[i + 1].blocks) : r.part = Part("result", b.part.id)
    /\ \A i \in DOMAIN Messages : \A b \in ToSet(Messages[i].blocks) : \A p \in ToSet(b.images) : p.id = b.part.id

-------------------------------------------------------------------------------
(***************************************************************************)
(* One worker run as its clients see it (internal/server/scheduler.go and  *)
(* worker.go): while it goes it is registered with the events so far, for  *)
(* watchers; its record goes to the run log before it is unregistered.     *)
(* Watchers and questions come at any point of it.                         *)
(*                                                                         *)
(* An event is its place in the stream; the last one says it finished.     *)
(***************************************************************************)

CONSTANTS Watchers,     \* calls of WatchWorkerRun
          Readers,      \* calls of GetWorkerRun and ListWorkerRuns
          MaxRunEvents  \* bound: events of the turn, before the one that says it finished

VARIABLES run,      \* where the run is
          recorded, \* its line in the run log: "no", "yes" or "lost"
          live,     \* it is registered as going now
          events,   \* liveRun.events
          done,     \* liveRun.done
          changed,  \* the channel a change closes, by number: those before it are closed
          watcher,  \* each watcher: its place, what it took and what it has sent
          reader    \* each reader: its place and how often it found the run

runVars == <<run, recorded, live, events, done, changed, watcher, reader>>

Looking == [pc |-> "idle", pending |-> <<>>, done |-> FALSE, changed |-> 0, sent |-> <<>>]

RunInit ==
    /\ run = "starting" /\ recorded = "no" /\ live = FALSE
    /\ events = <<>> /\ done = FALSE /\ changed = 0
    /\ watcher = [w \in Watchers |-> Looking]
    /\ reader = [r \in Readers |-> [pc |-> "idle", found |-> 0]]

-------------------------------------------------------------------------------
(* The run: the goroutine of scheduler.start around RunWorker.               *)

OnStart ==
    /\ run = "starting"
    /\ run' = "going" /\ live' = TRUE
    /\ UNCHANGED <<recorded, events, done, changed, watcher, reader>>

(* liveRun.add, under the run's lock. *)
Add(last) ==
    /\ events' = Append(events, Len(events) + 1)
    /\ done' = (done \/ last)
    /\ changed' = changed + 1

OnEvent ==
    /\ run = "going" /\ Len(events) < MaxRunEvents
    /\ Add(FALSE)
    /\ UNCHANGED <<run, recorded, live, watcher, reader>>

(* A line that couldn't be written, or was cut short, is only warned about.  *)
RecordRun ==
    /\ run = "going"
    /\ run' = "recorded"
    /\ recorded' \in {"yes", "lost"}
    /\ UNCHANGED <<live, events, done, changed, watcher, reader>>

AddFinished ==
    /\ run = "recorded"
    /\ run' = "finished"
    /\ Add(TRUE)
    /\ UNCHANGED <<recorded, live, watcher, reader>>

Unregister ==
    /\ run = "finished"
    /\ run' = "gone" /\ live' = FALSE
    /\ UNCHANGED <<recorded, events, done, changed, watcher, reader>>

-------------------------------------------------------------------------------
(* WatchWorkerRun. *)

Watch(w) ==
    /\ watcher[w].pc = "idle"
    /\ watcher' = [watcher EXCEPT ![w].pc = IF live THEN "taking" ELSE "refused"]
    /\ UNCHANGED <<run, recorded, live, events, done, changed, reader>>

(* The events not yet sent, the mark and the channel, under one lock. *)
TakePending(w) ==
    /\ watcher[w].pc = "taking"
    /\ watcher' = [watcher EXCEPT ![w] = [pc |-> "sending", done |-> done, changed |-> changed, sent |-> @.sent,
                                          pending |-> SubSeq(events, Len(@.sent) + 1, Len(events))]]
    /\ UNCHANGED <<run, recorded, live, events, done, changed, reader>>

Send(w) ==
    /\ watcher[w].pc = "sending" /\ watcher[w].pending # <<>>
    /\ watcher' = [watcher EXCEPT ![w].pending = Tail(@), ![w].sent = Append(@, Head(watcher[w].pending))]
    /\ UNCHANGED <<run, recorded, live, events, done, changed, reader>>

(* Whether all has been sent: as it was when the pending events were taken,  *)
(* and, wrongly, as it is by now.                                            *)
SeenDoneByNow(w) == done
SeenDone(w) == watcher[w].done

AllSent(w) ==
    /\ watcher[w].pc = "sending" /\ watcher[w].pending = <<>>
    /\ watcher' = [watcher EXCEPT ![w].pc = IF SeenDone(w) THEN "ended" ELSE "waiting"]
    /\ UNCHANGED <<run, recorded, live, events, done, changed, reader>>

Wake(w) ==
    /\ watcher[w].pc = "waiting" /\ watcher[w].changed < changed
    /\ watcher' = [watcher EXCEPT ![w].pc = "taking"]
    /\ UNCHANGED <<run, recorded, live, events, done, changed, reader>>

(* The client is gone: Send fails or the call is cancelled. *)
WatchFails(w) ==
    /\ watcher[w].pc \in {"sending", "waiting"}
    /\ watcher' = [watcher EXCEPT ![w].pc = "failed"]
    /\ UNCHANGED <<run, recorded, live, events, done, changed, reader>>

-------------------------------------------------------------------------------
(* GetWorkerRun and ListWorkerRuns look among the live runs first; only the  *)
(* list goes on to the log when the run was found there.                     *)

InLog == IF recorded = "yes" THEN 1 ELSE 0

LookLive(r, lists) ==
    /\ reader[r].pc = "idle" /\ run # "starting"
    /\ reader' = [reader EXCEPT ![r] = [pc |-> IF live /\ ~lists THEN "answered" ELSE "reading",
                                        found |-> IF live THEN 1 ELSE 0]]
    /\ UNCHANGED <<run, recorded, live, events, done, changed, watcher>>

ReadRuns(r) ==
    /\ reader[r].pc = "reading"
    /\ reader' = [reader EXCEPT ![r].pc = "answered", ![r].found = @ + InLog]
    /\ UNCHANGED <<run, recorded, live, events, done, changed, watcher>>

RunNext ==
    \/ OnStart \/ OnEvent \/ RecordRun \/ AddFinished \/ Unregister
    \/ \E w \in Watchers : Watch(w) \/ TakePending(w) \/ Send(w) \/ AllSent(w) \/ Wake(w) \/ WatchFails(w)
    \/ \E r \in Readers : \/ \E lists \in BOOLEAN : LookLive(r, lists)
                          \/ ReadRuns(r)

RunSpec == RunInit /\ [][RunNext]_runVars

-------------------------------------------------------------------------------
RunTypeOK ==
    /\ run \in {"starting", "going", "recorded", "finished", "gone"}
    /\ events \in Seq(1 .. MaxRunEvents + 1)
    /\ changed = Len(events)
    /\ \A w \in Watchers : watcher[w].changed <= changed
    /\ \A r \in Readers : reader[r].found \in 0 .. 2

(* A watcher that comes in time sees every event, in order and once, up to   *)
(* the one that says the run finished, and is never left waiting for a       *)
(* change that has come (worker.go:203-235, scheduler.go:222-231).           *)
WatchersSeeAll ==
    \A w \in Watchers :
        /\ IsPrefix(watcher[w].sent, events)
        /\ watcher[w].pc = "ended" => done /\ watcher[w].sent = events
        /\ watcher[w].pc = "waiting" /\ watcher[w].changed = changed =>
               ~done /\ watcher[w].sent = events

(* A run that has started is never unknown, not even while it moves from the *)
(* live runs to the log, unless its record was lost; the list may name it    *)
(* twice (worker.go:153-200, scheduler.go:281-293).                          *)
StartedIsFound ==
    \A r \in Readers : reader[r].pc = "answered" /\ reader[r].found = 0 => recorded = "lost"

(* Whoever follows a run sees all of it, and finds it whenever it looks.     *)
RunsFollowed == WatchersSeeAll /\ StartedIsFound

(* What happens in a run, and in a turn, reaches those who follow it, once   *)
(* and in order.                                                             *)
FollowedTruly == RunsFollowed /\ TurnsFollowed
===============================================================================
