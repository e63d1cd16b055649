--------------------------------- MODULE Repl ---------------------------------
(***************************************************************************)
(* The loop of the terminal front end (RunREPL): one line after the other  *)
(* becomes a turn, a command, a shell command or the end.  Ctrl+C cancels  *)
(* what is under way, images wait for the prompt they go with, and nothing *)
(* the agent started in the background is left running.  Who reads the     *)
(* lines and the keys is in TerminalInput.                                 *)
(***************************************************************************)
EXTENDS TerminalInput, OneShot

CONSTANTS Procs,      \* background processes the agent may start
          Pictures,   \* images the user may attach
          MaxPressed, \* how often Ctrl+C is pressed
          MaxEntered    \* how many lines are entered

ASSUME ReplAssumption == MaxPressed \in Nat /\ MaxEntered \in Nat

VARIABLES
  repl,     \* where the loop is: `at`, the turn or search under way, its context
  attached, \* App.Attachments, the images for the next prompt
  signals,  \* what waits in the channel of interrupts, which holds one
  running,  \* background processes of the workspace
  seen      \* what happened, for the properties

replVars == <<repl, attached, signals, running, seen>>

(* What a line may start, besides a command. *)
TurnKinds == {"prompt", "plan", "search", "aside", "leftover"}

(* Where cancelOnSignal watches the channel. *)
Watched == {"prompt", "searching", "turn", "confirm", "waiting"}

Endings == {"", "clear", "killed", "waited", "term", "error"}

ReplTypeOK ==
    /\ repl \in [at : Watched \cup {"shell", "ended", "closed"}, kind : TurnKinds,
                 accepted : BOOLEAN, carries : SUBSET Pictures, stopped : BOOLEAN,
                 leaving : BOOLEAN, ending : Endings]
    /\ attached \subseteq Pictures
    /\ signals \in 0..1
    /\ running \subseteq Procs
    /\ seen \in [typed : 0..MaxEntered, pressed : 0..MaxPressed, cancelled : Nat,
                 owed : SUBSET Pictures, started : SUBSET Procs, choice : BOOLEAN,
                 term : BOOLEAN]

AtPrompt == [at |-> "prompt", kind |-> "prompt", accepted |-> FALSE, carries |-> {},
             stopped |-> FALSE, leaving |-> FALSE, ending |-> ""]

ReplInit ==
    /\ repl = AtPrompt
    /\ \E given \in SUBSET Pictures: \* --image
         /\ attached = given
         /\ seen = [typed |-> 0, pressed |-> 0, cancelled |-> 0, owed |-> given,
                    started |-> {}, choice |-> FALSE, term |-> FALSE]
    /\ signals = 0
    /\ running = {}

(* Each context is made of the program's, which SIGTERM cancels. *)
Goto(place) == [AtPrompt EXCEPT !.at = place, !.stopped = seen.term]
Typed == /\ repl.at = "prompt"
         /\ ~repl.stopped
         /\ seen.typed < MaxEntered
Count == [seen EXCEPT !.typed = @ + 1]

(* Ctrl+C sends a signal, of which the channel keeps one; a terminal in raw *)
(* mode sends a key instead, which cancels what reads from it.              *)
PressInterrupt ==
    /\ repl.at \notin {"ended", "closed"}
    /\ seen.pressed < MaxPressed
    /\ \/ /\ signals' = 1
          /\ seen' = [seen EXCEPT !.pressed = @ + 1]
          /\ UNCHANGED repl
       \/ /\ repl.at \in Watched \ {"waiting", "searching"} /\ ~repl.stopped
          /\ repl' = [repl EXCEPT !.stopped = TRUE]
          /\ seen' = [seen EXCEPT !.pressed = @ + 1, !.cancelled = @ + 1]
          /\ UNCHANGED signals
    /\ UNCHANGED <<attached, running>>

(* The goroutine of cancelOnSignal takes one signal and is done; that of a *)
(* shell command takes what it finds and cancels nothing.                  *)
TakeSignal ==
    /\ signals = 1
    /\ signals' = 0
    /\ \/ /\ repl.at \in Watched /\ ~repl.stopped
          /\ repl' = [repl EXCEPT !.stopped = TRUE]
          /\ seen' = [seen EXCEPT !.cancelled = @ + 1]
       \/ repl.at = "shell" /\ UNCHANGED <<repl, seen>>
    /\ UNCHANGED <<attached, running>>

(* A line that starts with "!" runs as the user's own command. *)
ShellLine ==
    /\ Typed
    /\ repl' = Goto("shell")
    /\ seen' = Count
    /\ UNCHANGED <<attached, signals, running>>

ShellEnds ==
    /\ repl.at = "shell"
    /\ repl' = Goto("prompt")
    /\ UNCHANGED <<attached, signals, running, seen>>

(* /attach, /paste: an image already queued is not queued twice. *)
AttachLine ==
    /\ Typed
    /\ \E image \in Pictures:
         /\ attached' = attached \cup {image}
         /\ seen' = [Count EXCEPT !.owed = @ \cup {image}]
    /\ UNCHANGED <<repl, signals, running>>

(* /attach clear *)
ClearLine ==
    /\ Typed
    /\ attached' = {}
    /\ seen' = [Count EXCEPT !.owed = {}]
    /\ UNCHANGED <<repl, signals, running>>

(* The images of a prompt: those that wait and those it mentions.  One that *)
(* can't be loaded keeps the prompt from being sent.                        *)
Collected(kind, mentions) == IF kind = "aside" THEN {} ELSE attached \cup mentions

TurnBegins(kind, mentions) ==
    [Goto("turn") EXCEPT !.kind = kind, !.carries = Collected(kind, mentions)]

TurnLine ==
    /\ Typed
    /\ \E kind \in TurnKinds \ {"leftover", "search"}, mentions \in SUBSET Pictures:
         \/ repl' = TurnBegins(kind, mentions)
         \/ mentions # {} /\ kind # "aside" /\ UNCHANGED repl
    /\ seen' = Count
    /\ UNCHANGED <<attached, signals, running>>

(* /search web is searched first, under Ctrl+C; what it finds is handed to *)
(* a turn.  /search session needs no search.                               *)
SearchLine ==
    /\ Typed
    /\ repl' \in {Goto("searching"), TurnBegins("search", {}), Goto("prompt")}
    /\ seen' = Count
    /\ UNCHANGED <<attached, signals, running>>

SearchDone ==
    /\ repl.at = "searching"
    /\ repl' \in {Goto("prompt")} \cup (IF repl.stopped THEN {} ELSE {TurnBegins("search", {})})
    /\ UNCHANGED <<attached, signals, running, seen>>

(* The prompt passed the hooks: the images go with it. *)
Accepted ==
    /\ repl.at = "turn" /\ ~repl.accepted
    /\ repl' = [repl EXCEPT !.accepted = TRUE]
    /\ attached' = IF repl.carries # {} THEN {} ELSE attached
    /\ seen' = [seen EXCEPT !.owed = @ \ repl.carries]
    /\ UNCHANGED <<signals, running>>

(* A hook refused it, or the turn failed before the hooks passed it. *)
NotAccepted ==
    /\ repl.at = "turn" /\ ~repl.accepted
    /\ repl' = Goto("prompt")
    /\ UNCHANGED <<attached, signals, running, seen>>

(* The agent runs commands in the background, if its tools may. *)
AgentStarts ==
    /\ repl.at = "turn" /\ repl.accepted /\ repl.kind \in {"prompt", "leftover"}
    /\ \E p \in Procs \ seen.started:
         /\ running' = running \cup {p}
         /\ seen' = [seen EXCEPT !.started = @ \cup {p}]
    /\ UNCHANGED <<repl, attached, signals>>

RunningExits ==
    /\ repl.at # "closed"
    /\ \E p \in running: running' = running \ {p}
    /\ UNCHANGED <<repl, attached, signals, seen>>

(* The turn is over.  Messages it never read are sent as the next turn; they *)
(* are dropped if it was interrupted, or mention an image that can't be      *)
(* loaded.                                                                   *)
TurnEnds ==
    /\ repl.at = "turn" /\ repl.accepted
    /\ \/ repl' = Goto("prompt")
       \/ /\ repl.kind # "aside" /\ ~repl.stopped
          /\ \E mentions \in SUBSET Pictures: repl' = TurnBegins("leftover", mentions)
    /\ UNCHANGED <<attached, signals, running, seen>>

(* ConfirmExit: nothing to ask about, nobody to ask, or a question. *)
ConfirmExit(mayAsk) ==
    \/ /\ running = {}
       /\ repl' = [Goto("ended") EXCEPT !.ending = "clear"]
       /\ UNCHANGED running
    \/ /\ running # {} /\ ~mayAsk
       /\ repl' = [Goto("ended") EXCEPT !.ending = "killed"]
       /\ running' = {}
    \/ /\ running # {} /\ mayAsk
       /\ repl' = Goto("confirm")
       /\ UNCHANGED running

(* /exit, or the end of what can be read. *)
ExitLine ==
    /\ Typed
    /\ \E mayAsk \in BOOLEAN: ConfirmExit(mayAsk) /\ seen' = [Count EXCEPT !.choice = ~mayAsk]
    /\ UNCHANGED <<attached, signals>>

(* Ctrl+C at the prompt. *)
InterruptPrompt ==
    /\ repl.at = "prompt" /\ repl.stopped /\ ~seen.term
    /\ ConfirmExit(TRUE)
    /\ UNCHANGED <<attached, signals, seen>>

(* The answer: kill, wait or (anything else) stay. *)
AnswerExit ==
    /\ repl.at = "confirm" /\ ~repl.stopped
    /\ \/ /\ repl' = [Goto("ended") EXCEPT !.ending = "killed"]
          /\ running' = {}
          /\ seen' = [seen EXCEPT !.choice = TRUE]
       \/ repl' = Goto("waiting") /\ UNCHANGED <<running, seen>>
       \/ repl' = Goto("prompt") /\ UNCHANGED <<running, seen>>
    /\ UNCHANGED <<attached, signals>>

(* Ctrl+C at the question or while waiting, or nobody left to answer:       *)
(* everything is killed.                                                    *)
ForceQuit ==
    /\ repl.at = "confirm" \/ (repl.at = "waiting" /\ repl.stopped)
    /\ repl' = [Goto("ended") EXCEPT !.ending = "killed"]
    /\ running' = {}
    /\ seen' = [seen EXCEPT !.choice = TRUE]
    /\ UNCHANGED <<attached, signals>>

WaitedAll ==
    /\ repl.at = "waiting" /\ running = {}
    /\ repl' = [Goto("ended") EXCEPT !.ending = "waited"]
    /\ UNCHANGED <<attached, signals, running, seen>>

(* SIGTERM cancels what is under way, and ends the loop at its next prompt  *)
(* without a question; so does input that can't be read.                    *)
Terminate ==
    /\ ~seen.term /\ repl.at \notin {"ended", "closed"}
    /\ seen' = [seen EXCEPT !.term = TRUE]
    /\ repl' = [repl EXCEPT !.stopped = TRUE]
    /\ UNCHANGED <<attached, signals, running>>

LoopBroken ==
    /\ repl.at = "prompt"
    /\ repl' = [Goto("ended") EXCEPT !.ending = IF seen.term THEN "term" ELSE "error"]
    /\ UNCHANGED <<attached, signals, running, seen>>

(* The deferred Close of the workspace ends what still runs. *)
CloseWorkspace ==
    /\ repl.at = "ended"
    /\ repl' = [repl EXCEPT !.at = "closed"]
    /\ running' = {}
    /\ UNCHANGED <<attached, signals, seen>>

ReplNext ==
    \/ PressInterrupt \/ TakeSignal
    \/ ShellLine \/ ShellEnds \/ AttachLine \/ ClearLine \/ TurnLine
    \/ SearchLine \/ SearchDone \/ Accepted \/ NotAccepted
    \/ AgentStarts \/ RunningExits \/ TurnEnds
    \/ ExitLine \/ InterruptPrompt \/ AnswerExit \/ ForceQuit \/ WaitedAll
    \/ Terminate \/ LoopBroken \/ CloseWorkspace

ReplSpec == ReplInit /\ [][ReplNext]_replVars

(* An image the user attached is in the queue until a prompt that was        *)
(* accepted carries it: a prompt a hook refuses, an image that can't be      *)
(* loaded and a question on the side leave it there (attach.go, runTurn).    *)
ImagesWait == attached = seen.owed

(* Nothing is left running behind a user who left, and nothing they may have *)
(* wanted is killed unless they chose so, or nobody could be asked.          *)
LeavesNothing ==
    repl.at = "ended" =>
        /\ repl.ending \in {"clear", "killed", "waited"} => running = {}
        /\ repl.ending = "killed" => seen.choice

(* One press cancels one thing at most.                                      *)
PressesCount == seen.cancelled <= seen.pressed

ReplSound == ImagesWait /\ LeavesNothing /\ PressesCount

(* What a user types goes to one reader, with and without a terminal: no     *)
(* line is lost, no prompt competes with the keys that steer, a key that     *)
(* interrupts ends one thing and leaves nothing behind, and a program given  *)
(* one prompt says by its exit code what became of it.                       *)
InputShared == LinesInOrder /\ OneReader /\ ReplSound /\ ExitTold
===============================================================================
