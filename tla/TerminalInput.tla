----------------------------- MODULE TerminalInput -----------------------------
(***************************************************************************)
(* The one reader of stdin when there is no terminal                       *)
(* (internal/tui/input.go): prompts take turns, and the goroutine that     *)
(* reads a line outlives the prompt that started it when that is           *)
(* cancelled.                                                              *)
(***************************************************************************)
EXTENDS Naturals, Sequences, FiniteSets

CONSTANTS Askers,   \* calls of Ask that may overlap
          MaxTyped, \* bound: lines ever typed
          NoAsker   \* nobody has the turn

VARIABLES typed,   \* lines typed so far, numbered from 1
          got,     \* lines taken from stdin
          pending, \* LineReader.pending: a read, under way or with its line
          turn,    \* who holds LineReader.turn
          asker,   \* where each call is
          taken    \* lines handed to callers, in order

lineVars == <<typed, got, pending, turn, asker, taken>>

NoRead == [pc |-> "none", line |-> 0]

LineInit ==
    /\ typed = 0 /\ got = 0 /\ pending = NoRead /\ turn = NoAsker
    /\ asker = [a \in Askers |-> "idle"]
    /\ taken = <<>>

-------------------------------------------------------------------------------
Type ==
    /\ typed < MaxTyped
    /\ typed' = typed + 1
    /\ UNCHANGED <<got, pending, turn, asker, taken>>

Ask(a) ==
    /\ asker[a] = "idle"
    /\ asker' = [asker EXCEPT ![a] = "queued"]
    /\ UNCHANGED <<typed, got, pending, turn, taken>>

(* With the turn: the read under way is joined, or one is started. *)
TakeTurn(a) ==
    /\ asker[a] = "queued" /\ turn = NoAsker
    /\ turn' = a
    /\ asker' = [asker EXCEPT ![a] = "waiting"]
    /\ pending' = IF pending.pc = "none" THEN [NoRead EXCEPT !.pc = "reading"] ELSE pending
    /\ UNCHANGED <<typed, got, taken>>

(* The goroutine of the read has a line. *)
LineArrives ==
    /\ pending.pc = "reading" /\ got < typed
    /\ got' = got + 1
    /\ pending' = [pc |-> "ready", line |-> got']
    /\ UNCHANGED <<typed, turn, asker, taken>>

Answered(a) ==
    /\ asker[a] = "waiting" /\ pending.pc = "ready"
    /\ taken' = Append(taken, pending.line)
    /\ pending' = NoRead /\ turn' = NoAsker
    /\ asker' = [asker EXCEPT ![a] = "idle"]
    /\ UNCHANGED <<typed, got>>

(* Its context ends, also when the line is there already: the read stays for *)
(* the next caller; and a caller that takes its read along.                  *)
Forgets == pending' = NoRead
LeavesRead == UNCHANGED pending

AskCancelled(a) ==
    /\ asker[a] \in {"queued", "waiting"}
    /\ LeavesRead
    /\ turn' = IF turn = a THEN NoAsker ELSE turn
    /\ asker' = [asker EXCEPT ![a] = "idle"]
    /\ UNCHANGED <<typed, got, taken>>

LineNext ==
    \/ Type \/ LineArrives
    \/ \E a \in Askers : Ask(a) \/ TakeTurn(a) \/ Answered(a) \/ AskCancelled(a)

LineSpec == LineInit /\ [][LineNext]_lineVars

-------------------------------------------------------------------------------
LineTypeOK ==
    /\ got \in 0 .. typed
    /\ pending.pc \in {"none", "reading", "ready"} /\ pending.line \in 0 .. got
    /\ turn \in Askers \cup {NoAsker}
    /\ \A a \in Askers : asker[a] \in {"idle", "queued", "waiting"} /\ (asker[a] = "waiting" <=> turn = a)
    /\ taken \in Seq(1 .. got)

(* "No input is lost": every line taken from stdin goes to one caller, in    *)
(* the order typed, or waits for the next, whoever was cancelled meanwhile   *)
(* (input.go:24-26 and 48-88).                                               *)
LinesInOrder ==
    /\ taken = [i \in 1 .. Len(taken) |-> i]
    /\ got = Len(taken) + (IF pending.pc = "ready" THEN 1 ELSE 0)

-------------------------------------------------------------------------------
(***************************************************************************)
(* Who reads the terminal (internal/tui/keywatch.go and terminal.go): the  *)
(* line editor, for one prompt at a time, or, while a turn runs and none   *)
(* is shown, the key watcher, which takes keys without echo so that the    *)
(* user can steer.  A prompt of the turn pauses the watcher first; a key   *)
(* makes it hand over to the steer prompt itself.                          *)
(*                                                                         *)
(* The turn's prompts are over before it stops the watcher, so it is never *)
(* stopped while paused; a steer prompt may be open then.                  *)
(***************************************************************************)

CONSTANTS Prompts,  \* calls of Ask and ReadInput that may overlap
          Steering, \* the steer prompt
          NoPrompt  \* nobody has the editor

ASSUME KeyAssumption == Steering \notin Prompts /\ NoPrompt \notin Prompts \cup {Steering}

VARIABLES watching, \* the watcher of the turn, and where its run() is
          keyMode,  \* the terminal gives single keys, without echo
          stopping, \* the watcher's stop channel is closed
          prompt,   \* where each prompt is
          editor    \* who holds TerminalInput.turn and reads

keyVars == <<watching, keyMode, stopping, prompt, editor>>

KeyInit ==
    /\ watching = "off" /\ keyMode = FALSE /\ stopping = FALSE
    /\ prompt = [p \in Prompts |-> "idle"]
    /\ editor = NoPrompt

-------------------------------------------------------------------------------
(* The watcher. *)

WatchKeys ==
    /\ watching = "off" /\ \A p \in Prompts : prompt[p] = "idle"
    /\ watching' = "entering"
    /\ UNCHANGED <<keyMode, stopping, prompt, editor>>

(* A terminal it can't drive: no steering, and nothing to restore. *)
Enter(works) ==
    /\ watching = "entering"
    /\ keyMode' = works
    /\ watching' = IF works THEN "polling" ELSE "done"
    /\ UNCHANGED <<stopping, prompt, editor>>

(* The mode is restored before anyone hears of it; or forgotten.             *)
LeaveForgotten == UNCHANGED keyMode
Leave == keyMode' = FALSE

KeyTyped ==
    /\ watching = "polling"
    /\ Leave
    /\ watching' = "steering"
    /\ UNCHANGED <<stopping, prompt, editor>>

AskSteer ==
    /\ watching = "steering" /\ editor = NoPrompt
    /\ editor' = Steering
    /\ UNCHANGED <<watching, keyMode, stopping, prompt>>

Steered ==
    /\ editor = Steering
    /\ editor' = NoPrompt /\ watching' = "entering"
    /\ UNCHANGED <<keyMode, stopping, prompt>>

WatchEnds ==
    /\ watching = "polling" \* stopped, or the terminal fails
    /\ Leave
    /\ watching' = "done"
    /\ UNCHANGED <<stopping, prompt, editor>>

(* stop, of WatchKeys: the next turn has a watcher of its own. *)
StopWatching ==
    /\ watching # "off" /\ \A p \in Prompts : prompt[p] = "idle"
    /\ stopping' = TRUE
    /\ UNCHANGED <<watching, keyMode, prompt, editor>>

WatcherStopped ==
    /\ stopping /\ watching = "done"
    /\ stopping' = FALSE /\ watching' = "off"
    /\ UNCHANGED <<keyMode, prompt, editor>>

-------------------------------------------------------------------------------
(* Prompts.                                                                  *)

(* Between turns the prompt is the REPL's own. *)
Prompt(p) ==
    /\ prompt[p] = "idle" /\ ~stopping
    /\ prompt' = [prompt EXCEPT ![p] = IF watching = "off" THEN "waiting" ELSE "pausing"]
    /\ UNCHANGED <<watching, keyMode, stopping, editor>>

Pause(p) ==
    /\ prompt[p] = "pausing"
    /\ \/ watching = "polling" /\ Leave /\ watching' = "paused"
       \/ watching = "done" /\ UNCHANGED <<keyMode, watching>>
    /\ prompt' = [prompt EXCEPT ![p] = "waiting"]
    /\ UNCHANGED <<stopping, editor>>

TakeEditor(p) ==
    /\ prompt[p] = "waiting" /\ editor = NoPrompt
    /\ editor' = p
    /\ prompt' = [prompt EXCEPT ![p] = "editing"]
    /\ UNCHANGED <<watching, keyMode, stopping>>

LineRead(p) ==
    /\ prompt[p] = "editing"
    /\ editor' = NoPrompt
    /\ prompt' = [prompt EXCEPT ![p] = "resuming"]
    /\ UNCHANGED <<watching, keyMode, stopping>>

(* The context ends before the watcher has paused, or before the editor is   *)
(* free; the deferred resume follows the latter.                             *)
PromptCancelled(p) ==
    /\ prompt[p] \in {"pausing", "waiting"}
    /\ prompt' = [prompt EXCEPT ![p] = IF @ = "pausing" THEN "idle" ELSE "resuming"]
    /\ UNCHANGED <<watching, keyMode, stopping, editor>>

(* A watcher that is done, or was never there, has nothing to resume. *)
Resume(p) ==
    /\ prompt[p] = "resuming"
    /\ watching' = IF watching = "paused" THEN "entering" ELSE watching
    /\ prompt' = [prompt EXCEPT ![p] = "idle"]
    /\ UNCHANGED <<keyMode, stopping, editor>>

KeyNext ==
    \/ WatchKeys \/ (\E works \in BOOLEAN : Enter(works)) \/ KeyTyped \/ AskSteer \/ Steered
    \/ WatchEnds \/ StopWatching \/ WatcherStopped
    \/ \E p \in Prompts : Prompt(p) \/ Pause(p) \/ TakeEditor(p) \/ LineRead(p) \/ PromptCancelled(p) \/ Resume(p)

KeySpec == KeyInit /\ [][KeyNext]_keyVars

-------------------------------------------------------------------------------
KeyTypeOK ==
    /\ watching \in {"off", "entering", "polling", "paused", "steering", "done"}
    /\ keyMode \in BOOLEAN /\ stopping \in BOOLEAN
    /\ \A p \in Prompts : prompt[p] \in {"idle", "pausing", "waiting", "editing", "resuming"}
    /\ editor \in Prompts \cup {Steering, NoPrompt}

(* "Prompts never compete for stdin": while anybody edits a line, the        *)
(* watcher reads no keys and the terminal is as the editor expects it; and   *)
(* however the turn ends, its mode is restored (keywatch.go:28-32, 56-104).  *)
OneReads ==
    /\ editor # NoPrompt => ~keyMode /\ watching # "polling"
    /\ watching \in {"off", "done", "paused"} => ~keyMode

(* A paused watcher has a prompt that will resume it, and only one: the      *)
(* others wait until it polls again or is done (keywatch.go:108-128).        *)
OnePauses ==
    watching = "paused" => Cardinality({p \in Prompts : prompt[p] \in {"waiting", "editing", "resuming"}}) = 1

OneReader == OneReads /\ OnePauses
===============================================================================
