-------------------------------- MODULE OneShot --------------------------------
(***************************************************************************)
(* The program with one prompt (cmd/blitz: runRoot and runOneShot): what   *)
(* flags, arguments and stdin make of a start, and what its caller is told *)
(* by the result and the exit code.  A start without a prompt goes on in   *)
(* Repl.                                                                   *)
(***************************************************************************)
EXTENDS Integers, FiniteSets

VARIABLES line, \* the command line, and what stdin is and holds
          shot   \* how far the program is, and what became of the prompt

shotVars == <<line, shot>>

(* Exit codes, which are stable so that scripts can react to them. *)
ExitOK == 0
ExitFailure == 1
ExitUsage == 2
ExitMaxTurns == 3
ExitBlocked == 4
ExitInterrupted == 130

CommandLines ==
    {g \in [exec : BOOLEAN, format : {"text", "json", "unknown"}, turns : {"unset", "set", "negative"}, flag : {"none", "-", "text"},
            args : BOOLEAN, interactive : BOOLEAN, plan : BOOLEAN, tty : BOOLEAN, stdin : {"text", "blank", "broken"}] :
        g.exec => ~g.interactive} \* -i is a flag of the root command

PlainStart ==
    [exec |-> FALSE, format |-> "text", turns |-> "unset", flag |-> "none", args |-> TRUE, interactive |-> FALSE, plan |-> FALSE,
     tty |-> TRUE, stdin |-> "text"]

ShotInit ==
    /\ line \in CommandLines
    /\ shot = [at |-> "start", code |-> ExitOK, reported |-> {}, turn |-> "none", was |-> {}]

(* What was so on the way: the service has the workspace, Ctrl+C was pressed, *)
(* a process runs in the background, the user was asked about it, it was      *)
(* killed, and the workspace couldn't be closed.                              *)
Was(what) == what \in shot.was

ReadsStdin == line.flag = "-" \/ (line.flag = "none" /\ ~line.tty /\ ~line.interactive)

HasPrompt == line.args \/ line.flag = "text" \/ (ReadsStdin /\ line.stdin = "text")

IsOneShot == HasPrompt /\ ~line.interactive

(* What is wrong with the prompt: stdin that can't be read or is all there   *)
(* was, or two prompts.                                                      *)
PromptCode ==
    CASE ReadsStdin /\ line.stdin = "broken" -> ExitFailure
      [] ReadsStdin /\ line.stdin # "broken" /\ ~HasPrompt -> ExitUsage
      [] line.flag = "text" /\ line.args -> ExitUsage
      [] OTHER -> ExitOK

StartCode ==
    CASE line.format = "unknown" \/ line.turns = "negative" -> ExitUsage
      [] PromptCode # ExitOK -> PromptCode
      [] ~HasPrompt /\ line.exec -> ExitUsage
      [] ~IsOneShot /\ (line.plan \/ line.format # "text") -> ExitUsage
      [] OTHER -> ExitOK

(* What an error on the way means for the exit code. *)
ExitCodeFor(err) ==
    CASE err = "none" -> ExitOK
      [] err = "usage" -> ExitUsage
      [] err = "max turns" -> ExitMaxTurns
      [] err = "cancelled" -> ExitInterrupted
      [] OTHER -> ExitFailure

StartsShot ==
    /\ shot.at = "start"
    /\ shot' = IF StartCode # ExitOK THEN [shot EXCEPT !.at = "exited", !.code = StartCode]
               ELSE [shot EXCEPT !.at = IF IsOneShot THEN "opening" ELSE "session"]
    /\ UNCHANGED line

(* Ctrl+C or SIGTERM, from before the configuration is read to the end. *)
Signals ==
    /\ shot.at \notin {"start", "session", "exited"}
    /\ shot' = [shot EXCEPT !.was = @ \cup {"signalled"}]
    /\ UNCHANGED line

IfSignalled == IF Was("signalled") THEN {"cancelled"} ELSE {}

(* The configuration is read and the workspace opened, here or, when it      *)
(* runs, by the service; one that another blitz has open is an error of use. *)
OpensBackend ==
    /\ shot.at = "opening"
    /\ \/ \E err \in {"usage", "failed"} \cup IfSignalled : shot' = [shot EXCEPT !.at = "exited", !.code = ExitCodeFor(err)]
       \/ \E remote \in {{}, {"remote"}} : shot' = [shot EXCEPT !.at = "opened", !.was = @ \cup remote]
    /\ UNCHANGED line

(* A model that fails, images that can't be attached and a session that      *)
(* can't be resumed end the program before the prompt is run.                *)
Prepares ==
    /\ shot.at = "opened"
    /\ \/ \E err \in {"usage", "failed"} \cup IfSignalled : shot' = [shot EXCEPT !.at = "closing", !.code = ExitCodeFor(err)]
       \/ shot' = [shot EXCEPT !.at = "turn", !.turn = "asked"]
    /\ UNCHANGED line

PromptAccepted ==
    /\ shot.at = "turn" /\ shot.turn = "asked"
    /\ shot' = [shot EXCEPT !.turn = "accepted"]
    /\ UNCHANGED line

(* A tool leaves a process in the background; with --plan none may. *)
LeavesProcess ==
    /\ shot.at = "turn" /\ shot.turn = "accepted" /\ ~line.plan
    /\ shot' = [shot EXCEPT !.was = @ \cup {"running"}]
    /\ UNCHANGED line

(* How a turn may end. A prompt that isn't accepted is refused by a hook or  *)
(* fails, and the budget of --max-turns is spent by accepted ones.           *)
TurnOutcomes ==
    {"failed"} \cup IfSignalled
        \cup (IF shot.turn = "asked" THEN {"blocked"} ELSE {"none"} \cup (IF line.turns = "set" THEN {"max turns"} ELSE {}))

(* What the service says of a turn that has spent its budget is an error     *)
(* without a kind (server.go: toAPI).                                        *)
AsReturned(err) == IF err = "max turns" /\ Was("remote") THEN "failed" ELSE err

(* A refused prompt and an interrupted turn have codes of their own; the     *)
(* result object says which code will be.                                    *)
TurnCode(err) ==
    CASE Was("signalled") /\ err \notin {"none", "max turns"} -> ExitInterrupted
      [] err = "blocked" -> ExitBlocked
      [] OTHER -> ExitCodeFor(err)

TurnIsOver ==
    /\ shot.at = "turn"
    /\ \E err \in TurnOutcomes :
           LET code == TurnCode(AsReturned(err)) IN
           shot' = [shot EXCEPT !.at = "leaving", !.turn = IF err = "none" THEN "done" ELSE err, !.code = code,
                                !.reported = IF line.format = "json" THEN {code} ELSE {}]
    /\ UNCHANGED line

(* ConfirmExit: what runs in the background of the program's own workspace   *)
(* is killed, or waited for if there is someone to ask.                      *)
CanAsk == line.format = "text" /\ ~Was("signalled") /\ line.tty /\ ~ReadsStdin

ProcessKilled == [shot EXCEPT !.at = "closing", !.was = (@ \ {"running"}) \cup {"killed"}]

LeavesProgram ==
    /\ shot.at = "leaving"
    /\ shot' = IF Was("remote") \/ ~Was("running") THEN [shot EXCEPT !.at = "closing"]
               ELSE IF CanAsk THEN [shot EXCEPT !.at = "asking", !.was = @ \cup {"asked"}]
               ELSE ProcessKilled
    /\ UNCHANGED line

AnswersLeaving ==
    /\ shot.at = "asking"
    /\ shot' \in {[shot EXCEPT !.at = "waiting"], ProcessKilled}
    /\ UNCHANGED line

(* What was waited for ends, or Ctrl+C ends the wait. *)
WaitIsOver ==
    /\ shot.at = "waiting"
    /\ \/ shot' = [shot EXCEPT !.at = "closing", !.was = @ \ {"running"}]
       \/ Was("signalled") /\ shot' = ProcessKilled
    /\ UNCHANGED line

(* The workspace is closed, which may fail; that of the service stays open. *)
Exits ==
    /\ shot.at = "closing"
    /\ \/ Was("remote") /\ shot' = [shot EXCEPT !.at = "exited"]
       \/ /\ ~Was("remote")
          /\ \E failed \in {{}, {"failed"}} :
                 shot' = [shot EXCEPT !.at = "exited", !.was = (@ \ {"running"}) \cup failed,
                                      !.code = IF failed # {} /\ shot.code = ExitOK THEN ExitFailure ELSE @]
    /\ UNCHANGED line

ShotNext ==
    \/ StartsShot \/ Signals \/ OpensBackend \/ Prepares \/ PromptAccepted \/ LeavesProcess \/ TurnIsOver \/ LeavesProgram \/ AnswersLeaving
    \/ WaitIsOver \/ Exits

ShotSpec == ShotInit /\ [][ShotNext]_shotVars

ShotTypeOK ==
    /\ line \in CommandLines
    /\ shot \in [at : {"start", "opening", "opened", "turn", "leaving", "asking", "waiting", "closing", "exited", "session"},
                 code : {ExitOK, ExitFailure, ExitUsage, ExitMaxTurns, ExitBlocked, ExitInterrupted},
                 reported : SUBSET {ExitOK, ExitFailure, ExitMaxTurns, ExitBlocked, ExitInterrupted},
                 was : SUBSET {"remote", "signalled", "running", "asked", "killed", "failed"},
                 turn : {"none", "asked", "accepted", "done", "failed", "blocked", "max turns", "cancelled"}]

(* "Exit codes are stable so scripts can react to them" (exitcode.go:10,     *)
(* README.md:68-75): each code is given exactly for what it stands for, and  *)
(* the result says the same one; but closing the workspace may fail after    *)
(* the result was written, and the service doesn't say that it was the       *)
(* budget that ended a turn.  Usage errors end before anything is run, no    *)
(* process is left behind here, none is killed while somebody could be asked *)
(* and wasn't, and stdin that held the prompt is asked nothing.              *)
ExitTold ==
    /\ shot.at = "exited" /\ IsOneShot =>
           /\ shot.code = ExitOK <=> shot.turn = "done" /\ ~Was("failed")
           /\ shot.code = ExitUsage => shot.turn = "none"
           /\ shot.code = ExitMaxTurns <=> shot.turn = "max turns" /\ ~Was("remote")
           /\ shot.code = ExitBlocked => shot.turn = "blocked"
           /\ shot.turn = "blocked" => shot.code = ExitBlocked \/ Was("signalled")
           /\ shot.code = ExitInterrupted => Was("signalled") /\ shot.turn # "done"
           /\ \A code \in shot.reported : code = shot.code \/ (code = ExitOK /\ Was("failed"))
           /\ line.format = "json" => (shot.reported = {} <=> shot.turn = "none")
           /\ Was("running") => Was("remote")
    /\ Was("killed") => Was("asked") \/ Was("signalled") \/ line.format = "json" \/ ~line.tty \/ ReadsStdin
    /\ Was("asked") => ~ReadsStdin /\ line.format = "text"
===============================================================================
