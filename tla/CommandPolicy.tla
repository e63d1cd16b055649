----------------------------- MODULE CommandPolicy -----------------------------
(***************************************************************************)
(* Whether a shell command may run (internal/tools/cmdpolicy.go): every    *)
(* simple command of a script is found, also those that wrappers, "sh -c"  *)
(* strings and find -exec run, and checked against the allow, deny and     *)
(* auto_approve lists.                                                     *)
(*                                                                         *)
(* A script is the sequence of commands its parser finds, substitutions    *)
(* included; a script grows here by commands put beside it and around it.  *)
(* A pattern is the commands it matches.  A word is known or computed at   *)
(* run time.                                                               *)
(***************************************************************************)
EXTENDS Naturals, Sequences, SequencesExt

CONSTANTS Words,        \* commands the lists may name
          MaxShellDepth, \* maxNestedShellDepth
          MaxSteps      \* bound: steps a script is made in

VARIABLES policy, \* CommandPolicy: the allow, deny and auto_approve lists
          command, \* the script asked about
          steps   \* steps it was made in

policyVars == <<policy, command, steps>>

PatternLists == SUBSET Words
NoLists == [allow |-> {}, deny |-> {}, auto |-> {}]

(* A command: its name, whether name and arguments are known before it runs, *)
(* and the commands among its arguments.                                     *)
Command(kind, word, static, inner) ==
    [kind |-> kind, word |-> word, named |-> TRUE, static |-> static, inner |-> inner]

Plain(word, named, static) == [Command("plain", word, static, <<>>) EXCEPT !.named = named]

PlainCommands == {Plain(w, TRUE, s) : w \in Words, s \in BOOLEAN} \cup {Plain(w, FALSE, FALSE) : w \in Words}

-------------------------------------------------------------------------------
(* extractCommands and expandCommand: the code of "eval" can't be checked, a *)
(* "shell" is looked into down to a depth, "find" runs what -exec names, and *)
(* env, nohup, timeout and the like are the "wrapper" of one command.        *)

Simple(c) == [word |-> c.word, static |-> c.static, verified |-> c.named, transparent |-> FALSE]

TooDeep == [word |-> "<nested shell>", static |-> TRUE, verified |-> FALSE, transparent |-> FALSE]

(* A "sh -c" whose script is computed at run time can't be looked into; and  *)
(* one that is taken for a wrapper all the same.                             *)
LooksIntoAny(c) == TRUE
LooksInto(c) == c.static

RECURSIVE Extract(_, _), Expand(_, _)

Expand(c, depth) ==
    IF ~c.named \/ c.kind = "plain" THEN <<Simple(c)>>
    ELSE IF c.kind = "eval" THEN <<[Simple(c) EXCEPT !.verified = FALSE]>>
    ELSE IF c.kind = "find" THEN <<Simple(c)>> \o [i \in DOMAIN c.inner |-> Simple(c.inner[i])]
    ELSE IF c.kind \in {"shell", "broken"} /\ ~LooksInto(c) THEN <<[Simple(c) EXCEPT !.verified = FALSE]>>
    ELSE <<[Simple(c) EXCEPT !.transparent = TRUE]>>
         \o (IF c.kind = "wrapper" THEN Expand(c.inner[1], depth) ELSE Extract(c.inner, depth + 1))

Extract(commands, depth) ==
    IF depth > MaxShellDepth THEN <<TooDeep>>
    ELSE FlattenSeq([i \in DOMAIN commands |-> Expand(commands[i], depth)])

(* Parsed by the same walk: an error anywhere is one of the whole. *)
RECURSIVE Parses(_, _)
Parses(commands, depth) ==
    \A i \in DOMAIN commands : commands[i].named =>
        /\ ~(commands[i].kind = "broken" /\ commands[i].static /\ depth < MaxShellDepth)
        /\ commands[i].kind = "shell" /\ commands[i].static /\ depth < MaxShellDepth
              => Parses(commands[i].inner, depth + 1)
        /\ commands[i].kind = "wrapper" => Parses(commands[i].inner, depth)

-------------------------------------------------------------------------------
(* Evaluate. *)

Evaluate(p, commands) ==
    LET found == Extract(commands, 0)
        own == SelectSeq(found, LAMBDA c : ~c.transparent)
        All(test(_)) == \A i \in DOMAIN own : test(own[i])
        Listed(c) == c.verified /\ c.word \in p.allow
        Auto(c) == c.verified /\ c.static /\ c.word \in p.auto
    IN IF ~Parses(commands, 0) THEN IF p.allow # {} THEN "deny" ELSE "ask"
       ELSE IF \/ \E i \in DOMAIN found : found[i].word \in p.deny
               \/ p.allow # {} /\ ~All(Listed)
            THEN "deny"
       ELSE IF p.auto # {} /\ found # <<>> /\ All(Auto) THEN "auto" ELSE "ask"

-------------------------------------------------------------------------------
(* Scripts.                                                                  *)

PolicyInit ==
    /\ policy \in [allow : PatternLists, deny : PatternLists, auto : PatternLists]
    /\ command = <<>> /\ steps = 0

Make(commands) == steps < MaxSteps /\ command' = commands /\ steps' = steps + 1 /\ UNCHANGED policy

(* Another command in the list, the pipeline or a substitution. *)
Beside(c) == Make(Append(command, c))

(* A shell is given the script so far, as text it knows, doesn't know or     *)
(* can't parse.                                                              *)
InShell(word, kind, static) ==
    command # <<>> /\ Make(<<Command(kind, word, static, command)>>)

Known(c) == c.named /\ c.static

(* The last command is run by another one, which takes it as arguments. *)
RunBy(word, kind, static) ==
    /\ command # <<>>
    /\ Make(Front(command) \o <<Command(kind, word, static /\ Known(Last(command)), <<Last(command)>>)>>)

PolicyNext ==
    \/ \E c \in PlainCommands : Beside(c)
    \/ \E w \in Words, s \in BOOLEAN : InShell(w, "shell", s) \/ RunBy(w, "find", s)
    \/ \E w \in Words : InShell(w, "broken", TRUE) \/ RunBy(w, "wrapper", TRUE) \/ RunBy(w, "eval", TRUE)

PolicySpec == PolicyInit /\ [][PolicyNext]_policyVars

-------------------------------------------------------------------------------
PolicyTypeOK ==
    /\ policy \in [allow : PatternLists, deny : PatternLists, auto : PatternLists]
    /\ \A i \in DOMAIN command : command[i].kind \in {"plain", "eval", "shell", "broken", "find", "wrapper"}

(* What runs when the script does, whoever runs it; the command of find      *)
(* stands for itself.                                                        *)
Unknown == Plain("<unknown>", FALSE, FALSE)

RECURSIVE Executed(_)
Executed(c) ==
    CASE c.kind = "plain" \/ ~c.named -> {c}
      [] c.kind \in {"eval", "broken"} -> {Unknown}
      [] c.kind = "shell" -> IF c.static THEN UNION {Executed(c.inner[i]) : i \in DOMAIN c.inner} ELSE {Unknown}
      [] c.kind = "find" -> {c, c.inner[1]}
      [] c.kind = "wrapper" -> Executed(c.inner[1])

AllExecuted == UNION {Executed(command[i]) : i \in DOMAIN command}

Strictness == [auto |-> 0, ask |-> 1, deny |-> 2]
AsStrict(commands, others) == Strictness[Evaluate(policy, commands)] >= Strictness[Evaluate(policy, others)]

(* "auto_approve: run without prompting", and with an allow-list only what   *)
(* is on it: whatever runs a command, it is found and listed itself and the  *)
(* words that could make it another are known (cmdpolicy.go:35-50).          *)
ListsKept ==
    LET verdict == Evaluate(policy, command) IN
    /\ verdict = "auto" => \A c \in AllExecuted : Known(c) /\ c.word \in policy.auto \ policy.deny
    /\ verdict # "deny" /\ policy.allow # {} => \A c \in AllExecuted : c.named /\ c.word \in policy.allow

(* A command doesn't get a kinder verdict in company, of a pipeline, a       *)
(* wrapper or a shell, unless one of them can't be parsed: what needs to be  *)
(* asked is asked and what is denied alone is denied (cmdpolicy.go:183-240). *)
NoneKinderInCompany ==
    Parses(command, 0) => \A i \in DOMAIN command :
        /\ AsStrict(command, <<command[i]>>)
        /\ command[i].kind = "wrapper" => AsStrict(<<command[i]>>, command[i].inner)

PolicySound == ListsKept /\ NoneKinderInCompany
===============================================================================
