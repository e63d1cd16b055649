----------------------------- MODULE Checkpoints -----------------------------
(***************************************************************************)
(* The undo store of the file tools (internal/tools/checkpoint.go): what   *)
(* each file held before a turn first changed it and after the tools last  *)
(* wrote it, turn by turn, within a memory budget.                         *)
(*                                                                         *)
(* A file's content is Absent or the set of those whose edits it has; a    *)
(* snapshot of a file that exists weighs 1.  Files over the snapshot limit *)
(* (tooLarge) are left out.  The operators take and return the store, a    *)
(* record, as the code's methods change it under c.mu.                     *)
(***************************************************************************)
EXTENDS Integers, Sequences, FiniteSets, Functions

CONSTANTS Files,      \* the workspace's files
          Authors,    \* who edits them
          MaxBytes,   \* Checkpoints.maxBytes
          Absent      \* the content of a file that does not exist

ASSUME StoreAssumption ==
    /\ IsFiniteSet(Files) /\ MaxBytes \in Nat
    /\ \A S \in SUBSET Authors : S # Absent

Content == {Absent} \cup SUBSET Authors

\* A turn's changes are a function from the files it changed.
EmptyStore == [turns |-> <<>>, nextID |-> 0, bytes |-> 0, originals |-> [f \in Files |-> 0]]

IsStore(cp) ==
    /\ DOMAIN cp = {"turns", "nextID", "bytes", "originals"}
    /\ cp.nextID \in Nat /\ cp.bytes \in Nat
    /\ cp.originals \in [Files -> 0..cp.nextID]
    /\ \A i \in DOMAIN cp.turns :
          /\ cp.turns[i].id \in 1..cp.nextID
          /\ DOMAIN cp.turns[i].changes \subseteq Files
          /\ \A f \in DOMAIN cp.turns[i].changes :
                cp.turns[i].changes[f] \in [before : Content, after : Content]

Changed(turn) == DOMAIN turn.changes
LastOf(cp) == Len(cp.turns)
InLast(cp, f) == cp.turns # <<>> /\ f \in Changed(cp.turns[LastOf(cp)])

\* The bytes of the snapshots of turns 1 to n.
Weight(turns, n) ==
    Cardinality({c \in (1..n) \X Files :
                    c[2] \in Changed(turns[c[1]]) /\ turns[c[1]].changes[c[2]].before # Absent})

-----------------------------------------------------------------------------
\* beginLocked: an empty current turn is reused.
Begin(cp) ==
    IF cp.turns # <<>> /\ Changed(cp.turns[LastOf(cp)]) = {} THEN cp
    ELSE [cp EXCEPT !.nextID = @ + 1,
                    !.turns = Append(@, [id |-> cp.nextID + 1, changes |-> <<>>])]

\* A mutant: a dropped turn leaves its originals behind.
TrimTurnsOnly(cp) ==
    LET enough(n) == cp.bytes - Weight(cp.turns, n) <= MaxBytes \/ n = LastOf(cp) - 1
        n == CHOOSE i \in 0..(LastOf(cp) - 1) : enough(i) /\ \A j \in 0..(i - 1) : ~enough(j)
    IN [cp EXCEPT !.turns = SubSeq(@, n + 1, Len(@)),
                  !.bytes = @ - Weight(cp.turns, n)]

\* trimLocked: the oldest turns go while over budget, never the last one.
Trim(cp) ==
    LET enough(n) == cp.bytes - Weight(cp.turns, n) <= MaxBytes \/ n = LastOf(cp) - 1
        n == CHOOSE i \in 0..(LastOf(cp) - 1) : enough(i) /\ \A j \in 0..(i - 1) : ~enough(j)
    IN [cp EXCEPT !.turns = SubSeq(@, n + 1, Len(@)),
                  !.bytes = @ - Weight(cp.turns, n),
                  !.originals = [f \in Files |->
                      IF \E i \in 1..n : cp.turns[i].id = @[f] THEN 0 ELSE @[f]]]

\* before: the file's content c as it is before the current turn's first
\* change of it.
Before(cp, f, c) ==
    LET s == IF cp.turns = <<>> THEN Begin(cp) ELSE cp
        n == LastOf(s)
    IN IF InLast(s, f) THEN s
       ELSE Trim([s EXCEPT
                !.turns[n].changes = [g \in DOMAIN @ \cup {f} |->
                    IF g = f THEN [before |-> c, after |-> Absent] ELSE @[g]],
                !.originals[f] = IF @ = 0 THEN s.turns[n].id ELSE @,
                !.bytes = IF c = Absent THEN @ ELSE @ + 1])

\* after: what the tools left in the file, if the current turn knows it.
After(cp, f, c) ==
    IF InLast(cp, f) THEN [cp EXCEPT !.turns[LastOf(cp)].changes[f].after = c] ELSE cp

\* A mutant: the discarded snapshot stays in the budget.
DiscardKeepsBytes(cp, f) ==
    LET n == LastOf(cp) IN
    IF ~InLast(cp, f) THEN cp
    ELSE [cp EXCEPT
            !.turns[n].changes = Restrict(@, DOMAIN @ \ {f}),
            !.originals[f] = IF @ = cp.turns[n].id THEN 0 ELSE @]

\* A mutant: a discarded snapshot of a missing file counts as one.
DiscardCounts(cp, f) ==
    LET n == LastOf(cp) IN
    IF ~InLast(cp, f) THEN cp
    ELSE [cp EXCEPT
            !.turns[n].changes = Restrict(@, DOMAIN @ \ {f}),
            !.originals[f] = IF @ = cp.turns[n].id THEN 0 ELSE @,
            !.bytes = @ - 1]

\* discard: the current turn's entry goes after a failed change.
Discard(cp, f) ==
    LET n == LastOf(cp) IN
    IF ~InLast(cp, f) THEN cp
    ELSE [cp EXCEPT
            !.turns[n].changes = Restrict(@, DOMAIN @ \ {f}),
            !.originals[f] = IF @ = cp.turns[n].id THEN 0 ELSE @,
            !.bytes = IF cp.turns[n].changes[f].before = Absent THEN @ ELSE @ - 1]

-----------------------------------------------------------------------------
(* Undo: the last turn that changed a file is put back, unless a file no    *)
(* longer holds what the tools wrote and force is not set.                  *)

Undoable(cp) == {i \in DOMAIN cp.turns : Changed(cp.turns[i]) # {}}
UndoTurn(cp) == CHOOSE i \in Undoable(cp) : \A j \in Undoable(cp) : j <= i

Conflict(cp, content) ==
    LET t == cp.turns[UndoTurn(cp)] IN \E f \in Changed(t) : content[f] # t.changes[f].after

\* The files after Undo, and the store, when those of failed could not be put
\* back: the turn is forgotten all the same, their snapshots stay counted.
Restored(cp, content, failed) ==
    LET t == cp.turns[UndoTurn(cp)]
    IN [f \in Files |-> IF f \in Changed(t) \ failed THEN t.changes[f].before ELSE content[f]]

Undone(cp, failed) ==
    LET i == UndoTurn(cp)
        t == cp.turns[i]
        restored == Changed(t) \ failed
    IN [cp EXCEPT !.turns = SubSeq(@, 1, i - 1) \o SubSeq(@, i + 1, Len(@)),
                  !.originals = [f \in Files |-> IF f \in restored /\ @[f] = t.id THEN 0 ELSE @[f]],
                  !.bytes = @ - Cardinality({f \in restored : t.changes[f].before # Absent})]
=============================================================================
