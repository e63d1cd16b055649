------------------------------ MODULE SessionLog ------------------------------
(***************************************************************************)
(* What the session directory promises, whatever becomes of the processes  *)
(* that write it.  A session appears whole and then has two logs that only *)
(* grow, its messages and the model's events; a snapshot appears whole and *)
(* never changes.  An append that is cut short leaves a torn tail, and the *)
(* next entry, which continues the torn line, is lost with it: one entry   *)
(* for every cut, and never another one.                                   *)
(***************************************************************************)
EXTENDS Sequences, SequencesExt

CONSTANTS Sessions,  \* identifiers
          Entries    \* messages and events

VARIABLES shown,   \* what each identifier is listed as
          log,     \* the entries a reader finds in each log of a session
          tail,    \* how each log ends
          copied   \* the logs of a copy in the making that are complete

promise == <<shown, log, tail, copied>>

Logs == {"messages", "events"}

NoLogs == [k \in Logs |-> <<>>]

Clean == [k \in Logs |-> "whole"]

Start == /\ shown = [s \in Sessions |-> "none"]
         /\ log = [s \in Sessions |-> NoLogs]
         /\ tail = [s \in Sessions |-> Clean]
         /\ copied = [s \in Sessions |-> {}]

Begun(s) ==
    /\ shown[s] = "none" /\ log[s] = NoLogs
    /\ shown' = [shown EXCEPT ![s] = "live"]
    /\ UNCHANGED <<log, tail, copied>>

(* Without its unfinished last entry, if a reader still takes it for one. *)
Settled(s, k) == IF tail[s][k] = "loose" THEN Front(log[s][k]) ELSE log[s][k]

Written(s, k) ==
    /\ shown[s] = "live"
    /\ UNCHANGED <<shown, copied>>
    /\ tail' = [tail EXCEPT ![s][k] = "whole"]
    /\ IF tail[s][k] = "whole"
       THEN \E e \in Entries : log' = [log EXCEPT ![s][k] = Append(@, e)]
       ELSE log' = [log EXCEPT ![s][k] = Settled(s, k)]

(* The writer stops inside an entry, or, with only the newline missing, at   *)
(* its end: until the next append a reader takes such an entry for whole.    *)
Cut(s, k) ==
    /\ shown[s] = "live"
    /\ UNCHANGED <<shown, copied>>
    /\ \/ /\ tail' = [tail EXCEPT ![s][k] = "half"]
          /\ log' = [log EXCEPT ![s][k] = Settled(s, k)]
       \/ /\ tail[s][k] = "whole"
          /\ tail' = [tail EXCEPT ![s][k] = "loose"]
          /\ \E e \in Entries : log' = [log EXCEPT ![s][k] = Append(@, e)]

(* One log of a copy; a source that is being removed may have lost it.  The  *)
(* messages are written anew, the events as they are found.                  *)
CopyOf(s, t, k) ==
    /\ shown[t] = "none" /\ s # t
    /\ UNCHANGED shown
    /\ copied' = [copied EXCEPT ![t] = @ \cup {k}]
    /\ \/ /\ log' = [log EXCEPT ![t][k] = log[s][k]]
          /\ tail' = [tail EXCEPT ![t][k] = IF k = "events" THEN tail[s][k] ELSE "whole"]
       \/ /\ shown[s] = "none"
          /\ log' = [log EXCEPT ![t][k] = <<>>]
          /\ tail' = [tail EXCEPT ![t][k] = "whole"]

(* A copy is listed once both its logs are there. *)
Shown(t) ==
    /\ shown[t] = "none" /\ copied[t] = Logs
    /\ \E as \in {"live", "snapshot"} : shown' = [shown EXCEPT ![t] = as]
    /\ copied' = [copied EXCEPT ![t] = {}]
    /\ UNCHANGED <<log, tail>>

(* Only a snapshot is ever taken away. *)
Removed(s) ==
    /\ shown[s] = "snapshot"
    /\ shown' = [shown EXCEPT ![s] = "none"]
    /\ UNCHANGED <<log, tail, copied>>

(* What isn't listed may be in any state. *)
Scrapped ==
    /\ UNCHANGED shown
    /\ \A s \in Sessions :
           \/ shown[s] = "none"
           \/ copied'[s] = copied[s] /\ tail'[s] = tail[s] /\ log'[s] = log[s]

Step ==
    \/ Scrapped
    \/ \E s \in Sessions : Begun(s) \/ Shown(s) \/ Removed(s)
    \/ \E s \in Sessions, k \in Logs : Written(s, k) \/ Cut(s, k)
    \/ \E s, t \in Sessions, k \in Logs : CopyOf(s, t, k)

Promise == Start /\ [][Step]_promise
===============================================================================
