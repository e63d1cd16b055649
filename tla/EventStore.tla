------------------------------ MODULE EventStore ------------------------------
(***************************************************************************)
(* The model's side of a session (internal/session/adkstore.go): the       *)
(* events are kept in memory and every final one is appended to a file,    *)
(* which a later process replays into memory on first use.  Loads and      *)
(* appends to the file are serialised by one lock; memory is reached       *)
(* without it.  One session is modelled: the service keeps nothing else    *)
(* that two sessions share.                                                *)
(*                                                                         *)
(* The memory store is a library's: Create refuses a session that exists,  *)
(* Get copies it, AppendEvent needs it.                                    *)
(***************************************************************************)
EXTENDS Naturals, FiniteSets, Sequences, SequencesExt

CONSTANTS Loaders,   \* calls of Get and Create that may overlap
          MaxEvents, \* bound: events ever appended
          NoSession, \* memory without the session
          NoLoader   \* the lock is free

ASSUME EventsAssumption == NoSession \notin Seq(Nat) /\ NoLoader \notin Loaders

VARIABLES inMemory,  \* the events in memory
          onDisk,    \* the events of the file
          loadLock,  \* who holds the service's lock
          load,      \* each call's place and, while it replays, what it has yet to replay
          unwritten, \* the event being appended: in memory, not yet in the file
          unsaved,   \* events whose append to the file failed in this process
          lastEvent  \* events so far

eventVars == <<inMemory, onDisk, loadLock, load, unwritten, unsaved, lastEvent>>

(* The service's lock, and what would become of a path that forgot it. *)
LockForgotten == TRUE
LockFree == loadLock = NoLoader

AtRest == [pc |-> "idle", rest |-> <<>>]

EventsInit ==
    /\ inMemory = NoSession
    /\ onDisk = <<>>
    /\ loadLock = NoLoader
    /\ load = [c \in Loaders |-> AtRest]
    /\ unwritten = {} /\ unsaved = {}
    /\ lastEvent = 0

-------------------------------------------------------------------------------
(* Get and Create.                                                           *)

(* The first look, without the lock: the session, or no log of one, is an    *)
(* answer.                                                                   *)
Get(c) ==
    /\ load[c].pc = "idle"
    /\ inMemory = NoSession /\ onDisk # <<>>
    /\ load' = [load EXCEPT ![c].pc = "get"]
    /\ UNCHANGED <<inMemory, onDisk, loadLock, unwritten, unsaved, lastEvent>>

CreateOrReplay(c) ==
    /\ load[c].pc = "idle"
    /\ load' = [load EXCEPT ![c].pc = "create"]
    /\ UNCHANGED <<inMemory, onDisk, loadLock, unwritten, unsaved, lastEvent>>

(* Under the lock: another call may have loaded the session meanwhile.       *)
LoadLocked(c) ==
    /\ load[c].pc \in {"get", "create"} /\ LockFree
    /\ IF inMemory = NoSession
       THEN /\ inMemory' = <<>>
            /\ loadLock' = c
            /\ load' = [load EXCEPT ![c].pc = "created"]
       ELSE /\ load' = [load EXCEPT ![c] = AtRest]
            /\ UNCHANGED <<inMemory, loadLock>>
    /\ UNCHANGED <<onDisk, unwritten, unsaved, lastEvent>>

ReadLog(c) ==
    /\ load[c].pc = "created"
    /\ load' = [load EXCEPT ![c] = [pc |-> "replaying", rest |-> onDisk]]
    /\ UNCHANGED <<inMemory, onDisk, loadLock, unwritten, unsaved, lastEvent>>

Replay(c) ==
    /\ load[c].pc = "replaying" /\ load[c].rest # <<>>
    /\ inMemory' = Append(inMemory, Head(load[c].rest))
    /\ load' = [load EXCEPT ![c].rest = Tail(@)]
    /\ UNCHANGED <<onDisk, loadLock, unwritten, unsaved, lastEvent>>

Replayed(c) ==
    /\ load[c].pc = "replaying" /\ load[c].rest = <<>>
    /\ load' = [load EXCEPT ![c] = AtRest]
    /\ loadLock' = NoLoader
    /\ UNCHANGED <<inMemory, onDisk, unwritten, unsaved, lastEvent>>

-------------------------------------------------------------------------------
(* AppendEvent, of one turn at a time: memory first, then, under the lock,   *)
(* the file.                                                                 *)

AppendInMemory ==
    /\ inMemory # NoSession /\ unwritten = {} /\ lastEvent < MaxEvents
    /\ lastEvent' = lastEvent + 1
    /\ inMemory' = Append(inMemory, lastEvent')
    /\ unwritten' = {lastEvent'}
    /\ UNCHANGED <<onDisk, loadLock, load, unsaved>>

Written(fits) == IF fits THEN onDisk' = onDisk \o SetToSeq(unwritten) /\ UNCHANGED unsaved
                 ELSE unsaved' = unsaved \cup unwritten /\ UNCHANGED onDisk

AppendOnDisk ==
    /\ unwritten # {} /\ LockFree
    /\ \E fits \in BOOLEAN : Written(fits)
    /\ unwritten' = {}
    /\ UNCHANGED <<inMemory, loadLock, load, lastEvent>>

(* The process ends, at any moment, and another one starts: memory is gone. *)
Restart ==
    /\ inMemory # NoSession
    /\ inMemory' = NoSession
    /\ loadLock' = NoLoader
    /\ load' = [c \in Loaders |-> AtRest]
    /\ unwritten' = {} /\ unsaved' = {}
    /\ UNCHANGED <<onDisk, lastEvent>>

EventsNext ==
    \/ AppendInMemory \/ AppendOnDisk \/ Restart
    \/ \E c \in Loaders : \/ Get(c) \/ CreateOrReplay(c) \/ LoadLocked(c)
                          \/ ReadLog(c) \/ Replay(c) \/ Replayed(c)

EventsSpec == EventsInit /\ [][EventsNext]_eventVars

-------------------------------------------------------------------------------
EventsTypeOK ==
    /\ inMemory \in {NoSession} \cup Seq(1 .. lastEvent)
    /\ onDisk \in Seq(1 .. lastEvent)
    /\ loadLock = NoLoader \/ load[loadLock].pc \in {"created", "replaying"}
    /\ unwritten \cup unsaved \subseteq 1 .. lastEvent

TimesIn(e, s) == Cardinality({i \in DOMAIN s : s[i] = e})

(* Once a session is loaded the model is shown every event that was saved,   *)
(* and every one of this process, exactly once: overlapping loads don't      *)
(* replay the log twice, and an append that meets a load is neither missed   *)
(* nor replayed on top of itself (adkstore.go:62-90 and 108-132).            *)
ReplayedOnce ==
    inMemory # NoSession /\ loadLock = NoLoader =>
        \A e \in 1 .. lastEvent :
            TimesIn(e, inMemory) = (IF e \in ToSet(onDisk) \cup unwritten \cup unsaved THEN 1 ELSE 0)
===============================================================================
