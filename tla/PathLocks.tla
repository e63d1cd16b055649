------------------------------ MODULE PathLocks ------------------------------
(***************************************************************************)
(* The per-file locks of the file tools (internal/tools/pathlock.go).  The *)
(* tool calls of one model response run at once; each locks the paths it   *)
(* edits, in sorted order, for as long as it reads, asks for approval and  *)
(* writes.                                                                 *)
(*                                                                         *)
(* A lock is an object made on demand: m maps a path to the lock in use,   *)
(* and an entry is dropped when its count of holders and waiters is zero.  *)
(* A tool keeps the object it found across the wait for it, so objects     *)
(* have an identity here, Locks.  The count is kept as the set of the      *)
(* tools counted: a tool counts once per path, its keys being compacted.   *)
(* Paths are numbered in their sorted order.                               *)
(***************************************************************************)
EXTENDS Integers

CONSTANTS Tools,   \* concurrent tool calls
          Paths,   \* lock keys, in sorted order
          Locks,   \* lock objects: one per path in use at a time
          None     \* no object, no tool

ASSUME LockAssumption ==
    /\ Paths \subseteq Nat
    /\ None \notin Locks /\ None \notin Tools

VARIABLES m,      \* pathLocks.m: the lock of each path in use
          refs,   \* pathLock.refs: who holds or waits for the lock
          ch,     \* pathLock.ch: whose token is in the one-slot channel
          pc,     \* where each tool call is in lockPaths, its body or unlock
          want,   \* lockPaths: keys
          held,   \* lockPaths: held
          ptr     \* the local l of acquire, release and drop

lockVars == <<m, refs, ch, pc, want, held, ptr>>

LockPC == {"idle", "lock", "wait", "critical", "unlock", "receive", "drop"}

LockTypeOK ==
    /\ m \in [Paths -> Locks \cup {None}]
    /\ refs \in [Locks -> SUBSET Tools]
    /\ ch \in [Locks -> Tools \cup {None}]
    /\ pc \in [Tools -> LockPC]
    /\ want \in [Tools -> SUBSET Paths]
    /\ held \in [Tools -> SUBSET Paths]
    /\ ptr \in [Tools -> Locks \cup {None}]

LockInit ==
    /\ m = [k \in Paths |-> None]
    /\ refs = [l \in Locks |-> {}]
    /\ ch = [l \in Locks |-> None]
    /\ pc = [t \in Tools |-> "idle"]
    /\ want = [t \in Tools |-> {}]
    /\ held = [t \in Tools |-> {}]
    /\ ptr = [t \in Tools |-> None]

-----------------------------------------------------------------------------
(* The key a tool is about to lock, and the one it is about to unlock. *)

Least(S, k) == k \in S /\ \A j \in S : k <= j
Greatest(S, k) == k \in S /\ \A j \in S : j <= k

\* A mutant: keys are not sorted.
AnyKey(t, k) == k \in want[t] \ held[t]

NextKey(t, k) == Least(want[t] \ held[t], k)
LastKey(t, k) == Greatest(held[t], k)

\* An object nobody refers to: new(pathLock).
Fresh(l) == /\ refs[l] = {} /\ ch[l] = None
            /\ \A k \in Paths : m[k] # l
            /\ \A t \in Tools : ptr[t] # l

\* drop: the last to leave deletes the entry.
DropRef(t, k, l) ==
    /\ refs' = [refs EXCEPT ![l] = @ \ {t}]
    /\ m' = IF refs[l] \ {t} = {} THEN [m EXCEPT ![k] = None] ELSE m

-----------------------------------------------------------------------------
(* lockPaths and acquire. *)

LockPaths(t, S) ==
    /\ pc[t] = "idle"
    /\ pc' = [pc EXCEPT ![t] = "lock"]
    /\ want' = [want EXCEPT ![t] = S]
    /\ UNCHANGED <<m, refs, ch, held, ptr>>

\* A mutant: the lock is made without a look for one in use.
RefAlwaysNew(t, k) ==
    /\ pc[t] = "lock" /\ NextKey(t, k)
    /\ \E l \in Locks :
          /\ Fresh(l)
          /\ m' = [m EXCEPT ![k] = l]
          /\ refs' = [refs EXCEPT ![l] = @ \cup {t}]
          /\ ptr' = [ptr EXCEPT ![t] = l]
    /\ pc' = [pc EXCEPT ![t] = "wait"]
    /\ UNCHANGED <<ch, want, held>>

\* Under mu: find or make the lock, and count.
Ref(t, k) ==
    /\ pc[t] = "lock" /\ NextKey(t, k)
    /\ \E l \in Locks :
          /\ IF m[k] # None THEN l = m[k] ELSE Fresh(l)
          /\ m' = [m EXCEPT ![k] = l]
          /\ refs' = [refs EXCEPT ![l] = @ \cup {t}]
          /\ ptr' = [ptr EXCEPT ![t] = l]
    /\ pc' = [pc EXCEPT ![t] = "wait"]
    /\ UNCHANGED <<ch, want, held>>

\* The select: the slot is free, ...
Take(t, k) ==
    /\ pc[t] = "wait" /\ NextKey(t, k)
    /\ ch[ptr[t]] = None
    /\ ch' = [ch EXCEPT ![ptr[t]] = t]
    /\ held' = [held EXCEPT ![t] = @ \cup {k}]
    /\ ptr' = [ptr EXCEPT ![t] = None]
    /\ pc' = [pc EXCEPT ![t] = "lock"]
    /\ UNCHANGED <<m, refs, want>>

\* ... or the turn is cancelled: what is held already is unlocked.
Cancel(t, k) ==
    /\ pc[t] = "wait" /\ NextKey(t, k)
    /\ DropRef(t, k, ptr[t])
    /\ ptr' = [ptr EXCEPT ![t] = None]
    /\ want' = [want EXCEPT ![t] = {}]
    /\ pc' = [pc EXCEPT ![t] = "unlock"]
    /\ UNCHANGED <<ch, held>>

Locked(t) ==
    /\ pc[t] = "lock" /\ want[t] = held[t]
    /\ pc' = [pc EXCEPT ![t] = "critical"]
    /\ UNCHANGED <<m, refs, ch, want, held, ptr>>

-----------------------------------------------------------------------------
(* unlock, release and drop. *)

Leave(t) ==
    /\ pc[t] = "critical"
    /\ pc' = [pc EXCEPT ![t] = "unlock"]
    /\ want' = [want EXCEPT ![t] = {}]
    /\ UNCHANGED <<m, refs, ch, held, ptr>>

\* Under mu: release looks the lock up again.
Lookup(t, k) ==
    /\ pc[t] = "unlock" /\ LastKey(t, k)
    /\ ptr' = [ptr EXCEPT ![t] = m[k]]
    /\ pc' = [pc EXCEPT ![t] = "receive"]
    /\ UNCHANGED <<m, refs, ch, want, held>>

\* Receiving blocks while the channel is empty.
Receive(t) ==
    /\ pc[t] = "receive"
    /\ ptr[t] # None /\ ch[ptr[t]] # None
    /\ ch' = [ch EXCEPT ![ptr[t]] = None]
    /\ pc' = [pc EXCEPT ![t] = "drop"]
    /\ UNCHANGED <<m, refs, want, held, ptr>>

\* A mutant: the entry goes whoever still waits.
DropAlways(t, k) ==
    /\ pc[t] = "drop" /\ LastKey(t, k)
    /\ refs' = [refs EXCEPT ![ptr[t]] = @ \ {t}]
    /\ m' = [m EXCEPT ![k] = None]
    /\ held' = [held EXCEPT ![t] = @ \ {k}]
    /\ ptr' = [ptr EXCEPT ![t] = None]
    /\ pc' = [pc EXCEPT ![t] = "unlock"]
    /\ UNCHANGED <<ch, want>>

Drop(t, k) ==
    /\ pc[t] = "drop" /\ LastKey(t, k)
    /\ DropRef(t, k, ptr[t])
    /\ held' = [held EXCEPT ![t] = @ \ {k}]
    /\ ptr' = [ptr EXCEPT ![t] = None]
    /\ pc' = [pc EXCEPT ![t] = "unlock"]
    /\ UNCHANGED <<ch, want>>

Unlocked(t) ==
    /\ pc[t] = "unlock" /\ held[t] = {}
    /\ pc' = [pc EXCEPT ![t] = "idle"]
    /\ UNCHANGED <<m, refs, ch, want, held, ptr>>

-----------------------------------------------------------------------------
LockStep(t) ==
    \/ Locked(t) \/ Receive(t) \/ Unlocked(t)
    \/ \E k \in Paths : Ref(t, k) \/ Take(t, k) \/ Cancel(t, k) \/ Lookup(t, k) \/ Drop(t, k)

LockNext ==
    \E t \in Tools :
        \/ \E S \in SUBSET Paths : LockPaths(t, S)
        \/ LockStep(t)
        \/ Leave(t)

LockSpec == LockInit /\ [][LockNext]_lockVars

-----------------------------------------------------------------------------
\* t has sent its token for k and not yet received it back.
Holds(t, k) == k \in held[t] /\ ~(pc[t] = "drop" /\ LastKey(t, k))

(* Two tools never hold the same path, whichever lock object each found.     *)
MutualExclusion ==
    \A t, u \in Tools, k \in Paths : Holds(t, k) /\ Holds(u, k) => t = u

(* An entry is in the map exactly while someone holds the path or waits for  *)
(* it: the map does not grow, and nobody is left with a lock others cannot   *)
(* find (the comment on refs, pathlock.go:27).                               *)
Interested(t, k) ==
    k \in held[t] \/ (pc[t] = "wait" /\ NextKey(t, k))

EntryInUse ==
    \A k \in Paths : m[k] # None <=> \E t \in Tools : Interested(t, k)
(* Both at once: the map forgets a lock exactly when nobody uses it, so that *)
(* nobody is inside a path beside another (pathlock.go:45-72).               *)
LocksSound == MutualExclusion /\ EntryInUse
=============================================================================
