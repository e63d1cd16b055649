--------------------------- MODULE FileToolsProofs ---------------------------
(***************************************************************************)
(* Proofs about the path locks and the file tools, for any tool calls,     *)
(* paths, plans, files, edits from outside and undos.                      *)
(*                                                                         *)
(* First, the locks.  Mutual exclusion alone is not inductive: it rests on *)
(* every holder and waiter of a path pointing to the one lock object the   *)
(* map has for it, which rests on that object counting exactly them, so    *)
(* that nobody drops the entry early.  LockInv says so.                    *)
(*                                                                         *)
(* Then, the tools use the path locks as PathLocks says they may be used,  *)
(* so that what is proved of the locks holds of the tools.  FileInv is the *)
(* tools' inductive invariant: a call in its body holds the locks of       *)
(* exactly the files of its plan (LockLink), its phase says how far it is  *)
(* (TaskShape), and a file of its plan that it has not changed, or has put *)
(* back, is what it read unless somebody who takes no lock edited it       *)
(* (FilesKept).  That no tool loses another's edit and that a patch is all *)
(* or nothing both follow from FilesKept, which alone is not inductive:    *)
(* another call could write the file if the two held no lock in common.    *)
(*                                                                         *)
(* At last, a search over many files, which takes no locks (SearchInv).    *)
(***************************************************************************)
EXTENDS FileTools, Searches, CheckpointsProofs

-----------------------------------------------------------------------------
(* The path locks. *)

Users(k) == {t \in Tools : Interested(t, k)}

\* A tool on its way into or out of a lock points to the map's object.
Proper(t) ==
    /\ pc[t] = "idle" => held[t] = {}
    /\ pc[t] \in {"lock", "wait"} => held[t] \subseteq want[t]
    /\ pc[t] = "wait" => \E k \in Paths : NextKey(t, k) /\ m[k] # None /\ ptr[t] = m[k]
    /\ pc[t] \in {"receive", "drop"} =>
          \E k \in Paths : LastKey(t, k) /\ m[k] # None /\ ptr[t] = m[k]

AllProper == \A t \in Tools : Proper(t)
Counted == \A k \in Paths : m[k] # None => refs[m[k]] = Users(k)
DistinctObjects == \A j, k \in Paths : m[j] # None /\ m[j] = m[k] => j = k
TokenOfHolder == \A t \in Tools, k \in Paths : Holds(t, k) => ch[m[k]] = t

LockInv ==
    /\ LockTypeOK
    /\ AllProper
    /\ EntryInUse
    /\ Counted
    /\ DistinctObjects
    /\ TokenOfHolder

-----------------------------------------------------------------------------
(* Small facts. *)

LEMMA OneLeast ==
    ASSUME NEW S, S \subseteq Paths, NEW j, NEW k, Least(S, j), Least(S, k)
    PROVE  j = k
BY LockAssumption DEF Least

LEMMA OneGreatest ==
    ASSUME NEW S, S \subseteq Paths, NEW j, NEW k, Greatest(S, j), Greatest(S, k)
    PROVE  j = k
BY LockAssumption DEF Greatest

\* A tool has at most one key to lock next, and one to unlock next.
LEMMA OneNextKey ==
    ASSUME LockTypeOK, NEW t \in Tools, NEW j, NEW k, NextKey(t, j), NextKey(t, k)
    PROVE  j = k
BY OneLeast DEF NextKey, LockTypeOK

LEMMA OneLastKey ==
    ASSUME LockTypeOK, NEW t \in Tools, NEW j, NEW k, LastKey(t, j), LastKey(t, k)
    PROVE  j = k
BY OneGreatest DEF LastKey, LockTypeOK

\* Who holds a path is interested in it, so it has an entry.
LEMMA HolderInterested ==
    ASSUME LockInv, NEW t \in Tools, NEW k \in Paths, k \in held[t]
    PROVE  m[k] # None /\ m[k] \in Locks /\ t \in refs[m[k]]
BY DEF LockInv, LockTypeOK, EntryInUse, Interested, Counted, Users

-----------------------------------------------------------------------------
(* Types. *)

LEMMA LockTypeStep == LockTypeOK /\ [LockNext]_lockVars => LockTypeOK'
<1> SUFFICES ASSUME LockTypeOK, [LockNext]_lockVars PROVE LockTypeOK'
    OBVIOUS
<1> USE DEF LockTypeOK, LockPC
<1>1. ASSUME NEW t \in Tools, NEW S \in SUBSET Paths, LockPaths(t, S) PROVE LockTypeOK'
    BY <1>1 DEF LockPaths
<1>2. ASSUME NEW t \in Tools, NEW k \in Paths, Ref(t, k) PROVE LockTypeOK'
    BY <1>2 DEF Ref
<1>3. ASSUME NEW t \in Tools, NEW k \in Paths, Take(t, k) PROVE LockTypeOK'
    BY <1>3 DEF Take
<1>4. ASSUME NEW t \in Tools, NEW k \in Paths, Cancel(t, k) PROVE LockTypeOK'
    BY <1>4 DEF Cancel, DropRef
<1>5. ASSUME NEW t \in Tools, NEW k \in Paths, Lookup(t, k) PROVE LockTypeOK'
    BY <1>5 DEF Lookup
<1>6. ASSUME NEW t \in Tools, NEW k \in Paths, Drop(t, k) PROVE LockTypeOK'
    BY <1>6 DEF Drop, DropRef
<1>7. ASSUME NEW t \in Tools, Locked(t) \/ Receive(t) \/ Unlocked(t) \/ Leave(t)
      PROVE LockTypeOK'
    BY <1>7 DEF Locked, Receive, Unlocked, Leave
<1>8. CASE UNCHANGED lockVars
    BY <1>8 DEF lockVars
<1> QED
    BY <1>1, <1>2, <1>3, <1>4, <1>5, <1>6, <1>7, <1>8 DEF LockNext, LockStep

(* Type correctness of the path locks: in particular want and held stay sets *)
(* of paths and every pointer names a lock object or nothing.                *)
THEOREM LockTypeCorrect == LockSpec => []LockTypeOK
<1>1. LockInit => LockTypeOK
    BY DEF LockInit, LockTypeOK, LockPC
<1> QED
    BY <1>1, LockTypeStep, PTL DEF LockSpec

-----------------------------------------------------------------------------
(* The invariant, one lemma per action.  A step that changes neither who is  *)
(* interested in which path nor the entries keeps their relation.            *)

LEMMA SameEntries ==
    ASSUME LockInv, UNCHANGED <<m, refs>>,
           \A u \in Tools, j \in Paths : Interested(u, j)' <=> Interested(u, j)
    PROVE  EntryInUse' /\ Counted' /\ DistinctObjects'
<1>1. \A j \in Paths : Users(j)' = Users(j)
    BY DEF Users
<1> QED
    BY <1>1 DEF LockInv, EntryInUse, Counted, DistinctObjects

\* Another tool's step that leaves u alone, and the entries u points to.
LEMMA Bystander ==
    ASSUME LockInv, NEW u \in Tools,
           pc'[u] = pc[u], want'[u] = want[u], held'[u] = held[u], ptr'[u] = ptr[u],
           \A k \in Paths : Interested(u, k) => m'[k] = m[k]
    PROVE  /\ \A k \in Paths : Interested(u, k)' <=> Interested(u, k)
           /\ \A k \in Paths : Holds(u, k)' <=> Holds(u, k)
           /\ Proper(u)'
<1>1. \A k : (NextKey(u, k)' <=> NextKey(u, k)) /\ (LastKey(u, k)' <=> LastKey(u, k))
    BY DEF NextKey, LastKey
<1>2. Proper(u)
    BY DEF LockInv, AllProper
<1>3. pc[u] = "wait" => \E k \in Paths : NextKey(u, k) /\ m[k] # None /\ ptr[u] = m[k] /\ m'[k] = m[k]
    BY <1>2 DEF Proper, Interested
<1>4. pc[u] \in {"receive", "drop"} =>
          \E k \in Paths : LastKey(u, k) /\ m[k] # None /\ ptr[u] = m[k] /\ m'[k] = m[k]
    BY <1>2 DEF Proper, Interested, LastKey, Greatest
<1>5. Proper(u)'
  <2>1. (pc[u] = "idle" => held[u] = {})' /\ (pc[u] \in {"lock", "wait"} => held[u] \subseteq want[u])'
      BY <1>2 DEF Proper
  <2>2. (pc[u] = "wait" => \E k \in Paths : NextKey(u, k) /\ m[k] # None /\ ptr[u] = m[k])'
      BY <1>1, <1>3
  <2>3. (pc[u] \in {"receive", "drop"} =>
             \E k \in Paths : LastKey(u, k) /\ m[k] # None /\ ptr[u] = m[k])'
      BY <1>1, <1>4
  <2> QED
      BY <2>1, <2>2, <2>3 DEF Proper
<1> QED
    BY <1>1, <1>5 DEF Interested, Holds

LEMMA QuietKeeps ==
    ASSUME LockInv, NEW t \in Tools,
           \/ \E S \in SUBSET Paths : LockPaths(t, S)
           \/ Locked(t) \/ Unlocked(t) \/ Leave(t)
    PROVE  LockInv'
<1>1. LockTypeOK'
    BY LockTypeStep DEF LockInv, LockNext, LockStep
<1>2. UNCHANGED <<m, refs, ch, held, ptr>> /\ pc[t] \notin {"wait", "receive", "drop"}
    BY DEF LockPaths, Locked, Unlocked, Leave
<1>3. pc'[t] \notin {"wait", "receive", "drop"}
    BY DEF LockPaths, Locked, Unlocked, Leave, LockInv, LockTypeOK
<1>4. ASSUME NEW u \in Tools \ {t} PROVE pc'[u] = pc[u] /\ want'[u] = want[u]
    BY DEF LockPaths, Locked, Unlocked, Leave, LockInv, LockTypeOK
<1>5. ASSUME NEW u \in Tools, NEW j \in Paths
      PROVE  (Interested(u, j)' <=> Interested(u, j)) /\ (Holds(u, j)' <=> Holds(u, j))
  <2>1. CASE u = t
      BY <1>2, <1>3, <2>1 DEF Interested, Holds
  <2>2. CASE u # t
      BY <1>2, <1>4, <2>2, Bystander
  <2> QED
      BY <2>1, <2>2
<1>6. AllProper'
  <2>1. Proper(t)'
      BY <1>2, <1>3 DEF AllProper, Proper, LockPaths, Locked, Unlocked, Leave, LockInv, LockTypeOK
  <2> QED
      BY <1>2, <1>4, <2>1, Bystander DEF AllProper
<1>7. TokenOfHolder'
    BY <1>2, <1>5 DEF TokenOfHolder, LockInv
<1> QED
    BY <1>1, <1>2, <1>5, <1>6, <1>7, SameEntries DEF LockInv

LEMMA LookupKeeps ==
    ASSUME LockInv, NEW t \in Tools, NEW k \in Paths, Lookup(t, k)
    PROVE  LockInv'
<1>1. LockTypeOK'
    BY LockTypeStep DEF LockInv, LockNext, LockStep
<1>2. UNCHANGED <<m, refs, ch, held, want>> /\ pc[t] = "unlock" /\ LastKey(t, k)
    BY DEF Lookup
<1>3. pc'[t] = "receive" /\ ptr'[t] = m[k]
    BY DEF Lookup, LockInv, LockTypeOK
<1>4. ASSUME NEW u \in Tools \ {t} PROVE pc'[u] = pc[u] /\ ptr'[u] = ptr[u]
    BY DEF Lookup, LockInv, LockTypeOK
<1>5. ASSUME NEW u \in Tools, NEW j \in Paths
      PROVE  (Interested(u, j)' <=> Interested(u, j)) /\ (Holds(u, j)' <=> Holds(u, j))
  <2>1. CASE u = t
      BY <1>2, <1>3, <2>1 DEF Interested, Holds
  <2>2. CASE u # t
      BY <1>2, <1>4, <2>2, Bystander
  <2> QED
      BY <2>1, <2>2
<1>6. AllProper'
  <2>1. LastKey(t, k)' /\ m[k] # None
      BY <1>2, HolderInterested DEF LastKey, Greatest
  <2>2. Proper(t)'
      BY <1>2, <1>3, <2>1 DEF Proper
  <2> QED
      BY <1>2, <1>4, <2>2, Bystander DEF AllProper
<1>7. TokenOfHolder'
    BY <1>2, <1>5 DEF TokenOfHolder, LockInv
<1> QED
    BY <1>1, <1>2, <1>5, <1>6, <1>7, SameEntries DEF LockInv

\* The token received is the tool's own: nobody else holds the path.
LEMMA ReceiveKeeps ==
    ASSUME LockInv, NEW t \in Tools, Receive(t)
    PROVE  LockInv'
<1>1. LockTypeOK'
    BY LockTypeStep DEF LockInv, LockNext, LockStep
<1>2. UNCHANGED <<m, refs, held, want, ptr>> /\ pc[t] = "receive" /\ pc'[t] = "drop"
    BY DEF Receive, LockInv, LockTypeOK
<1>3. ASSUME NEW u \in Tools \ {t} PROVE pc'[u] = pc[u]
    BY DEF Receive, LockInv, LockTypeOK
<1>4. PICK k \in Paths : LastKey(t, k) /\ m[k] # None /\ ptr[t] = m[k]
    BY <1>2 DEF AllProper, Proper, LockInv
<1>5. ASSUME NEW u \in Tools, NEW j \in Paths
      PROVE  (Interested(u, j)' <=> Interested(u, j)) /\ (Holds(u, j)' => Holds(u, j))
  <2>1. CASE u = t
      BY <1>2, <2>1 DEF Interested, Holds
  <2>2. CASE u # t
      BY <1>2, <1>3, <2>2, Bystander
  <2> QED
      BY <2>1, <2>2
<1>6. AllProper'
  <2>1. LastKey(t, k)'
      BY <1>2, <1>4 DEF LastKey
  <2>2. Proper(t)'
      BY <1>2, <1>4, <2>1 DEF Proper
  <2> QED
      BY <1>2, <1>3, <2>2, Bystander DEF AllProper
<1>7. TokenOfHolder'
  <2> SUFFICES ASSUME NEW u \in Tools, NEW j \in Paths, Holds(u, j)'
               PROVE  ch'[m[j]] = u
      BY <1>2 DEF TokenOfHolder
  <2>1. ~(u = t /\ j = k)
      BY <1>2, <1>4 DEF Holds, LastKey
  <2>2. Holds(u, j) /\ Holds(t, k)
      BY <1>2, <1>4, <1>5 DEF Holds, LastKey, Greatest
  <2>3. ch[m[j]] = u /\ ch[m[k]] = t /\ m[j] # None
      BY <2>2, HolderInterested DEF TokenOfHolder, Holds, LockInv
  <2>4. m[j] # m[k]
      BY <2>1, <2>3 DEF DistinctObjects, LockInv
  <2>5. ch' = [ch EXCEPT ![m[k]] = None]
      BY <1>4 DEF Receive
  <2> QED
      BY <2>3, <2>4, <2>5, HolderInterested, <2>2 DEF LockInv, LockTypeOK, Holds
<1> QED
    BY <1>1, <1>2, <1>5, <1>6, <1>7, SameEntries DEF LockInv

LEMMA TakeKeeps ==
    ASSUME LockInv, NEW t \in Tools, NEW k \in Paths, Take(t, k)
    PROVE  LockInv'
<1>1. LockTypeOK'
    BY LockTypeStep DEF LockInv, LockNext, LockStep
<1>2. UNCHANGED <<m, refs, want>> /\ pc[t] = "wait" /\ NextKey(t, k)
    BY DEF Take
<1>3. pc'[t] = "lock" /\ held'[t] = held[t] \cup {k}
    BY DEF Take, LockInv, LockTypeOK
<1>4. ASSUME NEW u \in Tools \ {t} PROVE pc'[u] = pc[u] /\ ptr'[u] = ptr[u] /\ held'[u] = held[u]
    BY DEF Take, LockInv, LockTypeOK
<1>5. ptr[t] = m[k] /\ m[k] # None /\ ch[m[k]] = None
    BY <1>2, OneNextKey DEF Take, AllProper, Proper, LockInv
<1>6. ASSUME NEW u \in Tools, NEW j \in Paths
      PROVE  /\ Interested(u, j)' <=> Interested(u, j)
             /\ Holds(u, j)' => Holds(u, j) \/ (u = t /\ j = k)
  <2>1. CASE u = t
      BY <1>2, <1>3, <2>1, OneNextKey DEF Interested, Holds, LockInv
  <2>2. CASE u # t
      BY <1>2, <1>4, <2>2, Bystander
  <2> QED
      BY <2>1, <2>2
<1>7. AllProper'
  <2>1. held'[t] \subseteq want'[t]
      BY <1>2, <1>3 DEF AllProper, Proper, NextKey, Least, LockInv
  <2>2. Proper(t)'
      BY <1>3, <2>1 DEF Proper
  <2> QED
      BY <1>2, <1>4, <2>2, Bystander DEF AllProper
<1>8. TokenOfHolder'
  <2> SUFFICES ASSUME NEW u \in Tools, NEW j \in Paths, Holds(u, j)'
               PROVE  ch'[m[j]] = u
      BY <1>2 DEF TokenOfHolder
  <2>1. ch' = [ch EXCEPT ![m[k]] = t] /\ m[k] \in Locks
      BY <1>5 DEF Take, LockInv, LockTypeOK
  <2>2. CASE u = t /\ j = k
      BY <2>1, <2>2 DEF LockInv, LockTypeOK
  <2>3. CASE ~(u = t /\ j = k)
    <3>1. Holds(u, j)
        BY <1>6, <2>3
    <3>2. ch[m[j]] = u /\ m[j] \in Locks
        BY <3>1, HolderInterested DEF TokenOfHolder, Holds, LockInv
    <3>3. m[j] # m[k]
        BY <1>5, <3>2, LockAssumption
    <3> QED
        BY <2>1, <3>2, <3>3 DEF LockInv, LockTypeOK
  <2> QED
      BY <2>2, <2>3
<1> QED
    BY <1>1, <1>2, <1>6, <1>7, <1>8, SameEntries DEF LockInv

\* A new object serves a path nobody is interested in; a found one counts
\* one tool more.
LEMMA RefKeeps ==
    ASSUME LockInv, NEW t \in Tools, NEW k \in Paths, Ref(t, k)
    PROVE  LockInv'
<1>1. LockTypeOK'
    BY LockTypeStep DEF LockInv, LockNext, LockStep
<1>2. UNCHANGED <<ch, want, held>> /\ pc[t] = "lock" /\ NextKey(t, k)
    BY DEF Ref
<1>3. PICK l \in Locks : /\ IF m[k] # None THEN l = m[k] ELSE Fresh(l)
                         /\ m' = [m EXCEPT ![k] = l]
                         /\ refs' = [refs EXCEPT ![l] = @ \cup {t}]
                         /\ ptr' = [ptr EXCEPT ![t] = l]
    BY DEF Ref
<1>4. pc'[t] = "wait" /\ ptr'[t] = l /\ m'[k] = l /\ l # None
    BY <1>3, LockAssumption DEF Ref, LockInv, LockTypeOK
<1>5. ASSUME NEW u \in Tools \ {t} PROVE pc'[u] = pc[u] /\ ptr'[u] = ptr[u]
    BY <1>3 DEF Ref, LockInv, LockTypeOK
<1>6. \A j \in Paths \ {k} : m'[j] = m[j] /\ m[j] # l
    BY <1>3, LockAssumption DEF LockInv, LockTypeOK, DistinctObjects, Fresh
<1>7. m[k] # None => m'[k] = m[k]
    BY <1>3, <1>4
<1>8. ASSUME NEW u \in Tools, NEW j \in Paths, Interested(u, j) PROVE m'[j] = m[j]
    BY <1>6, <1>7, <1>8 DEF LockInv, EntryInUse
<1>9. ASSUME NEW u \in Tools, NEW j \in Paths
      PROVE  /\ Interested(u, j)' <=> Interested(u, j) \/ (u = t /\ j = k)
             /\ Holds(u, j)' <=> Holds(u, j)
  <2>1. CASE u = t
    <3>1. NextKey(t, j)' <=> NextKey(t, j)
        BY <1>2 DEF NextKey
    <3> QED
        BY <1>2, <1>4, <2>1, <3>1, OneNextKey DEF Interested, Holds, LockInv
  <2>2. CASE u # t
      BY <1>2, <1>5, <1>8, <2>2, Bystander
  <2> QED
      BY <2>1, <2>2
<1>10. AllProper'
  <2>1. NextKey(t, k)'
      BY <1>2 DEF NextKey
  <2>2. Proper(t)'
      BY <1>2, <1>4, <2>1 DEF Proper, AllProper, LockInv
  <2> QED
      BY <1>2, <1>5, <1>8, <2>2, Bystander DEF AllProper
<1>11. EntryInUse'
  <2> SUFFICES ASSUME NEW j \in Paths PROVE m'[j] # None <=> \E u \in Tools : Interested(u, j)'
      BY DEF EntryInUse
  <2>1. CASE j = k
      BY <1>4, <1>9, <2>1
  <2>2. CASE j # k
      BY <1>6, <1>9, <2>2 DEF EntryInUse, LockInv
  <2> QED
      BY <2>1, <2>2
<1>12. Counted'
  <2> SUFFICES ASSUME NEW j \in Paths, m'[j] # None PROVE refs'[m'[j]] = Users(j)'
      BY DEF Counted
  <2>1. CASE j = k
    <3>1. Users(k)' = Users(k) \cup {t}
        BY <1>9 DEF Users
    <3>2. refs[l] = Users(k)
      <4>1. CASE m[k] # None
          BY <1>3, <4>1 DEF LockInv, Counted
      <4>2. CASE m[k] = None
          BY <1>3, <4>2 DEF Fresh, LockInv, EntryInUse, Users
      <4> QED
          BY <4>1, <4>2
    <3> QED
        BY <1>3, <1>4, <2>1, <3>1, <3>2 DEF LockInv, LockTypeOK
  <2>2. CASE j # k
    <3>1. Users(j)' = Users(j)
        BY <1>9, <2>2 DEF Users
    <3>2. m'[j] = m[j] /\ m[j] # l /\ refs'[m[j]] = refs[m[j]]
        BY <1>3, <1>6, <2>2 DEF LockInv, LockTypeOK
    <3> QED
        BY <3>1, <3>2 DEF Counted, LockInv
  <2> QED
      BY <2>1, <2>2
<1>13. DistinctObjects'
    BY <1>4, <1>6 DEF DistinctObjects, LockInv
<1>14. TokenOfHolder'
    BY <1>2, <1>8, <1>9 DEF TokenOfHolder, LockInv, Holds, Interested
<1> QED
    BY <1>1, <1>10, <1>11, <1>12, <1>13, <1>14 DEF LockInv

\* The entry of a path goes with the last tool interested in it.
LEMMA DropRefEntries ==
    ASSUME LockInv, NEW t \in Tools, NEW k \in Paths, Interested(t, k), DropRef(t, k, m[k]),
           \A u \in Tools, j \in Paths :
               Interested(u, j)' <=> Interested(u, j) /\ ~(u = t /\ j = k)
    PROVE  /\ EntryInUse' /\ Counted' /\ DistinctObjects'
           /\ \A u \in Tools, j \in Paths : Interested(u, j)' => m'[j] = m[j]
<1>1. m[k] # None /\ m[k] \in Locks /\ refs[m[k]] = Users(k)
    BY DEF LockInv, EntryInUse, Counted, LockTypeOK
<1>2. refs'[m[k]] = Users(k) \ {t} /\ \A l \in Locks : l # m[k] => refs'[l] = refs[l]
    BY <1>1 DEF DropRef, LockInv, LockTypeOK
<1>3. \A j \in Paths \ {k} : m'[j] = m[j] /\ Users(j)' = Users(j)
    BY DEF DropRef, LockInv, LockTypeOK, Users
<1>4. Users(k)' = Users(k) \ {t}
    BY DEF Users
<1>5. m'[k] = IF Users(k)' = {} THEN None ELSE m[k]
    BY <1>1, <1>4 DEF DropRef, LockInv, LockTypeOK
<1>6. \A j \in Paths : m'[j] # None => m'[j] = m[j]
    BY <1>3, <1>5
<1>7. \A j \in Paths : m'[j] # None <=> Users(j)' # {}
  <2>1. \A j \in Paths : m[j] # None <=> Users(j) # {}
      BY DEF LockInv, EntryInUse, Users
  <2> QED
      BY <1>1, <1>3, <1>5, <2>1
<1>8. EntryInUse'
    BY <1>7 DEF EntryInUse, Users
<1>9. Counted'
  <2> SUFFICES ASSUME NEW j \in Paths, m'[j] # None PROVE refs'[m'[j]] = Users(j)'
      BY DEF Counted
  <2>1. CASE j = k
      BY <1>2, <1>4, <1>6, <2>1
  <2>2. CASE j # k
    <3>1. m'[j] = m[j] /\ m[j] \in Locks /\ m[j] # m[k]
        BY <1>6, <2>2 DEF LockInv, DistinctObjects, LockTypeOK
    <3> QED
        BY <1>2, <1>3, <2>2, <3>1 DEF LockInv, Counted
  <2> QED
      BY <2>1, <2>2
<1>10. DistinctObjects'
    BY <1>6 DEF DistinctObjects, LockInv
<1>11. \A u \in Tools, j \in Paths : Interested(u, j)' => m'[j] = m[j]
    BY <1>6, <1>8 DEF EntryInUse
<1> QED
    BY <1>8, <1>9, <1>10, <1>11

LEMMA CancelKeeps ==
    ASSUME LockInv, NEW t \in Tools, NEW k \in Paths, Cancel(t, k)
    PROVE  LockInv'
<1>1. LockTypeOK'
    BY LockTypeStep DEF LockInv, LockNext, LockStep
<1>2. UNCHANGED <<ch, held>> /\ pc[t] = "wait" /\ NextKey(t, k)
    BY DEF Cancel
<1>3. pc'[t] = "unlock"
    BY DEF Cancel, LockInv, LockTypeOK
<1>4. ASSUME NEW u \in Tools \ {t}
      PROVE  pc'[u] = pc[u] /\ ptr'[u] = ptr[u] /\ want'[u] = want[u] /\ held'[u] = held[u]
    BY DEF Cancel, LockInv, LockTypeOK
<1>5. ptr[t] = m[k] /\ Interested(t, k) /\ k \notin held[t]
    BY <1>2, OneNextKey DEF AllProper, Proper, LockInv, Interested, NextKey, Least
<1>6. ASSUME NEW u \in Tools, NEW j \in Paths
      PROVE  /\ Interested(u, j)' <=> Interested(u, j) /\ ~(u = t /\ j = k)
             /\ Holds(u, j)' <=> Holds(u, j)
  <2>1. CASE u = t
      BY <1>2, <1>3, <1>5, <2>1, OneNextKey DEF Interested, Holds, LockInv
  <2>2. CASE u # t
    <3>1. (NextKey(u, j)' <=> NextKey(u, j)) /\ (LastKey(u, j)' <=> LastKey(u, j))
        BY <1>4, <2>2 DEF NextKey, LastKey
    <3> QED
        BY <1>4, <2>2, <3>1 DEF Interested, Holds
  <2> QED
      BY <2>1, <2>2
<1>7. DropRef(t, k, m[k])
    BY <1>5 DEF Cancel
<1>8. /\ EntryInUse' /\ Counted' /\ DistinctObjects'
      /\ \A u \in Tools, j \in Paths : Interested(u, j)' => m'[j] = m[j]
    BY <1>5, <1>6, <1>7, DropRefEntries
<1>9. AllProper'
  <2>1. Proper(t)'
      BY <1>3 DEF Proper
  <2> QED
      BY <1>4, <1>6, <1>8, <2>1, Bystander DEF AllProper
<1>10. TokenOfHolder'
    BY <1>2, <1>6, <1>8 DEF TokenOfHolder, LockInv, Holds, Interested
<1> QED
    BY <1>1, <1>8, <1>9, <1>10 DEF LockInv

LEMMA DropKeeps ==
    ASSUME LockInv, NEW t \in Tools, NEW k \in Paths, Drop(t, k)
    PROVE  LockInv'
<1>1. LockTypeOK'
    BY LockTypeStep DEF LockInv, LockNext, LockStep
<1>2. UNCHANGED <<ch, want>> /\ pc[t] = "drop" /\ LastKey(t, k)
    BY DEF Drop
<1>3. pc'[t] = "unlock" /\ held'[t] = held[t] \ {k}
    BY DEF Drop, LockInv, LockTypeOK
<1>4. ASSUME NEW u \in Tools \ {t}
      PROVE  pc'[u] = pc[u] /\ ptr'[u] = ptr[u] /\ want'[u] = want[u] /\ held'[u] = held[u]
    BY DEF Drop, LockInv, LockTypeOK
<1>5. ptr[t] = m[k] /\ Interested(t, k)
    BY <1>2, OneLastKey DEF AllProper, Proper, LockInv, Interested, LastKey, Greatest
<1>6. ASSUME NEW u \in Tools, NEW j \in Paths
      PROVE  /\ Interested(u, j)' <=> Interested(u, j) /\ ~(u = t /\ j = k)
             /\ Holds(u, j)' <=> Holds(u, j)
  <2>1. CASE u = t
      BY <1>2, <1>3, <2>1, OneLastKey DEF Interested, Holds, LockInv
  <2>2. CASE u # t
    <3>1. (NextKey(u, j)' <=> NextKey(u, j)) /\ (LastKey(u, j)' <=> LastKey(u, j))
        BY <1>4, <2>2 DEF NextKey, LastKey
    <3> QED
        BY <1>4, <2>2, <3>1 DEF Interested, Holds
  <2> QED
      BY <2>1, <2>2
<1>7. DropRef(t, k, m[k])
    BY <1>5 DEF Drop
<1>8. /\ EntryInUse' /\ Counted' /\ DistinctObjects'
      /\ \A u \in Tools, j \in Paths : Interested(u, j)' => m'[j] = m[j]
    BY <1>5, <1>6, <1>7, DropRefEntries
<1>9. AllProper'
  <2>1. Proper(t)'
      BY <1>3 DEF Proper
  <2> QED
      BY <1>4, <1>6, <1>8, <2>1, Bystander DEF AllProper
<1>10. TokenOfHolder'
    BY <1>2, <1>6, <1>8 DEF TokenOfHolder, LockInv, Holds, Interested
<1> QED
    BY <1>1, <1>8, <1>9, <1>10 DEF LockInv

-----------------------------------------------------------------------------
LEMMA LockInvStep == LockInv /\ [LockNext]_lockVars => LockInv'
<1> SUFFICES ASSUME LockInv, [LockNext]_lockVars PROVE LockInv'
    OBVIOUS
<1>1. ASSUME NEW t \in Tools, NEW k \in Paths,
             Ref(t, k) \/ Take(t, k) \/ Cancel(t, k) \/ Lookup(t, k) \/ Drop(t, k)
      PROVE  LockInv'
    BY <1>1, RefKeeps, TakeKeeps, CancelKeeps, LookupKeeps, DropKeeps
<1>2. ASSUME NEW t \in Tools,
             \/ \E S \in SUBSET Paths : LockPaths(t, S)
             \/ Locked(t) \/ Unlocked(t) \/ Leave(t)
      PROVE  LockInv'
    BY <1>2, QuietKeeps
<1>3. ASSUME NEW t \in Tools, Receive(t) PROVE LockInv'
    BY <1>3, ReceiveKeeps
<1>4. CASE UNCHANGED lockVars
  <2>1. UNCHANGED <<m, refs, ch, pc, want, held, ptr>>
      BY <1>4 DEF lockVars
  <2>2. ASSUME NEW u \in Tools
        PROVE  /\ \A k \in Paths : Interested(u, k)' <=> Interested(u, k)
               /\ \A k \in Paths : Holds(u, k)' <=> Holds(u, k)
               /\ Proper(u)'
      BY <2>1, Bystander
  <2>3. EntryInUse' /\ Counted' /\ DistinctObjects'
      BY <2>1, <2>2, SameEntries
  <2>4. AllProper' /\ TokenOfHolder'
      BY <2>1, <2>2 DEF AllProper, TokenOfHolder, LockInv
  <2>5. LockTypeOK'
      BY LockTypeStep DEF LockInv
  <2> QED
      BY <2>3, <2>4, <2>5 DEF LockInv
<1> QED
    BY <1>1, <1>2, <1>3, <1>4 DEF LockNext, LockStep

LEMMA LockInvInit == LockInit => LockInv
BY LockAssumption DEF LockInit, LockInv, LockTypeOK, LockPC, AllProper, Proper, EntryInUse, Counted,
       DistinctObjects, TokenOfHolder, Interested, Holds

THEOREM LockInvHolds == LockSpec => []LockInv
BY LockInvInit, LockInvStep, PTL DEF LockSpec

(* Two tool calls never hold one path, however many there are, whichever of  *)
(* them are cancelled while they wait, and although lock objects come and go *)
(* (pathLocks.acquire, release and drop).                                    *)
THEOREM MutualExclusionHolds == LockSpec => []MutualExclusion
<1>1. LockInv => MutualExclusion
    BY DEF LockInv, MutualExclusion, TokenOfHolder
<1> QED
    BY <1>1, LockInvHolds, PTL

(* The map has an entry for a path exactly while a tool holds it or waits    *)
(* for it, so it neither grows nor loses a lock somebody still uses.         *)
THEOREM EntryInUseHolds == LockSpec => []EntryInUse
<1>1. LockInv => EntryInUse
    BY DEF LockInv
<1> QED
    BY <1>1, LockInvHolds, PTL
(* The locks are sound: exclusive, and kept exactly while in use             *)
(* (pathlock.go:45-72).                                                      *)
THEOREM LocksStaySound == LockSpec => []LocksSound
BY MutualExclusionHolds, EntryInUseHolds, PTL DEF LocksSound

-----------------------------------------------------------------------------
(* The file tools. *)

\* A plan is a sequence of changes, each of one of its paths.
LEMMA PlanFacts ==
    ASSUME NEW plan \in Plans
    PROVE  /\ plan \in Seq([path : Paths, op : {"write", "create", "delete"}])
           /\ Len(plan) \in Nat \ {0} /\ DOMAIN plan = 1..Len(plan)
           /\ \A i \in 1..Len(plan) : /\ plan[i] \in [path : Paths, op : {"write", "create", "delete"}]
                                      /\ plan[i].path \in PathsOf(plan)
                                      /\ plan[i] \in Range(plan)
           /\ PathsOf(plan) \subseteq Paths
           /\ \A f \in PathsOf(plan) : \E i \in 1..Len(plan) : plan[i].path = f
<1>1. plan \in Seq([path : Paths, op : {"write", "create", "delete"}]) /\ plan # <<>>
    BY PlanAssumption
<1>2. Len(plan) \in Nat \ {0} /\ DOMAIN plan = 1..Len(plan)
    BY <1>1, EmptySeq, LenProperties
<1>3. \A i \in 1..Len(plan) : plan[i] \in [path : Paths, op : {"write", "create", "delete"}]
    BY <1>1, ElementOfSeq
<1> QED
    BY <1>1, <1>2, <1>3 DEF PathsOf, Range

\* No plan, no paths.
LEMMA NoPaths == PathsOf(<<>>) = {}
BY DEF PathsOf, Range

\* A call's step is a step of the locks.
LEMMA ToolIsLockStep ==
    ASSUME NEW t \in Tools,
           \/ \E plan \in Plans : Call(t, plan)
           \/ Locking(t) \/ Taking(t) \/ Cancelled(t) \/ ToolStep(t)
    PROVE  [LockNext]_lockVars
<1>1. ASSUME NEW plan \in Plans, Call(t, plan) PROVE LockNext
    BY <1>1, PlanFacts DEF Call, LockNext
<1>2. CASE Locking(t)
    BY <1>2 DEF Locking, LockNext, LockStep
<1>3. CASE Taking(t)
    BY <1>3 DEF Taking, LockNext, LockStep
<1>4. CASE Cancelled(t)
    BY <1>4 DEF Cancelled, LockNext, LockStep
<1>5. CASE Finish(t) \/ Return(t)
    BY <1>5 DEF Finish, Return, LockNext, LockStep
<1>6. CASE \/ PlanChanges(t) \/ Approved(t) \/ CheckUnchanged(t) \/ Snapshot(t)
           \/ Change(t) \/ ChangeFails(t) \/ Note(t) \/ Rollback(t)
    BY <1>6 DEF PlanChanges, Approved, CheckUnchanged, Snapshot, Change, ChangeFails, Note, Rollback
<1> QED
    BY <1>1, <1>2, <1>3, <1>4, <1>5, <1>6 DEF ToolStep

(* The tools implement the locks: a call takes and gives back its paths only *)
(* by lockPaths and its unlock (file_edit.go, file_ops.go, patch.go).        *)
THEOREM ToolsUseLocks == Spec => LockSpec
<1>1. Init => LockInit
    BY DEF Init
<1>2. [Next]_vars => [LockNext]_lockVars
  <2>1. CASE Next
    <3>1. CASE \E f \in EditFiles : UserEdits(f)
        BY <3>1 DEF UserEdits
    <3>2. CASE BeginTurn \/ \E force \in BOOLEAN : UndoChecks(force)
        BY <3>2 DEF BeginTurn, UndoChecks
    <3>3. CASE \E failed \in SUBSET Files : UndoRestores(failed)
        BY <3>3 DEF UndoRestores
    <3> QED
        BY <2>1, <3>1, <3>2, <3>3, ToolIsLockStep DEF Next
  <2>2. CASE UNCHANGED vars
      BY <2>2 DEF vars
  <2> QED
      BY <2>1, <2>2
<1> QED
    BY <1>1, <1>2, PTL DEF Spec, LockSpec

(* No two tool calls ever hold one file, whatever they plan to do with it.   *)
THEOREM ToolsExclude == Spec => []MutualExclusion
BY ToolsUseLocks, MutualExclusionHolds

(* The lock map of a running workspace holds the files in use and no more.   *)
THEOREM ToolEntriesInUse == Spec => []EntryInUse
BY ToolsUseLocks, EntryInUseHolds

(* The locks of the running file tools are sound, whatever the calls plan.   *)
THEOREM ToolsLockSoundly == Spec => []LocksSound
BY ToolsUseLocks, LocksStaySound

-----------------------------------------------------------------------------
(* The tool calls.  A call keeps the locks of all its paths from its read to *)
(* its end, so that a file it has not changed yet is what it read, unless    *)
(* somebody who takes no lock edited it.                                     *)

Seen == UNION {[S -> Content] : S \in SUBSET Files}
TaskRecord == [plan : Plans \cup {<<>>}, phase : Phases, seen : Seen, at : Nat, added : BOOLEAN,
               others : SUBSET Files, ok : BOOLEAN, stuck : BOOLEAN]
UndoRecord == [on : BOOLEAN, edited : SUBSET Files,
               left : SUBSET [file : Files, id : Nat, held : BOOLEAN]]

Running == {"approve", "check", "snap", "change", "note", "rollback"}
Changing == {"snap", "change", "note", "rollback"}

\* What the phase of a call says of what it read and where it is in its plan.
TaskShape(t) ==
    LET k == task[t] IN
    /\ DOMAIN k.seen \subseteq PathsOf(k.plan)
    /\ k.phase = "plan" => k.plan \in Plans /\ DOMAIN k.seen = {} /\ k.at = 0
    /\ k.phase \in Running =>
          /\ k.plan \in Plans /\ DOMAIN k.seen = PathsOf(k.plan)
          /\ \A i \in DOMAIN k.plan :
                k.seen[k.plan[i].path] = Absent <=> k.plan[i].op = "create"
    /\ k.phase \in {"approve", "check"} => k.at = 0
    /\ k.phase \in Changing => k.at \in 1..Len(k.plan)
    /\ k.phase \in {"plan", "approve", "check", "snap", "change", "note"} => k.ok
    /\ k.phase = "rollback" => ~k.ok
    /\ k.stuck => ~k.ok
    /\ k.phase = "done" => IF k.ok THEN \A i \in DOMAIN k.plan : i < k.at ELSE k.at = 0

\* A call in its body holds exactly the files of its plan.
LockLink(t) ==
    /\ pc[t] \in {"lock", "wait"} => task[t].phase = "plan"
    /\ pc[t] \in {"lock", "wait", "critical"} => want[t] = PathsOf(task[t].plan)
    /\ pc[t] = "critical" => held[t] = want[t]

\* Change i of the plan is made and not put back.
Made(t, i) == i < task[t].at \/ (i = task[t].at /\ task[t].phase \in {"note", "rollback"})

FilesKept(t) ==
    pc[t] = "critical" /\ ~task[t].stuck =>
        \A f \in DOMAIN task[t].seen \ task[t].others :
            (\A i \in DOMAIN task[t].plan : task[t].plan[i].path = f => ~Made(t, i)) =>
                content[f] = task[t].seen[f]

TaskInv(t) == task[t] \in TaskRecord /\ TaskShape(t) /\ LockLink(t) /\ FilesKept(t)

FileInv ==
    /\ LockInv
    /\ content \in [Files -> Content]
    /\ StoreInv(cp, undo.left)
    /\ undo \in UndoRecord /\ (undo.on => Undoable(cp) # {})
    /\ DOMAIN task = Tools /\ task = [t \in Tools |-> task[t]]
    /\ \A t \in Tools : TaskInv(t)

-----------------------------------------------------------------------------
(* Two calls, and a call and a step of another. *)

\* Two calls in their bodies have no file in common.
LEMMA FilesApart ==
    ASSUME FileInv, NEW t \in Tools, NEW u \in Tools, t # u,
           pc[t] = "critical", pc[u] = "critical",
           NEW f \in PathsOf(task[t].plan), f \in PathsOf(task[u].plan)
    PROVE  FALSE
<1>1. f \in held[t] /\ f \in held[u]
    BY DEF FileInv, TaskInv, LockLink
<1>2. Holds(t, f) /\ Holds(u, f) /\ f \in Paths
    BY <1>1 DEF Holds, FileInv, LockInv, LockTypeOK
<1>3. MutualExclusion
    BY DEF FileInv, LockInv, MutualExclusion, TokenOfHolder
<1> QED
    BY <1>2, <1>3 DEF MutualExclusion

\* A call that a step leaves alone, its files included.
LEMMA LeftAlone ==
    ASSUME FileInv, NEW u \in Tools, task'[u] = task[u], pc'[u] = pc[u], want'[u] = want[u],
           held'[u] = held[u],
           pc[u] = "critical" => \A f \in DOMAIN task[u].seen : content'[f] = content[f]
    PROVE  TaskInv(u)'
<1>1. TaskInv(u)
    BY DEF FileInv
<1>2. \A i : Made(u, i)' <=> Made(u, i)
    BY DEF Made
<1>3. FilesKept(u)'
    BY <1>1, <1>2 DEF TaskInv, FilesKept
<1>4. TaskShape(u)' /\ LockLink(u)'
    BY <1>1 DEF TaskInv, TaskShape, LockLink
<1> QED
    BY <1>1, <1>3, <1>4 DEF TaskInv

\* A step of t on the locks leaves the other calls' places alone.
LEMMA LockStepLocal ==
    ASSUME LockTypeOK, NEW t \in Tools, NEW u \in Tools, u # t,
           \/ \E plan \in Plans : Call(t, plan)
           \/ Locking(t) \/ Taking(t) \/ Cancelled(t) \/ ToolStep(t)
    PROVE  pc'[u] = pc[u] /\ want'[u] = want[u] /\ held'[u] = held[u]
<1>1. CASE \E plan \in Plans : Call(t, plan)
    BY <1>1 DEF Call, LockPaths, LockTypeOK
<1>2. CASE Locking(t)
    BY <1>2 DEF Locking, Locked, Receive, Ref, Lookup, Drop, LockTypeOK
<1>3. CASE Taking(t)
    BY <1>3 DEF Taking, Take, LockTypeOK
<1>4. CASE Cancelled(t)
    BY <1>4 DEF Cancelled, Cancel, LockTypeOK
<1>5. CASE Finish(t) \/ Return(t)
    BY <1>5 DEF Finish, Return, Leave, Unlocked, LockTypeOK
<1>6. CASE \/ PlanChanges(t) \/ Approved(t) \/ CheckUnchanged(t) \/ Snapshot(t)
           \/ Change(t) \/ ChangeFails(t) \/ Note(t) \/ Rollback(t)
    BY <1>6 DEF PlanChanges, Approved, CheckUnchanged, Snapshot, Change, ChangeFails, Note, Rollback,
                lockVars
<1> QED
    BY <1>1, <1>2, <1>3, <1>4, <1>5, <1>6 DEF ToolStep

\* A call's step keeps FileInv when it keeps what FileInv says of that call
\* and of the store, and changes no file but those it holds.
LEMMA OneCall ==
    ASSUME FileInv, NEW t \in Tools,
           \/ \E plan \in Plans : Call(t, plan)
           \/ Locking(t) \/ Taking(t) \/ Cancelled(t) \/ ToolStep(t),
           UNCHANGED undo, undo.on => cp' = cp, StoreInv(cp', undo.left),
           content' \in [Files -> Content],
           \A f \in Files : content'[f] # content[f] =>
               pc[t] = "critical" /\ f \in PathsOf(task[t].plan),
           NEW k, task' = [task EXCEPT ![t] = k],
           TaskInv(t)'
    PROVE  FileInv'
<1>1. LockInv'
    BY ToolIsLockStep, LockInvStep DEF FileInv
<1>2. /\ DOMAIN task' = Tools /\ task' = [u \in Tools |-> task'[u]]
      /\ \A u \in Tools : u # t => task'[u] = task[u]
    BY DEF FileInv
<1>3. undo' \in UndoRecord /\ (undo'.on => Undoable(cp') # {}) /\ StoreInv(cp', undo'.left)
    BY DEF FileInv
<1>4. ASSUME NEW u \in Tools, u # t PROVE TaskInv(u)'
  <2>1. pc'[u] = pc[u] /\ want'[u] = want[u] /\ held'[u] = held[u]
      BY <1>4, LockStepLocal DEF FileInv, LockInv
  <2>2. TaskInv(u)
      BY DEF FileInv
  <2>3. ASSUME NEW f \in DOMAIN task[u].seen, pc[u] = "critical" PROVE content'[f] = content[f]
    <3>1. f \in PathsOf(task[u].plan) /\ f \in Files
        BY <2>2 DEF TaskInv, TaskShape, TaskRecord, Seen
    <3> QED
        BY <1>4, <2>3, <3>1, FilesApart
  <2> QED
      BY <1>2, <1>4, <2>1, <2>3, LeftAlone
<1> QED
    BY <1>1, <1>2, <1>3, <1>4 DEF FileInv

\* What FileInv says of one call.
LEMMA TaskFields ==
    ASSUME FileInv, NEW t \in Tools
    PROVE  /\ task[t] \in TaskRecord /\ DOMAIN task[t].seen \subseteq Files
           /\ task[t].plan \in Plans \cup {<<>>} /\ task[t].phase \in Phases
           /\ task[t].seen \in Seen /\ task[t].at \in Nat /\ task[t].others \in SUBSET Files
           /\ TaskShape(t) /\ LockLink(t) /\ FilesKept(t)
<1>1. task[t] \in TaskRecord /\ TaskShape(t) /\ LockLink(t) /\ FilesKept(t)
    BY DEF FileInv, TaskInv
<1>2. /\ task[t].plan \in Plans \cup {<<>>} /\ task[t].phase \in Phases
      /\ task[t].seen \in Seen /\ task[t].at \in Nat /\ task[t].others \in SUBSET Files
    BY <1>1 DEF TaskRecord
<1>3. DOMAIN task[t].seen \subseteq Files
    BY <1>2 DEF Seen
<1> QED
    BY <1>1, <1>2, <1>3

\* The record of a call that begins.
LEMMA NewTask ==
    ASSUME NEW plan \in Plans \cup {<<>>}, NEW p \in Phases
    PROVE  LET k == [NoTask EXCEPT !.plan = plan, !.phase = p] IN
           /\ k \in TaskRecord
           /\ k.plan = plan /\ k.phase = p /\ DOMAIN k.seen = {} /\ k.at = 0 /\ k.ok /\ ~k.stuck
<1>1. <<>> \in [{} -> Content] /\ DOMAIN <<>> = {}
    OBVIOUS
<1>2. <<>> \in Seen
    BY <1>1 DEF Seen
<1> QED
    BY <1>1, <1>2 DEF NoTask, TaskRecord, Phases

\* A call's new record.
LEMMA TaskFunction ==
    ASSUME FileInv, NEW t \in Tools, NEW k, task' = [task EXCEPT ![t] = k]
    PROVE  task'[t] = k
BY DEF FileInv

\* Each step keeps FileInv: a call begins, ...
LEMMA CallKeeps ==
    ASSUME FileInv, NEW t \in Tools, NEW plan \in Plans, Call(t, plan)
    PROVE  FileInv'
<1> DEFINE k == [NoTask EXCEPT !.plan = plan, !.phase = "plan"]
<1>1. task' = [task EXCEPT ![t] = k] /\ UNCHANGED <<content, cp, undo>>
    BY DEF Call
<1>2. /\ k \in TaskRecord
      /\ k.plan = plan /\ k.phase = "plan" /\ DOMAIN k.seen = {} /\ k.at = 0 /\ k.ok /\ ~k.stuck
    BY NewTask DEF Phases
<1> HIDE DEF k
<1>3. task'[t] = k
    BY <1>1, TaskFunction
<1>4. pc'[t] = "lock" /\ want'[t] = PathsOf(plan)
    BY DEF Call, LockPaths, FileInv, LockInv, LockTypeOK
<1>6. TaskInv(t)'
    BY <1>2, <1>3, <1>4 DEF TaskInv, TaskShape, LockLink, FilesKept, Running, Changing
<1>7. StoreInv(cp', undo.left) /\ content' \in [Files -> Content]
    BY <1>1 DEF FileInv
<1> QED
    BY <1>1, <1>6, <1>7, OneCall

\* Steps that only lock or unlock.
LEMMA LockingKeeps ==
    ASSUME FileInv, NEW t \in Tools, Locking(t) \/ Taking(t)
    PROVE  FileInv'
<1>1. UNCHANGED <<content, cp, task, undo>>
    BY DEF Locking, Taking, fileVars
<1>2. task' = [task EXCEPT ![t] = task[t]] /\ task'[t] = task[t]
    BY <1>1 DEF FileInv
<1>3. TaskShape(t) /\ LockLink(t) /\ FilesKept(t)
    BY TaskFields
<1>4. /\ pc[t] = "critical" => FALSE
      /\ want'[t] = want[t]
      /\ pc'[t] \in {"lock", "wait"} => pc[t] \in {"lock", "wait"}
      /\ pc'[t] = "critical" => pc[t] = "lock" /\ held'[t] = want[t]
  <2>1. CASE Locking(t)
      BY <2>1 DEF Locking, Locked, Receive, Ref, Lookup, Drop, FileInv, LockInv, LockTypeOK
  <2>2. CASE Taking(t)
      BY <2>2 DEF Taking, Take, FileInv, LockInv, LockTypeOK
  <2> QED
      BY <2>1, <2>2
<1>5. LockLink(t)'
    BY <1>1, <1>3, <1>4 DEF LockLink
<1>6. FilesKept(t)'
    BY <1>1, <1>3, <1>4 DEF FilesKept, LockLink, TaskShape
<1>7. TaskInv(t)'
    BY <1>1, <1>5, <1>6 DEF TaskInv, FileInv, TaskShape
<1>8. StoreInv(cp', undo.left) /\ content' \in [Files -> Content]
    BY <1>1 DEF FileInv
<1> QED
    BY <1>1, <1>2, <1>7, <1>8, OneCall

\* ... gives up waiting for a lock, ...
LEMMA CancelledKeeps ==
    ASSUME FileInv, NEW t \in Tools, Cancelled(t)
    PROVE  FileInv'
<1> DEFINE k == [task[t] EXCEPT !.phase = "done", !.ok = FALSE]
<1>1. task' = [task EXCEPT ![t] = k] /\ UNCHANGED <<content, cp, undo>>
    BY DEF Cancelled
<1>2. /\ k \in TaskRecord
      /\ k.plan = task[t].plan /\ k.phase = "done" /\ k.seen = task[t].seen
      /\ k.at = task[t].at /\ ~k.ok
    BY TaskFields DEF TaskRecord, Phases
<1> HIDE DEF k
<1>3. task'[t] = k
    BY <1>1, TaskFunction
<1>4. pc[t] = "wait" /\ pc'[t] = "unlock"
    BY DEF Cancelled, Cancel, FileInv, LockInv, LockTypeOK
<1>5. task[t].phase = "plan" /\ TaskShape(t)
    BY <1>4, TaskFields DEF LockLink
<1>7. TaskInv(t)'
    BY <1>2, <1>3, <1>4, <1>5
       DEF TaskInv, TaskShape, LockLink, FilesKept, Running, Changing
<1>8. StoreInv(cp', undo.left) /\ content' \in [Files -> Content]
    BY <1>1 DEF FileInv
<1> QED
    BY <1>1, <1>7, <1>8, OneCall

\* ... ends, ...
LEMMA FinishKeeps ==
    ASSUME FileInv, NEW t \in Tools, Finish(t) \/ Return(t)
    PROVE  FileInv'
<1>1. PICK p \in {"done", "returned"} :
          task' = [task EXCEPT ![t] = [NoTask EXCEPT !.phase = p]]
    BY DEF Finish, Return
<1>2. UNCHANGED <<content, cp, undo>>
    BY DEF Finish, Return
<1> DEFINE k == [NoTask EXCEPT !.phase = p]
<1>3. /\ k \in TaskRecord
      /\ k.plan = <<>> /\ k.phase = p /\ DOMAIN k.seen = {} /\ k.at = 0 /\ k.ok /\ ~k.stuck
  <2>1. <<>> \in [{} -> Content] /\ DOMAIN <<>> = {}
      OBVIOUS
  <2>2. <<>> \in Seen
      BY <2>1 DEF Seen
  <2> QED
      BY <2>1, <2>2 DEF NoTask, TaskRecord, Phases
<1> HIDE DEF k
<1>4. task'[t] = k /\ task' = [task EXCEPT ![t] = k]
    BY <1>1, TaskFunction DEF k
<1>5. pc'[t] \in {"unlock", "idle"}
    BY DEF Finish, Return, Leave, Unlocked, FileInv, LockInv, LockTypeOK
<1>7. TaskInv(t)'
    BY <1>3, <1>4, <1>5, NoPaths
       DEF TaskInv, TaskShape, LockLink, FilesKept, Running, Changing
<1>8. StoreInv(cp', undo.left) /\ content' \in [Files -> Content]
    BY <1>2 DEF FileInv
<1> QED
    BY <1>2, <1>4, <1>7, <1>8, OneCall DEF ToolStep

-----------------------------------------------------------------------------
(* The steps of a call in its body. *)

\* They leave the locks alone, and the call in its body.
LEMMA BodyStep ==
    ASSUME FileInv, NEW t \in Tools, UNCHANGED lockVars, pc[t] = "critical",
           NEW k \in TaskRecord, task' = [task EXCEPT ![t] = k],
           k.plan = task[t].plan
    PROVE  /\ task'[t] = k /\ pc'[t] = "critical"
           /\ LockLink(t)'
<1>1. task'[t] = k
    BY TaskFunction
<1>2. pc' = pc /\ want' = want /\ held' = held
    BY DEF lockVars
<1>3. LockLink(t)
    BY TaskFields
<1> QED
    BY <1>1, <1>2, <1>3 DEF LockLink

\* ... reads its files, ...
LEMMA ReadKeeps ==
    ASSUME FileInv, NEW t \in Tools, PlanChanges(t)
    PROVE  FileInv'
<1>1. /\ pc[t] = "critical" /\ task[t].phase = "plan"
      /\ UNCHANGED <<lockVars, content, cp, undo>>
    BY DEF PlanChanges, InPhase
<1>2. task[t].plan \in Plans /\ DOMAIN task[t].seen = {} /\ task[t].at = 0 /\ task[t].ok
      /\ ~task[t].stuck
    BY <1>1, TaskFields DEF TaskShape
<1>3. StoreInv(cp', undo.left) /\ content' \in [Files -> Content] /\ content \in [Files -> Content]
    BY <1>1 DEF FileInv
<1>4. CASE End(t)
  <2> DEFINE k == [task[t] EXCEPT !.phase = "done", !.ok = FALSE]
  <2>1. task' = [task EXCEPT ![t] = k]
      BY <1>4 DEF End
  <2>2. /\ k \in TaskRecord
        /\ k.plan = task[t].plan /\ k.phase = "done" /\ k.seen = task[t].seen
        /\ k.at = task[t].at /\ ~k.ok
      BY TaskFields DEF TaskRecord, Phases
  <2> HIDE DEF k
  <2>3. task'[t] = k /\ LockLink(t)'
      BY <1>1, <2>1, <2>2, BodyStep
  <2>4. TaskInv(t)'
      BY <1>2, <2>2, <2>3 DEF TaskInv, TaskShape, FilesKept, Running, Changing
  <2> QED
      BY <1>1, <1>3, <2>1, <2>4, OneCall DEF ToolStep
<1>5. CASE ~End(t)
  <2> DEFINE seen == [f \in PathsOf(task[t].plan) |-> content[f]]
             k == [task[t] EXCEPT !.phase = "approve", !.seen = seen]
  <2>1. /\ task' = [task EXCEPT ![t] = k]
        /\ \A c \in Range(task[t].plan) : content[c.path] = Absent <=> c.op = "create"
      BY <1>5 DEF PlanChanges
  <2>2. seen \in Seen
    <3>1. PathsOf(task[t].plan) \in SUBSET Files
        BY <1>2, PlanFacts, PlanAssumption
    <3>2. seen \in [PathsOf(task[t].plan) -> Content]
        BY <1>3, <3>1
    <3> QED
        BY <3>1, <3>2 DEF Seen
  <2>3. /\ k \in TaskRecord
        /\ k.plan = task[t].plan /\ k.phase = "approve" /\ k.seen = seen
        /\ k.at = 0 /\ k.ok /\ ~k.stuck
    <3> HIDE DEF seen
    <3> QED
        BY <1>2, <2>2, TaskFields DEF TaskRecord, Phases
  <2> HIDE DEF k
  <2>4. task'[t] = k /\ LockLink(t)'
      BY <1>1, <2>1, <2>3, BodyStep
  <2>5. TaskShape(t)'
    <3>1. \A i \in DOMAIN k.plan : k.seen[k.plan[i].path] = Absent <=> k.plan[i].op = "create"
        BY <1>2, <2>1, <2>3, PlanFacts
    <3> QED
        BY <1>2, <2>3, <2>4, <3>1 DEF TaskShape, Running, Changing
  <2>6. FilesKept(t)'
      BY <1>1, <2>3, <2>4 DEF FilesKept
  <2>7. TaskInv(t)'
      BY <2>3, <2>4, <2>5, <2>6 DEF TaskInv
  <2> QED
      BY <1>1, <1>3, <2>1, <2>7, OneCall DEF ToolStep
<1> QED
    BY <1>4, <1>5

\* ... was asked about and looks again, ...
LEMMA AskedKeeps ==
    ASSUME FileInv, NEW t \in Tools, Approved(t) \/ CheckUnchanged(t)
    PROVE  FileInv'
<1>1. /\ pc[t] = "critical" /\ task[t].phase \in {"approve", "check"}
      /\ UNCHANGED <<lockVars, content, cp, undo>>
    BY DEF Approved, CheckUnchanged, InPhase
<1>2. /\ task[t].plan \in Plans /\ DOMAIN task[t].seen = PathsOf(task[t].plan) /\ task[t].at = 0
      /\ task[t].ok /\ ~task[t].stuck /\ TaskShape(t) /\ FilesKept(t)
    BY <1>1, TaskFields DEF TaskShape, Running
<1>3. StoreInv(cp', undo.left) /\ content' \in [Files -> Content] /\ content \in [Files -> Content]
    BY <1>1 DEF FileInv
<1>4. \A i \in DOMAIN task[t].plan : i \in Nat \ {0}
    BY <1>2, PlanFacts
\* Nothing is made yet: every file is what was read, unless others edited it.
<1>5. \A f \in DOMAIN task[t].seen \ task[t].others : content[f] = task[t].seen[f]
    BY <1>1, <1>2, <1>4 DEF FilesKept, Made
<1>6. CASE End(t)
  <2> DEFINE k == [task[t] EXCEPT !.phase = "done", !.ok = FALSE]
  <2>1. task' = [task EXCEPT ![t] = k]
      BY <1>6 DEF End
  <2>2. /\ k \in TaskRecord
        /\ k.plan = task[t].plan /\ k.phase = "done" /\ k.seen = task[t].seen
        /\ k.at = task[t].at /\ ~k.ok /\ k.others = task[t].others
      BY TaskFields DEF TaskRecord, Phases
  <2> HIDE DEF k
  <2>3. task'[t] = k /\ LockLink(t)'
      BY <1>1, <2>1, <2>2, BodyStep
  <2>4. TaskShape(t)'
      BY <1>2, <2>2, <2>3 DEF TaskShape, Running, Changing
  <2>5. FilesKept(t)'
      BY <1>1, <1>5, <2>2, <2>3 DEF FilesKept
  <2>6. TaskInv(t)'
      BY <2>2, <2>3, <2>4, <2>5 DEF TaskInv
  <2> QED
      BY <1>1, <1>3, <2>1, <2>6, OneCall DEF ToolStep
<1>7. CASE Approved(t) /\ Enter(t, "check")
  <2> DEFINE k == [task[t] EXCEPT !.phase = "check"]
  <2>1. task' = [task EXCEPT ![t] = k]
      BY <1>7 DEF Enter
  <2>2. /\ k \in TaskRecord
        /\ k.plan = task[t].plan /\ k.phase = "check" /\ k.seen = task[t].seen
        /\ k.at = task[t].at /\ k.ok /\ ~k.stuck /\ k.others = task[t].others
      BY <1>2, TaskFields DEF TaskRecord, Phases
  <2> HIDE DEF k
  <2>3. task'[t] = k /\ LockLink(t)'
      BY <1>1, <2>1, <2>2, BodyStep
  <2>4. TaskShape(t)'
      BY <1>1, <1>2, <2>2, <2>3 DEF TaskShape, Running, Changing
  <2>5. FilesKept(t)'
      BY <1>1, <1>5, <2>2, <2>3 DEF FilesKept
  <2>6. TaskInv(t)'
      BY <2>2, <2>3, <2>4, <2>5 DEF TaskInv
  <2> QED
      BY <1>1, <1>3, <2>1, <2>6, OneCall DEF ToolStep
<1>8. CASE CheckUnchanged(t) /\ ~End(t)
  <2> DEFINE k == [task[t] EXCEPT !.phase = "snap", !.at = 1, !.others = Edited(t)]
  <2>1. task' = [task EXCEPT ![t] = k]
      BY <1>8 DEF CheckUnchanged
  <2>2. Edited(t) \in SUBSET Files
      BY TaskFields DEF Edited
  <2>3. /\ k \in TaskRecord
        /\ k.plan = task[t].plan /\ k.phase = "snap" /\ k.seen = task[t].seen
        /\ k.at = 1 /\ k.ok /\ ~k.stuck /\ k.others = Edited(t)
    <3>1. task[t] \in TaskRecord
        BY TaskFields
    <3> QED
        BY <1>2, <2>2, <3>1 DEF TaskRecord, Phases
  <2> HIDE DEF k
  <2>4. task'[t] = k /\ LockLink(t)'
      BY <1>1, <2>1, <2>3, BodyStep
  <2>5. TaskShape(t)'
    <3>1. 1 \in 1..Len(k.plan)
        BY <1>2, <2>3, PlanFacts
    <3> QED
        BY <1>1, <1>2, <2>3, <2>4, <3>1 DEF TaskShape, Running, Changing
  <2>6. FilesKept(t)'
      BY <1>1, <1>5, <2>3, <2>4 DEF FilesKept, Edited
  <2>7. TaskInv(t)'
      BY <2>3, <2>4, <2>5, <2>6 DEF TaskInv
  <2> QED
      BY <1>1, <1>3, <2>1, <2>7, OneCall DEF ToolStep
<1> QED
    BY <1>6, <1>7, <1>8 DEF Approved

\* A call that changes files: the change it is at.
LEMMA AtChange ==
    ASSUME FileInv, NEW t \in Tools, task[t].phase \in Changing
    PROVE  /\ task[t].plan \in Plans /\ DOMAIN task[t].seen = PathsOf(task[t].plan)
           /\ task[t].at \in 1..Len(task[t].plan) /\ Len(task[t].plan) \in Nat
           /\ DOMAIN task[t].plan = 1..Len(task[t].plan)
           /\ Now(t).path \in Files /\ Now(t).path \in DOMAIN task[t].seen
           /\ task[t].seen[Now(t).path] \in Content
           /\ task[t].seen[Now(t).path] = Absent <=> Now(t).op = "create"
           /\ Now(t).op \in {"write", "create", "delete"}
           /\ TaskShape(t) /\ FilesKept(t)
<1>1. TaskShape(t) /\ FilesKept(t) /\ task[t].seen \in Seen
    BY TaskFields
<1>2. /\ task[t].plan \in Plans /\ DOMAIN task[t].seen = PathsOf(task[t].plan)
      /\ task[t].at \in 1..Len(task[t].plan)
      /\ \A i \in DOMAIN task[t].plan :
            task[t].seen[task[t].plan[i].path] = Absent <=> task[t].plan[i].op = "create"
    BY <1>1 DEF TaskShape, Running, Changing
<1>3. /\ Now(t) \in [path : Paths, op : {"write", "create", "delete"}]
      /\ Now(t).path \in PathsOf(task[t].plan)
      /\ Len(task[t].plan) \in Nat /\ DOMAIN task[t].plan = 1..Len(task[t].plan)
    BY <1>2, PlanFacts DEF Now
<1>4. \A f \in DOMAIN task[t].seen : task[t].seen[f] \in Content
    BY <1>1 DEF Seen
<1> QED
    BY <1>1, <1>2, <1>3, <1>4, PlanAssumption DEF Now

\* ... keeps a snapshot, ...
LEMMA SnapshotKeeps ==
    ASSUME FileInv, NEW t \in Tools, Snapshot(t)
    PROVE  FileInv'
<1>1. /\ pc[t] = "critical" /\ task[t].phase = "snap" /\ ~undo.on
      /\ UNCHANGED <<lockVars, content, undo>>
    BY DEF Snapshot, InPhase, StoreFree
<1> DEFINE f == Now(t).path
           a == ~InLast(cp, f)
           k == [task[t] EXCEPT !.phase = "change", !.added = a]
<1>2. task' = [task EXCEPT ![t] = k] /\ cp' = Before(cp, f, content[f])
    BY DEF Snapshot
<1>3. /\ task[t].at \in 1..Len(task[t].plan) /\ f \in Files /\ TaskShape(t) /\ FilesKept(t)
      /\ task[t].plan \in Plans
    BY <1>1, AtChange DEF Changing
<1>4. StoreInv(cp', undo.left) /\ content' \in [Files -> Content]
    BY <1>1, <1>2, <1>3, BeforeKeeps DEF FileInv
<1>5. /\ k \in TaskRecord
      /\ k.plan = task[t].plan /\ k.phase = "change" /\ k.seen = task[t].seen
      /\ k.at = task[t].at /\ k.ok = task[t].ok /\ k.stuck = task[t].stuck
      /\ k.others = task[t].others
  <2>1. a \in BOOLEAN
      BY DEF InLast
  <2> HIDE DEF a
  <2> QED
      BY <2>1, TaskFields DEF TaskRecord, Phases
<1> HIDE DEF k
<1>6. task'[t] = k /\ LockLink(t)'
    BY <1>1, <1>2, <1>5, BodyStep
<1>7. TaskShape(t)'
    BY <1>1, <1>3, <1>5, <1>6 DEF TaskShape, Running, Changing
<1>8. \A i : Made(t, i)' <=> Made(t, i)
    BY <1>1, <1>5, <1>6 DEF Made
<1>9. FilesKept(t)'
    BY <1>1, <1>3, <1>5, <1>6, <1>8 DEF FilesKept
<1>10. TaskInv(t)'
    BY <1>5, <1>6, <1>7, <1>9 DEF TaskInv
<1> QED
    BY <1>1, <1>2, <1>4, <1>10, OneCall DEF ToolStep

\* What a change writes is a content.
LEMMA NewContentTyped ==
    ASSUME FileInv, NEW t \in Tools, task[t].phase \in Changing
    PROVE  NewContent(t) \in Content
<1>1. /\ task[t].seen[Now(t).path] \in Content
      /\ task[t].seen[Now(t).path] = Absent <=> Now(t).op = "create"
      /\ Now(t).op \in {"write", "create", "delete"} /\ t \in Authors
    BY AtChange, AuthorAssumption
<1>2. CASE Now(t).op = "write"
  <2>1. task[t].seen[Now(t).path] \in SUBSET Authors
      BY <1>1, <1>2 DEF Content
  <2>2. NewContent(t) = task[t].seen[Now(t).path] \cup {t}
      BY <1>2 DEF NewContent
  <2> QED
      BY <1>1, <2>1, <2>2 DEF Content
<1>3. CASE Now(t).op = "create"
    BY <1>1, <1>3 DEF NewContent, Content
<1>4. CASE Now(t).op = "delete"
    BY <1>4 DEF NewContent, Content
<1> QED
    BY <1>1, <1>2, <1>3, <1>4

\* ... changes a file, ...
LEMMA ChangeKeeps ==
    ASSUME FileInv, NEW t \in Tools, Change(t)
    PROVE  FileInv'
<1>1. /\ pc[t] = "critical" /\ task[t].phase = "change"
      /\ UNCHANGED <<lockVars, cp, undo>>
    BY DEF Change, InPhase
<1> DEFINE f == Now(t).path
           k == [task[t] EXCEPT !.phase = "note"]
<1>2. task' = [task EXCEPT ![t] = k] /\ content' = [content EXCEPT ![f] = NewContent(t)]
    BY DEF Change, Enter
<1>3. /\ task[t].at \in 1..Len(task[t].plan) /\ f \in Files /\ TaskShape(t) /\ FilesKept(t)
      /\ task[t].plan \in Plans /\ f \in PathsOf(task[t].plan)
      /\ DOMAIN task[t].plan = 1..Len(task[t].plan)
    BY <1>1, AtChange DEF Changing
<1>4. StoreInv(cp', undo.left) /\ content' \in [Files -> Content]
    BY <1>1, <1>2, NewContentTyped DEF FileInv, Changing
<1>5. /\ k \in TaskRecord
      /\ k.plan = task[t].plan /\ k.phase = "note" /\ k.seen = task[t].seen
      /\ k.at = task[t].at /\ k.ok = task[t].ok /\ k.stuck = task[t].stuck
      /\ k.others = task[t].others
    BY TaskFields DEF TaskRecord, Phases
<1> HIDE DEF k
<1>6. task'[t] = k /\ LockLink(t)'
    BY <1>1, <1>2, <1>5, BodyStep
<1>7. TaskShape(t)'
    BY <1>1, <1>3, <1>5, <1>6 DEF TaskShape, Running, Changing
<1>8. /\ Made(t, task[t].at)' /\ task[t].plan[task[t].at].path = f
      /\ \A i : Made(t, i) => Made(t, i)'
    BY <1>1, <1>3, <1>5, <1>6 DEF Made, Now
<1>9. FilesKept(t)'
  <2>0. \A i : Made(t, i)' <=> i < task[t].at \/ i = task[t].at
      BY <1>5, <1>6 DEF Made
  <2> SUFFICES ASSUME ~task[t].stuck, NEW g \in DOMAIN task[t].seen \ task[t].others,
                      \A i \in DOMAIN task[t].plan :
                          task[t].plan[i].path = g => ~(i < task[t].at \/ i = task[t].at)
               PROVE  content'[g] = task[t].seen[g]
      BY <1>5, <1>6, <2>0 DEF FilesKept
  <2>1. g # f
      BY <1>3, <1>8
  <2>2. content[g] = task[t].seen[g]
      BY <1>1, <1>3, <1>8, <2>0 DEF FilesKept
  <2>3. g \in Files
      BY TaskFields
  <2> QED
      BY <1>2, <2>1, <2>2, <2>3 DEF FileInv
<1>10. TaskInv(t)'
    BY <1>5, <1>6, <1>7, <1>9 DEF TaskInv
<1>11. \A g \in Files : content'[g] # content[g] => g = f
    BY <1>2 DEF FileInv
<1> QED
    BY <1>1, <1>2, <1>3, <1>4, <1>10, <1>11, OneCall DEF ToolStep

\* ... fails to, ...
LEMMA ChangeFailsKeeps ==
    ASSUME FileInv, NEW t \in Tools, ChangeFails(t)
    PROVE  FileInv'
<1>1. /\ pc[t] = "critical" /\ task[t].phase = "change"
      /\ UNCHANGED <<lockVars, content, undo>>
    BY DEF ChangeFails, InPhase
<1> DEFINE f == Now(t).path
           p == IF task[t].at = 1 THEN "done" ELSE "rollback"
           k == [task[t] EXCEPT !.phase = p, !.at = task[t].at - 1, !.ok = FALSE]
<1>2. /\ task' = [task EXCEPT ![t] = k]
      /\ cp' = cp \/ (~undo.on /\ cp' = Discard(cp, f))
    BY DEF ChangeFails, StoreFree
<1>3. /\ task[t].at \in 1..Len(task[t].plan) /\ f \in Files /\ TaskShape(t) /\ FilesKept(t)
      /\ task[t].plan \in Plans /\ Len(task[t].plan) \in Nat
      /\ DOMAIN task[t].plan = 1..Len(task[t].plan)
    BY <1>1, AtChange DEF Changing
<1>4. StoreInv(cp', undo.left) /\ content' \in [Files -> Content]
    BY <1>1, <1>2, <1>3, DiscardKeeps DEF FileInv
<1>5. /\ k \in TaskRecord
      /\ k.plan = task[t].plan /\ k.phase = p /\ k.seen = task[t].seen
      /\ k.at = task[t].at - 1 /\ ~k.ok /\ k.stuck = task[t].stuck
      /\ k.others = task[t].others
  <2>1. task[t].at - 1 \in Nat /\ p \in Phases
      BY <1>3 DEF Phases
  <2> HIDE DEF p
  <2> QED
      BY <2>1, TaskFields DEF TaskRecord
<1> HIDE DEF k
<1>6. task'[t] = k /\ LockLink(t)'
    BY <1>1, <1>2, <1>5, BodyStep
<1>7. TaskShape(t)'
  <2>1. p = "rollback" => k.at \in 1..Len(k.plan)
      BY <1>3, <1>5
  <2>2. p = "done" => k.at = 0
      BY <1>3, <1>5
  <2> QED
      BY <1>1, <1>3, <1>5, <1>6, <2>1, <2>2 DEF TaskShape, Running, Changing
<1>8. \A i \in DOMAIN task[t].plan : Made(t, i)' <=> Made(t, i)
  <2> SUFFICES ASSUME NEW i \in 1..Len(task[t].plan) PROVE Made(t, i)' <=> Made(t, i)
      BY <1>3
  <2>1. Made(t, i) <=> i < task[t].at
      BY <1>1 DEF Made
  <2>2. Made(t, i)' <=> i < task[t].at - 1 \/ (i = task[t].at - 1 /\ p = "rollback")
      BY <1>5, <1>6 DEF Made
  <2> QED
      BY <1>3, <2>1, <2>2
<1>9. FilesKept(t)'
    BY <1>1, <1>3, <1>5, <1>6, <1>8 DEF FilesKept
<1>10. TaskInv(t)'
    BY <1>5, <1>6, <1>7, <1>9 DEF TaskInv
<1> QED
    BY <1>1, <1>2, <1>4, <1>10, OneCall DEF ToolStep

\* ... notes what it wrote, ...
LEMMA NoteKeeps ==
    ASSUME FileInv, NEW t \in Tools, Note(t)
    PROVE  FileInv'
<1>1. /\ pc[t] = "critical" /\ task[t].phase = "note" /\ ~undo.on
      /\ UNCHANGED <<lockVars, content, undo>>
    BY DEF Note, InPhase, StoreFree
<1> DEFINE f == Now(t).path
           last == task[t].at = Len(task[t].plan)
           p == IF last THEN "done" ELSE "snap"
           k == [task[t] EXCEPT !.phase = p, !.at = task[t].at + 1]
<1>2. /\ task' = [task EXCEPT ![t] = k]
      /\ cp' = After(cp, f, NewContent(t))
    BY DEF Note
<1>3. /\ task[t].at \in 1..Len(task[t].plan) /\ f \in Files /\ TaskShape(t) /\ FilesKept(t)
      /\ task[t].plan \in Plans /\ Len(task[t].plan) \in Nat
      /\ DOMAIN task[t].plan = 1..Len(task[t].plan)
    BY <1>1, AtChange DEF Changing
<1>4. StoreInv(cp', undo.left) /\ content' \in [Files -> Content]
    BY <1>1, <1>2, <1>3, AfterKeeps, NewContentTyped DEF FileInv, Changing
<1>5. /\ k \in TaskRecord
      /\ k.plan = task[t].plan /\ k.phase = p /\ k.seen = task[t].seen
      /\ k.at = task[t].at + 1 /\ k.ok = task[t].ok /\ k.stuck = task[t].stuck
      /\ k.others = task[t].others
  <2>1. task[t].at + 1 \in Nat /\ p \in Phases
      BY <1>3 DEF Phases
  <2> HIDE DEF p
  <2> QED
      BY <2>1, TaskFields DEF TaskRecord
<1> HIDE DEF k
<1>6. task'[t] = k /\ LockLink(t)'
    BY <1>1, <1>2, <1>5, BodyStep
<1>7. TaskShape(t)'
  <2>1. p = "snap" => k.at \in 1..Len(k.plan)
      BY <1>3, <1>5
  <2>2. p = "done" => \A i \in DOMAIN k.plan : i < k.at
      BY <1>3, <1>5
  <2>3. p \in {"done", "snap"}
      OBVIOUS
  <2>4. k.ok /\ ~k.stuck
      BY <1>1, <1>3, <1>5 DEF TaskShape
  <2>5. /\ k.plan \in Plans /\ DOMAIN k.seen = PathsOf(k.plan)
        /\ \A i \in DOMAIN k.plan : k.seen[k.plan[i].path] = Absent <=> k.plan[i].op = "create"
      BY <1>1, <1>3, <1>5 DEF TaskShape, Running
  <2> HIDE DEF p
  <2> QED
      BY <1>5, <1>6, <2>1, <2>2, <2>3, <2>4, <2>5 DEF TaskShape, Running, Changing
<1>8. \A i \in DOMAIN task[t].plan : Made(t, i)' <=> Made(t, i)
  <2> SUFFICES ASSUME NEW i \in 1..Len(task[t].plan) PROVE Made(t, i)' <=> Made(t, i)
      BY <1>3
  <2>1. Made(t, i) <=> i < task[t].at \/ i = task[t].at
      BY <1>1 DEF Made
  <2>2. Made(t, i)' <=> i < task[t].at + 1
      BY <1>5, <1>6 DEF Made
  <2> QED
      BY <1>3, <2>1, <2>2
<1>9. FilesKept(t)'
    BY <1>1, <1>3, <1>5, <1>6, <1>8 DEF FilesKept
<1>10. TaskInv(t)'
    BY <1>5, <1>6, <1>7, <1>9 DEF TaskInv
<1> QED
    BY <1>1, <1>2, <1>4, <1>10, OneCall DEF ToolStep

\* A change put back, or stuck.
LEMMA RollbackKeeps ==
    ASSUME FileInv, NEW t \in Tools, Rollback(t)
    PROVE  FileInv'
<1>1. /\ pc[t] = "critical" /\ task[t].phase = "rollback" /\ ~undo.on
      /\ UNCHANGED <<lockVars, undo>>
    BY DEF Rollback, InPhase, StoreFree
<1> DEFINE f == Now(t).path
           old == task[t].seen[f]
           p == IF task[t].at = 1 THEN "done" ELSE "rollback"
<1>3. /\ task[t].at \in 1..Len(task[t].plan) /\ f \in Files /\ TaskShape(t) /\ FilesKept(t)
      /\ task[t].plan \in Plans /\ Len(task[t].plan) \in Nat /\ old \in Content
      /\ DOMAIN task[t].plan = 1..Len(task[t].plan) /\ f \in PathsOf(task[t].plan)
    BY <1>1, AtChange DEF Changing
<1>4. /\ task[t].at - 1 \in Nat /\ p \in Phases /\ p \in {"done", "rollback"}
      /\ p = "rollback" => task[t].at - 1 \in 1..Len(task[t].plan)
      /\ p = "done" => task[t].at - 1 = 0
    BY <1>3 DEF Phases
<1>5. StoreInv(cp, undo.left) /\ content \in [Files -> Content] /\ content[f] \in Content
    BY <1>3 DEF FileInv
<1>6. ~task[t].ok
    BY <1>1, <1>3 DEF TaskShape
<1>7. CASE /\ content' = [content EXCEPT ![f] = old]
           /\ cp' = After(Before(cp, f, content[f]), f, old)
           /\ task' = [task EXCEPT ![t].at = @ - 1, ![t].phase = p]
  <2> DEFINE k == [task[t] EXCEPT !.at = task[t].at - 1, !.phase = p]
  <2>1. task' = [task EXCEPT ![t] = k]
      BY <1>7
  <2>2. StoreInv(cp', undo.left) /\ content' \in [Files -> Content]
    <3>1. StoreInv(Before(cp, f, content[f]), undo.left)
        BY <1>3, <1>5, BeforeKeeps
    <3> QED
        BY <1>3, <1>5, <1>7, <3>1, AfterKeeps
  <2>3. /\ k \in TaskRecord
        /\ k.plan = task[t].plan /\ k.phase = p /\ k.seen = task[t].seen
        /\ k.at = task[t].at - 1 /\ ~k.ok /\ k.stuck = task[t].stuck
        /\ k.others = task[t].others
    <3> HIDE DEF p
    <3> QED
        BY <1>4, <1>6, TaskFields DEF TaskRecord
  <2> HIDE DEF k
  <2>4. task'[t] = k /\ LockLink(t)'
      BY <1>1, <2>1, <2>3, BodyStep
  <2>5. TaskShape(t)'
    <3> HIDE DEF p
    <3> QED
        BY <1>1, <1>3, <1>4, <2>3, <2>4 DEF TaskShape, Running, Changing
  \* What is made stays made, but for the change put back.
  <2>6. \A i \in DOMAIN task[t].plan : Made(t, i) => Made(t, i)' \/ i = task[t].at
    <3> SUFFICES ASSUME NEW i \in 1..Len(task[t].plan), i # task[t].at, Made(t, i)
                 PROVE  Made(t, i)'
        BY <1>3
    <3>1. i < task[t].at
        BY DEF Made
    <3>2. i < task[t].at - 1 \/ (i = task[t].at - 1 /\ p = "rollback")
        BY <1>3, <3>1
    <3> HIDE DEF p
    <3> QED
        BY <2>3, <2>4, <3>2 DEF Made
  <2>7. FilesKept(t)'
    <3> SUFFICES ASSUME ~task[t].stuck, NEW g \in DOMAIN task[t].seen \ task[t].others,
                        \A i \in DOMAIN task[t].plan :
                            task[t].plan[i].path = g => ~Made(t, i)'
                 PROVE  content'[g] = task[t].seen[g]
        BY <2>3, <2>4 DEF FilesKept
    <3>1. CASE g = f
        BY <1>3, <1>5, <1>7, <3>1
    <3>2. CASE g # f
      <4>1. task[t].plan[task[t].at].path # g
          BY <3>2 DEF Now
      <4>2. content[g] = task[t].seen[g]
          BY <1>1, <1>3, <2>6, <4>1 DEF FilesKept
      <4>3. g \in Files
          BY TaskFields
      <4> QED
          BY <1>5, <1>7, <3>2, <4>2, <4>3
    <3> QED
        BY <3>1, <3>2
  <2>8. TaskInv(t)'
      BY <2>3, <2>4, <2>5, <2>7 DEF TaskInv
  <2>9. \A g \in Files : content'[g] # content[g] => g = f
      BY <1>5, <1>7
  <2> QED
      BY <1>1, <1>3, <2>1, <2>2, <2>8, <2>9, OneCall DEF ToolStep
<1>8. CASE /\ cp' = IF InLast(cp, f) THEN cp ELSE Discard(Before(cp, f, content[f]), f)
           /\ task' = [task EXCEPT ![t].at = @ - 1, ![t].phase = p, ![t].stuck = TRUE]
           /\ UNCHANGED content
  <2> DEFINE k == [task[t] EXCEPT !.at = task[t].at - 1, !.phase = p, !.stuck = TRUE]
  <2>1. task' = [task EXCEPT ![t] = k]
      BY <1>8
  <2>2. StoreInv(cp', undo.left) /\ content' \in [Files -> Content]
    <3>1. StoreInv(Before(cp, f, content[f]), undo.left)
        BY <1>3, <1>5, BeforeKeeps
    <3>2. StoreInv(Discard(Before(cp, f, content[f]), f), undo.left)
        BY <1>3, <3>1, DiscardKeeps
    <3> QED
        BY <1>5, <1>8, <3>2
  <2>3. /\ k \in TaskRecord
        /\ k.plan = task[t].plan /\ k.phase = p /\ k.seen = task[t].seen
        /\ k.at = task[t].at - 1 /\ ~k.ok /\ k.stuck
    <3> HIDE DEF p
    <3> QED
        BY <1>4, <1>6, TaskFields DEF TaskRecord
  <2> HIDE DEF k
  <2>4. task'[t] = k /\ LockLink(t)'
      BY <1>1, <2>1, <2>3, BodyStep
  <2>5. TaskShape(t)'
    <3> HIDE DEF p
    <3> QED
        BY <1>1, <1>3, <1>4, <2>3, <2>4 DEF TaskShape, Running, Changing
  <2>6. TaskInv(t)'
      BY <2>3, <2>4, <2>5 DEF TaskInv, FilesKept
  <2> QED
      BY <1>1, <1>8, <2>1, <2>2, <2>6, OneCall DEF ToolStep
<1> QED
    BY <1>7, <1>8 DEF Rollback

-----------------------------------------------------------------------------
(* Those who take no lock: the user, and Undo. *)

\* Calls only learn that a file changed under them.
LEMMA OthersKeep ==
    ASSUME FileInv, NEW F \in SUBSET Files, task' = Others(F), UNCHANGED lockVars,
           \A f \in Files : content'[f] # content[f] => f \in F
    PROVE  /\ DOMAIN task' = Tools /\ task' = [u \in Tools |-> task'[u]]
           /\ \A u \in Tools : TaskInv(u)'
<1>1. DOMAIN task' = Tools /\ task' = [u \in Tools |-> task'[u]]
    BY DEF Others
<1>2. ASSUME NEW u \in Tools PROVE TaskInv(u)'
  <2> DEFINE o == task[u].others \cup (F \cap DOMAIN task[u].seen)
             k == [task[u] EXCEPT !.others = o]
  <2>1. task'[u] = k
      BY DEF Others
  <2>2. o \in SUBSET Files
      BY TaskFields
  <2>3. /\ k \in TaskRecord
        /\ k.plan = task[u].plan /\ k.phase = task[u].phase /\ k.seen = task[u].seen
        /\ k.at = task[u].at /\ k.ok = task[u].ok /\ k.stuck = task[u].stuck
        /\ k.others = o
    <3>1. task[u] \in TaskRecord
        BY TaskFields
    <3> HIDE DEF o
    <3> QED
        BY <2>2, <3>1 DEF TaskRecord
  <2> HIDE DEF k
  <2>4. TaskShape(u) /\ LockLink(u) /\ FilesKept(u) /\ DOMAIN task[u].seen \subseteq Files
      BY TaskFields
  <2>5. pc'[u] = pc[u] /\ want'[u] = want[u] /\ held'[u] = held[u]
      BY DEF lockVars
  <2>6. TaskShape(u)'
      BY <2>1, <2>3, <2>4 DEF TaskShape
  <2>7. LockLink(u)'
      BY <2>1, <2>3, <2>4, <2>5 DEF LockLink
  <2>8. FilesKept(u)'
    <3> SUFFICES ASSUME pc[u] = "critical", ~task[u].stuck,
                        NEW g \in DOMAIN task[u].seen \ o,
                        \A i \in DOMAIN task[u].plan :
                            task[u].plan[i].path = g => ~Made(u, i)'
                 PROVE  content'[g] = task[u].seen[g]
        BY <2>1, <2>3, <2>5 DEF FilesKept
    <3>1. content'[g] = content[g]
        BY <2>4
    <3>2. \A i \in DOMAIN task[u].plan : task[u].plan[i].path = g => ~Made(u, i)
        BY <2>1, <2>3 DEF Made
    <3> QED
        BY <2>4, <3>1, <3>2 DEF FilesKept
  <2> QED
      BY <2>1, <2>3, <2>6, <2>7, <2>8 DEF TaskInv
<1> QED
    BY <1>1, <1>2

\* A file edited outside the tools.
LEMMA UserKeeps ==
    ASSUME FileInv, NEW f \in EditFiles, UserEdits(f)
    PROVE  FileInv'
<1>1. /\ task' = Others({f}) /\ UNCHANGED <<lockVars, cp, undo>> /\ f \in Files
      /\ content' = [content EXCEPT
                        ![f] = {User} \cup (IF content[f] = Absent THEN {} ELSE content[f])]
    BY AuthorAssumption DEF UserEdits
<1>2. content \in [Files -> Content] /\ content[f] \in Content
    BY <1>1 DEF FileInv
<1>3. {User} \cup (IF content[f] = Absent THEN {} ELSE content[f]) \in Content
  <2>1. CASE content[f] = Absent
      BY <2>1, AuthorAssumption DEF Content
  <2>2. CASE content[f] # Absent
    <3>1. content[f] \in SUBSET Authors
        BY <1>2, <2>2 DEF Content
    <3>2. {User} \cup content[f] \in SUBSET Authors
        BY <3>1, AuthorAssumption
    <3> QED
        BY <2>2, <3>2 DEF Content
  <2> QED
      BY <2>1, <2>2
<1>4. content' \in [Files -> Content]
    BY <1>1, <1>2, <1>3
<1>5. \A g \in Files : content'[g] # content[g] => g \in {f}
    BY <1>1, <1>2
<1>6. DOMAIN task' = Tools /\ task' = [u \in Tools |-> task'[u]] /\ \A u \in Tools : TaskInv(u)'
    BY <1>1, <1>5, OthersKeep
<1>7. LockInv'
    BY <1>1, LockInvStep DEF FileInv
<1> QED
    BY <1>1, <1>4, <1>6, <1>7 DEF FileInv

\* The turn that Undo puts back.
LEMMA TurnUndone ==
    ASSUME FileInv, undo.on
    PROVE  LET t == cp.turns[UndoTurn(cp)] IN
           /\ Undoable(cp) # {} /\ t \in Turn /\ Changed(t) \subseteq Files
           /\ \A f \in Changed(t) : t.changes[f].before \in Content
<1>1. Undoable(cp) # {} /\ cp \in Store
    BY DEF FileInv, StoreInv, StoreSound
<1>2. UndoTurn(cp) \in 1..Len(cp.turns)
  <2>1. UndoTurn(cp) \in Undoable(cp) /\ cp.turns \in Seq(Turn)
      BY <1>1, UndoTurnIsLast DEF Store
  <2> QED
      BY <2>1, LenProperties DEF Undoable
<1> QED
    BY <1>1, <1>2, TurnTyped

\* Undo's restores.
LEMMA UndoKeeps ==
    ASSUME FileInv, NEW failed \in SUBSET Files, UndoRestores(failed)
    PROVE  FileInv'
<1> DEFINE t == cp.turns[UndoTurn(cp)]
           L == undo.left \cup LeftOf(t, failed)
<1>1. /\ undo.on /\ failed \subseteq Changed(t) /\ content' = Restored(cp, content, failed)
      /\ cp' = Undone(cp, failed) /\ task' = Others(Changed(t) \ failed)
      /\ undo' = [NoUndo EXCEPT !.left = L]
      /\ UNCHANGED lockVars
    BY DEF UndoRestores, LeftOf
<1>2. /\ Undoable(cp) # {} /\ t \in Turn /\ Changed(t) \subseteq Files
      /\ \A f \in Changed(t) : t.changes[f].before \in Content
    BY <1>1, TurnUndone
<1>3. StoreInv(cp', L)
    BY <1>1, <1>2, UndoneKeeps DEF FileInv
<1>4. t.id \in Nat
    BY <1>2 DEF Turn
<1>5. L \in SUBSET [file : Files, id : Nat, held : BOOLEAN]
  <2>1. LeftOf(t, failed) \subseteq [file : Files, id : Nat, held : BOOLEAN]
      BY <1>1, <1>2, <1>4, LeftTyped
  <2> QED
      BY <2>1 DEF FileInv, UndoRecord
<1> HIDE DEF L
<1>6. undo' \in UndoRecord /\ undo'.left = L /\ ~undo'.on
    BY <1>1, <1>5 DEF NoUndo, UndoRecord
<1>7. content \in [Files -> Content]
    BY DEF FileInv
<1>8. /\ content' \in [Files -> Content]
      /\ \A g \in Files : content'[g] # content[g] => g \in Changed(t) \ failed
    BY <1>1, <1>2, <1>7 DEF Restored
<1>9. DOMAIN task' = Tools /\ task' = [u \in Tools |-> task'[u]] /\ \A u \in Tools : TaskInv(u)'
    BY <1>1, <1>2, <1>8, OthersKeep
<1>10. LockInv'
    BY <1>1, LockInvStep DEF FileInv
<1> QED
    BY <1>3, <1>6, <1>8, <1>9, <1>10 DEF FileInv

\* Steps of the store and of the flag alone.
LEMMA RestKeeps ==
    ASSUME FileInv, UNCHANGED <<lockVars, content, task>>,
           StoreInv(cp', undo'.left), undo' \in UndoRecord, undo'.on => Undoable(cp') # {}
    PROVE  FileInv'
<1>1. LockInv'
    BY LockInvStep DEF FileInv
<1>2. \A u \in Tools : TaskInv(u)'
  <2> SUFFICES ASSUME NEW u \in Tools PROVE TaskInv(u)'
      OBVIOUS
  <2>1. task'[u] = task[u] /\ pc'[u] = pc[u] /\ want'[u] = want[u] /\ held'[u] = held[u]
        /\ \A f \in DOMAIN task[u].seen : content'[f] = content[f]
      BY DEF lockVars
  <2> QED
      BY <2>1, LeftAlone
<1> QED
    BY <1>1, <1>2 DEF FileInv

\* A new turn of the store.
LEMMA BeginTurnKeeps ==
    ASSUME FileInv, BeginTurn
    PROVE  FileInv'
<1>1. ~undo.on /\ cp' = Begin(cp) /\ UNCHANGED <<lockVars, content, task, undo>>
    BY DEF BeginTurn, StoreFree
<1>2. StoreInv(cp', undo.left)
    BY <1>1, BeginKeeps DEF FileInv
<1> QED
    BY <1>1, <1>2, RestKeeps DEF FileInv

\* Undo's check.
LEMMA CheckKeeps ==
    ASSUME FileInv, NEW force \in BOOLEAN, UndoChecks(force)
    PROVE  FileInv'
<1> DEFINE e == IF force THEN {} ELSE {f \in Files : HasEdit(content[f])}
<1>1. Undoable(cp) # {} /\ undo' = [undo EXCEPT !.on = TRUE, !.edited = e]
      /\ UNCHANGED <<lockVars, content, cp, task>>
    BY DEF UndoChecks
<1>2. e \in SUBSET Files
    OBVIOUS
<1> HIDE DEF e
<1>3. undo' \in UndoRecord /\ undo'.left = undo.left
    BY <1>1, <1>2 DEF FileInv, UndoRecord
<1> QED
    BY <1>1, <1>3, RestKeeps DEF FileInv

-----------------------------------------------------------------------------
(* FileInv holds at first, and every step keeps it. *)
LEMMA FileInvInit == Init => FileInv
<1> SUFFICES ASSUME Init PROVE FileInv
    OBVIOUS
<1>1. LockInv
    BY LockInvInit DEF Init
<1>2. content \in [Files -> Content]
    BY DEF Init, Content
<1>3. undo = NoUndo /\ StoreInv(cp, undo.left)
    BY EmptyStoreInv DEF Init, NoUndo
<1>4. undo \in UndoRecord /\ ~undo.on
    BY <1>3 DEF NoUndo, UndoRecord
<1>5. DOMAIN task = Tools /\ task = [t \in Tools |-> task[t]] /\ \A t \in Tools : task[t] = NoTask
    BY DEF Init
<1>6. <<>> \in Seen /\ DOMAIN <<>> = {}
  <2>1. <<>> \in [{} -> Content] /\ DOMAIN <<>> = {}
      OBVIOUS
  <2> QED
      BY <2>1 DEF Seen
<1>7. /\ NoTask \in TaskRecord /\ NoTask.phase = "idle" /\ DOMAIN NoTask.seen = {} /\ ~NoTask.stuck
    BY <1>6 DEF NoTask, TaskRecord, Phases
<1>8. \A t \in Tools : pc[t] = "idle"
    BY DEF Init, LockInit
<1>9. \A t \in Tools : TaskInv(t)
    BY <1>5, <1>7, <1>8 DEF TaskInv, TaskShape, LockLink, FilesKept, Running, Changing
<1> QED
    BY <1>1, <1>2, <1>3, <1>4, <1>5, <1>9 DEF FileInv

\* Every step keeps FileInv.
LEMMA FileInvStep == FileInv /\ [Next]_vars => FileInv'
<1> SUFFICES ASSUME FileInv, [Next]_vars PROVE FileInv'
    OBVIOUS
<1>1. ASSUME NEW t \in Tools, NEW plan \in Plans, Call(t, plan) PROVE FileInv'
    BY <1>1, CallKeeps
<1>2. ASSUME NEW t \in Tools, Locking(t) \/ Taking(t) \/ Cancelled(t) PROVE FileInv'
    BY <1>2, LockingKeeps, CancelledKeeps
<1>3. ASSUME NEW t \in Tools, ToolStep(t) PROVE FileInv'
    BY <1>3, ReadKeeps, AskedKeeps, SnapshotKeeps, ChangeKeeps, ChangeFailsKeeps, NoteKeeps,
       RollbackKeeps, FinishKeeps DEF ToolStep
<1>4. ASSUME NEW f \in EditFiles, UserEdits(f) PROVE FileInv'
    BY <1>4, UserKeeps
<1>5. CASE BeginTurn
    BY <1>5, BeginTurnKeeps
<1>6. ASSUME NEW force \in BOOLEAN, UndoChecks(force) PROVE FileInv'
    BY <1>6, CheckKeeps
<1>7. ASSUME NEW failed \in SUBSET Files, UndoRestores(failed) PROVE FileInv'
    BY <1>7, UndoKeeps
<1>8. CASE UNCHANGED vars
  <2>1. UNCHANGED <<lockVars, content, task>> /\ UNCHANGED <<cp, undo>>
      BY <1>8 DEF vars, fileVars
  <2> QED
      BY <2>1, RestKeeps DEF FileInv
<1> QED
    BY <1>1, <1>2, <1>3, <1>4, <1>5, <1>6, <1>7, <1>8 DEF Next

\* FileInv holds.
LEMMA FileInvHolds == Spec => []FileInv
<1>1. FileInv /\ [Next]_vars => FileInv'
    BY FileInvStep
<1> QED
    BY <1>1, FileInvInit, PTL DEF Spec

(* The types of the running tools: each call's progress, the files and the   *)
(* undo store, whose budget never goes below zero and whose originals are    *)
(* turns it has given an id (checkpoint.go:14-40).                           *)
THEOREM FilesTyped == Spec => []TypeOK
<1>1. FileInv => TypeOK
  <2> SUFFICES ASSUME FileInv PROVE TypeOK
      OBVIOUS
  <2>1. LockTypeOK /\ content \in [Files -> Content] /\ (undo.on => Undoable(cp) # {})
      BY DEF FileInv, LockInv
  <2>2. IsStore(cp)
      BY StoreTypes DEF FileInv
  <2>3. \A t \in Tools : task[t].phase \in Phases /\ task[t].others \subseteq Files
      BY TaskFields
  <2> QED
      BY <2>1, <2>2, <2>3 DEF TypeOK
<1> QED
    BY <1>1, FileInvHolds, PTL

(* Two tool calls never lose one another's edit of a file, nor an edit made  *)
(* while the user was asked: what a call is about to write is what it read,  *)
(* whatever the calls plan and however many run (pathLocks, file_ops.go, and *)
(* unchanged, patch.go).                                                     *)
THEOREM UpdatesKept == Spec => []NoLostUpdate
<1>1. FileInv => NoLostUpdate
  <2> SUFFICES ASSUME FileInv, NEW t \in Tools, pc[t] = "critical", task[t].ok,
                      NEW f \in DOMAIN task[t].seen, Untouched(t, f), f \notin task[t].others
               PROVE  content[f] = task[t].seen[f]
      BY DEF NoLostUpdate
  <2>1. ~task[t].stuck /\ FilesKept(t) /\ task[t].at \in Nat
      BY TaskFields DEF TaskShape
  <2>2. \A i \in DOMAIN task[t].plan : i \in Nat
    <3>1. task[t].plan \in Plans \cup {<<>>}
        BY TaskFields
    <3>2. CASE task[t].plan \in Plans
        BY <3>2, PlanFacts
    <3>3. CASE task[t].plan = <<>>
        BY <3>3
    <3> QED
        BY <3>1, <3>2, <3>3
  <2>3. \A i \in DOMAIN task[t].plan : task[t].plan[i].path = f => ~Made(t, i)
      BY <2>1, <2>2 DEF Untouched, Made
  <2> QED
      BY <2>1, <2>3 DEF FilesKept
<1> QED
    BY <1>1, FileInvHolds, PTL

(* A patch of any length is all or nothing: when a change fails and every    *)
(* earlier one can be put back, each file of the patch is what it was, but   *)
(* for edits made outside the tools (patch.go:438-440).                      *)
THEOREM PatchesWhole == Spec => []AllOrNothing
<1>1. FileInv => AllOrNothing
  <2> SUFFICES ASSUME FileInv, NEW t \in Tools, pc[t] = "critical", task[t].phase = "done",
                      ~task[t].ok, ~task[t].stuck,
                      NEW f \in DOMAIN task[t].seen \ task[t].others
               PROVE  content[f] = task[t].seen[f]
      BY DEF AllOrNothing
  <2>1. task[t].at = 0 /\ FilesKept(t) /\ task[t].plan \in Plans \cup {<<>>}
      BY TaskFields DEF TaskShape
  <2>2. \A i \in DOMAIN task[t].plan : i \in Nat \ {0}
    <3>1. CASE task[t].plan \in Plans
        BY <3>1, PlanFacts
    <3>2. CASE task[t].plan = <<>>
        BY <3>2
    <3> QED
        BY <2>1, <3>1, <3>2
  <2>3. \A i \in DOMAIN task[t].plan : ~Made(t, i)
      BY <2>1, <2>2 DEF Made
  <2> QED
      BY <2>1, <2>3 DEF FilesKept
<1> QED
    BY <1>1, FileInvHolds, PTL

(* The undo store's budget is exact and the session diff's originals exist,  *)
(* for any number of turns and files and any limit, whatever was discarded,  *)
(* trimmed, undone or failed to be undone (checkpoint.go:106-277).           *)
THEOREM SnapshotsCounted == Spec => []SnapshotsAccounted
<1>1. FileInv => SnapshotsAccounted
  <2> SUFFICES ASSUME FileInv PROVE SnapshotsAccounted
      OBVIOUS
  <2>1. StoreInv(cp, undo.left)
      BY DEF FileInv
  <2>2. BudgetExact
      BY <2>1, StoreTypes DEF BudgetExact
  <2>3. cp \in Store /\ OriginalsFound(cp, undo.left)
      BY <2>1 DEF StoreInv, StoreSound
  <2>4. DOMAIN cp.turns = 1..Len(cp.turns)
      BY <2>3, LenProperties DEF Store
  <2>5. OriginalsKept
      BY <2>3, <2>4 DEF OriginalsFound, OriginalFound, OriginalsKept
  <2> QED
      BY <2>2, <2>5 DEF SnapshotsAccounted
<1> QED
    BY <1>1, FileInvHolds, PTL

-------------------------------------------------------------------------------
\* A search for a text in the files of the workspace (Searches).

\* A file whose channel is out has its result, or is being scanned, or its
\* worker is about to start.
Settled ==
    {f \in DOMAIN hits : f \in scanning \/ result[f] # Unscanned \/ (producer.pc = "acquiring" /\ f = producer.next)}

SearchTyped ==
    /\ hits \in Seq(0 .. MaxMatches) /\ DOMAIN result = DOMAIN hits /\ result = [f \in DOMAIN hits |-> result[f]]
    /\ producer \in [pc : {"sending", "acquiring", "done"}, next : Nat]
    /\ consumer \in [pc : {"idle", "taking", "waiting", "returned", "failed"}, file : Nat]
    /\ order \in Seq(Nat) /\ scanning \subseteq DOMAIN hits /\ stopped \in [scan : BOOLEAN, caller : BOOLEAN]
    /\ producer.pc = "acquiring" => producer.next \in DOMAIN hits

SearchInv ==
    /\ SearchTyped
    /\ consumer.pc = "idle" => producer.pc = "done" /\ scanning = {} /\ order = <<>>
    /\ consumer.pc \in {"returned", "failed"} => stopped.scan
    /\ \A i \in DOMAIN order : order[i] \in Settled
    /\ consumer.pc = "waiting" => consumer.file \in Settled

LEMMA SearchBegins == SearchInit => SearchInv
<1> SUFFICES ASSUME SearchInit PROVE SearchInv
    OBVIOUS
<1>1. hits = <<>> /\ result = <<>> /\ order = <<>> /\ scanning = {} /\ consumer.pc = "idle" /\ producer.pc = "done"
    BY DEF SearchInit
<1>2. SearchTyped
    BY <1>1, SearchAssumption DEF SearchInit, SearchTyped
<1> QED
    BY <1>1, <1>2 DEF SearchInv

\* Nobody waits in vain in a state of the invariant.
LEMMA SearchSays == SearchInv => NoneLeft
<1> SUFFICES ASSUME SearchInv, scanning = {}, producer.pc # "acquiring" PROVE NoneLeft
    BY DEF NoneLeft
<1>1. CASE consumer.pc = "idle"
    BY <1>1 DEF SearchInv, NoneLeft
<1>2. CASE consumer.pc \in {"returned", "failed"}
    BY <1>2 DEF SearchInv, SearchTyped, NoneLeft
<1>3. CASE consumer.pc = "waiting"
    BY <1>3 DEF SearchInv, Settled, NoneLeft
<1>4. CASE consumer.pc = "taking"
  <2>1. CASE order = <<>>
      BY <1>4, <2>1, SearchAssumption DEF SearchInv, SearchTyped, NoneLeft
  <2> QED
      BY <1>4, <2>1 DEF NoneLeft
<1> QED
    BY <1>1, <1>2, <1>3, <1>4 DEF SearchInv, SearchTyped

\* The producer and the workers go on.
LEMMA ScansGoOn ==
    ASSUME SearchInv, SendChannel \/ StartWorker \/ ProducerEnds \/ (\E f \in 1 .. MaxFiles : ScanEnds(f))
    PROVE  SearchInv'
<1>0. /\ SearchTyped /\ hits' = hits /\ consumer' = consumer /\ stopped' = stopped
      /\ producer \in [pc : {"sending", "acquiring", "done"}, next : Nat] /\ order \in Seq(Nat)
      /\ \A i \in DOMAIN order : order[i] \in Settled
      /\ consumer.pc = "waiting" => consumer.file \in Settled
    BY DEF SearchInv, SearchTyped, SendChannel, StartWorker, ProducerEnds, ScanEnds
<1>1. ASSUME SearchTyped', consumer.pc # "idle", Settled \subseteq Settled',
             \A i \in DOMAIN order' : (i \in DOMAIN order /\ order'[i] = order[i]) \/ order'[i] \in Settled'
      PROVE  SearchInv'
    BY <1>0, <1>1 DEF SearchInv
<1>2. CASE SendChannel
  <2>1. /\ order' = Append(order, producer.next) /\ producer.pc = "sending" /\ producer.next \in DOMAIN hits
        /\ producer' = [producer EXCEPT !.pc = "acquiring"] /\ scanning' = scanning /\ result' = result
      BY <1>2 DEF SendChannel
  <2>2. producer' \in [pc : {"sending", "acquiring", "done"}, next : Nat] /\ producer'.pc = "acquiring" /\ producer'.next = producer.next
      BY <1>0, <2>1
  <2>3. SearchTyped' /\ consumer.pc # "idle"
      BY <1>0, <2>1, <2>2 DEF SearchTyped, SearchInv
  <2>4. Settled \subseteq Settled'
      BY <1>0, <2>1, <2>2 DEF Settled
  <2>6. \A i \in DOMAIN order' : (i \in DOMAIN order /\ order'[i] = order[i]) \/ order'[i] = producer.next
      BY <1>0, <2>1
  <2>7. \A i \in DOMAIN order' : (i \in DOMAIN order /\ order'[i] = order[i]) \/ order'[i] \in Settled'
    <3>1. producer.next \in Settled'
        BY <1>0, <2>1, <2>2 DEF Settled
    <3> QED
        BY <2>6, <3>1
  <2> QED
      BY <1>1, <2>3, <2>4, <2>7
<1>3. CASE StartWorker
  <2>1. /\ scanning' = scanning \cup {producer.next} /\ producer' = [pc |-> "sending", next |-> producer.next + 1]
        /\ producer.pc = "acquiring" /\ order' = order /\ result' = result
      BY <1>3 DEF StartWorker
  <2>2. SearchTyped' /\ consumer.pc # "idle"
      BY <1>0, <2>1 DEF SearchTyped, SearchInv
  <2>3. Settled \subseteq Settled'
      BY <1>0, <2>1 DEF Settled
  <2> QED
      BY <1>0, <1>1, <2>1, <2>2, <2>3
<1>4. CASE ProducerEnds
  <2>1. /\ producer' = [producer EXCEPT !.pc = "done"] /\ producer.pc # "done" /\ order' = order /\ scanning' = scanning
        /\ \/ producer.pc = "sending" /\ result' = result
           \/ producer.pc = "acquiring" /\ result' = [result EXCEPT ![producer.next] = NoScan]
      BY <1>4 DEF ProducerEnds
  <2>2. producer' \in [pc : {"sending", "acquiring", "done"}, next : Nat] /\ producer'.pc = "done"
      BY <1>0, <2>1
  <2>3. /\ DOMAIN result' = DOMAIN hits /\ result' = [f \in DOMAIN hits |-> result'[f]]
        /\ \A f \in DOMAIN hits : result'[f] = result[f] \/ result'[f] = NoScan
        /\ producer.pc = "acquiring" => result'[producer.next] = NoScan
      BY <1>0, <2>1 DEF SearchTyped
  <2>4. SearchTyped' /\ consumer.pc # "idle"
      BY <1>0, <2>1, <2>2, <2>3 DEF SearchTyped, SearchInv
  <2>5. Settled \subseteq Settled'
      BY <1>0, <2>1, <2>2, <2>3 DEF Settled, NoScan, Unscanned
  <2> QED
      BY <1>0, <1>1, <2>1, <2>4, <2>5
<1>5. ASSUME NEW g, ScanEnds(g) PROVE SearchInv'
  <2>1. g \in scanning /\ g \in DOMAIN hits /\ scanning' = scanning \ {g} /\ producer' = producer /\ order' = order
      BY <1>0, <1>5 DEF ScanEnds, SearchTyped
  <2>2. PICK n : result' = [result EXCEPT ![g] = n] /\ n # Unscanned
    <3>1. hits[g] \in Nat /\ UpTo(hits[g]) \in Nat
        BY <1>0, <2>1, SearchAssumption DEF SearchTyped, UpTo
    <3>2. \A n \in NoScan .. UpTo(hits[g]) : n # Unscanned
        BY <3>1 DEF NoScan, Unscanned
    <3>3. UpTo(hits[g]) # Unscanned
        BY <3>1 DEF Unscanned
    <3> QED
        BY <1>5, <3>2, <3>3 DEF ScanEnds
  <2>3. /\ DOMAIN result' = DOMAIN hits /\ result' = [f \in DOMAIN hits |-> result'[f]]
        /\ \A f \in DOMAIN hits : result'[f] = IF f = g THEN n ELSE result[f]
      BY <1>0, <2>1, <2>2 DEF SearchTyped
  <2>4. SearchTyped' /\ consumer.pc # "idle"
      BY <1>0, <2>1, <2>3 DEF SearchTyped, SearchInv
  <2>5. Settled \subseteq Settled'
      BY <1>0, <2>1, <2>2, <2>3 DEF Settled
  <2> QED
      BY <1>0, <1>1, <2>1, <2>4, <2>5
<1> QED
    BY <1>2, <1>3, <1>4, <1>5

\* The consumer goes on, or gives up; and what stops the search.
LEMMA SearchIsRead ==
    ASSUME SearchInv, CallerCancels \/ TakeChannel \/ TakeResult \/ OrderClosed
    PROVE  SearchInv'
<1>0. /\ SearchTyped /\ hits' = hits /\ producer' = producer /\ result' = result /\ scanning' = scanning
      /\ order \in Seq(Nat) /\ \A i \in DOMAIN order : order[i] \in Settled
      /\ consumer \in [pc : {"idle", "taking", "waiting", "returned", "failed"}, file : Nat]
      /\ stopped \in [scan : BOOLEAN, caller : BOOLEAN]
    BY DEF SearchInv, SearchTyped, CallerCancels, TakeChannel, TakeResult, OrderClosed
<1>1. Settled' = Settled
    BY <1>0 DEF Settled
<1>2. ASSUME order' \in Seq(Nat), consumer' \in [pc : {"idle", "taking", "waiting", "returned", "failed"}, file : Nat],
             stopped' \in [scan : BOOLEAN, caller : BOOLEAN], consumer'.pc # "idle",
             consumer'.pc \in {"returned", "failed"} => stopped'.scan,
             consumer'.pc = "waiting" => consumer'.file \in Settled,
             \A i \in DOMAIN order' : \E j \in DOMAIN order : order'[i] = order[j]
      PROVE  SearchInv'
  <2>1. SearchTyped'
      BY <1>0, <1>2 DEF SearchTyped
  <2>2. \A i \in DOMAIN order' : order'[i] \in Settled'
      BY <1>0, <1>1, <1>2
  <2>3. consumer'.pc = "waiting" => consumer'.file \in Settled'
      BY <1>1, <1>2
  <2> QED
      BY <1>2, <2>1, <2>2, <2>3 DEF SearchInv
<1>3. CASE CallerCancels
  <2>1. stopped' = [scan |-> TRUE, caller |-> TRUE] /\ order' = order /\ consumer' = consumer /\ consumer.pc # "idle"
      BY <1>3 DEF CallerCancels
  <2> QED
      BY <1>0, <1>2, <2>1 DEF SearchInv
<1>4. CASE TakeChannel
  <2>1. /\ consumer.pc = "taking" /\ order # <<>> /\ stopped' = stopped
        /\ consumer' = [pc |-> "waiting", file |-> order[1]] /\ order' = RemoveAt(order, 1)
      BY <1>4 DEF TakeChannel, InOrder
  <2>2. order[1] \in Nat /\ 1 \in DOMAIN order /\ order[1] \in Settled
      BY <1>0, <2>1
  <2>3. order' \in Seq(Nat) /\ \A i \in DOMAIN order' : i + 1 \in DOMAIN order /\ order'[i] = order[i + 1]
    <3>1. SubSeq(order, 1, 0) = <<>>
        BY <1>0
    <3>2. order' = SubSeq(order, 2, Len(order))
        BY <1>0, <2>1, <3>1 DEF RemoveAt
    <3> QED
        BY <1>0, <2>2, <3>2
  <2> QED
      BY <1>0, <1>2, <2>1, <2>2, <2>3
<1>5. ASSUME NEW place \in {"returned", "failed"}, ReturnWith(place), order' = order PROVE SearchInv'
  <2>1. consumer' = [pc |-> place, file |-> 0] /\ stopped' = [stopped EXCEPT !.scan = TRUE]
      BY <1>5 DEF ReturnWith, ScanCancelled
  <2>2. stopped' \in [scan : BOOLEAN, caller : BOOLEAN] /\ stopped'.scan
      BY <1>0, <2>1
  <2> QED
      BY <1>0, <1>2, <1>5, <2>1, <2>2
<1>6. CASE TakeResult
  <2>1. /\ order' = order
        /\ \/ ReturnWith("failed") \/ ReturnWith("returned")
           \/ consumer' = [pc |-> "taking", file |-> 0] /\ stopped' = stopped
      BY <1>6 DEF TakeResult
  <2>2. CASE consumer' = [pc |-> "taking", file |-> 0] /\ stopped' = stopped
      BY <1>0, <1>2, <2>1, <2>2
  <2> QED
      BY <1>5, <2>1, <2>2
<1>7. CASE OrderClosed
    BY <1>5, <1>7 DEF OrderClosed
<1> QED
    BY <1>3, <1>4, <1>6, <1>7

LEMMA SearchStep == SearchInv /\ [SearchNext]_searchVars => SearchInv'
<1> SUFFICES ASSUME SearchInv, [SearchNext]_searchVars PROVE SearchInv'
    OBVIOUS
<1>1. ASSUME UNCHANGED <<hits, producer, order, scanning, result, consumer, stopped>> PROVE SearchInv'
    BY <1>1 DEF SearchInv, SearchTyped, Settled
<1>2. CASE UNCHANGED searchVars
    BY <1>1, <1>2 DEF searchVars
<1>3. CASE UseTool
  <2>1. ASSUME NEW files \in BoundedSeq(0 .. MaxMatches, MaxFiles), StartSearch(files) PROVE SearchInv'
    <3>1. files \in Seq(0 .. MaxMatches)
      <4>1. PICK n \in 0 .. MaxFiles : files \in [1 .. n -> 0 .. MaxMatches]
          BY DEF BoundedSeq, SeqOf
      <4>2. n \in Nat
          BY <4>1
      <4>3. \A S : files \in [1 .. n -> S] => files \in Seq(S)
          BY <4>2
      <4> QED
          BY <4>1, <4>3
    <3>2. /\ hits' = files /\ result' = [f \in DOMAIN files |-> Unscanned] /\ producer' = [pc |-> "sending", next |-> 1]
          /\ consumer' = [pc |-> "taking", file |-> 0] /\ order' = order /\ scanning' = scanning /\ stopped' = stopped
        BY <2>1 DEF StartSearch
    <3>3. order = <<>> /\ scanning = {} /\ stopped \in [scan : BOOLEAN, caller : BOOLEAN] /\ order \in Seq(Nat)
        BY <1>3 DEF UseTool, SearchInv, SearchTyped
    <3>4. SearchTyped'
        BY <3>1, <3>2, <3>3 DEF SearchTyped
    <3> QED
        BY <3>2, <3>3, <3>4 DEF SearchInv
  <2>2. ASSUME NEW w, NEW recursive, NEW max, ListFiles(w, recursive, max) PROVE SearchInv'
      BY <1>1, <2>2 DEF ListFiles
  <2>3. ASSUME NEW lines, NEW start, NEW end, ReadFile(lines, start, end) PROVE SearchInv'
      BY <1>1, <2>3 DEF ReadFile
  <2>4. ASSUME NEW msgs, NEW query, NEW limit, SearchTranscript(msgs, query, limit) PROVE SearchInv'
      BY <1>1, <2>4 DEF SearchTranscript
  <2> QED
      BY <1>3, <2>1, <2>2, <2>3, <2>4 DEF UseTool
<1> QED
    BY <1>2, <1>3, ScansGoOn, SearchIsRead DEF SearchNext

(* For any files, workers, places in flight and matches wanted: however the   *)
(* walk, the scans and the reader overlap and whenever the search is cut      *)
(* short or cancelled, none of its goroutines is left waiting (grep.go).      *)
THEOREM NobodyIsLeftWaiting == SearchSpec => []NoneLeft
<1> QED
    BY SearchBegins, SearchSays, SearchStep, PTL DEF SearchSpec
=============================================================================
