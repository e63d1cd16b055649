-------------------------- MODULE CheckpointsProofs --------------------------
(***************************************************************************)
(* Proofs about the undo store, for any files, authors, budget and number  *)
(* of turns: each operation of the store keeps StoreInv, which says that   *)
(* the budget counts exactly the snapshots kept (BytesExact), that every   *)
(* original of the session diff is found (OriginalsFound) and that only    *)
(* one turn with changes can be over budget (OverAlone).                   *)
(*                                                                         *)
(* The budget alone is not inductive: that trimming, undoing and           *)
(* discarding take away exactly what they counted rests on the turns       *)
(* having growing ids (IdsOrdered) and on the snapshots left by a failed   *)
(* undo being of turns that are gone (LeftGone).                           *)
(***************************************************************************)
EXTENDS Checkpoints, TLAPS, FiniteSetTheorems, SequenceTheorems

-----------------------------------------------------------------------------
(* The undo store.  A snapshot is the pair of a turn's id and a file; as the *)
(* ids of the turns grow, the snapshots counted by Weight are as many as     *)
(* those pairs, wherever trimming and undoing move the turns.                *)

Changes == UNION {[S -> [before : Content, after : Content]] : S \in SUBSET Files}
Turn == [id : Nat, changes : Changes]
Store == [turns : Seq(Turn), nextID : Nat, bytes : Int, originals : [Files -> Nat]]

Held(t, f) == f \in Changed(t) /\ t.changes[f].before # Absent

\* The snapshots of turns 1 to n.
Snaps(turns, n) ==
    {p \in Nat \X Files : \E i \in 1..n : turns[i].id = p[1] /\ Held(turns[i], p[2])}

IdsOrdered(s) ==
    /\ \A i \in 1..Len(s.turns) : s.turns[i].id \in 1..s.nextID
    /\ \A i, j \in 1..Len(s.turns) : i < j => s.turns[i].id < s.turns[j].id

\* The least-number principle.
LEMMA LeastNumber ==
    ASSUME NEW S, S \subseteq Nat, S # {}
    PROVE  \E n \in S : \A k \in S : n <= k
<1> DEFINE T == {0..n : n \in S}
           R == StrictSubsetOrdering(Nat)
<1>1. T \subseteq FiniteSubsetsOf(Nat) /\ T # {}
  <2>1. \A n \in S : 0..n \in SUBSET Nat /\ IsFiniteSet(0..n)
      BY FS_Interval
  <2> QED
      BY <2>1 DEF FiniteSubsetsOf
<1>2. IsWellFoundedOn(R, FiniteSubsetsOf(Nat))
    BY FS_StrictSubsetOrderingWellFounded
<1> HIDE DEF T
<1>3. PICK s \in T : \A u \in T : ~(<<u, s>> \in R)
    BY <1>1, <1>2, WFMin
<1>4. PICK n \in S : s = 0..n
    BY <1>3 DEF T
<1>5. ASSUME NEW k \in S, k < n PROVE FALSE
  <2>1. 0..k \in T
      BY DEF T
  <2>2. n \in 0..n /\ n \notin 0..k
      BY <1>5
  <2>3. 0..k \subseteq 0..n /\ 0..k \in SUBSET Nat /\ 0..n \in SUBSET Nat
      BY <1>5
  <2> QED
      BY <1>3, <1>4, <2>1, <2>2, <2>3 DEF StrictSubsetOrdering
<1> QED
    BY <1>5

\* Two turns of one id are one turn.
LEMMA OneTurnPerId ==
    ASSUME NEW s \in Store, IdsOrdered(s),
           NEW i \in 1..Len(s.turns), NEW j \in 1..Len(s.turns), s.turns[i].id = s.turns[j].id
    PROVE  i = j
<1>1. s.turns[i].id \in Nat /\ s.turns[j].id \in Nat /\ Len(s.turns) \in Nat
    BY DEF IdsOrdered, Store
<1> QED
    BY <1>1 DEF IdsOrdered

\* The types of a store's turns.
LEMMA TurnTyped ==
    ASSUME NEW s \in Store, NEW i \in 1..Len(s.turns)
    PROVE  /\ s.turns[i] \in Turn /\ s.turns[i].id \in Nat /\ Changed(s.turns[i]) \subseteq Files
           /\ \A f \in Changed(s.turns[i]) :
                 s.turns[i].changes[f] \in [before : Content, after : Content]
<1>1. s.turns[i] \in Turn
    BY ElementOfSeq DEF Store
<1> QED
    BY <1>1 DEF Turn, Changes, Changed

\* What Weight counts, turn by turn, is the snapshots of those turns.
LEMMA WeightIsSnaps ==
    ASSUME NEW s \in Store, IdsOrdered(s), NEW n \in 0..Len(s.turns)
    PROVE  /\ IsFiniteSet(Snaps(s.turns, n))
           /\ Weight(s.turns, n) = Cardinality(Snaps(s.turns, n))
<1> DEFINE H == {c \in (1..n) \X Files : Held(s.turns[c[1]], c[2])}
           F == [c \in H |-> <<s.turns[c[1]].id, c[2]>>]
<1>0. Len(s.turns) \in Nat /\ 1..n \subseteq 1..Len(s.turns)
    BY DEF Store
<1>1. IsFiniteSet(H)
  <2>1. IsFiniteSet(1..n) /\ IsFiniteSet(Files)
      BY <1>0, FS_Interval, StoreAssumption
  <2>2. IsFiniteSet((1..n) \X Files)
      BY <2>1, FS_Product
  <2> QED
      BY <2>2, FS_Subset
<1>2. \A c \in H : s.turns[c[1]].id \in Nat
    BY <1>0, TurnTyped
<1>3. F \in [H -> Snaps(s.turns, n)]
    BY <1>2 DEF Snaps
<1>4. \A c, d \in H : F[c] = F[d] => c = d
    BY <1>0, OneTurnPerId
<1>5. \A p \in Snaps(s.turns, n) : \E c \in H : F[c] = p
  <2> SUFFICES ASSUME NEW p \in Snaps(s.turns, n) PROVE \E c \in H : F[c] = p
      OBVIOUS
  <2>1. PICK i \in 1..n : s.turns[i].id = p[1] /\ Held(s.turns[i], p[2])
      BY DEF Snaps
  <2>2. p \in Nat \X Files
      BY DEF Snaps
  <2>3. <<i, p[2]>> \in H /\ F[<<i, p[2]>>] = p
      BY <2>1, <2>2
  <2> QED
      BY <2>3
<1> HIDE DEF F, H
<1>6. F \in Bijection(H, Snaps(s.turns, n))
    BY <1>3, <1>4, <1>5 DEF Bijection, Injection, Surjection, IsInjective
<1>7. ExistsBijection(H, Snaps(s.turns, n))
    BY <1>6 DEF ExistsBijection
<1>8. Weight(s.turns, n) = Cardinality(H)
    BY DEF Weight, H, Held
<1> QED
    BY <1>1, <1>7, <1>8, FS_Bijection


-----------------------------------------------------------------------------
(* What the store keeps true between its operations; L are the snapshots of  *)
(* files that an undo could not put back.                                    *)

Kept(s) == Snaps(s.turns, Len(s.turns))
LeftHeld(L) == {u \in L : u.held}

LeftGone(s, L) ==
    /\ IsFiniteSet(L) /\ L \subseteq [file : Files, id : 1..s.nextID, held : BOOLEAN]
    /\ \A u \in L, i \in 1..Len(s.turns) : s.turns[i].id # u.id

BytesExact(s, L) == s.bytes = Cardinality(Kept(s)) + Cardinality(LeftHeld(L))

OriginalFound(s, L, f) ==
    \/ \E i \in 1..Len(s.turns) : s.turns[i].id = s.originals[f] /\ f \in Changed(s.turns[i])
    \/ \E u \in L : u.file = f /\ u.id = s.originals[f]

OriginalsFound(s, L) == \A f \in Files : s.originals[f] # 0 => OriginalFound(s, L, f)

\* Over budget, one turn alone has changes.
OverAlone(s) == s.bytes > MaxBytes => \A i, j \in Undoable(s) : i = j

StoreSound(s, L) ==
    s \in Store /\ IdsOrdered(s) /\ LeftGone(s, L) /\ BytesExact(s, L) /\ OriginalsFound(s, L)

StoreInv(s, L) == StoreSound(s, L) /\ OverAlone(s)

\* The snapshots counted are finitely many.
LEMMA KeptFinite ==
    ASSUME NEW s, NEW L, StoreSound(s, L)
    PROVE  /\ IsFiniteSet(Kept(s)) /\ Cardinality(Kept(s)) \in Nat
           /\ IsFiniteSet(LeftHeld(L)) /\ Cardinality(LeftHeld(L)) \in Nat
<1>1. s \in Store /\ IdsOrdered(s) /\ Len(s.turns) \in Nat /\ IsFiniteSet(L)
    BY DEF StoreSound, LeftGone, Store
<1>2. IsFiniteSet(Kept(s))
    BY <1>1, WeightIsSnaps DEF Kept
<1>3. IsFiniteSet(LeftHeld(L))
    BY <1>1, FS_Subset DEF LeftHeld
<1> QED
    BY <1>2, <1>3, FS_CardinalityType

\* Its types, and what the properties ask, follow.
LEMMA StoreTypes ==
    ASSUME NEW s, NEW L, StoreInv(s, L)
    PROVE  /\ IsStore(s)
           /\ s.bytes = Weight(s.turns, LastOf(s)) + Cardinality({u \in L : u.held})
           /\ s.bytes > MaxBytes => Cardinality(Undoable(s)) <= 1
<1>1. /\ s \in Store /\ IdsOrdered(s) /\ LeftGone(s, L) /\ BytesExact(s, L)
      /\ OriginalsFound(s, L) /\ StoreSound(s, L)
    BY DEF StoreInv, StoreSound
<1>2. Len(s.turns) \in Nat /\ DOMAIN s.turns = 1..Len(s.turns) /\ s.nextID \in Nat
    BY <1>1, LenProperties DEF Store
<1>3. s.bytes = Weight(s.turns, LastOf(s)) + Cardinality({u \in L : u.held})
    BY <1>1, <1>2, WeightIsSnaps DEF BytesExact, Kept, LeftHeld, LastOf
<1>4. s.bytes \in Nat
    BY <1>1, KeptFinite DEF BytesExact
<1>5. s.originals \in [Files -> 0..s.nextID]
  <2>1. \A f \in Files : s.originals[f] \in 0..s.nextID
      BY <1>1, <1>2 DEF Store, OriginalsFound, OriginalFound, IdsOrdered, LeftGone
  <2> QED
      BY <1>1, <2>1 DEF Store
<1>6. ASSUME NEW i \in DOMAIN s.turns
      PROVE  /\ s.turns[i].id \in 1..s.nextID
             /\ DOMAIN s.turns[i].changes \subseteq Files
             /\ \A f \in DOMAIN s.turns[i].changes :
                   s.turns[i].changes[f] \in [before : Content, after : Content]
    BY <1>1, <1>2, TurnTyped DEF IdsOrdered, Changed
<1>7. DOMAIN s = {"turns", "nextID", "bytes", "originals"}
    BY <1>1 DEF Store
<1>8. s.bytes > MaxBytes => Cardinality(Undoable(s)) <= 1
  <2>1. CASE Undoable(s) = {}
      BY <2>1, FS_EmptySet
  <2>2. ASSUME s.bytes > MaxBytes, NEW i \in Undoable(s) PROVE Cardinality(Undoable(s)) <= 1
    <3>1. Undoable(s) = {i}
        BY <2>2 DEF StoreInv, OverAlone
    <3>2. Cardinality({i}) = 1
        BY FS_Singleton
    <3> QED
        BY <3>1, <3>2
  <2> QED
      BY <2>1, <2>2
<1> QED
    BY <1>2, <1>3, <1>4, <1>5, <1>6, <1>7, <1>8 DEF IsStore

\* A new store has the invariant.
LEMMA EmptyStoreInv == StoreInv(EmptyStore, {})
<1> DEFINE s == EmptyStore
<1>1. s.turns = <<>> /\ s.nextID = 0 /\ s.bytes = 0 /\ s.originals = [f \in Files |-> 0]
    BY DEF EmptyStore
<1>2. s \in Store
    BY EmptySeq DEF EmptyStore, Store
<1>3. Len(s.turns) = 0 /\ DOMAIN s.turns = {}
    BY <1>1, <1>2, EmptySeq, LenProperties DEF Store
<1> HIDE DEF s
<1>4. Kept(s) = {} /\ LeftHeld({}) = {}
    BY <1>3 DEF Kept, Snaps, LeftHeld
<1>5. BytesExact(s, {})
    BY <1>1, <1>4, FS_EmptySet DEF BytesExact
<1>6. LeftGone(s, {}) /\ IdsOrdered(s) /\ OriginalsFound(s, {}) /\ OverAlone(s)
    BY <1>1, <1>3, FS_EmptySet DEF LeftGone, IdsOrdered, OriginalsFound, OverAlone, Undoable
<1> QED
    BY <1>2, <1>5, <1>6 DEF StoreInv, StoreSound, s


-----------------------------------------------------------------------------
(* The operations keep it.  First, those of a turn's own changes: v replaces *)
(* the changes of turn n.                                                    *)

WithChanges(turns, n, v) == [turns EXCEPT ![n].changes = v]

\* A turn with other changes, the rest of the turns as they are.
LEMMA ReplaceChanges ==
    ASSUME NEW s \in Store, NEW n \in 1..Len(s.turns), NEW v \in Changes
    PROVE  LET turns == WithChanges(s.turns, n, v) IN
           /\ turns \in Seq(Turn) /\ Len(turns) = Len(s.turns)
           /\ \A i \in 1..Len(s.turns) : /\ turns[i].id = s.turns[i].id
                                         /\ i # n => turns[i] = s.turns[i]
           /\ turns[n].changes = v
<1> DEFINE turns == WithChanges(s.turns, n, v)
<1>1. s.turns \in Seq(Turn) /\ Len(s.turns) \in Nat /\ DOMAIN s.turns = 1..Len(s.turns)
    BY LenProperties DEF Store
<1>2. s.turns[n] \in Turn
    BY TurnTyped
<1> DEFINE e == [s.turns[n] EXCEPT !.changes = v]
<1>3. e \in Turn /\ e.id = s.turns[n].id /\ e.changes = v
    BY <1>2 DEF Turn
<1>4. turns = [s.turns EXCEPT ![n] = e]
    BY DEF WithChanges
<1> HIDE DEF e, turns
<1>5. /\ turns \in Seq(Turn) /\ Len(turns) = Len(s.turns)
      /\ \A j \in 1..Len(s.turns) : turns[j] = IF j = n THEN e ELSE s.turns[j]
    BY <1>1, <1>3, <1>4, ExceptSeq
<1>6. \A i \in 1..Len(s.turns) : turns[i].id = s.turns[i].id /\ (i # n => turns[i] = s.turns[i])
    BY <1>3, <1>5
<1>7. turns[n].changes = v
    BY <1>3, <1>5
<1> QED
    BY <1>5, <1>6, <1>7 DEF turns

\* A turn's changes are changes.
LEMMA ChangesOf ==
    ASSUME NEW s \in Store, NEW n \in 1..Len(s.turns)
    PROVE  s.turns[n].changes \in Changes /\ DOMAIN s.turns[n].changes = Changed(s.turns[n])
BY TurnTyped DEF Turn, Changed

\* Changes without one file.
LEMMA RestrictedChanges ==
    ASSUME NEW C \in Changes, NEW f
    PROVE  LET v == Restrict(C, DOMAIN C \ {f}) IN
           v \in Changes /\ DOMAIN v = DOMAIN C \ {f} /\ \A g \in DOMAIN v : v[g] = C[g]
<1>1. PICK S \in SUBSET Files : C \in [S -> [before : Content, after : Content]]
    BY DEF Changes
<1>2. Restrict(C, DOMAIN C \ {f}) = [g \in S \ {f} |-> C[g]]
    BY <1>1 DEF Restrict
<1>3. [g \in S \ {f} |-> C[g]] \in [S \ {f} -> [before : Content, after : Content]]
    BY <1>1
<1> QED
    BY <1>1, <1>2, <1>3 DEF Changes

\* A record of the four fields is a store.
LEMMA StoreIntro ==
    ASSUME NEW turns \in Seq(Turn), NEW next \in Nat, NEW bytes \in Int,
           NEW originals \in [Files -> Nat]
    PROVE  [turns |-> turns, nextID |-> next, bytes |-> bytes, originals |-> originals] \in Store
BY DEF Store

\* When turns keep their ids, what holds of the ids goes on holding.
LEMMA SameIds ==
    ASSUME NEW s, NEW L, StoreSound(s, L), NEW r,
           Len(r.turns) = Len(s.turns), r.nextID = s.nextID,
           \A i \in 1..Len(s.turns) : r.turns[i].id = s.turns[i].id
    PROVE  IdsOrdered(r) /\ LeftGone(r, L)
BY DEF StoreSound, IdsOrdered, LeftGone

\* A store that is not empty has a last turn.
LEMMA LastTurn ==
    ASSUME NEW s \in Store, s.turns # <<>>
    PROVE  /\ Len(s.turns) \in Nat \ {0} /\ Len(s.turns) \in 1..Len(s.turns)
           /\ DOMAIN s.turns = 1..Len(s.turns)
<1>1. Len(s.turns) \in Nat \ {0} /\ DOMAIN s.turns = 1..Len(s.turns)
    BY EmptySeq, LenProperties DEF Store
<1> QED
    BY <1>1

\* after keeps the invariant: it counts nothing.
LEMMA AfterKeeps ==
    ASSUME NEW s, NEW L, StoreInv(s, L), NEW f \in Files, NEW c \in Content
    PROVE  StoreInv(After(s, f, c), L)
<1> DEFINE r == After(s, f, c)
           n == LastOf(s)
<1>1. s \in Store /\ StoreSound(s, L)
    BY DEF StoreInv, StoreSound
<1>2. CASE ~InLast(s, f)
    BY <1>2 DEF After
<1>3. CASE InLast(s, f)
  <2>1. s.turns # <<>> /\ f \in Changed(s.turns[n]) /\ n \in 1..Len(s.turns)
      BY <1>1, <1>3, LastTurn DEF InLast, LastOf
  <2> DEFINE v == [s.turns[n].changes EXCEPT ![f].after = c]
  <2>2. /\ s.turns[n].changes \in [Changed(s.turns[n]) -> [before : Content, after : Content]]
        /\ Changed(s.turns[n]) \in SUBSET Files
    <3>1. s.turns[n] \in Turn
        BY <1>1, <2>1, TurnTyped
    <3> QED
        BY <3>1 DEF Turn, Changes, Changed
  <2>3. /\ v \in Changes /\ DOMAIN v = Changed(s.turns[n])
        /\ \A g \in DOMAIN v : v[g].before = s.turns[n].changes[g].before
      BY <2>1, <2>2 DEF Changes
  <2>4. r = [s EXCEPT !.turns = [s.turns EXCEPT ![n].changes = v]]
      BY <1>3 DEF After
  <2>5. /\ r.turns = WithChanges(s.turns, n, v) /\ r.nextID = s.nextID
        /\ r.bytes = s.bytes /\ r.originals = s.originals
      BY <1>1, <2>4 DEF Store, WithChanges
  <2> HIDE DEF v, r
  <2>6. /\ r.turns \in Seq(Turn) /\ Len(r.turns) = Len(s.turns)
        /\ \A i \in 1..Len(s.turns) : /\ r.turns[i].id = s.turns[i].id
                                      /\ i # n => r.turns[i] = s.turns[i]
        /\ r.turns[n].changes = v
      BY <1>1, <2>1, <2>3, <2>5, ReplaceChanges
  <2>7. r \in Store
      BY <1>1, <2>4, <2>5, <2>6 DEF Store
  <2>8. /\ \A i \in 1..Len(s.turns) : Changed(r.turns[i]) = Changed(s.turns[i])
        /\ \A i \in 1..Len(s.turns), g \in Files : Held(r.turns[i], g) <=> Held(s.turns[i], g)
      BY <2>3, <2>6 DEF Changed, Held
  <2>9. Kept(r) = Kept(s)
      BY <2>6, <2>8 DEF Kept, Snaps
  <2>10. IdsOrdered(r) /\ LeftGone(r, L)
      BY <1>1, <2>5, <2>6, SameIds
  <2>11. BytesExact(r, L) /\ OriginalsFound(r, L)
      BY <1>1, <2>5, <2>6, <2>8, <2>9 DEF StoreSound, BytesExact, OriginalsFound, OriginalFound
  <2>12. Undoable(r) = Undoable(s)
      BY <1>1, <2>6, <2>7, <2>8, LenProperties DEF Undoable, Store
  <2> QED
      BY <2>5, <2>7, <2>10, <2>11, <2>12 DEF StoreInv, StoreSound, OverAlone, r
<1> QED
    BY <1>2, <1>3

\* discard keeps it: one snapshot of the last turn goes, with its byte and its original.
LEMMA DiscardKeeps ==
    ASSUME NEW s, NEW L, StoreInv(s, L), NEW f \in Files
    PROVE  StoreInv(Discard(s, f), L)
<1> DEFINE r == Discard(s, f)
           n == LastOf(s)
<1>1. s \in Store /\ StoreSound(s, L) /\ IdsOrdered(s)
    BY DEF StoreInv, StoreSound
<1>2. CASE ~InLast(s, f)
    BY <1>2 DEF Discard
<1>3. CASE InLast(s, f)
  <2>1. /\ s.turns # <<>> /\ f \in Changed(s.turns[n])
        /\ n \in 1..Len(s.turns) /\ DOMAIN s.turns = 1..Len(s.turns)
      BY <1>1, <1>3, LastTurn DEF InLast, LastOf
  <2> DEFINE v == Restrict(s.turns[n].changes, DOMAIN s.turns[n].changes \ {f})
             w == <<s.turns[n].id, f>>
  <2>2. /\ s.turns[n].changes \in Changes /\ DOMAIN s.turns[n].changes = Changed(s.turns[n])
      BY <1>1, <2>1, ChangesOf
  <2>3. /\ v \in Changes /\ DOMAIN v = Changed(s.turns[n]) \ {f}
        /\ \A g \in DOMAIN v : v[g] = s.turns[n].changes[g]
      BY <2>2, RestrictedChanges
  <2>4. /\ r.turns = WithChanges(s.turns, n, v) /\ r.nextID = s.nextID
        /\ r.bytes = IF Held(s.turns[n], f) THEN s.bytes - 1 ELSE s.bytes
        /\ r.originals = [s.originals EXCEPT ![f] = IF @ = s.turns[n].id THEN 0 ELSE @]
        /\ r = [turns |-> r.turns, nextID |-> r.nextID, bytes |-> r.bytes,
                originals |-> r.originals]
    <3>1. r = [s EXCEPT !.turns[n].changes = Restrict(@, DOMAIN @ \ {f}),
                        !.originals[f] = IF @ = s.turns[n].id THEN 0 ELSE @,
                        !.bytes = IF s.turns[n].changes[f].before = Absent THEN @ ELSE @ - 1]
        BY <1>3 DEF Discard
    <3>2. s = [turns |-> s.turns, nextID |-> s.nextID, bytes |-> s.bytes,
               originals |-> s.originals]
        BY <1>1 DEF Store
    <3> HIDE DEF r
    <3> QED
        BY <2>1, <3>1, <3>2 DEF Held, WithChanges
  <2> HIDE DEF v, r
  <2>6. /\ r.turns \in Seq(Turn) /\ Len(r.turns) = Len(s.turns)
        /\ \A i \in 1..Len(s.turns) : /\ r.turns[i].id = s.turns[i].id
                                      /\ i # n => r.turns[i] = s.turns[i]
        /\ r.turns[n].changes = v
      BY <1>1, <2>1, <2>3, <2>4, ReplaceChanges
  <2>7. r \in Store
    <3>1. r.originals \in [Files -> Nat] /\ r.bytes \in Int /\ r.nextID \in Nat
        BY <1>1, <2>4 DEF Store
    <3> QED
        BY <2>4, <2>6, <3>1 DEF Store
  <2>8. /\ \A i \in 1..Len(s.turns), g \in Files :
               g \in Changed(r.turns[i]) <=> g \in Changed(s.turns[i]) /\ ~(i = n /\ g = f)
        /\ \A i \in 1..Len(s.turns), g \in Files :
               Held(r.turns[i], g) <=> Held(s.turns[i], g) /\ ~(i = n /\ g = f)
    <3>1. ASSUME NEW i \in 1..Len(s.turns), NEW g \in Files, i # n
          PROVE  /\ g \in Changed(r.turns[i]) <=> g \in Changed(s.turns[i])
                 /\ Held(r.turns[i], g) <=> Held(s.turns[i], g)
        BY <2>6, <3>1
    <3>2. ASSUME NEW g \in Files
          PROVE  /\ g \in Changed(r.turns[n]) <=> g \in Changed(s.turns[n]) /\ g # f
                 /\ Held(r.turns[n], g) <=> Held(s.turns[n], g) /\ g # f
        BY <2>3, <2>6 DEF Changed, Held
    <3> QED
        BY <3>1, <3>2
  <2>9. Kept(r) = Kept(s) \ {w}
    <3>1. ASSUME NEW p \in Nat \X Files, NEW i \in 1..Len(s.turns), s.turns[i].id = p[1]
          PROVE  (i = n /\ p[2] = f) <=> p = w
      <4>1. p = w => i = n
          BY <1>1, <2>1, <3>1, OneTurnPerId
      <4> QED
          BY <3>1, <4>1
    <3>2. ASSUME NEW p \in Nat \X Files
          PROVE  p \in Kept(r) <=> p \in Kept(s) /\ p # w
        BY <2>6, <2>8, <3>1 DEF Kept, Snaps
    <3> QED
        BY <3>2 DEF Kept, Snaps
  <2>10. w \in Kept(s) <=> Held(s.turns[n], f)
    <3>1. w \in Nat \X Files
        BY <1>1, <2>1, TurnTyped
    <3>2. ASSUME NEW i \in 1..Len(s.turns), s.turns[i].id = w[1] PROVE i = n
        BY <1>1, <2>1, <3>2, OneTurnPerId
    <3> QED
        BY <2>1, <3>1, <3>2 DEF Kept, Snaps
  <2>11. IdsOrdered(r) /\ LeftGone(r, L)
      BY <1>1, <2>4, <2>6, SameIds
  <2>12. BytesExact(r, L) /\ r.bytes <= s.bytes
    <3>1. IsFiniteSet(Kept(s)) /\ Cardinality(Kept(s)) \in Nat /\ Cardinality(LeftHeld(L)) \in Nat
        BY <1>1, KeptFinite
    <3> HIDE DEF n, w
    <3>2. Cardinality(Kept(s) \ {w}) = IF w \in Kept(s) THEN Cardinality(Kept(s)) - 1
                                     ELSE Cardinality(Kept(s))
        BY <3>1, FS_RemoveElement
    <3>3. s.bytes = Cardinality(Kept(s)) + Cardinality(LeftHeld(L))
        BY <1>1 DEF StoreSound, BytesExact
    <3> QED
        BY <2>4, <2>9, <2>10, <3>1, <3>2, <3>3 DEF BytesExact
  <2>13. OriginalsFound(r, L)
    <3> SUFFICES ASSUME NEW g \in Files, r.originals[g] # 0 PROVE OriginalFound(r, L, g)
        BY DEF OriginalsFound
    <3>1. r.originals[g] = s.originals[g] /\ ~(g = f /\ s.originals[g] = s.turns[n].id)
        BY <1>1, <2>4 DEF Store
    <3>2. OriginalFound(s, L, g)
        BY <1>1, <3>1 DEF StoreSound, OriginalsFound
    <3> QED
        BY <2>6, <2>8, <3>1, <3>2 DEF OriginalFound
  <2>14. Undoable(r) \subseteq Undoable(s)
    <3>1. DOMAIN r.turns = 1..Len(s.turns)
        BY <2>6, LenProperties
    <3>2. \A i \in 1..Len(s.turns) : Changed(r.turns[i]) \subseteq Files
        BY <2>6, <2>7, TurnTyped
    <3> QED
        BY <2>1, <2>8, <3>1, <3>2 DEF Undoable
  <2>15. r.bytes > MaxBytes => s.bytes > MaxBytes
      BY <1>1, <2>7, <2>12, StoreAssumption DEF Store
  <2> QED
      BY <2>7, <2>11, <2>12, <2>13, <2>14, <2>15 DEF StoreInv, StoreSound, OverAlone, r
<1> QED
    BY <1>2, <1>3


-----------------------------------------------------------------------------
(* A new turn has no changes. *)

\* beginLocked keeps it: the new turn has a new id and no changes.
LEMMA BeginKeeps ==
    ASSUME NEW s, NEW L, StoreInv(s, L)
    PROVE  /\ StoreInv(Begin(s), L)
           /\ Begin(s).turns # <<>>
           /\ s.turns = <<>> => \A f \in Files : ~InLast(Begin(s), f)
           /\ Undoable(Begin(s)) = Undoable(s)
<1> DEFINE r == Begin(s)
           n == Len(s.turns)
           e == [id |-> s.nextID + 1, changes |-> <<>>]
<1>1. /\ s \in Store /\ StoreSound(s, L) /\ IdsOrdered(s)
      /\ s.nextID \in Nat /\ s.turns \in Seq(Turn)
      /\ s.bytes \in Int /\ s.originals \in [Files -> Nat]
    BY DEF StoreInv, StoreSound, Store
<1>2. CASE s.turns # <<>> /\ Changed(s.turns[LastOf(s)]) = {}
    BY <1>2 DEF Begin
<1>3. CASE ~(s.turns # <<>> /\ Changed(s.turns[LastOf(s)]) = {})
  <2>1. /\ r.turns = Append(s.turns, e) /\ r.nextID = s.nextID + 1
        /\ r.bytes = s.bytes /\ r.originals = s.originals
        /\ r = [turns |-> r.turns, nextID |-> r.nextID, bytes |-> r.bytes,
                originals |-> r.originals]
      BY <1>1, <1>3 DEF Begin, Store
  <2>2. e \in Turn /\ Changed(e) = {} /\ e.id = s.nextID + 1
    <3>1. <<>> \in [{} -> [before : Content, after : Content]] /\ DOMAIN <<>> = {}
        OBVIOUS
    <3>2. <<>> \in Changes
        BY <3>1 DEF Changes
    <3> QED
        BY <1>1, <3>1, <3>2 DEF Turn, Changed
  <2> HIDE DEF r, e
  <2>3. /\ r.turns \in Seq(Turn) /\ Len(r.turns) = n + 1 /\ n \in Nat /\ r.turns # <<>>
        /\ \A i \in 1..n : r.turns[i] = s.turns[i]
        /\ r.turns[n + 1] = e
      BY <1>1, <2>1, <2>2, AppendProperties, LenProperties
  <2>4. r \in Store
    <3>1. r.nextID \in Nat /\ r.bytes \in Int /\ r.originals \in [Files -> Nat]
        BY <1>1, <2>1
    <3> QED
        BY <2>1, <2>3, <3>1, StoreIntro
  <2>5. 1..(n + 1) = (1..n) \cup {n + 1}
      BY <2>3
  <2>6. IdsOrdered(r)
      BY <1>1, <2>1, <2>2, <2>3, <2>5 DEF IdsOrdered
  <2>7. LeftGone(r, L)
    <3>1. 1..s.nextID \subseteq 1..r.nextID
        BY <1>1, <2>1
    <3>2. \A u \in L : u.id \in 1..s.nextID
        BY <1>1 DEF StoreSound, LeftGone
    <3>3. ASSUME NEW u \in L, NEW i \in 1..(n + 1) PROVE r.turns[i].id # u.id
      <4>1. CASE i = n + 1
          BY <1>1, <2>2, <2>3, <3>2, <4>1
      <4>2. CASE i \in 1..n
          BY <1>1, <2>3, <4>2 DEF StoreSound, LeftGone
      <4> QED
          BY <2>5, <4>1, <4>2
    <3>4. L \subseteq [file : Files, id : 1..s.nextID, held : BOOLEAN]
        BY <1>1 DEF StoreSound, LeftGone
    <3> QED
        BY <1>1, <2>3, <3>1, <3>3, <3>4 DEF StoreSound, LeftGone
  <2>8. Kept(r) = Kept(s)
    <3>1. \A g : ~Held(r.turns[n + 1], g)
        BY <2>2, <2>3 DEF Held
    <3>2. \A p : (\E i \in 1..(n + 1) : r.turns[i].id = p[1] /\ Held(r.turns[i], p[2]))
              <=> \E i \in 1..n : s.turns[i].id = p[1] /\ Held(s.turns[i], p[2])
        BY <2>3, <2>5, <3>1
    <3> QED
        BY <2>3, <3>2 DEF Kept, Snaps
  <2>9. BytesExact(r, L) /\ OriginalsFound(r, L)
      BY <1>1, <2>1, <2>3, <2>5, <2>8
         DEF StoreSound, BytesExact, OriginalsFound, OriginalFound
  <2>10. Undoable(r) = Undoable(s)
    <3>1. DOMAIN r.turns = 1..(n + 1) /\ DOMAIN s.turns = 1..n
        BY <1>1, <2>3, LenProperties
    <3> QED
        BY <2>2, <2>3, <2>5, <3>1 DEF Undoable
  <2>11. \A f \in Files : ~InLast(r, f)
      BY <2>2, <2>3 DEF InLast, LastOf
  <2> QED
      BY <1>1, <2>1, <2>3, <2>4, <2>6, <2>7, <2>9, <2>10, <2>11
         DEF StoreInv, StoreSound, OverAlone, r
<1> QED
    BY <1>2, <1>3

-----------------------------------------------------------------------------
(* Trimming. *)

\* What trimLocked stops at: enough turns dropped, or one turn left.
Enough(s, n) == s.bytes - Weight(s.turns, n) <= MaxBytes \/ n = LastOf(s) - 1

\* trimLocked stops: there is a first number of turns after which it has room.
LEMMA TrimStops ==
    ASSUME NEW s \in Store, s.turns # <<>>
    PROVE  \E n \in 0..(LastOf(s) - 1) :
               /\ Enough(s, n)
               /\ Trim(s) = [s EXCEPT !.turns = SubSeq(@, n + 1, Len(@)),
                                      !.bytes = @ - Weight(s.turns, n),
                                      !.originals = [f \in Files |->
                                          IF \E i \in 1..n : s.turns[i].id = @[f] THEN 0 ELSE @[f]]]
<1> DEFINE S == {n \in 0..(LastOf(s) - 1) : Enough(s, n)}
           P(i) == Enough(s, i) /\ \A j \in 0..(i - 1) : ~Enough(s, j)
           n == CHOOSE i \in 0..(LastOf(s) - 1) : P(i)
<1>1. LastOf(s) \in Nat \ {0}
    BY LastTurn DEF LastOf
<1>2. LastOf(s) - 1 \in S /\ S \subseteq Nat
    BY <1>1 DEF Enough
<1>3. PICK k \in S : \A j \in S : k <= j
    BY <1>2, LeastNumber
<1>4. k \in 0..(LastOf(s) - 1) /\ P(k)
  <2>1. \A j \in 0..(k - 1) : j \in 0..(LastOf(s) - 1) /\ ~(k <= j)
      BY <1>1, <1>3
  <2> QED
      BY <1>3, <2>1
<1>5. n \in 0..(LastOf(s) - 1) /\ P(n)
    BY <1>4
<1>6. Trim(s) = [s EXCEPT !.turns = SubSeq(@, n + 1, Len(@)),
                          !.bytes = @ - Weight(s.turns, n),
                          !.originals = [f \in Files |->
                              IF \E i \in 1..n : s.turns[i].id = @[f] THEN 0 ELSE @[f]]]
    BY DEF Trim, Enough
<1> HIDE DEF n
<1> QED
    BY <1>5, <1>6


\* trimLocked keeps what it is given and brings the store under its budget, or to one turn.
LEMMA TrimKeeps ==
    ASSUME NEW s, NEW L, StoreSound(s, L), s.turns # <<>>
    PROVE  StoreInv(Trim(s), L)
<1> DEFINE r == Trim(s)
           last == Len(s.turns)
<1>1. /\ s \in Store /\ IdsOrdered(s) /\ s.turns \in Seq(Turn) /\ s.nextID \in Nat
      /\ s.bytes \in Int /\ s.originals \in [Files -> Nat] /\ last \in Nat \ {0}
    BY LastTurn DEF StoreSound, Store
<1>2. PICK n \in 0..(last - 1) :
          /\ Enough(s, n)
          /\ Trim(s) = [s EXCEPT !.turns = SubSeq(@, n + 1, Len(@)),
                                 !.bytes = @ - Weight(s.turns, n),
                                 !.originals = [f \in Files |->
                                     IF \E i \in 1..n : s.turns[i].id = @[f] THEN 0 ELSE @[f]]]
    BY <1>1, TrimStops DEF LastOf
<1> DEFINE w == Weight(s.turns, n)
<1>3. /\ r.turns = SubSeq(s.turns, n + 1, last) /\ r.nextID = s.nextID /\ r.bytes = s.bytes - w
      /\ r.originals = [f \in Files |-> IF \E i \in 1..n : s.turns[i].id = s.originals[f] THEN 0
                                        ELSE s.originals[f]]
      /\ r = [turns |-> r.turns, nextID |-> r.nextID, bytes |-> r.bytes,
              originals |-> r.originals]
    BY <1>1, <1>2 DEF Store
<1>4. w \in Nat /\ w = Cardinality(Snaps(s.turns, n)) /\ IsFiniteSet(Snaps(s.turns, n))
    BY <1>1, WeightIsSnaps, FS_CardinalityType
<1> HIDE DEF r, w
<1>5. /\ r.turns \in Seq(Turn) /\ Len(r.turns) = last - n
      /\ \A i \in 1..(last - n) : i + n \in 1..last /\ r.turns[i] = s.turns[i + n]
  <2>1. \A i \in (n + 1)..last : s.turns[i] \in Turn
      BY <1>1, ElementOfSeq
  <2>2. /\ SubSeq(s.turns, n + 1, last) \in Seq(Turn)
        /\ Len(SubSeq(s.turns, n + 1, last)) = IF n + 1 <= last THEN last - (n + 1) + 1 ELSE 0
        /\ \A i \in 1..(last - (n + 1) + 1) :
               SubSeq(s.turns, n + 1, last)[i] = s.turns[n + 1 + i - 1]
    <3>1. n + 1 \in Int /\ last \in Int
        BY <1>1
    <3> HIDE DEF last
    <3> QED
        BY <2>1, <3>1, SubSeqProperties
  <2>3. \A i \in 1..(last - n) : i + n \in 1..last /\ n + 1 + i - 1 = i + n
      BY <1>1
  <2>4. n + 1 <= last /\ last - (n + 1) + 1 = last - n
      BY <1>1
  <2> QED
      BY <1>3, <2>2, <2>3, <2>4
<1>6. r \in Store
  <2>1. r.originals \in [Files -> Nat] /\ r.bytes \in Int
      BY <1>1, <1>3, <1>4
  <2> QED
      BY <1>1, <1>3, <1>5, <2>1 DEF Store
<1>7. IdsOrdered(r)
  <2>1. ASSUME NEW i \in 1..(last - n) PROVE r.turns[i].id \in 1..r.nextID
      BY <1>1, <1>3, <1>5 DEF IdsOrdered
  <2>2. ASSUME NEW i \in 1..(last - n), NEW j \in 1..(last - n), i < j
        PROVE  r.turns[i].id < r.turns[j].id
    <3>1. i + n < j + n
        BY <2>2
    <3> QED
        BY <1>1, <1>5, <3>1 DEF IdsOrdered
  <2> QED
      BY <1>5, <2>1, <2>2 DEF IdsOrdered
<1>8. LeftGone(r, L)
  <2>1. LeftGone(s, L) /\ r.nextID = s.nextID
      BY <1>3 DEF StoreSound
  <2>2. ASSUME NEW u \in L, NEW i \in 1..(last - n) PROVE r.turns[i].id # u.id
    <3>1. i + n \in 1..Len(s.turns) /\ r.turns[i].id = s.turns[i + n].id
        BY <1>5
    <3> HIDE DEF last
    <3> QED
        BY <2>1, <3>1 DEF LeftGone
  <2> QED
      BY <1>5, <2>1, <2>2 DEF LeftGone
<1>9. \A i \in 1..last : i \notin 1..n => i - n \in 1..(last - n) /\ i = (i - n) + n
    BY <1>1
<1>10. Kept(r) = Kept(s) \ Snaps(s.turns, n) /\ Snaps(s.turns, n) \subseteq Kept(s)
  <2>1. \A i \in 1..n : i \in 1..last
      BY <1>1
  <2>2. ASSUME NEW p \in Nat \X Files, NEW i \in 1..last, s.turns[i].id = p[1], i \notin 1..n
        PROVE  p \notin Snaps(s.turns, n)
      BY <1>1, <2>1, <2>2, OneTurnPerId DEF Snaps
  <2>3. ASSUME NEW p \in Kept(r) PROVE p \in Kept(s) \ Snaps(s.turns, n)
    <3>1. PICK i \in 1..(last - n) : r.turns[i].id = p[1] /\ Held(r.turns[i], p[2])
        BY <1>5, <2>3 DEF Kept, Snaps
    <3>2. /\ s.turns[i + n].id = p[1] /\ Held(s.turns[i + n], p[2])
          /\ i + n \in 1..last
        BY <1>5, <3>1
    <3>3. i + n \notin 1..n
        OBVIOUS
    <3>4. p \in Nat \X Files
        BY <2>3 DEF Kept, Snaps
    <3> QED
        BY <2>2, <3>2, <3>3, <3>4 DEF Kept, Snaps
  <2>4. ASSUME NEW p \in Kept(s), p \notin Snaps(s.turns, n) PROVE p \in Kept(r)
    <3>1. PICK i \in 1..last : s.turns[i].id = p[1] /\ Held(s.turns[i], p[2])
        BY <2>4 DEF Kept, Snaps
    <3>2. i \notin 1..n /\ p \in Nat \X Files
        BY <2>4, <3>1 DEF Kept, Snaps
    <3>3. r.turns[i - n] = s.turns[i] /\ i - n \in 1..(last - n)
        BY <1>5, <1>9, <3>2
    <3> QED
        BY <1>5, <3>1, <3>2, <3>3 DEF Kept, Snaps
  <2>5. Snaps(s.turns, n) \subseteq Kept(s)
      BY <2>1 DEF Kept, Snaps
  <2> QED
      BY <2>3, <2>4, <2>5
<1>11. BytesExact(r, L)
  <2>1. IsFiniteSet(Kept(s)) /\ Cardinality(Kept(s)) \in Nat /\ Cardinality(LeftHeld(L)) \in Nat
      BY KeptFinite
  <2>2. Cardinality(Kept(s) \ Snaps(s.turns, n))
            = Cardinality(Kept(s)) - Cardinality(Kept(s) \cap Snaps(s.turns, n))
      BY <2>1, FS_Difference
  <2>3. Kept(s) \cap Snaps(s.turns, n) = Snaps(s.turns, n)
      BY <1>10
  <2>4. s.bytes = Cardinality(Kept(s)) + Cardinality(LeftHeld(L))
      BY DEF StoreSound, BytesExact
  <2>5. Cardinality(Kept(r)) = Cardinality(Kept(s)) - w
      BY <1>4, <1>10, <2>2, <2>3
  <2>6. r.bytes = Cardinality(Kept(r)) + Cardinality(LeftHeld(L))
      BY <1>3, <1>4, <2>1, <2>4, <2>5
  <2> QED
      BY <2>6 DEF BytesExact
<1>12. OriginalsFound(r, L)
  <2> SUFFICES ASSUME NEW f \in Files, r.originals[f] # 0 PROVE OriginalFound(r, L, f)
      BY DEF OriginalsFound
  <2>1. r.originals[f] = s.originals[f] /\ ~\E i \in 1..n : s.turns[i].id = s.originals[f]
      BY <1>3
  <2>2. OriginalFound(s, L, f)
      BY <2>1 DEF StoreSound, OriginalsFound
  <2>3. ASSUME NEW i \in 1..last, s.turns[i].id = s.originals[f], f \in Changed(s.turns[i])
        PROVE  OriginalFound(r, L, f)
    <3>1. i - n \in 1..(last - n) /\ r.turns[i - n] = s.turns[i]
        BY <1>5, <1>9, <2>1, <2>3
    <3> QED
        BY <1>5, <2>1, <2>3, <3>1 DEF OriginalFound
  <2> QED
      BY <2>1, <2>2, <2>3 DEF OriginalFound
<1>13. OverAlone(r)
  <2>1. CASE n = last - 1
    <3>1. DOMAIN r.turns = 1..1
        BY <1>1, <1>5, <2>1, LenProperties
    <3> QED
        BY <3>1 DEF OverAlone, Undoable
  <2>2. CASE s.bytes - w <= MaxBytes
      BY <1>1, <1>3, <1>4, <2>2, StoreAssumption DEF OverAlone
  <2> QED
      BY <1>2, <2>1, <2>2 DEF Enough, w, LastOf
<1> QED
    BY <1>6, <1>7, <1>8, <1>11, <1>12, <1>13 DEF StoreInv, StoreSound, r


-----------------------------------------------------------------------------
(* A snapshot. *)

\* The store with a snapshot of f, holding c, in its last turn, untrimmed.
WithSnapshot(C, f, c) ==
    [g \in DOMAIN C \cup {f} |-> IF g = f THEN [before |-> c, after |-> Absent] ELSE C[g]]

Taken(s, f, c) ==
    [s EXCEPT !.turns[LastOf(s)].changes = WithSnapshot(@, f, c),
              !.originals[f] = IF @ = 0 THEN s.turns[LastOf(s)].id ELSE @,
              !.bytes = IF c = Absent THEN @ ELSE @ + 1]

\* before, up to its trim, keeps all but the budget: one snapshot more is counted.
LEMMA TakenSound ==
    ASSUME NEW s, NEW L, StoreInv(s, L), s.turns # <<>>,
           NEW f \in Files, NEW c \in Content, ~InLast(s, f)
    PROVE  StoreSound(Taken(s, f, c), L) /\ Taken(s, f, c).turns # <<>>
<1> DEFINE r == Taken(s, f, c)
           n == LastOf(s)
           C == s.turns[n].changes
           v == WithSnapshot(C, f, c)
           w == <<s.turns[n].id, f>>
<1>1. /\ s \in Store /\ StoreSound(s, L) /\ IdsOrdered(s) /\ s.turns \in Seq(Turn)
      /\ s.nextID \in Nat /\ s.bytes \in Int /\ s.originals \in [Files -> Nat]
    BY DEF StoreInv, StoreSound, Store
<1>2. n = Len(s.turns) /\ n \in Nat \ {0} /\ n \in 1..Len(s.turns)
    BY <1>1, LastTurn DEF LastOf
<1>3. C \in Changes /\ DOMAIN C = Changed(s.turns[n]) /\ f \notin Changed(s.turns[n])
    BY <1>1, <1>2, ChangesOf DEF InLast
<1>4. /\ v \in Changes /\ DOMAIN v = DOMAIN C \cup {f} /\ v[f].before = c
      /\ \A g \in DOMAIN C : g # f => v[g] = C[g]
  <2>1. PICK S \in SUBSET Files : C \in [S -> [before : Content, after : Content]]
      BY <1>3 DEF Changes
  <2>2. [before |-> c, after |-> Absent] \in [before : Content, after : Content]
      BY DEF Content
  <2>3. v \in [S \cup {f} -> [before : Content, after : Content]] /\ S \cup {f} \in SUBSET Files
      BY <2>1, <2>2 DEF WithSnapshot
  <2> QED
      BY <2>1, <2>3 DEF Changes, WithSnapshot
<1>5. /\ r.turns = WithChanges(s.turns, n, v) /\ r.nextID = s.nextID
      /\ r.bytes = IF c = Absent THEN s.bytes ELSE s.bytes + 1
      /\ r.originals = [s.originals EXCEPT ![f] = IF @ = 0 THEN s.turns[n].id ELSE @]
      /\ r = [turns |-> r.turns, nextID |-> r.nextID, bytes |-> r.bytes,
              originals |-> r.originals]
  <2>1. s = [turns |-> s.turns, nextID |-> s.nextID, bytes |-> s.bytes,
             originals |-> s.originals]
      BY <1>1 DEF Store
  <2>2. r = [s EXCEPT !.turns[n].changes = v,
                      !.originals[f] = IF @ = 0 THEN s.turns[n].id ELSE @,
                      !.bytes = IF c = Absent THEN @ ELSE @ + 1]
      BY DEF Taken
  <2> HIDE DEF r, v, n
  <2>3. r.turns = WithChanges(s.turns, n, v) /\ r.nextID = s.nextID
      BY <2>1, <2>2 DEF WithChanges
  <2>4. r.bytes = IF c = Absent THEN s.bytes ELSE s.bytes + 1
      BY <2>1, <2>2
  <2>5. r.originals = [s.originals EXCEPT ![f] = IF @ = 0 THEN s.turns[n].id ELSE @]
      BY <2>1, <2>2
  <2>6. r = [turns |-> r.turns, nextID |-> r.nextID, bytes |-> r.bytes,
             originals |-> r.originals]
      BY <2>1, <2>2
  <2> QED
      BY <2>3, <2>4, <2>5, <2>6
<1> HIDE DEF r, v
<1>6. /\ r.turns \in Seq(Turn) /\ Len(r.turns) = Len(s.turns)
      /\ \A i \in 1..Len(s.turns) : /\ r.turns[i].id = s.turns[i].id
                                    /\ i # n => r.turns[i] = s.turns[i]
      /\ r.turns[n].changes = v
  <2> HIDE DEF w, n
  <2>1. /\ WithChanges(s.turns, n, v) \in Seq(Turn) /\ Len(WithChanges(s.turns, n, v)) = Len(s.turns)
        /\ \A i \in 1..Len(s.turns) :
              /\ WithChanges(s.turns, n, v)[i].id = s.turns[i].id
              /\ i # n => WithChanges(s.turns, n, v)[i] = s.turns[i]
        /\ WithChanges(s.turns, n, v)[n].changes = v
      BY <1>1, <1>2, <1>4, ReplaceChanges
  <2>2. r.turns = WithChanges(s.turns, n, v)
      BY <1>5
  <2> HIDE DEF C
  <2> QED
      BY <2>1, <2>2
<1>7. r \in Store
  <2>1. r.nextID \in Nat /\ r.bytes \in Int /\ r.originals \in [Files -> Nat]
      BY <1>1, <1>2, <1>5, TurnTyped
  <2>2. r.turns \in Seq(Turn)
      BY <1>6
  <2>3. [turns |-> r.turns, nextID |-> r.nextID, bytes |-> r.bytes,
         originals |-> r.originals] \in Store
      BY <2>1, <2>2, StoreIntro
  <2> QED
      BY <1>5, <2>3
<1>8. ASSUME NEW i \in 1..Len(s.turns), NEW g \in Files
      PROVE  /\ g \in Changed(r.turns[i]) <=> g \in Changed(s.turns[i]) \/ (i = n /\ g = f)
             /\ Held(r.turns[i], g) <=>
                    Held(s.turns[i], g) \/ (i = n /\ g = f /\ c # Absent)
  <2>1. CASE i # n
      BY <1>6, <2>1
  <2>2. CASE i = n
      BY <1>3, <1>4, <1>6, <2>2 DEF Changed, Held
  <2> QED
      BY <2>1, <2>2
<1>9. IdsOrdered(r) /\ LeftGone(r, L)
    BY <1>1, <1>5, <1>6, SameIds
<1>10. w \in Nat \X Files /\ w \notin Kept(s)
  <2>1. ASSUME NEW i \in 1..Len(s.turns), s.turns[i].id = w[1] PROVE i = n
      BY <1>1, <1>2, <2>1, OneTurnPerId
  <2> QED
      BY <1>1, <1>2, <1>3, <2>1, TurnTyped DEF Kept, Snaps, Held
<1>11. Kept(r) = IF c = Absent THEN Kept(s) ELSE Kept(s) \cup {w}
  <2>1. ASSUME NEW p \in Nat \X Files, NEW i \in 1..Len(s.turns), s.turns[i].id = p[1]
        PROVE  (i = n /\ p[2] = f) <=> p = w
    <3>1. p = w => i = n
        BY <1>1, <1>2, <2>1, OneTurnPerId
    <3> QED
        BY <2>1, <3>1
  <2>2. ASSUME NEW p \in Nat \X Files
        PROVE  p \in Kept(r) <=> p \in Kept(s) \/ (p = w /\ c # Absent)
    <3>1. p \in Kept(r) <=> \E i \in 1..Len(s.turns) : s.turns[i].id = p[1] /\
                               (Held(s.turns[i], p[2]) \/ (i = n /\ p[2] = f /\ c # Absent))
      <4>1. p \in Kept(r) <=> \E i \in 1..Len(s.turns) : r.turns[i].id = p[1] /\ Held(r.turns[i], p[2])
          BY <1>6 DEF Kept, Snaps
      <4>2. p[2] \in Files
          OBVIOUS
      <4> QED
          BY <1>6, <1>8, <4>1, <4>2
    <3>2. p = w => s.turns[n].id = p[1] /\ p[2] = f
        OBVIOUS
    <3> QED
        BY <1>2, <2>1, <3>1, <3>2 DEF Kept, Snaps
  <2>3. Kept(r) \subseteq Nat \X Files /\ Kept(s) \subseteq Nat \X Files
      BY DEF Kept, Snaps
  <2> HIDE DEF w
  <2> QED
      BY <1>10, <2>2, <2>3
<1>12. BytesExact(r, L)
  <2> HIDE DEF w, n
  <2>1. IsFiniteSet(Kept(s)) /\ Cardinality(Kept(s)) \in Nat /\ Cardinality(LeftHeld(L)) \in Nat
      BY <1>1, KeptFinite
  <2>2. Cardinality(Kept(s) \cup {w}) = Cardinality(Kept(s)) + 1
      BY <1>10, <2>1, FS_AddElement
  <2>3. s.bytes = Cardinality(Kept(s)) + Cardinality(LeftHeld(L))
      BY <1>1 DEF StoreSound, BytesExact
  <2> QED
      BY <1>5, <1>11, <2>1, <2>2, <2>3 DEF BytesExact
<1>13. OriginalsFound(r, L)
  <2> SUFFICES ASSUME NEW g \in Files, r.originals[g] # 0 PROVE OriginalFound(r, L, g)
      BY DEF OriginalsFound
  <2>1. CASE r.originals[g] = s.originals[g]
    <3>1. OriginalFound(s, L, g)
        BY <1>1, <2>1 DEF StoreSound, OriginalsFound
    <3> QED
        BY <1>6, <1>8, <2>1, <3>1 DEF OriginalFound
  <2>2. CASE r.originals[g] # s.originals[g]
    <3>1. g = f /\ r.originals[g] = s.turns[n].id
        BY <1>1, <1>5, <2>2
    <3> QED
        BY <1>2, <1>6, <1>8, <3>1 DEF OriginalFound
  <2> QED
      BY <2>1, <2>2
<1>14. r.turns # <<>>
    BY <1>2, <1>6, EmptySeq
<1> QED
    BY <1>7, <1>9, <1>12, <1>13, <1>14 DEF StoreSound, r

\* before keeps the invariant.
LEMMA BeforeKeeps ==
    ASSUME NEW s, NEW L, StoreInv(s, L), NEW f \in Files, NEW c \in Content
    PROVE  StoreInv(Before(s, f, c), L)
<1> DEFINE b == IF s.turns = <<>> THEN Begin(s) ELSE s
<1>1. StoreInv(b, L) /\ b.turns # <<>>
    BY BeginKeeps
<1>2. Before(s, f, c) = IF InLast(b, f) THEN b ELSE Trim(Taken(b, f, c))
    BY DEF Before, Taken, WithSnapshot
<1> HIDE DEF b
<1>3. CASE InLast(b, f)
    BY <1>1, <1>2, <1>3
<1>4. CASE ~InLast(b, f)
  <2>1. StoreSound(Taken(b, f, c), L) /\ Taken(b, f, c).turns # <<>>
      BY <1>1, <1>4, TakenSound
  <2> QED
      BY <1>2, <1>4, <2>1, TrimKeeps
<1> QED
    BY <1>3, <1>4


-----------------------------------------------------------------------------
(* Undo: the last turn with changes goes. *)

\* The turn to undo is the last with changes.
LEMMA UndoTurnIsLast ==
    ASSUME NEW s \in Store, Undoable(s) # {}
    PROVE  UndoTurn(s) \in Undoable(s) /\ \A j \in Undoable(s) : j <= UndoTurn(s)
<1> DEFINE S == {Len(s.turns) - i : i \in Undoable(s)}
<1>1. Undoable(s) \subseteq 1..Len(s.turns) /\ Len(s.turns) \in Nat
    BY LenProperties DEF Undoable, Store
<1>2. S \subseteq Nat /\ S # {}
    BY <1>1
<1>3. PICK k \in S : \A j \in S : k <= j
    BY <1>2, LeastNumber
<1>4. PICK i \in Undoable(s) : k = Len(s.turns) - i
    BY <1>3
<1>5. \A j \in Undoable(s) : j <= i
  <2> SUFFICES ASSUME NEW j \in Undoable(s) PROVE j <= i
      OBVIOUS
  <2>1. Len(s.turns) - i <= Len(s.turns) - j
      BY <1>3, <1>4
  <2> QED
      BY <1>1, <2>1
<1> QED
    BY <1>5 DEF UndoTurn

\* What an undo that could not put failed back leaves counted.
LeftOf(t, failed) ==
    {[file |-> f, id |-> t.id, held |-> t.changes[f].before # Absent] : f \in failed}

HeldIn(t, S) == {f \in S : t.changes[f].before # Absent}

\* The types of what a failed undo leaves.
LEMMA LeftTyped ==
    ASSUME NEW t, NEW S \in SUBSET Files, NEW N, t.id \in N
    PROVE  LeftOf(t, S) \subseteq [file : Files, id : N, held : BOOLEAN]
<1> SUFFICES ASSUME NEW f \in S
             PROVE  [file |-> f, id |-> t.id, held |-> t.changes[f].before # Absent]
                        \in [file : Files, id : N, held : BOOLEAN]
    BY DEF LeftOf
<1>1. CASE t.changes[f].before # Absent
  <2>1. (t.changes[f].before # Absent) = TRUE
      BY <1>1
  <2> QED
      BY <2>1
<1>2. CASE ~(t.changes[f].before # Absent)
  <2>1. (t.changes[f].before # Absent) = FALSE
      BY <1>2
  <2> QED
      BY <2>1
<1> QED
    BY <1>1, <1>2

\* As many left snapshots as failed files that existed.
LEMMA LeftHeldCount ==
    ASSUME NEW t, NEW failed, failed \subseteq Files, NEW L, IsFiniteSet(L),
           \A u \in L : u.id # t.id
    PROVE  /\ Cardinality(LeftHeld(L \cup LeftOf(t, failed)))
                = Cardinality(LeftHeld(L)) + Cardinality(HeldIn(t, failed))
           /\ IsFiniteSet(L \cup LeftOf(t, failed)) /\ IsFiniteSet(HeldIn(t, failed))
           /\ Cardinality(HeldIn(t, failed)) \in Nat /\ Cardinality(LeftHeld(L)) \in Nat
<1> DEFINE R(f) == [file |-> f, id |-> t.id, held |-> t.changes[f].before # Absent]
           M == LeftHeld(LeftOf(t, failed))
           H == HeldIn(t, failed)
           F == [f \in H |-> R(f)]
<1>1. IsFiniteSet(failed) /\ IsFiniteSet(H)
  <2>1. IsFiniteSet(failed)
      BY FS_Subset, StoreAssumption
  <2> QED
      BY <2>1, FS_Subset DEF HeldIn
<1>2. IsFiniteSet(LeftOf(t, failed))
  <2> DEFINE G == [f \in failed |-> R(f)]
  <2>1. G \in Surjection(failed, LeftOf(t, failed))
      BY DEF Surjection, LeftOf
  <2> HIDE DEF G
  <2> QED
      BY <1>1, <2>1, FS_Surjection
<1>3. M = {R(f) : f \in H}
  <2>1. \A f : R(f).held <=> t.changes[f].before # Absent
      OBVIOUS
  <2>2. LeftOf(t, failed) = {R(f) : f \in failed}
      BY DEF LeftOf
  <2> HIDE DEF R
  <2> QED
      BY <2>1, <2>2 DEF LeftHeld, HeldIn
<1>4. F \in [H -> M]
    BY <1>3
<1>5. \A f, g \in H : F[f] = F[g] => f = g
  <2> SUFFICES ASSUME NEW f \in H, NEW g \in H, F[f] = F[g] PROVE f = g
      OBVIOUS
  <2>1. R(f).file = f /\ R(g).file = g
      OBVIOUS
  <2> QED
      BY <2>1
<1>6. \A u \in M : \E f \in H : F[f] = u
    BY <1>3
<1> HIDE DEF F, M, H
<1>7. ExistsBijection(H, M)
    BY <1>4, <1>5, <1>6 DEF ExistsBijection, Bijection, Injection, Surjection, IsInjective
<1>8. IsFiniteSet(M) /\ Cardinality(M) = Cardinality(H)
    BY <1>1, <1>7, FS_Bijection
<1>9. LeftHeld(L \cup LeftOf(t, failed)) = LeftHeld(L) \cup M /\ LeftHeld(L) \cap M = {}
  <2>1. \A u \in M : u.id = t.id
      BY <1>3
  <2> QED
      BY <2>1 DEF LeftHeld, M
<1>10. IsFiniteSet(LeftHeld(L))
    BY FS_Subset DEF LeftHeld
<1>11. Cardinality(LeftHeld(L) \cup M)
           = Cardinality(LeftHeld(L)) + Cardinality(M) - Cardinality(LeftHeld(L) \cap M)
    BY <1>8, <1>10, FS_Union
<1>12. Cardinality({}) = 0
    BY FS_EmptySet
<1>13. /\ Cardinality(H) \in Nat /\ Cardinality(LeftHeld(L)) \in Nat
       /\ IsFiniteSet(L \cup LeftOf(t, failed))
    BY <1>1, <1>2, <1>10, FS_CardinalityType, FS_Union
<1>14. Cardinality(LeftHeld(L \cup LeftOf(t, failed))) = Cardinality(LeftHeld(L)) + Cardinality(H)
  <2>1. Cardinality(LeftHeld(L) \cap M) = 0
      BY <1>9, <1>12
  <2>2. Cardinality(LeftHeld(L) \cup M) = Cardinality(LeftHeld(L)) + Cardinality(H)
      BY <1>8, <1>11, <1>13, <2>1
  <2> QED
      BY <1>9, <2>2
<1> QED
    BY <1>1, <1>13, <1>14 DEF H

\* A turn removed from the sequence.
LEMMA WithoutTurn ==
    ASSUME NEW turns \in Seq(Turn), NEW i \in 1..Len(turns)
    PROVE  LET r == SubSeq(turns, 1, i - 1) \o SubSeq(turns, i + 1, Len(turns)) IN
           /\ r \in Seq(Turn) /\ Len(r) = Len(turns) - 1
           /\ \A j \in 1..(Len(turns) - 1) : r[j] = IF j < i THEN turns[j] ELSE turns[j + 1]
<1> DEFINE n == Len(turns)
           a == SubSeq(turns, 1, i - 1)
           b == SubSeq(turns, i + 1, n)
<1>1. n \in Nat /\ i \in Int /\ 1 <= i /\ i <= n /\ \A j \in 1..n : turns[j] \in Turn
    BY LenProperties, ElementOfSeq
<1>2. a \in Seq(Turn) /\ Len(a) = i - 1 /\ \A j \in 1..(i - 1) : a[j] = turns[j]
  <2>1. 1 \in Int /\ i - 1 \in Int /\ \A j \in 1..(i - 1) : turns[j] \in Turn
      BY <1>1
  <2>2. /\ a \in Seq(Turn)
        /\ Len(a) = IF 1 <= i - 1 THEN i - 1 - 1 + 1 ELSE 0
        /\ \A j \in 1..(i - 1 - 1 + 1) : a[j] = turns[1 + j - 1]
      BY <2>1, SubSeqProperties
  <2> HIDE DEF a
  <2> QED
      BY <1>1, <2>2
<1>3. b \in Seq(Turn) /\ Len(b) = n - i /\ \A j \in 1..(n - i) : b[j] = turns[i + j]
  <2>1. i + 1 \in Int /\ n \in Int /\ \A j \in (i + 1)..n : turns[j] \in Turn
      BY <1>1
  <2>2. /\ b \in Seq(Turn)
        /\ Len(b) = IF i + 1 <= n THEN n - (i + 1) + 1 ELSE 0
        /\ \A j \in 1..(n - (i + 1) + 1) : b[j] = turns[i + 1 + j - 1]
    <3> HIDE DEF n
    <3> QED
        BY <2>1, SubSeqProperties
  <2> HIDE DEF b, n
  <2>3. \A j \in 1..(n - i) : j \in 1..(n - (i + 1) + 1) /\ i + 1 + j - 1 = i + j
      BY <1>1
  <2> QED
      BY <1>1, <2>2, <2>3
<1> HIDE DEF a, b, n
<1>4. /\ a \o b \in Seq(Turn) /\ Len(a \o b) = Len(a) + Len(b)
      /\ \A j \in 1..(Len(a) + Len(b)) :
             (a \o b)[j] = IF j <= Len(a) THEN a[j] ELSE b[j - Len(a)]
    BY <1>2, <1>3, ConcatProperties
<1>5. ASSUME NEW j \in 1..(n - 1)
      PROVE  (a \o b)[j] = IF j < i THEN turns[j] ELSE turns[j + 1]
  <2>1. CASE j < i
    <3>1. j \in 1..(i - 1) /\ j <= Len(a) /\ j \in 1..(Len(a) + Len(b))
        BY <1>1, <1>2, <1>3, <2>1
    <3> QED
        BY <1>2, <1>4, <2>1, <3>1
  <2>2. CASE ~(j < i)
    <3>1. /\ j - Len(a) \in 1..(n - i) /\ ~(j <= Len(a)) /\ j \in 1..(Len(a) + Len(b))
          /\ i + (j - Len(a)) = j + 1
        BY <1>1, <1>2, <1>3, <2>2
    <3>2. (a \o b)[j] = b[j - Len(a)]
        BY <1>4, <3>1
    <3>3. b[j - Len(a)] = turns[i + (j - Len(a))]
        BY <1>3, <3>1
    <3> QED
        BY <2>2, <3>1, <3>2, <3>3
  <2> QED
      BY <2>1, <2>2
<1>6. Len(a \o b) = n - 1
    BY <1>1, <1>2, <1>3, <1>4
<1> QED
    BY <1>4, <1>5, <1>6 DEF a, b, n


\* Undo keeps the invariant, with the snapshots it could not put back left counted.
LEMMA UndoneKeeps ==
    ASSUME NEW s, NEW L, StoreInv(s, L), Undoable(s) # {},
           NEW failed, failed \subseteq Changed(s.turns[UndoTurn(s)])
    PROVE  StoreInv(Undone(s, failed), L \cup LeftOf(s.turns[UndoTurn(s)], failed))
<1> DEFINE k == UndoTurn(s)
           t == s.turns[k]
           n == Len(s.turns)
           restored == Changed(t) \ failed
           r == Undone(s, failed)
           K == L \cup LeftOf(t, failed)
<1>1. /\ s \in Store /\ StoreSound(s, L) /\ IdsOrdered(s) /\ OverAlone(s) /\ s.turns \in Seq(Turn)
      /\ s.nextID \in Nat /\ s.bytes \in Int /\ s.originals \in [Files -> Nat]
    BY DEF StoreInv, StoreSound, Store
<1>2. n \in Nat /\ DOMAIN s.turns = 1..n
    BY <1>1, LenProperties
<1>3. k \in Undoable(s) /\ k \in 1..n /\ \A j \in Undoable(s) : j <= k
    BY <1>1, <1>2, UndoTurnIsLast DEF Undoable
<1>4. t \in Turn /\ t.id \in Nat /\ Changed(t) \subseteq Files /\ t.id \in 1..s.nextID
    BY <1>1, <1>3, TurnTyped DEF IdsOrdered
<1>5. /\ r.turns = SubSeq(s.turns, 1, k - 1) \o SubSeq(s.turns, k + 1, n)
      /\ r.nextID = s.nextID
      /\ r.bytes = s.bytes - Cardinality(HeldIn(t, restored))
      /\ r.originals = [f \in Files |-> IF f \in restored /\ s.originals[f] = t.id THEN 0
                                        ELSE s.originals[f]]
      /\ r = [turns |-> r.turns, nextID |-> r.nextID, bytes |-> r.bytes,
              originals |-> r.originals]
  <2>1. r = [s EXCEPT !.turns = SubSeq(@, 1, k - 1) \o SubSeq(@, k + 1, Len(@)),
                      !.originals = [f \in Files |->
                          IF f \in restored /\ @[f] = t.id THEN 0 ELSE @[f]],
                      !.bytes = @ - Cardinality(HeldIn(t, restored))]
      BY DEF Undone, HeldIn
  <2>2. s = [turns |-> s.turns, nextID |-> s.nextID, bytes |-> s.bytes,
             originals |-> s.originals]
      BY <1>1 DEF Store
  <2> HIDE DEF r, k, t, restored
  <2> QED
      BY <2>1, <2>2
<1>6. IsFiniteSet(L) /\ \A u \in L : u.id # t.id
    BY <1>1, <1>3 DEF StoreSound, LeftGone
<1> HIDE DEF r, k
<1>7. /\ r.turns \in Seq(Turn) /\ Len(r.turns) = n - 1
      /\ \A j \in 1..(n - 1) : r.turns[j] = IF j < k THEN s.turns[j] ELSE s.turns[j + 1]
  <2> DEFINE q == SubSeq(s.turns, 1, k - 1) \o SubSeq(s.turns, k + 1, Len(s.turns))
  <2>1. /\ q \in Seq(Turn) /\ Len(q) = Len(s.turns) - 1
        /\ \A j \in 1..(Len(s.turns) - 1) :
               q[j] = IF j < k THEN s.turns[j] ELSE s.turns[j + 1]
      BY <1>1, <1>3, WithoutTurn
  <2>2. r.turns = q
      BY <1>5
  <2> HIDE DEF q
  <2> QED
      BY <2>1, <2>2
\* The turns that are left, one by one.
<1>8. /\ \A j \in 1..(n - 1) : \E i \in 1..n : i # k /\ r.turns[j] = s.turns[i]
                                     /\ (j < k => i = j) /\ (~(j < k) => i = j + 1)
      /\ \A i \in 1..n : i # k => \E j \in 1..(n - 1) : r.turns[j] = s.turns[i]
  <2>1. ASSUME NEW j \in 1..(n - 1)
        PROVE  \E i \in 1..n : i # k /\ r.turns[j] = s.turns[i]
                                     /\ (j < k => i = j) /\ (~(j < k) => i = j + 1)
    <3>1. CASE j < k
        BY <1>2, <1>3, <1>7, <3>1
    <3>2. CASE ~(j < k)
      <4>1. j + 1 \in 1..n /\ j + 1 # k
          BY <1>2, <1>3, <3>2
      <4> QED
          BY <1>7, <3>2, <4>1
    <3> QED
        BY <3>1, <3>2
  <2>2. ASSUME NEW i \in 1..n, i # k PROVE \E j \in 1..(n - 1) : r.turns[j] = s.turns[i]
    <3>1. CASE i < k
      <4>1. i \in 1..(n - 1)
          BY <1>2, <1>3, <3>1
      <4> QED
          BY <1>7, <3>1, <4>1
    <3>2. CASE ~(i < k)
      <4>1. i - 1 \in 1..(n - 1) /\ ~(i - 1 < k) /\ i - 1 + 1 = i
          BY <1>2, <1>3, <2>2, <3>2
      <4> QED
          BY <1>7, <4>1
    <3> QED
        BY <3>1, <3>2
  <2> QED
      BY <2>1, <2>2
<1>9. IsFiniteSet(K) /\ K \subseteq [file : Files, id : 1..s.nextID, held : BOOLEAN]
  <2>1. failed \subseteq Files
      BY <1>4 DEF k
  <2>2. IsFiniteSet(K)
      BY <1>6, <2>1, LeftHeldCount
  <2>3. L \subseteq [file : Files, id : 1..s.nextID, held : BOOLEAN]
      BY <1>1 DEF StoreSound, LeftGone
  <2>4. LeftOf(t, failed) \subseteq [file : Files, id : 1..s.nextID, held : BOOLEAN]
      BY <1>4, <2>1, LeftTyped
  <2> QED
      BY <2>2, <2>3, <2>4
<1>10. ASSUME NEW i \in 1..n, s.turns[i].id = t.id PROVE i = k
    BY <1>1, <1>3, <1>10, OneTurnPerId
<1>11. LeftGone(r, K)
  <2>1. ASSUME NEW u \in K, NEW j \in 1..(n - 1) PROVE r.turns[j].id # u.id
    <3>1. PICK i \in 1..n : i # k /\ r.turns[j] = s.turns[i]
        BY <1>8
    <3>2. CASE u \in L
        BY <1>1, <3>1, <3>2 DEF StoreSound, LeftGone
    <3>3. CASE u \in LeftOf(t, failed)
      <4>1. u.id = t.id
          BY <3>3 DEF LeftOf
      <4> QED
          BY <1>10, <3>1, <4>1
    <3> QED
        BY <3>2, <3>3
  <2> QED
      BY <1>5, <1>7, <1>9, <2>1 DEF LeftGone
<1>12. IdsOrdered(r)
  <2>1. \A j \in 1..(n - 1) : r.turns[j].id \in 1..r.nextID
      BY <1>1, <1>5, <1>8 DEF IdsOrdered
  <2>2. ASSUME NEW j \in 1..(n - 1), NEW l \in 1..(n - 1), j < l
        PROVE  r.turns[j].id < r.turns[l].id
    <3>1. PICK i \in 1..n : /\ r.turns[j] = s.turns[i]
                            /\ (j < k => i = j) /\ (~(j < k) => i = j + 1)
        BY <1>8
    <3>2. PICK h \in 1..n : /\ r.turns[l] = s.turns[h]
                            /\ (l < k => h = l) /\ (~(l < k) => h = l + 1)
        BY <1>8
    <3>3. i < h
        BY <1>3, <2>2, <3>1, <3>2
    <3> QED
        BY <1>1, <3>1, <3>2, <3>3 DEF IdsOrdered
  <2> QED
      BY <1>7, <2>1, <2>2 DEF IdsOrdered
<1>13. r \in Store
  <2>1. IsFiniteSet(HeldIn(t, restored))
    <3>1. IsFiniteSet(restored)
        BY <1>4, FS_Subset, StoreAssumption
    <3> QED
        BY <3>1, FS_Subset DEF HeldIn
  <2>2. Cardinality(HeldIn(t, restored)) \in Nat
      BY <2>1, FS_CardinalityType
  <2>3. r.nextID \in Nat /\ r.bytes \in Int /\ r.originals \in [Files -> Nat]
      BY <1>1, <1>5, <2>2
  <2>4. [turns |-> r.turns, nextID |-> r.nextID, bytes |-> r.bytes,
         originals |-> r.originals] \in Store
      BY <1>7, <2>3, StoreIntro
  <2> QED
      BY <1>5, <2>4

<1>14. Kept(r) = Kept(s) \ {<<t.id, f>> : f \in HeldIn(t, Changed(t))}
  <2> DEFINE W == {<<t.id, f>> : f \in HeldIn(t, Changed(t))}
  <2>1. ASSUME NEW p \in Kept(r) PROVE p \in Kept(s) \ W
    <3>1. PICK j \in 1..(n - 1) : r.turns[j].id = p[1] /\ Held(r.turns[j], p[2])
        BY <1>7, <2>1 DEF Kept, Snaps
    <3>2. PICK i \in 1..n : i # k /\ r.turns[j] = s.turns[i]
        BY <1>8
    <3>3. p \in Nat \X Files /\ p[1] # t.id
        BY <1>10, <2>1, <3>1, <3>2 DEF Kept, Snaps
    <3>4. p \notin W
        BY <3>3
    <3> HIDE DEF W
    <3> QED
        BY <3>1, <3>2, <3>3, <3>4 DEF Kept, Snaps
  <2>2. ASSUME NEW p \in Kept(s), p \notin W PROVE p \in Kept(r)
    <3>1. PICK i \in 1..n : s.turns[i].id = p[1] /\ Held(s.turns[i], p[2])
        BY <2>2 DEF Kept, Snaps
    <3>2. p \in Nat \X Files
        BY <2>2 DEF Kept, Snaps
    <3>3. i # k
      <4>1. i = k => p = <<t.id, p[2]>> /\ p[2] \in HeldIn(t, Changed(t))
          BY <3>1, <3>2 DEF Held, HeldIn
      <4> QED
          BY <2>2, <4>1
    <3>4. PICK j \in 1..(n - 1) : r.turns[j] = s.turns[i]
        BY <1>8, <3>3
    <3> QED
        BY <1>7, <3>1, <3>2, <3>4 DEF Kept, Snaps
  <2> QED
      BY <2>1, <2>2
<1>15. /\ Cardinality({<<t.id, f>> : f \in HeldIn(t, Changed(t))})
                = Cardinality(HeldIn(t, restored)) + Cardinality(HeldIn(t, failed))
       /\ IsFiniteSet({<<t.id, f>> : f \in HeldIn(t, Changed(t))})
       /\ Cardinality(HeldIn(t, restored)) \in Nat /\ Cardinality(HeldIn(t, failed)) \in Nat
  <2> DEFINE H == HeldIn(t, Changed(t))
             W == {<<t.id, f>> : f \in H}
             F == [f \in H |-> <<t.id, f>>]
  <2>1. IsFiniteSet(H) /\ IsFiniteSet(HeldIn(t, restored)) /\ IsFiniteSet(HeldIn(t, failed))
    <3>1. \A S \in SUBSET Files : IsFiniteSet(HeldIn(t, S))
      <4> SUFFICES ASSUME NEW S \in SUBSET Files PROVE IsFiniteSet(HeldIn(t, S))
          OBVIOUS
      <4>1. HeldIn(t, S) \in SUBSET Files
          BY DEF HeldIn
      <4> QED
          BY <4>1, FS_Subset, StoreAssumption
    <3>2. failed \in SUBSET Files /\ restored \in SUBSET Files
        BY <1>4 DEF k
    <3> QED
        BY <1>4, <3>1, <3>2
  <2>2. F \in Bijection(H, W)
      BY DEF Bijection, Injection, Surjection, IsInjective
  <2>3. HeldIn(t, restored) \cup HeldIn(t, failed) = H
        /\ HeldIn(t, restored) \cap HeldIn(t, failed) = {}
      BY DEF HeldIn, k
  <2> HIDE DEF F, W, H
  <2>4. IsFiniteSet(W) /\ Cardinality(W) = Cardinality(H)
      BY <2>1, <2>2, FS_Bijection DEF ExistsBijection
  <2>5. Cardinality(HeldIn(t, restored) \cup HeldIn(t, failed))
            = Cardinality(HeldIn(t, restored)) + Cardinality(HeldIn(t, failed))
              - Cardinality(HeldIn(t, restored) \cap HeldIn(t, failed))
    <3> HIDE DEF t, restored
    <3> QED
        BY <2>1, FS_Union
  <2>6. Cardinality(HeldIn(t, restored) \cap HeldIn(t, failed)) = 0
      BY <2>3, FS_EmptySet
  <2>7. Cardinality(HeldIn(t, restored)) \in Nat /\ Cardinality(HeldIn(t, failed)) \in Nat
      BY <2>1, FS_CardinalityType
  <2>8. Cardinality(W) = Cardinality(HeldIn(t, restored)) + Cardinality(HeldIn(t, failed))
    <3> HIDE DEF t, restored
    <3>1. Cardinality(HeldIn(t, restored) \cup HeldIn(t, failed)) = Cardinality(H)
        BY <2>3
    <3> QED
        BY <2>4, <2>5, <2>6, <2>7, <3>1
  <2> QED
      BY <2>4, <2>7, <2>8 DEF W, H
<1>16. BytesExact(r, K)
  <2> DEFINE W == {<<t.id, f>> : f \in HeldIn(t, Changed(t))}
  <2>1. W \subseteq Kept(s)
      BY <1>3, <1>4 DEF Kept, Snaps, Held, HeldIn
  <2>2. IsFiniteSet(Kept(s)) /\ Cardinality(Kept(s)) \in Nat
      BY <1>1, KeptFinite
  <2>3. /\ Cardinality(LeftHeld(K)) = Cardinality(LeftHeld(L)) + Cardinality(HeldIn(t, failed))
        /\ Cardinality(LeftHeld(L)) \in Nat
    <3>1. failed \subseteq Files
        BY <1>4 DEF k
    <3> QED
        BY <1>6, <3>1, LeftHeldCount
  <2>4. s.bytes = Cardinality(Kept(s)) + Cardinality(LeftHeld(L))
      BY <1>1 DEF StoreSound, BytesExact
  <2> HIDE DEF W
  <2>5. Cardinality(Kept(s) \ W) = Cardinality(Kept(s)) - Cardinality(Kept(s) \cap W)
      BY <2>2, FS_Difference
  <2>6. Kept(s) \cap W = W
      BY <2>1
  <2>7. Cardinality(Kept(r)) = Cardinality(Kept(s)) - Cardinality(W)
      BY <1>14, <2>5, <2>6 DEF W
  <2>8. Cardinality(W) = Cardinality(HeldIn(t, restored)) + Cardinality(HeldIn(t, failed))
      BY <1>15 DEF W
  <2>9. r.bytes = Cardinality(Kept(r)) + Cardinality(LeftHeld(K))
    <3> HIDE DEF t, restored, K
    <3> QED
        BY <1>5, <1>15, <2>2, <2>3, <2>4, <2>7, <2>8
  <2> QED
      BY <2>9 DEF BytesExact
<1>17. OriginalsFound(r, K)
  <2> SUFFICES ASSUME NEW f \in Files, r.originals[f] # 0 PROVE OriginalFound(r, K, f)
      BY DEF OriginalsFound
  <2>1. r.originals[f] = s.originals[f] /\ ~(f \in restored /\ s.originals[f] = t.id)
      BY <1>5
  <2>2. OriginalFound(s, L, f)
      BY <1>1, <2>1 DEF StoreSound, OriginalsFound
  <2>3. ASSUME NEW i \in 1..n, s.turns[i].id = s.originals[f], f \in Changed(s.turns[i])
        PROVE  OriginalFound(r, K, f)
    <3>1. CASE i = k
      <4>1. f \in failed /\ s.originals[f] = t.id
          BY <2>1, <2>3, <3>1
      <4>2. [file |-> f, id |-> t.id, held |-> t.changes[f].before # Absent] \in K
          BY <4>1 DEF LeftOf
      <4> HIDE DEF K, t
      <4>3. \E u \in K : u.file = f /\ u.id = t.id
          BY <4>2
      <4> QED
          BY <2>1, <4>1, <4>3 DEF OriginalFound
    <3>2. CASE i # k
      <4>1. PICK j \in 1..(n - 1) : r.turns[j] = s.turns[i]
          BY <1>8, <3>2
      <4> QED
          BY <1>7, <2>1, <2>3, <4>1 DEF OriginalFound
    <3> QED
        BY <3>1, <3>2
  <2>4. ASSUME NEW u \in L, u.file = f, u.id = s.originals[f] PROVE OriginalFound(r, K, f)
      BY <2>1, <2>4 DEF OriginalFound
  <2> QED
      BY <2>2, <2>3, <2>4 DEF OriginalFound
<1>18. OverAlone(r)
  <2> SUFFICES ASSUME r.bytes > MaxBytes PROVE Undoable(r) = {}
      BY DEF OverAlone
  <2>1. s.bytes > MaxBytes
    <3> HIDE DEF t, restored
    <3> QED
        BY <1>1, <1>5, <1>15, StoreAssumption
  <2>2. \A i \in Undoable(s) : i = k
      BY <1>1, <1>3, <2>1 DEF OverAlone
  <2>3. \A i \in 1..n : i # k => Changed(s.turns[i]) = {}
      BY <1>2, <2>2 DEF Undoable
  <2>4. DOMAIN r.turns = 1..(n - 1)
      BY <1>7, LenProperties
  <2>5. ASSUME NEW j \in 1..(n - 1) PROVE Changed(r.turns[j]) = {}
    <3>1. PICK i \in 1..n : i # k /\ r.turns[j] = s.turns[i]
        BY <1>8
    <3> QED
        BY <2>3, <3>1
  <2> QED
      BY <2>4, <2>5 DEF Undoable
<1> QED
    BY <1>11, <1>12, <1>13, <1>16, <1>17, <1>18 DEF StoreInv, StoreSound, r, k
=============================================================================
