------------------------- MODULE BlockBuilderProofs -------------------------
(* Proofs about the mempool, for all actions, threads, spaces and limits. *)
EXTENDS BlockBuilder, FiniteSetTheorems, WellFoundedInduction, TLAPS

\* No two live slots hold one action.
Unique(S) == \A x, y \in S : ~x.dead /\ ~y.dead /\ x.act = y.act => x = y

\* Indices are cardinalities, so type correctness needs finiteness.
FiniteInv == TypeOK /\ IsFiniteSet(slots) /\ IsFiniteSet(disk)

\* What makes NoDuplicatePending and DurableMempool inductive.
PoolInv ==
  /\ FiniteInv
  /\ Unique(slots)
  /\ Unique(disk)
  /\ Live(slots) \subseteq seen
  /\ Live(slots) \subseteq Live(disk)

-----------------------------------------------------------------------------
(* Operators *)

\* Eviction picks slots of the set it is given, and live ones.
LEMMA VictimsLive ==
  ASSUME NEW full, NEW S, NEW V \in Victims(full, S)
  PROVE  V \subseteq S /\ \A x \in V : ~x.dead
<1>1. \A x \in Lowest(S) : x \in S /\ ~x.dead
  <2>1. \A x \in Lowest(S) : x \in S /\ PowAt(x) > 0
    BY DEF Lowest
  <2>2. \A x : x.dead => PowAt(x) = 0
    BY DEF PowAt
  <2> QED BY <2>1, <2>2
<1>2. V = {} \/ \E x \in Lowest(S) : V = {x}
  BY DEF Victims
<1> QED BY <1>1, <1>2

\* A set of slots stays a finite set of slots when some become tombstones.
LEMMA TombstonedType ==
  ASSUME slots \subseteq Slot, IsFiniteSet(slots), NEW V \in SUBSET slots
  PROVE  Tombstoned(V) \subseteq Slot /\ IsFiniteSet(Tombstoned(V))
<1> DEFINE D == {Dead(x) : x \in V}
           f == [x \in V |-> Dead(x)]
<1>1. D \subseteq Slot
  <2>1. \A x \in V : Dead(x) \in Slot
    BY DEF Dead, Slot
  <2> QED BY <2>1
<1>2. f \in Surjection(V, D)
  BY DEF Surjection
<1>3. IsFiniteSet(V) /\ IsFiniteSet(slots \ V)
  BY FS_Subset
<1>4. IsFiniteSet(D)
  <2> HIDE DEF D, f
  <2> QED BY <1>2, <1>3, FS_Surjection
<1>5. Tombstoned(V) = (slots \ V) \cup D
  BY DEF Tombstoned
<1>6. IsFiniteSet((slots \ V) \cup D)
  <2> HIDE DEF D
  <2> QED BY <1>3, <1>4, FS_Union, ZenonT(60)
<1> QED BY <1>1, <1>5, <1>6

\* Tombstones hide exactly the actions they cover.
LEMMA TombstonedLive ==
  ASSUME Unique(slots), NEW V \in SUBSET slots, \A x \in V : ~x.dead
  PROVE  /\ Live(Tombstoned(V)) \subseteq Live(slots)
         /\ Live(Tombstoned(V)) \cap Live(V) = {}
         /\ Unique(Tombstoned(V))
<1>1. \A x \in Tombstoned(V) : ~x.dead => x \in slots \ V
  BY DEF Tombstoned, Dead
<1>2. Live(Tombstoned(V)) \subseteq Live(slots)
  BY <1>1 DEF Live
<1>3. Live(Tombstoned(V)) \cap Live(V) = {}
  BY <1>1 DEF Live, Unique
<1>4. Unique(Tombstoned(V))
  BY <1>1 DEF Unique
<1> QED BY <1>2, <1>3, <1>4

\* A new slot is a slot, live, and holds its action.
LEMMA NewSlotType ==
  ASSUME NEW a \in Actions, NEW S, IsFiniteSet(S)
  PROVE  /\ NewSlot(a, S) \in Slot
         /\ NewSlot(a, S).act = a
         /\ ~NewSlot(a, S).dead
<1>1. Cardinality(InThread(S, ThreadOf[a])) \in Nat
  <2>1. IsFiniteSet(InThread(S, ThreadOf[a]))
    BY FS_Subset DEF InThread
  <2> QED BY <2>1, FS_CardinalityType
<1>2. ThreadOf[a] \in Threads
  BY BuilderConstants
<1> QED BY <1>1, <1>2 DEF NewSlot, Slot

\* Saturating subtraction of naturals is a natural.
LEMMA MinusNat ==
  ASSUME NEW m \in Nat, NEW n \in Nat
  PROVE  Minus(m, n) \in Nat
BY DEF Minus

\* The counters stay naturals when slots are taken off them.
LEMMA CountsType ==
  ASSUME TypeOK, NEW V, IsFiniteSet(V)
  PROVE  /\ CountsWithout(V) \in [Spaces -> Nat]
         /\ Minus(total, Cardinality(V)) \in Nat
<1>1. \A s \in Spaces : Cardinality(InSpace(V, s)) \in Nat
  BY FS_Subset, FS_CardinalityType DEF InSpace
<1>2. \A s \in Spaces : Minus(counts[s], Cardinality(InSpace(V, s))) \in Nat
  BY <1>1, MinusNat DEF TypeOK
<1>3. Minus(total, Cardinality(V)) \in Nat
  BY FS_CardinalityType, MinusNat, ZenonT(60) DEF TypeOK
<1> QED BY <1>2, <1>3 DEF CountsWithout

\* Locations are recorded for actions only.
LEMMA LocatedType ==
  ASSUME NEW f, DOMAIN f \subseteq Actions, NEW a \in Actions, NEW x, NEW A
  PROVE  /\ DOMAIN Without(f, A) \subseteq Actions
         /\ DOMAIN Located(Without(f, A), a, x) \subseteq Actions
BY DEF Located, Without

\* Closing ranks keeps a finite set of slots, drops the actions of the block
\* and duplicates nothing.
LEMMA RetainedType ==
  ASSUME slots \subseteq Slot, IsFiniteSet(slots), NEW A
  PROVE  /\ Retained(A) \subseteq Slot
         /\ IsFiniteSet(Retained(A))
         /\ Live(Retained(A)) = Live(slots) \ A
         /\ Unique(slots) => Unique(Retained(A))
<1> DEFINE S == {x \in slots : x.dead \/ x.act \notin A}
           n(x) == Cardinality({y \in InThread(S, x.thread) : y.idx <= x.idx})
           g(x) == [thread |-> x.thread, act |-> x.act, dead |-> x.dead, idx |-> n(x)]
           f == [x \in S |-> g(x)]
           T == {g(x) : x \in S}
<1>1. Retained(A) = T
  BY DEF Retained
<1>2. IsFiniteSet(S)
  BY FS_Subset
<1>3. \A x \in S : n(x) \in Nat
  <2> TAKE x \in S
  <2> DEFINE Y == {y \in InThread(S, x.thread) : y.idx <= x.idx}
  <2>1. Y \subseteq S
    BY DEF InThread
  <2>2. IsFiniteSet(Y)
    BY <1>2, <2>1, FS_Subset, ZenonT(60)
  <2> QED BY <2>2, FS_CardinalityType
<1>4. T \subseteq Slot
  <2> HIDE DEF n
  <2> QED BY <1>3 DEF Slot
<1>5. IsFiniteSet(T)
  <2>1. f \in Surjection(S, T)
    <3> HIDE DEF n
    <3> QED BY ZenonT(60) DEF Surjection
  <2> HIDE DEF S, T, f
  <2> QED BY <1>2, <2>1, FS_Surjection
<1>6. \A x \in S : g(x).act = x.act /\ g(x).dead = x.dead
  <2> HIDE DEF n
  <2> QED OBVIOUS
<1>7. Live(T) = Live(slots) \ A
  <2> HIDE DEF g
  <2> QED BY <1>6 DEF Live
<1>8. Unique(slots) => Unique(T)
  <2> HIDE DEF g
  <2> QED BY <1>6 DEF Unique
<1> QED BY <1>1, <1>4, <1>5, <1>7, <1>8, ZenonT(60)

-----------------------------------------------------------------------------
(* Type correctness *)

\* The conjuncts of the type invariant that offering an action can disturb.
PoolType ==
  /\ slots \subseteq Slot /\ IsFiniteSet(slots)
  /\ disk \subseteq Slot /\ IsFiniteSet(disk)
  /\ seen \subseteq Actions
  /\ DOMAIN locations \subseteq Actions
  /\ counts \in [Spaces -> Nat]
  /\ total \in Nat
  /\ kept \subseteq Actions

\* Offering an action to the mempool keeps its variables well-typed.
LEMMA OfferType ==
  ASSUME FiniteInv, NEW a \in Actions, OfferAction(a)
  PROVE  PoolType'
<1> DEFINE s == SpaceOf[ThreadOf[a]]
<1>0. /\ slots \subseteq Slot /\ IsFiniteSet(slots)
      /\ disk \subseteq Slot /\ IsFiniteSet(disk)
      /\ seen \subseteq Actions
      /\ DOMAIN locations \subseteq Actions
      /\ counts \in [Spaces -> Nat]
      /\ total \in Nat
      /\ kept \subseteq Actions
      /\ TypeOK
  BY DEF FiniteInv, TypeOK
<1>1. ASSUME NEW V \in SUBSET slots
      PROVE  IsFiniteSet(V)
  BY <1>0, <1>1, FS_Subset, ZenonT(60)
<1>2. ASSUME NEW V \in SUBSET slots, Refuse(V)
      PROVE  PoolType'
  <2>1. slots' \subseteq Slot /\ IsFiniteSet(slots')
    BY <1>0, <1>2, TombstonedType, ZenonT(60) DEF Refuse
  <2>2. counts' \in [Spaces -> Nat] /\ total' \in Nat
    BY <1>0, <1>1, <1>2, CountsType, ZenonT(60) DEF Refuse
  <2>3. DOMAIN locations' \subseteq Actions
    BY <1>0, <1>2, LocatedType DEF Refuse
  <2> QED BY <1>0, <1>2, <2>1, <2>2, <2>3, ZenonT(60) DEF Refuse, PoolType
<1>3. ASSUME NEW V \in SUBSET slots, Accept(a, V)
      PROVE  PoolType'
  <2> DEFINE S == Tombstoned(V)
             x == NewSlot(a, S)
  <2>1. S \subseteq Slot /\ IsFiniteSet(S)
    BY <1>0, TombstonedType
  <2>2. x \in Slot
    BY <2>1, NewSlotType, ZenonT(60)
  <2>3. slots' = S \cup {x} /\ disk' = slots'
    BY <1>3 DEF Accept
  <2>4. slots' \subseteq Slot /\ IsFiniteSet(slots')
    <3> HIDE DEF S, x
    <3> QED BY <2>1, <2>2, <2>3, FS_AddElement, ZenonT(60)
  <2>5. counts' \in [Spaces -> Nat] /\ total' \in Nat
    <3>1. /\ CountsWithout(V) \in [Spaces -> Nat]
          /\ Minus(total, Cardinality(V)) \in Nat
      BY <1>0, <1>1, CountsType, ZenonT(60)
    <3>2. counts' = [CountsWithout(V) EXCEPT ![s] = @ + 1]
      BY <1>3, ZenonT(60) DEF Accept
    <3>3. total' = Minus(total, Cardinality(V)) + 1
      BY <1>3 DEF Accept
    <3>4. \A c \in [Spaces -> Nat] : [c EXCEPT ![s] = @ + 1] \in [Spaces -> Nat]
      <4>1. s \in Spaces
        BY BuilderConstants, ZenonT(60)
      <4> HIDE DEF s
      <4> QED BY ONLY <4>1
    <3>5. counts' \in [Spaces -> Nat]
      BY ONLY <3>1, <3>2, <3>4
    <3>6. total' \in Nat
      BY ONLY <3>1, <3>3
    <3> QED BY <3>5, <3>6
  <2>6. DOMAIN locations' \subseteq Actions
    BY <1>0, <1>3, LocatedType, ZenonT(60) DEF Accept
  <2>7. seen' \subseteq Actions /\ kept' \subseteq Actions
    BY <1>0, <1>3 DEF Accept
  <2>8. disk' \subseteq Slot /\ IsFiniteSet(disk')
    BY <2>3, <2>4, ZenonT(60)
  <2> QED BY ONLY <2>4, <2>5, <2>6, <2>7, <2>8 DEF PoolType
<1>4. CASE AddAction(a)
  <2>1. PICK V \in Victims(SpaceFull(s), InSpace(slots, s)) :
          IF TooWeak(a, V) THEN Refuse(V)
          ELSE \E W \in Victims(PoolFull(Minus(total, Cardinality(V))), slots \ V) :
                 IF TooWeak(a, W) THEN Refuse(V \cup W) ELSE Accept(a, V \cup W)
    BY <1>4, ZenonT(60) DEF AddAction
  <2>2. V \in SUBSET slots
    BY VictimsLive DEF InSpace
  <2>3. CASE TooWeak(a, V)
    BY <1>2, <2>1, <2>2, <2>3, ZenonT(60)
  <2>4. CASE ~TooWeak(a, V)
    <3>1. PICK W \in Victims(PoolFull(Minus(total, Cardinality(V))), slots \ V) :
            IF TooWeak(a, W) THEN Refuse(V \cup W) ELSE Accept(a, V \cup W)
      BY <2>1, <2>4, ZenonT(60)
    <3>2. V \cup W \in SUBSET slots
      BY <2>2, VictimsLive
    <3> QED BY <1>2, <1>3, <3>1, <3>2
  <2> QED BY <2>3, <2>4
<1>5. CASE ReplaceAction(a)
  <2>1. PICK old \in Targets(a) :
          /\ slots' = Tombstoned({old}) \cup {NewSlot(a, Tombstoned({old}))}
          /\ locations' = Located(Without(locations, {Replaces[a]}), a,
                                  NewSlot(a, Tombstoned({old})))
    BY <1>5, ZenonT(60) DEF ReplaceAction
  <2>2. {old} \in SUBSET slots
    BY DEF Targets
  <2>3. Tombstoned({old}) \subseteq Slot /\ IsFiniteSet(Tombstoned({old}))
    BY <1>0, <2>2, TombstonedType, ZenonT(60)
  <2>4. NewSlot(a, Tombstoned({old})) \in Slot
    BY <2>3, NewSlotType
  <2>5. slots' \subseteq Slot /\ IsFiniteSet(slots')
    BY <2>1, <2>3, <2>4, FS_AddElement, ZenonT(60)
  <2>6. DOMAIN locations' \subseteq Actions
    BY <1>0, <2>1, LocatedType, ZenonT(60)
  <2>7. /\ seen' \subseteq Actions /\ kept' \subseteq Actions
        /\ UNCHANGED <<counts, total, disk>>
    BY <1>0, <1>5, ZenonT(60) DEF ReplaceAction
  <2> QED BY <1>0, <2>5, <2>6, <2>7 DEF PoolType
<1>6. CASE RejectAction(a)
  BY <1>0, <1>6, ZenonT(60) DEF RejectAction, mempool, PoolType
<1> QED BY <1>4, <1>5, <1>6, ZenonT(60) DEF OfferAction

\* Every step keeps the type invariant, and slots and disk finite.
LEMMA FiniteStep == FiniteInv /\ [Next]_vars => FiniteInv'
<1> SUFFICES ASSUME FiniteInv, [Next]_vars
             PROVE  FiniteInv'
  OBVIOUS
<1> USE DEF FiniteInv
<1>1. ASSUME NEW a \in Actions, Announce(a)
      PROVE  FiniteInv'
  BY <1>1, ZenonT(60) DEF Announce, TypeOK, mempool, chain
<1>2. ASSUME NEW a \in Actions, Submit(a)
      PROVE  FiniteInv'
  <2>1. PoolType'
    BY <1>2, OfferType, ZenonT(60) DEF Submit
  <2> QED BY <1>2, <2>1 DEF Submit, PoolType, TypeOK, chain
<1>3. ASSUME NEW a \in Actions, Reorg(a)
      PROVE  FiniteInv'
  <2>1. PoolType'
    BY <1>3, OfferType DEF Reorg
  <2> QED BY <1>3, <2>1 DEF Reorg, PoolType, TypeOK
<1>4. ASSUME NEW U \in SUBSET Outsiders, BuildRootBlock(U)
      PROVE  FiniteInv'
  <2>1. formed' \subseteq slots /\ Live({x \in slots : Actor[x.act] \in U}) \subseteq Actions
    BY <1>4, ZenonT(60) DEF BuildRootBlock, TypeOK, Live, Slot
  <2> QED BY <1>4, <2>1, FS_EmptySet, ZenonT(60) DEF BuildRootBlock, TypeOK
<1>5. ASSUME NEW U \in SUBSET Outsiders, Discard(U)
      PROVE  FiniteInv'
  BY <1>5 DEF Discard, TypeOK, mempool, chain
<1>6. ASSUME NEW c \in BOOLEAN, StoreFormed(c)
      PROVE  FiniteInv'
  <2>1. Live(formed) \subseteq Actions
    BY ZenonT(60) DEF TypeOK, Live, Slot
  <2> QED BY <1>6, <2>1 DEF StoreFormed, TypeOK, mempool
<1>7. ASSUME NEW A \in NetworkBlocks, ReceiveBlock(A)
      PROVE  FiniteInv'
  <2>1. A \subseteq Actions
    BY BuilderConstants, ZenonT(60)
  <2>2. slots' \subseteq Slot /\ IsFiniteSet(slots')
    BY <1>7, RetainedType, ZenonT(60) DEF ReceiveBlock, TypeOK
  <2>3. disk' \subseteq Slot /\ IsFiniteSet(disk')
    BY <1>7, <2>2 DEF ReceiveBlock, TypeOK
  <2>4. IsFiniteSet(Removed(A))
    BY FS_Subset DEF Removed
  <2>5. counts' \in [Spaces -> Nat] /\ total' \in Nat
    BY <1>7, <2>4, CountsType, ZenonT(60) DEF ReceiveBlock
  <2>6. DOMAIN locations' \subseteq Actions
    BY <1>7, ZenonT(60) DEF ReceiveBlock, TypeOK, Without
  <2> QED BY <1>7, <2>1, <2>2, <2>3, <2>5, <2>6, ZenonT(60) DEF ReceiveBlock, TypeOK
<1>8. ASSUME NEW A \in NetworkBlocks, SyncBlock(A)
      PROVE  FiniteInv'
  BY <1>8, BuilderConstants DEF SyncBlock, TypeOK, mempool
<1>9. ASSUME Restart
      PROVE  FiniteInv'
  <2>1. Live(disk) \subseteq Actions
    BY DEF TypeOK, Live, Slot
  <2>2. \A s \in Spaces : Cardinality(InSpace(disk, s)) \in Nat
    BY FS_Subset, FS_CardinalityType DEF InSpace
  <2>3. Cardinality(disk) \in Nat
    BY FS_CardinalityType
  <2>4. counts' \in [Spaces -> Nat] /\ total' \in Nat
    BY <1>9, <2>2, <2>3 DEF Restart
  <2>5. DOMAIN locations' \subseteq Actions
    BY <1>9, <2>1 DEF Restart
  <2> QED BY <1>9, <2>1, <2>4, <2>5, ZenonT(60) DEF Restart, Restored, TypeOK
<1>10. ASSUME UNCHANGED vars
       PROVE  FiniteInv'
  BY <1>10 DEF vars, TypeOK
<1> QED
  BY <1>1, <1>2, <1>3, <1>4, <1>5, <1>6, <1>7, <1>8, <1>9, <1>10, ZenonT(60) DEF Next

\* The empty mempool is well-typed and finite.
LEMMA FiniteInit == Init => FiniteInv
<1> SUFFICES ASSUME Init PROVE FiniteInv
  OBVIOUS
<1>1. IsFiniteSet(slots) /\ IsFiniteSet(disk)
  BY FS_EmptySet DEF Init
<1>2. TypeOK
  BY ZenonT(60) DEF Init, TypeOK
<1> QED BY <1>1, <1>2 DEF FiniteInv

\* The mempool's variables keep their types for ever, with or without
\* Replace-In-Mempool (add_action, clear_finalized_actions, load_persisted).
THEOREM TypeCorrect == Spec => []TypeOK
<1>1. Init => FiniteInv
  BY FiniteInit
<1>2. FiniteInv => TypeOK
  BY DEF FiniteInv
<1> QED BY <1>1, <1>2, FiniteStep, PTL DEF Spec

-----------------------------------------------------------------------------
(* No duplicates, nothing pending that is not on disk *)

\* An action that is offered and replaces nothing keeps the pending set free of
\* duplicates, known to the dedup set and covered by the disk.
LEMMA OfferPool ==
  ASSUME PoolInv, NEW a \in Actions, OfferAction(a), Replaces[a] = NoAction
  PROVE  /\ Unique(slots)' /\ Unique(disk)'
         /\ (Live(slots) \subseteq seen)'
         /\ (Live(slots) \subseteq Live(disk))'
<1> DEFINE s == SpaceOf[ThreadOf[a]]
           Goal == /\ Unique(slots)' /\ Unique(disk)'
                   /\ (Live(slots) \subseteq seen)'
                   /\ (Live(slots) \subseteq Live(disk))'
<1>0. /\ Unique(slots) /\ Unique(disk)
      /\ Live(slots) \subseteq seen
      /\ Live(slots) \subseteq Live(disk)
      /\ slots \subseteq Slot /\ IsFiniteSet(slots)
  BY ZenonT(60) DEF PoolInv, FiniteInv, TypeOK
<1>1. ASSUME NEW V \in SUBSET slots, \A x \in V : ~x.dead, Refuse(V)
      PROVE  Goal
  <2>1. slots' = Tombstoned(V) /\ seen' = seen \ Live(V) /\ disk' = disk
    BY <1>1 DEF Refuse
  <2>2. /\ Live(Tombstoned(V)) \subseteq Live(slots)
        /\ Live(Tombstoned(V)) \cap Live(V) = {}
        /\ Unique(Tombstoned(V))
    BY <1>0, <1>1, TombstonedLive, ZenonT(60)
  <2>3. Unique(slots)' /\ Unique(disk)'
    BY <1>0, <2>1, <2>2, ZenonT(60) DEF Unique
  <2>4. Live(slots)' = Live(Tombstoned(V)) /\ Live(disk)' = Live(disk)
    BY <2>1, ZenonT(60) DEF Live
  <2> QED BY <1>0, <2>1, <2>2, <2>3, <2>4, ZenonT(60)
<1>2. ASSUME NEW V \in SUBSET slots, \A x \in V : ~x.dead, Accept(a, V), a \notin seen
      PROVE  Goal
  <2> DEFINE S == Tombstoned(V)
             x == NewSlot(a, S)
  <2>1. slots' = S \cup {x} /\ seen' = (seen \ Live(V)) \cup {a} /\ disk' = slots'
    BY <1>2, ZenonT(60) DEF Accept
  <2>2. /\ Live(S) \subseteq Live(slots)
        /\ Live(S) \cap Live(V) = {}
        /\ Unique(S)
    BY <1>0, <1>2, TombstonedLive, ZenonT(60)
  <2>3. x.act = a /\ ~x.dead
    BY <1>0, TombstonedType, NewSlotType, ZenonT(60)
  <2>4. a \notin Live(S)
    BY <1>0, <1>2, <2>2, ZenonT(60)
  <2> HIDE DEF S, x
  <2>5. Unique(S \cup {x})
    BY <2>2, <2>3, <2>4, ZenonT(60) DEF Unique, Live
  <2>6. Live(S \cup {x}) = Live(S) \cup {a}
    BY <2>3, ZenonT(60) DEF Live
  <2>7. /\ Unique(slots)' /\ Unique(disk)'
        /\ Live(slots)' = Live(S \cup {x}) /\ Live(disk)' = Live(slots)'
    BY <2>1, <2>5, ZenonT(60) DEF Unique, Live
  <2> QED BY <1>0, <2>1, <2>2, <2>6, <2>7, ZenonT(60)
<1>3. CASE AddAction(a)
  <2>0. a \notin seen
    BY <1>3, SMTT(60) DEF AddAction
  <2>1. PICK V \in Victims(SpaceFull(s), InSpace(slots, s)) :
          IF TooWeak(a, V) THEN Refuse(V)
          ELSE \E W \in Victims(PoolFull(Minus(total, Cardinality(V))), slots \ V) :
                 IF TooWeak(a, W) THEN Refuse(V \cup W) ELSE Accept(a, V \cup W)
    BY <1>3, ZenonT(60) DEF AddAction
  <2>2. V \in SUBSET slots /\ \A x \in V : ~x.dead
    BY VictimsLive DEF InSpace
  <2>3. CASE TooWeak(a, V)
    BY <1>1, <2>1, <2>2, <2>3, ZenonT(60)
  <2>4. CASE ~TooWeak(a, V)
    <3>1. PICK W \in Victims(PoolFull(Minus(total, Cardinality(V))), slots \ V) :
            IF TooWeak(a, W) THEN Refuse(V \cup W) ELSE Accept(a, V \cup W)
      BY <2>1, <2>4, ZenonT(60)
    <3>2. V \cup W \in SUBSET slots /\ \A x \in V \cup W : ~x.dead
      BY <2>2, VictimsLive
    <3> QED BY <1>1, <1>2, <2>0, <3>1, <3>2
  <2> QED BY <2>3, <2>4, ZenonT(60)
<1>4. CASE RejectAction(a)
  BY <1>0, <1>4, ZenonT(60) DEF RejectAction, mempool, Unique, Live
<1>5. ~ReplaceAction(a)
  BY DEF ReplaceAction
<1> QED BY <1>3, <1>4, <1>5, ZenonT(60) DEF OfferAction

\* The empty mempool satisfies the invariant of the pending set.
LEMMA PoolInit == Init => PoolInv
<1> SUFFICES ASSUME Init PROVE PoolInv
  OBVIOUS
<1>1. slots = {} /\ disk = {}
  BY DEF Init
<1>2. Live(slots) = {} /\ Unique(slots) /\ Unique(disk)
  BY <1>1, ZenonT(60) DEF Live, Unique
<1> QED BY <1>2, FiniteInit DEF PoolInv

\* The invariant of the pending set is inductive when nothing is replaced.
LEMMA PoolStep ==
  ASSUME \A a \in Actions : Replaces[a] = NoAction
  PROVE  PoolInv /\ [Next]_vars => PoolInv'
<1> SUFFICES ASSUME PoolInv, [Next]_vars
             PROVE  PoolInv'
  OBVIOUS
<1>0. FiniteInv'
  BY FiniteStep DEF PoolInv
<1> SUFFICES /\ Unique(slots)' /\ Unique(disk)'
             /\ (Live(slots) \subseteq seen)'
             /\ (Live(slots) \subseteq Live(disk))'
  BY <1>0, ZenonT(60) DEF PoolInv
<1> DEFINE Goal == /\ Unique(slots)' /\ Unique(disk)'
                   /\ (Live(slots) \subseteq seen)'
                   /\ (Live(slots) \subseteq Live(disk))'
<1>1. ASSUME UNCHANGED <<slots, seen, disk>>
      PROVE  Goal
  BY <1>1 DEF PoolInv, Unique, Live
<1>2. ASSUME NEW a \in Actions, Announce(a) \/ Submit(a) \/ Reorg(a)
      PROVE  Goal
  <2>1. CASE Announce(a)
    BY <1>1, <2>1 DEF Announce, mempool
  <2>2. CASE Submit(a)
    BY <2>2, OfferPool DEF Submit
  <2>3. CASE Reorg(a)
    BY <2>3, OfferPool, ZenonT(60) DEF Reorg
  <2> QED BY <1>2, <2>1, <2>2, <2>3, ZenonT(60)
<1>3. ASSUME NEW U \in SUBSET Outsiders, BuildRootBlock(U)
      PROVE  Goal
  BY <1>3, ZenonT(60) DEF BuildRootBlock, Unique, Live
<1>4. ASSUME NEW U \in SUBSET Outsiders, Discard(U)
      PROVE  Goal
  BY <1>1, <1>4 DEF Discard, mempool
<1>5. ASSUME NEW c \in BOOLEAN, StoreFormed(c)
      PROVE  Goal
  BY <1>1, <1>5, ZenonT(60) DEF StoreFormed, mempool
<1>6. ASSUME NEW A \in NetworkBlocks, ReceiveBlock(A)
      PROVE  Goal
  <2>1. Live(Retained(A)) = Live(slots) \ A /\ Unique(Retained(A))
    BY RetainedType DEF PoolInv, FiniteInv, TypeOK
  <2>2. /\ slots' = Retained(A) /\ seen' = seen \ A
        /\ disk' = disk \/ disk' = slots'
    BY <1>6, ZenonT(60) DEF ReceiveBlock
  <2>3. Live(slots)' = Live(Retained(A)) /\ Unique(slots)'
    BY <2>1, <2>2, ZenonT(60) DEF Live, Unique
  <2>4. Unique(disk)' /\ (Live(disk)' = Live(disk) \/ Live(disk)' = Live(slots)')
    BY <2>2, <2>3 DEF Live, Unique, PoolInv
  <2> QED BY <2>1, <2>2, <2>3, <2>4, ZenonT(60) DEF PoolInv
<1>7. ASSUME NEW A \in NetworkBlocks, SyncBlock(A)
      PROVE  Goal
  BY <1>1, <1>7, ZenonT(60) DEF SyncBlock, mempool
<1>8. ASSUME Restart
      PROVE  Goal
  BY <1>8, ZenonT(60) DEF Restart, Restored, PoolInv, Unique, Live
<1>9. ASSUME UNCHANGED vars
      PROVE  Goal
  BY <1>1, <1>9 DEF vars
<1> QED BY <1>2, <1>3, <1>4, <1>5, <1>6, <1>7, <1>8, <1>9, ZenonT(60) DEF Next

\* While nothing is replaced, no action is pending twice and the dedup set
\* knows every pending action, through evictions, network blocks,
\* reorganisations and restarts.
THEOREM PendingOnce ==
  ASSUME \A a \in Actions : Replaces[a] = NoAction
  PROVE  Spec => []NoDuplicatePending
<1>1. Init => PoolInv
  BY PoolInit
<1>2. PoolInv => NoDuplicatePending
  BY DEF PoolInv, Unique, NoDuplicatePending
<1>3. PoolInv /\ [Next]_vars => PoolInv'
  BY PoolStep, ZenonT(60)
<1> QED BY <1>1, <1>2, <1>3, PTL DEF Spec

\* While nothing is replaced, whatever is pending is in the persisted file, so
\* a restart at any moment finds it.
THEOREM PendingOnDisk ==
  ASSUME \A a \in Actions : Replaces[a] = NoAction
  PROVE  Spec => []DurableMempool
<1>1. Init => PoolInv
  BY PoolInit
<1>2. PoolInv => DurableMempool
  BY DEF PoolInv, DurableMempool
<1>3. PoolInv /\ [Next]_vars => PoolInv'
  BY PoolStep
<1> QED BY <1>1, <1>2, <1>3, PTL DEF Spec

-----------------------------------------------------------------------------
(* The backstop *)

\* A freshly drained block holds nothing finalized: only a network block that
\* arrives before the store makes the finalized-action backstop fire.
THEOREM BackstopNeedsRace == Spec => []OnlyARaceDiscards
<1>1. Init => OnlyARaceDiscards
  BY ZenonT(60) DEF Init, OnlyARaceDiscards, Live
<1>2. OnlyARaceDiscards /\ [Next]_vars => OnlyARaceDiscards'
  <2> SUFFICES ASSUME OnlyARaceDiscards, [Next]_vars
               PROVE  OnlyARaceDiscards'
    OBVIOUS
  <2> USE DEF OnlyARaceDiscards
  <2>1. ASSUME UNCHANGED <<formed, finalized, raced>>
        PROVE  OnlyARaceDiscards'
    BY <2>1 DEF Live
  <2>2. ASSUME NEW a \in Actions, Announce(a) \/ Submit(a) \/ Reorg(a)
        PROVE  OnlyARaceDiscards'
    BY <2>1, <2>2, ZenonT(60) DEF Announce, Submit, Reorg, chain
  <2>3. ASSUME NEW U \in SUBSET Outsiders, BuildRootBlock(U)
        PROVE  OnlyARaceDiscards'
    BY <2>3 DEF BuildRootBlock, Mineable, Live
  <2>4. ASSUME formed' = {}
        PROVE  OnlyARaceDiscards'
    BY <2>4, ZenonT(60) DEF Live
  <2>5. ASSUME NEW U \in SUBSET Outsiders, Discard(U)
        PROVE  OnlyARaceDiscards'
    BY <2>4, <2>5, ZenonT(60) DEF Discard
  <2>6. ASSUME NEW c \in BOOLEAN, StoreFormed(c)
        PROVE  OnlyARaceDiscards'
    BY <2>4, <2>6, ZenonT(60) DEF StoreFormed
  <2>7. ASSUME NEW A \in NetworkBlocks, ReceiveBlock(A) \/ SyncBlock(A)
        PROVE  OnlyARaceDiscards'
    BY <2>7 DEF ReceiveBlock, SyncBlock
  <2>8. ASSUME Restart
        PROVE  OnlyARaceDiscards'
    BY <2>4, <2>8 DEF Restart
  <2>9. ASSUME UNCHANGED vars
        PROVE  OnlyARaceDiscards'
    BY <2>1, <2>9 DEF vars
  <2> QED BY <2>2, <2>3, <2>5, <2>6, <2>7, <2>8, <2>9, ZenonT(60) DEF Next
<1> QED BY <1>1, <1>2, PTL DEF Spec

-----------------------------------------------------------------------------
(* The limits *)

Alive(S) == {x \in S : ~x.dead}

\* A set of slots is within the two limits.
Within(S) ==
  /\ Cardinality(Alive(S)) <= MAX_MEMPOOL_ACTIONS
  /\ \A s \in Spaces : Cardinality(InSpace(Alive(S), s)) <= MAX_ACTIONS_PER_SPACE

\* A total n and the counts c per space cover a set of slots.  They may exceed it:
\* a restart counts tombstones with the rest.
Covers(n, c, S) ==
  /\ Cardinality(Alive(S)) <= n
  /\ \A s \in Spaces : Cardinality(InSpace(Alive(S), s)) <= c[s]

\* What makes CapsHold inductive: the disk image, which becomes the pool when the
\* process restarts, is within the limits as well.
CapsInv ==
  /\ FiniteInv
  /\ Within(slots)
  /\ Within(disk)
  /\ Covers(total, counts, slots)

\* A set of naturals has a least element.
LEMMA LeastNatural ==
  ASSUME NEW S, S \subseteq Nat, S # {}
  PROVE  \E n \in S : \A m \in S : n <= m
<1>1. PICK n \in S : \A m \in S : ~(<<m, n>> \in OpToRel(<, Nat))
  BY WFMin, NatLessThanWellFounded, ZenonT(60)
<1>2. \A m \in S : ~(m < n)
  BY <1>1, ZenonT(60) DEF OpToRel
<1>3. \A m \in S : n <= m
  BY <1>2
<1> QED
  BY <1>3

\* Where a slot with work is alive, one can be evicted.
LEMMA LowestExists ==
  ASSUME \A a \in Actions : Pow[a] > 0,
         NEW S \in SUBSET Slot, NEW z \in Alive(S)
  PROVE  Lowest(S) # {}
<1> DEFINE E == {x \in S : PowAt(x) > 0}
           P == {PowAt(x) : x \in E}
<1>1. \A x \in S : PowAt(x) \in Nat /\ x.idx \in Nat /\ (~x.dead => PowAt(x) > 0)
  BY BuilderConstants DEF Slot, PowAt
<1>2. P \subseteq Nat /\ P # {}
  BY <1>1 DEF Alive
<1>3. PICK p \in P : \A q \in P : p <= q
  <2> HIDE DEF P
  <2> QED BY <1>2, LeastNatural, ZenonT(60)
<1> DEFINE F == {x \in E : PowAt(x) = p}
           I == {x.idx : x \in F}
<1>4. I \subseteq Nat /\ I # {}
  BY <1>1, <1>3
<1>5. PICK i \in I : \A j \in I : i <= j
  <2> HIDE DEF I
  <2> QED BY <1>4, LeastNatural
<1>6. PICK x \in F : x.idx = i
  BY <1>5
<1>7. \A y \in E : p <= PowAt(y)
  BY <1>3
<1>8. \A y \in E : PowAt(y) = p => i <= y.idx
  BY <1>5
<1>9. x \in E /\ PowAt(x) = p
  OBVIOUS
<1>10. x \in {w \in E : \A y \in E :
                /\ PowAt(w) <= PowAt(y)
                /\ (y.thread = w.thread /\ PowAt(y) = PowAt(w)) => w.idx <= y.idx}
  <2> HIDE DEF E, F, I, P
  <2> QED BY <1>6, <1>7, <1>8, <1>9, ZenonT(60)
<1>11. x \in Lowest(S)
  BY <1>10, ZenonT(60) DEF Lowest
<1> QED
  BY <1>11

\* Taking V off a finite set and off a number that covers it.
LEMMA TakenOff ==
  ASSUME NEW A, IsFiniteSet(A), NEW V \in SUBSET A, NEW n \in Nat, Cardinality(A) <= n
  PROVE  /\ IsFiniteSet(A \ V)
         /\ Cardinality(A \ V) \in Nat
         /\ Cardinality(A \ V) <= Cardinality(A)
         /\ Cardinality(A \ V) <= Minus(n, Cardinality(V))
<1>1. A \cap V = V
  OBVIOUS
<1>2. IsFiniteSet(A \ V) /\ Cardinality(A \ V) = Cardinality(A) - Cardinality(V)
  BY <1>1, FS_Difference, ZenonT(60)
<1>3. /\ Cardinality(A) \in Nat /\ Cardinality(A \ V) \in Nat
      /\ Cardinality(V) \in Nat
  BY <1>2, FS_Subset, FS_CardinalityType
<1> QED
  BY <1>2, <1>3 DEF Minus

\* After the eviction a limit asks for there is room below the limit.  This needs a
\* positive limit, and positive PoW: a pool of actions without work is never evicted.
LEMMA EvictionMakesRoom ==
  ASSUME \A a \in Actions : Pow[a] > 0,
         NEW S \in SUBSET Slot, IsFiniteSet(S),
         NEW max \in Nat \ {0}, NEW n \in Nat,
         Cardinality(Alive(S)) <= n, Cardinality(Alive(S)) <= max,
         NEW V \in Victims(n >= max, S)
  PROVE  Cardinality(Alive(S) \ V) < max
<1>1. IsFiniteSet(Alive(S)) /\ Cardinality(Alive(S)) \in Nat
  BY FS_Subset, FS_CardinalityType DEF Alive
<1>2. CASE ~(n >= max)
  <2>1. V = {}
    BY <1>2 DEF Victims
  <2>2. Alive(S) \ V = Alive(S)
    BY <2>1
  <2> QED BY <1>1, <1>2, <2>2
<1>3. CASE n >= max /\ Lowest(S) # {}
  <2>1. PICK x \in Lowest(S) : V = {x}
    BY <1>3 DEF Victims
  <2>2. x \in Alive(S)
    BY <2>1, VictimsLive DEF Alive
  <2>3. Cardinality(Alive(S) \ {x}) = Cardinality(Alive(S)) - 1
    BY <1>1, <2>2, FS_RemoveElement, ZenonT(60)
  <2> QED BY <1>1, <2>1, <2>3
<1>4. CASE n >= max /\ Lowest(S) = {}
  <2>1. Alive(S) = {}
    BY <1>4, LowestExists
  <2>2. Alive(S) \ V = {}
    BY <2>1
  <2> QED BY <2>2, FS_EmptySet
<1> QED
  BY <1>2, <1>3, <1>4

\* Tombstones take exactly the victims off the living.
LEMMA AliveTombstoned ==
  ASSUME NEW V \in SUBSET Alive(slots)
  PROVE  /\ Alive(Tombstoned(V)) = Alive(slots) \ V
         /\ \A s \in Spaces :
              InSpace(Alive(Tombstoned(V)), s) = InSpace(Alive(slots), s) \ InSpace(V, s)
<1>1. \A x : ~Dead(x).dead = FALSE
  BY DEF Dead
<1>2. Alive(Tombstoned(V)) = Alive(slots) \ V
  BY <1>1 DEF Alive, Tombstoned
<1> QED
  BY <1>2 DEF InSpace

\* The living slots of a finite set, in all or in one space, are finite.
LEMMA AliveFinite ==
  ASSUME NEW S, IsFiniteSet(S)
  PROVE  /\ IsFiniteSet(Alive(S)) /\ Cardinality(Alive(S)) \in Nat
         /\ \A s \in Spaces : /\ IsFiniteSet(InSpace(Alive(S), s))
                              /\ Cardinality(InSpace(Alive(S), s)) \in Nat
<1>1. Alive(S) \in SUBSET S /\ \A s \in Spaces : InSpace(Alive(S), s) \in SUBSET S
  BY DEF Alive, InSpace
<1>2. \A T \in SUBSET S : IsFiniteSet(T) /\ Cardinality(T) \in Nat
  BY FS_Subset, FS_CardinalityType
<1> QED
  BY <1>1, <1>2

\* An eviction, whether or not the action it was for is accepted.
LEMMA EvictionKeeps ==
  ASSUME CapsInv, NEW V \in SUBSET Alive(slots)
  PROVE  /\ Within(Tombstoned(V))
         /\ Covers(Minus(total, Cardinality(V)), CountsWithout(V), Tombstoned(V))
<1> DEFINE A == Alive(slots)
           T == Alive(Tombstoned(V))
<1>1. /\ IsFiniteSet(A) /\ Cardinality(A) \in Nat
      /\ \A s \in Spaces : IsFiniteSet(InSpace(A, s)) /\ Cardinality(InSpace(A, s)) \in Nat
  BY AliveFinite DEF CapsInv, FiniteInv
<1>2. /\ T = A \ V
      /\ \A s \in Spaces : InSpace(T, s) = InSpace(A, s) \ InSpace(V, s)
  BY AliveTombstoned
<1>3. /\ total \in Nat /\ Cardinality(A) <= total /\ Cardinality(A) <= MAX_MEMPOOL_ACTIONS
      /\ counts \in [Spaces -> Nat]
      /\ \A s \in Spaces : /\ Cardinality(InSpace(A, s)) <= counts[s]
                           /\ Cardinality(InSpace(A, s)) <= MAX_ACTIONS_PER_SPACE
  BY DEF CapsInv, FiniteInv, TypeOK, Within, Covers
<1>4. MAX_MEMPOOL_ACTIONS \in Nat /\ MAX_ACTIONS_PER_SPACE \in Nat
  BY BuilderConstants
<1>5. V \subseteq A /\ \A s \in Spaces : InSpace(V, s) \in SUBSET InSpace(A, s)
  BY DEF InSpace
<1> HIDE DEF A, T
<1>6. /\ Cardinality(A \ V) \in Nat
      /\ Cardinality(A \ V) <= Cardinality(A)
      /\ Cardinality(A \ V) <= Minus(total, Cardinality(V))
  BY <1>1, <1>3, <1>5, TakenOff
<1>7. ASSUME NEW s \in Spaces
      PROVE  /\ Cardinality(InSpace(T, s)) <= MAX_ACTIONS_PER_SPACE
             /\ Cardinality(InSpace(T, s)) <= Minus(counts[s], Cardinality(InSpace(V, s)))
  <2>1. /\ Cardinality(InSpace(A, s) \ InSpace(V, s)) \in Nat
        /\ Cardinality(InSpace(A, s) \ InSpace(V, s)) <= Cardinality(InSpace(A, s))
        /\ Cardinality(InSpace(A, s) \ InSpace(V, s)) <= Minus(counts[s], Cardinality(InSpace(V, s)))
    BY <1>1, <1>3, <1>5, TakenOff, ZenonT(60)
  <2>2. InSpace(T, s) = InSpace(A, s) \ InSpace(V, s)
    BY <1>2
  <2>3. /\ Cardinality(InSpace(A, s)) \in Nat
        /\ Cardinality(InSpace(A, s)) <= MAX_ACTIONS_PER_SPACE
    BY <1>1, <1>3
  <2> QED BY ONLY <1>4, <2>1, <2>2, <2>3
<1>8. /\ Cardinality(T) <= MAX_MEMPOOL_ACTIONS
      /\ Cardinality(T) <= Minus(total, Cardinality(V))
  BY <1>1, <1>2, <1>3, <1>4, <1>6
<1> QED
  BY <1>7, <1>8 DEF Within, Covers, CountsWithout, T

\* A live slot of space s joins a set that has room for it.
LEMMA OneMore ==
  ASSUME NEW S, IsFiniteSet(S), NEW x, ~x.dead, NEW s \in Spaces, SpaceOf[x.thread] = s,
         Within(S),
         Cardinality(Alive(S)) < MAX_MEMPOOL_ACTIONS,
         Cardinality(InSpace(Alive(S), s)) < MAX_ACTIONS_PER_SPACE,
         NEW n \in Nat, NEW c \in [Spaces -> Nat], Covers(n, c, S)
  PROVE  /\ Within(S \cup {x})
         /\ Covers(n + 1, [c EXCEPT ![s] = @ + 1], S \cup {x})
<1> DEFINE A == Alive(S)
           d == [c EXCEPT ![s] = @ + 1]
<1>1. Alive(S \cup {x}) = A \cup {x}
  BY DEF Alive
<1>2. /\ InSpace(A \cup {x}, s) = InSpace(A, s) \cup {x}
      /\ \A r \in Spaces \ {s} : InSpace(A \cup {x}, r) = InSpace(A, r)
  BY DEF InSpace
<1>3. /\ IsFiniteSet(A) /\ Cardinality(A) \in Nat
      /\ \A r \in Spaces : IsFiniteSet(InSpace(A, r)) /\ Cardinality(InSpace(A, r)) \in Nat
  BY AliveFinite
<1>4. MAX_MEMPOOL_ACTIONS \in Nat /\ MAX_ACTIONS_PER_SPACE \in Nat
  BY BuilderConstants
<1>5. /\ Cardinality(A) <= n
      /\ \A r \in Spaces : /\ Cardinality(InSpace(A, r)) <= c[r]
                           /\ Cardinality(InSpace(A, r)) <= MAX_ACTIONS_PER_SPACE
  BY DEF Within, Covers
<1>6. \A B : IsFiniteSet(B) /\ Cardinality(B) \in Nat
        => Cardinality(B \cup {x}) \in Nat /\ Cardinality(B \cup {x}) <= Cardinality(B) + 1
  <2> SUFFICES ASSUME NEW B, IsFiniteSet(B), Cardinality(B) \in Nat
               PROVE  Cardinality(B \cup {x}) \in Nat /\ Cardinality(B \cup {x}) <= Cardinality(B) + 1
    OBVIOUS
  <2>1. Cardinality(B \cup {x}) = IF x \in B THEN Cardinality(B) ELSE Cardinality(B) + 1
    BY FS_AddElement, ZenonT(60)
  <2> QED BY ONLY <2>1, Cardinality(B) \in Nat
<1>7. d[s] = c[s] + 1 /\ \A r \in Spaces \ {s} : d[r] = c[r]
  OBVIOUS
<1>8. Cardinality(A) < MAX_MEMPOOL_ACTIONS /\ Cardinality(InSpace(A, s)) < MAX_ACTIONS_PER_SPACE
  OBVIOUS
<1> HIDE DEF A, d
<1>9. /\ Cardinality(A \cup {x}) <= MAX_MEMPOOL_ACTIONS
      /\ Cardinality(A \cup {x}) <= n + 1
  BY <1>3, <1>4, <1>5, <1>6, <1>8
<1>10. ASSUME NEW r \in Spaces
       PROVE  /\ Cardinality(InSpace(A \cup {x}, r)) <= MAX_ACTIONS_PER_SPACE
              /\ Cardinality(InSpace(A \cup {x}, r)) <= d[r]
  <2>1. CASE r = s
    <3>1. Cardinality(InSpace(A, s) \cup {x}) \in Nat
          /\ Cardinality(InSpace(A, s) \cup {x}) <= Cardinality(InSpace(A, s)) + 1
      BY <1>3, <1>6
    <3>2. /\ Cardinality(InSpace(A, s)) \in Nat /\ c[s] \in Nat
          /\ Cardinality(InSpace(A, s)) < MAX_ACTIONS_PER_SPACE
          /\ Cardinality(InSpace(A, s)) <= c[s]
      BY <1>3, <1>5, <1>8
    <3>3. /\ Cardinality(InSpace(A, s) \cup {x}) <= MAX_ACTIONS_PER_SPACE
          /\ Cardinality(InSpace(A, s) \cup {x}) <= c[s] + 1
      BY ONLY <1>4, <3>1, <3>2
    <3> QED BY <1>2, <1>7, <2>1, <3>3, ZenonT(60)
  <2>2. CASE r # s
    BY <1>2, <1>5, <1>7, <2>2, ZenonT(60)
  <2> QED BY <2>1, <2>2
<1> QED
  BY <1>1, <1>9, <1>10, ZenonT(60) DEF Within, Covers, d

\* The part of CapsInv that is not about types.
LimitsHold == Within(slots) /\ Within(disk) /\ Covers(total, counts, slots)

\* An accepted action: the two evictions before it made room for it.
LEMMA AcceptKeeps ==
  ASSUME CapsInv, \A b \in Actions : Pow[b] > 0, NEW a \in Actions,
         NEW V \in Victims(SpaceFull(SpaceOf[ThreadOf[a]]), InSpace(slots, SpaceOf[ThreadOf[a]])),
         NEW W \in Victims(PoolFull(Minus(total, Cardinality(V))), slots \ V),
         Accept(a, V \cup W)
  PROVE  LimitsHold'
<1> DEFINE s == SpaceOf[ThreadOf[a]]
           A == Alive(slots)
           T == Tombstoned(V \cup W)
           x == NewSlot(a, T)
<1>0. /\ slots \subseteq Slot /\ IsFiniteSet(slots) /\ total \in Nat
      /\ counts \in [Spaces -> Nat] /\ TypeOK
  BY DEF CapsInv, FiniteInv, TypeOK
<1>1. ThreadOf[a] \in Threads /\ s \in Spaces
  BY BuilderConstants
<1>2. /\ V \subseteq InSpace(slots, s) /\ V \subseteq A
      /\ W \subseteq A
  BY VictimsLive DEF InSpace, Alive
<1>3. Within(T) /\ Covers(Minus(total, Cardinality(V \cup W)), CountsWithout(V \cup W), T)
  <2>1. V \cup W \in SUBSET Alive(slots)
    BY <1>2, ZenonT(60)
  <2> QED BY <2>1, EvictionKeeps
<1>4. /\ Alive(T) = A \ (V \cup W)
      /\ InSpace(Alive(T), s) = InSpace(A, s) \ InSpace(V \cup W, s)
  <2>1. V \cup W \in SUBSET Alive(slots)
    BY <1>2
  <2> QED BY <1>1, <2>1, AliveTombstoned, ZenonT(60)
<1>5. /\ IsFiniteSet(A) /\ Cardinality(A) \in Nat
      /\ IsFiniteSet(InSpace(A, s)) /\ Cardinality(InSpace(A, s)) \in Nat
  BY <1>0, <1>1, AliveFinite, ZenonT(60)
<1>6. /\ Cardinality(A) <= total /\ Cardinality(A) <= MAX_MEMPOOL_ACTIONS
      /\ Cardinality(InSpace(A, s)) <= counts[s]
      /\ Cardinality(InSpace(A, s)) <= MAX_ACTIONS_PER_SPACE
  BY <1>1, ZenonT(60) DEF CapsInv, Within, Covers
<1>7. Cardinality(Alive(T)) < MAX_MEMPOOL_ACTIONS
  <2> DEFINE n == Minus(total, Cardinality(V))
             S == slots \ V
  <2>1. /\ Cardinality(A \ V) \in Nat
        /\ Cardinality(A \ V) <= Cardinality(A)
        /\ Cardinality(A \ V) <= n
    BY <1>0, <1>2, <1>5, <1>6, TakenOff, ZenonT(60)
  <2>2. Alive(S) = A \ V /\ S \in SUBSET Slot /\ IsFiniteSet(S)
    BY <1>0, FS_Subset, ZenonT(60) DEF Alive
  <2>3. n \in Nat
    <3>1. IsFiniteSet(V)
      BY <1>2, <1>5, FS_Subset, ZenonT(60)
    <3> QED BY <1>0, <3>1, FS_CardinalityType, MinusNat, ZenonT(60)
  <2>4. W \in Victims(n >= MAX_MEMPOOL_ACTIONS, S)
    BY ZenonT(60) DEF PoolFull
  <2>5. MAX_MEMPOOL_ACTIONS \in Nat \ {0} /\ Cardinality(A \ V) <= MAX_MEMPOOL_ACTIONS
    <3>1. MAX_MEMPOOL_ACTIONS \in Nat \ {0} /\ MAX_MEMPOOL_ACTIONS \in Nat
      BY BuilderConstants
    <3>2. \A i, j, k \in Nat : i <= j /\ j <= k => i <= k
      OBVIOUS
    <3> QED
      BY <1>5, <1>6, <2>1, <3>1, <3>2, ZenonT(60)
  <2>6. Alive(T) = Alive(S) \ W
    BY <1>4, <2>2, ZenonT(60)
  <2>7. Cardinality(Alive(S)) <= n /\ Cardinality(Alive(S)) <= MAX_MEMPOOL_ACTIONS
    BY <2>1, <2>2, <2>5, ZenonT(60)
  <2> HIDE DEF n, S, T, A
  <2>8. Cardinality(Alive(S) \ W) < MAX_MEMPOOL_ACTIONS
    BY <2>2, <2>3, <2>4, <2>5, <2>7, EvictionMakesRoom, ZenonT(60)
  <2> QED BY <2>6, <2>8, ZenonT(60)
<1>8. Cardinality(InSpace(Alive(T), s)) < MAX_ACTIONS_PER_SPACE
  <2> DEFINE S == InSpace(slots, s)
  <2>1. Alive(S) = InSpace(A, s) /\ S \in SUBSET Slot /\ IsFiniteSet(S)
    BY <1>0, FS_Subset, ZenonT(60) DEF Alive, InSpace
  <2>2. V \in Victims(counts[s] >= MAX_ACTIONS_PER_SPACE, S)
    BY DEF SpaceFull
  <2>3. MAX_ACTIONS_PER_SPACE \in Nat \ {0} /\ counts[s] \in Nat
    BY <1>0, <1>1, BuilderConstants, ZenonT(60)
  <2>4. InSpace(Alive(T), s) \in SUBSET (Alive(S) \ V)
    BY <1>2, <1>4, <2>1, ZenonT(60) DEF InSpace
  <2>5. /\ Cardinality(Alive(S)) <= counts[s]
        /\ Cardinality(Alive(S)) <= MAX_ACTIONS_PER_SPACE
        /\ IsFiniteSet(Alive(S))
    BY <1>5, <1>6, <2>1
  <2> HIDE DEF S, T, A, s
  <2>6. Cardinality(Alive(S) \ V) < MAX_ACTIONS_PER_SPACE
    BY <2>1, <2>2, <2>3, <2>5, EvictionMakesRoom
  <2>7. /\ IsFiniteSet(Alive(S) \ V) /\ Cardinality(Alive(S) \ V) \in Nat
        /\ IsFiniteSet(InSpace(Alive(T), s))
        /\ Cardinality(InSpace(Alive(T), s)) \in Nat
        /\ Cardinality(InSpace(Alive(T), s)) <= Cardinality(Alive(S) \ V)
    <3>1. IsFiniteSet(Alive(S) \ V)
      BY <2>5, FS_Difference, ZenonT(60)
    <3> QED BY <2>4, <3>1, FS_Subset, FS_CardinalityType, ZenonT(60)
  <2> QED BY <2>3, <2>6, <2>7
<1>9. IsFiniteSet(T)
  <2>1. V \cup W \in SUBSET slots
    BY <1>2 DEF Alive
  <2> QED BY <1>0, <2>1, TombstonedType
<1>10. ~x.dead /\ SpaceOf[x.thread] = s
  BY ZenonT(60) DEF NewSlot
<1>11. /\ Minus(total, Cardinality(V \cup W)) \in Nat
       /\ CountsWithout(V \cup W) \in [Spaces -> Nat]
  <2>1. V \cup W \in SUBSET A
    BY <1>2, ZenonT(60)
  <2>2. IsFiniteSet(V \cup W)
    BY <1>5, <2>1, FS_Subset, ZenonT(60)
  <2> QED BY <1>0, <2>2, CountsType, ZenonT(60)
<1>12. /\ slots' = T \cup {x} /\ disk' = slots'
       /\ counts' = [CountsWithout(V \cup W) EXCEPT ![s] = @ + 1]
       /\ total' = Minus(total, Cardinality(V \cup W)) + 1
  BY ZenonT(60) DEF Accept
<1> HIDE DEF s, A, T, x
<1>13. /\ Within(T \cup {x})
       /\ Covers(Minus(total, Cardinality(V \cup W)) + 1,
                 [CountsWithout(V \cup W) EXCEPT ![s] = @ + 1], T \cup {x})
  BY <1>1, <1>3, <1>7, <1>8, <1>9, <1>10, <1>11, OneMore, ZenonT(60)
<1> QED
  BY <1>12, <1>13, ZenonT(60) DEF LimitsHold, Within, Covers, Alive, InSpace

\* clear_finalized_actions: closing ranks may not leave more living slots than the
\* counters, reduced by what was removed, allow for.
LEMMA RetainedKeeps ==
  ASSUME CapsInv, NEW A
  PROVE  /\ Within(Retained(A))
         /\ Covers(Minus(total, Cardinality(Removed(A))), CountsWithout(Removed(A)), Retained(A))
<1> DEFINE S == {x \in slots : x.dead \/ x.act \notin A}
           n(x) == Cardinality({y \in InThread(S, x.thread) : y.idx <= x.idx})
           g(x) == [thread |-> x.thread, act |-> x.act, dead |-> x.dead, idx |-> n(x)]
           V == Removed(A)
           L == Alive(slots)
           R == Alive(Retained(A))
<1>1. Retained(A) = {g(x) : x \in S}
  BY ZenonT(60) DEF Retained
<1>2. \A x : g(x).thread = x.thread /\ g(x).dead = x.dead
  <2> HIDE DEF n
  <2> QED OBVIOUS
<1>3. V \in SUBSET Alive(slots) /\ L \ V = Alive(S)
  BY ZenonT(60) DEF Removed, Alive
<1>4. /\ Within(Tombstoned(V))
      /\ Covers(Minus(total, Cardinality(V)), CountsWithout(V), Tombstoned(V))
  BY <1>3, EvictionKeeps, ZenonT(60)
<1>5. /\ Alive(Tombstoned(V)) = L \ V
      /\ \A s \in Spaces : InSpace(Alive(Tombstoned(V)), s) = InSpace(L, s) \ InSpace(V, s)
  BY <1>3, AliveTombstoned, ZenonT(60)
<1>6. IsFiniteSet(S)
  BY FS_Subset, ZenonT(60) DEF CapsInv, FiniteInv
<1>7. /\ IsFiniteSet(L \ V) /\ Cardinality(L \ V) \in Nat
      /\ \A s \in Spaces : /\ IsFiniteSet(InSpace(L \ V, s))
                           /\ Cardinality(InSpace(L \ V, s)) \in Nat
  <2> HIDE DEF S
  <2> QED BY <1>3, <1>6, AliveFinite, ZenonT(60)
<1> HIDE DEF g
<1>8. /\ R = {g(x) : x \in L \ V}
      /\ \A s \in Spaces : InSpace(R, s) = {g(x) : x \in InSpace(L \ V, s)}
  BY <1>1, <1>2, <1>3 DEF Alive, InSpace
<1>9. ASSUME NEW X, IsFiniteSet(X)
      PROVE  /\ Cardinality({g(x) : x \in X}) \in Nat
             /\ Cardinality({g(x) : x \in X}) <= Cardinality(X)
  <2> DEFINE Y == {g(x) : x \in X}
             f == [x \in X |-> g(x)]
  <2>1. f \in Surjection(X, Y)
    BY DEF Surjection
  <2> HIDE DEF Y, f
  <2>2. IsFiniteSet(Y) /\ Cardinality(Y) <= Cardinality(X)
    BY <1>9, <2>1, FS_Surjection
  <2>3. Cardinality(Y) \in Nat
    BY <2>2, FS_CardinalityType, ZenonT(60)
  <2> QED BY <2>2, <2>3 DEF Y
<1>10. Cardinality(R) \in Nat /\ Cardinality(R) <= Cardinality(Alive(Tombstoned(V)))
  BY <1>5, <1>7, <1>8, <1>9, ZenonT(60)
<1>11. ASSUME NEW s \in Spaces
       PROVE  /\ Cardinality(InSpace(R, s)) \in Nat
              /\ Cardinality(InSpace(R, s)) <= Cardinality(InSpace(Alive(Tombstoned(V)), s))
  BY <1>5, <1>7, <1>8, <1>9, ZenonT(60)
<1>12. /\ Cardinality(Alive(Tombstoned(V))) \in Nat
       /\ \A s \in Spaces : Cardinality(InSpace(Alive(Tombstoned(V)), s)) \in Nat
  BY <1>5, <1>7
<1>13. /\ MAX_MEMPOOL_ACTIONS \in Nat /\ MAX_ACTIONS_PER_SPACE \in Nat
       /\ Minus(total, Cardinality(V)) \in Nat
       /\ CountsWithout(V) \in [Spaces -> Nat]
  <2>1. IsFiniteSet(slots) /\ V \in SUBSET slots /\ TypeOK
    BY <1>3 DEF CapsInv, FiniteInv, Alive
  <2>2. IsFiniteSet(V)
    BY <2>1, FS_Subset
  <2> QED BY <2>1, <2>2, CountsType, BuilderConstants, ZenonT(60)
<1> HIDE DEF V, R, L
<1>14. /\ Cardinality(R) <= MAX_MEMPOOL_ACTIONS
       /\ Cardinality(R) <= Minus(total, Cardinality(V))
  BY <1>4, <1>10, <1>12, <1>13 DEF Within, Covers
<1>15. ASSUME NEW s \in Spaces
       PROVE  /\ Cardinality(InSpace(R, s)) <= MAX_ACTIONS_PER_SPACE
              /\ Cardinality(InSpace(R, s)) <= CountsWithout(V)[s]
  <2>1. /\ Cardinality(InSpace(Alive(Tombstoned(V)), s)) <= MAX_ACTIONS_PER_SPACE
        /\ Cardinality(InSpace(Alive(Tombstoned(V)), s)) <= CountsWithout(V)[s]
        /\ CountsWithout(V)[s] \in Nat
    BY <1>4, <1>13 DEF Within, Covers
  <2> QED BY <1>11, <1>12, <1>13, <2>1
<1> QED
  BY <1>14, <1>15, ZenonT(60) DEF Within, Covers, R, V

\* Offering an action that replaces nothing keeps the limits.
LEMMA OfferCaps ==
  ASSUME CapsInv, \A b \in Actions : Pow[b] > 0,
         NEW a \in Actions, Replaces[a] = NoAction, OfferAction(a)
  PROVE  LimitsHold'
<1> DEFINE s == SpaceOf[ThreadOf[a]]
<1>1. ASSUME NEW V \in SUBSET Alive(slots), Refuse(V)
      PROVE  LimitsHold'
  <2>1. /\ slots' = Tombstoned(V) /\ disk' = disk
        /\ counts' = CountsWithout(V) /\ total' = Minus(total, Cardinality(V))
    BY <1>1, ZenonT(60) DEF Refuse
  <2>2. /\ Within(Tombstoned(V)) /\ Within(disk)
        /\ Covers(Minus(total, Cardinality(V)), CountsWithout(V), Tombstoned(V))
    BY EvictionKeeps, ZenonT(60) DEF CapsInv
  <2> QED BY <2>1, <2>2, ZenonT(60) DEF LimitsHold, Within, Covers, Alive, InSpace
<1>2. CASE AddAction(a)
  <2>1. PICK V \in Victims(SpaceFull(s), InSpace(slots, s)) :
          IF TooWeak(a, V) THEN Refuse(V)
          ELSE \E W \in Victims(PoolFull(Minus(total, Cardinality(V))), slots \ V) :
                 IF TooWeak(a, W) THEN Refuse(V \cup W) ELSE Accept(a, V \cup W)
    BY <1>2, ZenonT(60) DEF AddAction
  <2>2. V \in SUBSET Alive(slots)
    BY VictimsLive DEF InSpace, Alive
  <2>3. CASE TooWeak(a, V)
    BY <1>1, <2>1, <2>2, <2>3, ZenonT(60)
  <2>4. CASE ~TooWeak(a, V)
    <3>1. PICK W \in Victims(PoolFull(Minus(total, Cardinality(V))), slots \ V) :
            IF TooWeak(a, W) THEN Refuse(V \cup W) ELSE Accept(a, V \cup W)
      BY <2>1, <2>4, ZenonT(60)
    <3>2. V \cup W \in SUBSET Alive(slots)
      <4>1. W \subseteq slots \ V /\ \A x \in W : ~x.dead
        BY VictimsLive, ZenonT(60)
      <4> QED
        BY <2>2, <4>1, ZenonT(60) DEF Alive
    <3>3. CASE Refuse(V \cup W)
      BY <1>1, <3>2, <3>3, ZenonT(60)
    <3>4. CASE Accept(a, V \cup W)
      BY <3>4, AcceptKeeps, ZenonT(60)
    <3> QED BY <3>1, <3>3, <3>4
  <2> QED BY <2>3, <2>4
<1>3. CASE RejectAction(a)
  BY <1>3, ZenonT(60) DEF RejectAction, mempool, CapsInv, LimitsHold, Within, Covers, Alive, InSpace
<1>4. ~ReplaceAction(a)
  BY DEF ReplaceAction
<1> QED
  BY <1>2, <1>3, <1>4, ZenonT(60) DEF OfferAction

\* CapsInv is inductive when nothing is replaced and every action has some work.
LEMMA CapsStep ==
  ASSUME \A a \in Actions : Replaces[a] = NoAction /\ Pow[a] > 0
  PROVE  CapsInv /\ [Next]_vars => CapsInv'
<1> SUFFICES ASSUME CapsInv, [Next]_vars
             PROVE  CapsInv'
  OBVIOUS
<1>0. FiniteInv'
  BY FiniteStep, ZenonT(60) DEF CapsInv
<1> SUFFICES LimitsHold'
  BY <1>0, ZenonT(60) DEF CapsInv, LimitsHold
<1>1. ASSUME UNCHANGED <<slots, disk, counts, total>>
      PROVE  LimitsHold'
  BY <1>1, ZenonT(60) DEF CapsInv, LimitsHold, Within, Covers, Alive, InSpace
<1>2. ASSUME NEW a \in Actions, Submit(a) \/ Reorg(a)
      PROVE  LimitsHold'
  BY <1>2, OfferCaps, ZenonT(60) DEF Submit, Reorg
<1>3. ASSUME NEW U \in SUBSET Outsiders, BuildRootBlock(U)
      PROVE  LimitsHold'
  <2>1. slots' = {} /\ disk' = {} /\ total' = 0 /\ counts' = [s \in Spaces |-> 0]
    BY <1>3, ZenonT(60) DEF BuildRootBlock
  <2>2. Alive(slots') = {} /\ Alive(disk') = {} /\ \A s \in Spaces : InSpace({}, s) = {}
    BY <2>1, ZenonT(60) DEF Alive, InSpace
  <2>3. /\ Cardinality({}) = 0 /\ 0 <= 0
        /\ 0 <= MAX_MEMPOOL_ACTIONS /\ 0 <= MAX_ACTIONS_PER_SPACE
    BY FS_EmptySet, BuilderConstants
  <2>4. Within(slots') /\ Within(disk')
    BY <2>2, <2>3, ZenonT(60) DEF Within
  <2>5. Covers(total', counts', slots')
    <3>1. \A s \in Spaces : counts'[s] = 0
      BY <2>1, ZenonT(60)
    <3> QED BY <2>1, <2>2, <2>3, <3>1, ZenonT(60) DEF Covers
  <2> QED BY <2>4, <2>5, ZenonT(60) DEF LimitsHold, Within, Covers, Alive, InSpace
<1>4. ASSUME NEW A \in NetworkBlocks, ReceiveBlock(A)
      PROVE  LimitsHold'
  <2>1. /\ slots' = Retained(A) /\ (disk' = disk \/ disk' = slots')
        /\ counts' = CountsWithout(Removed(A))
        /\ total' = Minus(total, Cardinality(Removed(A)))
    BY <1>4, ZenonT(60) DEF ReceiveBlock
  <2>2. Within(slots') /\ Covers(total', counts', slots') /\ Within(disk')
    BY <2>1, RetainedKeeps, ZenonT(60) DEF CapsInv
  <2> QED BY <2>2, ZenonT(60) DEF LimitsHold, Within, Covers, Alive, InSpace
<1>5. ASSUME Restart
      PROVE  LimitsHold'
  <2>1. /\ slots' = disk /\ disk' = disk /\ total' = Cardinality(disk)
        /\ counts' = [s \in Spaces |-> Cardinality(InSpace(disk, s))]
    BY <1>5, ZenonT(60) DEF Restart
  <2>2. IsFiniteSet(disk) /\ Within(disk)
    BY DEF CapsInv, FiniteInv
  <2>3. /\ Alive(disk) \in SUBSET disk
        /\ \A s \in Spaces : /\ InSpace(Alive(disk), s) \in SUBSET InSpace(disk, s)
                             /\ InSpace(disk, s) \in SUBSET disk
    BY ZenonT(60) DEF Alive, InSpace
  <2>4. /\ Cardinality(Alive(disk)) <= Cardinality(disk)
        /\ \A s \in Spaces : Cardinality(InSpace(Alive(disk), s)) <= Cardinality(InSpace(disk, s))
    BY <2>2, <2>3, FS_Subset, ZenonT(60)
  <2>5. Within(slots') /\ Within(disk') /\ Covers(total', counts', slots')
    BY <2>1, <2>2, <2>4, ZenonT(60) DEF Covers
  <2> QED BY <2>5, ZenonT(60) DEF LimitsHold, Within, Covers, Alive, InSpace
<1>6. ASSUME NEW a \in Actions, Announce(a)
      PROVE  LimitsHold'
  BY <1>1, <1>6, ZenonT(60) DEF Announce, mempool
<1>7. ASSUME NEW U \in SUBSET Outsiders, Discard(U)
      PROVE  LimitsHold'
  BY <1>1, <1>7, ZenonT(60) DEF Discard, mempool
<1>8. ASSUME NEW c \in BOOLEAN, StoreFormed(c)
      PROVE  LimitsHold'
  BY <1>1, <1>8, ZenonT(60) DEF StoreFormed, mempool
<1>9. ASSUME NEW A \in NetworkBlocks, SyncBlock(A)
      PROVE  LimitsHold'
  BY <1>1, <1>9, ZenonT(60) DEF SyncBlock, mempool
<1>10. ASSUME UNCHANGED vars
       PROVE  LimitsHold'
  BY <1>1, <1>10 DEF vars
<1> QED
  BY <1>2, <1>3, <1>4, <1>5, <1>6, <1>7, <1>8, <1>9, <1>10, ZenonT(60) DEF Next

\* The pool never outgrows its counters nor its two limits, for any limits, through
\* evictions, refused additions, network blocks, reorganisations and restarts, as
\* long as nothing is replaced and every action has some work.  Neither hypothesis can
\* go: a replacement may find a tombstone at its target's recorded place and adds a
\* slot that nothing counts, and actions without work are never evicted.
THEOREM LimitsAlwaysHold ==
  ASSUME \A a \in Actions : Replaces[a] = NoAction /\ Pow[a] > 0
  PROVE  Spec => []CapsHold
<1>1. Init => CapsInv
  <2> SUFFICES ASSUME Init PROVE CapsInv
    OBVIOUS
  <2>1. slots = {} /\ disk = {} /\ total = 0 /\ counts = [s \in Spaces |-> 0]
    BY DEF Init
  <2>2. Alive(slots) = {} /\ Alive(disk) = {} /\ \A s \in Spaces : InSpace({}, s) = {}
    BY <2>1 DEF Alive, InSpace
  <2>3. Cardinality({}) = 0 /\ 0 <= MAX_MEMPOOL_ACTIONS /\ 0 <= MAX_ACTIONS_PER_SPACE
    BY FS_EmptySet, BuilderConstants
  <2>4. Within(slots) /\ Within(disk)
    BY <2>2, <2>3, ZenonT(60) DEF Within
  <2>5. Covers(total, counts, slots)
    BY <2>1, <2>2, <2>3 DEF Covers
  <2> QED BY <2>4, <2>5, FiniteInit, ZenonT(60) DEF CapsInv
<1>2. CapsInv => CapsHold
  BY ZenonT(60) DEF CapsInv, Within, Covers, CapsHold, Alive
<1>3. CapsInv /\ [Next]_vars => CapsInv'
  BY CapsStep
<1> QED
  BY <1>1, <1>2, <1>3, PTL DEF Spec

-----------------------------------------------------------------------------
(* Losses *)

\* Offering an action takes nothing out of the pool that was meant to stay.
LEMMA OfferLoses ==
  ASSUME PoolInv, NEW a \in Actions, Replaces[a] = NoAction, OfferAction(a)
  PROVE  kept' \ Live(slots)' \subseteq kept \ Live(slots)
<1> DEFINE s == SpaceOf[ThreadOf[a]]
<1>1. ASSUME NEW V \in SUBSET slots
      PROVE  Live(slots) \ Live(V) \subseteq Live(Tombstoned(V))
  BY <1>1 DEF Live, Tombstoned
<1>2. ASSUME NEW V \in SUBSET slots, Refuse(V)
      PROVE  kept' \ Live(slots)' \subseteq kept \ Live(slots)
  <2>1. Live(slots)' = Live(Tombstoned(V)) /\ kept' = kept \ Live(V)
    BY <1>2, ZenonT(60) DEF Refuse, Live
  <2> QED BY <1>1, <2>1
<1>3. ASSUME NEW V \in SUBSET slots, Accept(a, V)
      PROVE  kept' \ Live(slots)' \subseteq kept \ Live(slots)
  <2> DEFINE S == Tombstoned(V)
             x == NewSlot(a, S)
  <2>1. slots' = S \cup {x} /\ kept' = (kept \ Live(V)) \cup {a}
    BY <1>3, ZenonT(60) DEF Accept
  <2>2. x.act = a /\ ~x.dead
    BY DEF NewSlot
  <2> HIDE DEF S, x
  <2>3. Live(S) \cup {a} \subseteq Live(slots)'
    BY <2>1, <2>2, ZenonT(60) DEF Live
  <2> QED BY <1>1, <2>1, <2>3 DEF S
<1>4. CASE AddAction(a)
  <2>1. PICK V \in Victims(SpaceFull(s), InSpace(slots, s)) :
          IF TooWeak(a, V) THEN Refuse(V)
          ELSE \E W \in Victims(PoolFull(Minus(total, Cardinality(V))), slots \ V) :
                 IF TooWeak(a, W) THEN Refuse(V \cup W) ELSE Accept(a, V \cup W)
    BY <1>4, ZenonT(60) DEF AddAction
  <2>2. V \in SUBSET slots
    BY VictimsLive DEF InSpace
  <2>3. CASE TooWeak(a, V)
    BY <1>2, <2>1, <2>2, <2>3, ZenonT(60)
  <2>4. CASE ~TooWeak(a, V)
    <3>1. PICK W \in Victims(PoolFull(Minus(total, Cardinality(V))), slots \ V) :
            IF TooWeak(a, W) THEN Refuse(V \cup W) ELSE Accept(a, V \cup W)
      BY <2>1, <2>4, ZenonT(60)
    <3>2. V \cup W \in SUBSET slots
      BY <2>2, VictimsLive
    <3> QED BY <1>2, <1>3, <3>1, <3>2, ZenonT(60)
  <2> QED BY <2>3, <2>4
<1>5. CASE RejectAction(a)
  BY <1>5, ZenonT(60) DEF RejectAction, mempool, Live
<1>6. ~ReplaceAction(a)
  BY ZenonT(60) DEF ReplaceAction
<1> QED
  BY <1>4, <1>5, <1>6, ZenonT(60) DEF OfferAction

\* A drain moves what is kept into the block, unless the chain has it already.
LEMMA DrainLoses ==
  ASSUME NEW U, BuildRootBlock(U)
  PROVE  kept' \ (Live(formed)' \cup finalized) \subseteq kept \ (Live(slots) \cup Live(formed))
<1> DEFINE excluded == {x \in slots : Actor[x.act] \in U}
<1>1. /\ formed = {} /\ formed' = {x \in slots \ excluded : Mineable(x)}
      /\ kept' = kept \ Live(excluded)
  BY DEF BuildRootBlock
<1>2. Live(formed) = {}
  BY <1>1 DEF Live
<1>3. \A x \in slots : ~x.dead =>
        x.act \in Live(excluded) \/ x.act \in Live(formed)' \/ x.act \in finalized
  <2> SUFFICES ASSUME NEW x \in slots, ~x.dead, x \notin excluded, x.act \notin finalized
               PROVE  x.act \in Live(formed')
    BY ZenonT(60) DEF Live
  <2>1. x \in formed'
    BY <1>1, ZenonT(60) DEF Mineable
  <2> QED BY <2>1, ZenonT(60) DEF Live
<1>4. Live(slots) \subseteq Live(excluded) \cup Live(formed)' \cup finalized
  BY <1>3 DEF Live
<1> QED
  BY <1>1, <1>2, <1>4, ZenonT(60)

\* Accepted actions go missing in two ways only: with the block being formed, and when
\* a reorganisation displaces them and add_action refuses them.  An eviction, a drain,
\* a network block or a restart loses nothing else, for any limits and any history, as
\* long as nothing is replaced.
THEOREM LossesAreAccountedFor ==
  ASSUME \A a \in Actions : Replaces[a] = NoAction
  PROVE  Spec => LossesAccountedFor
<1>1. Init => PoolInv
  BY PoolInit
<1>2. PoolInv /\ [Next]_vars => PoolInv'
  BY PoolStep
<1>3. PoolInv /\ [Next]_vars
        => [Lost' \ Lost \subseteq Live(formed) \cup (finalized \ finalized')]_vars
  <2> SUFFICES ASSUME PoolInv, Next
               PROVE  Lost' \ Lost \subseteq Live(formed) \cup (finalized \ finalized')
    OBVIOUS
  <2> DEFINE Goal == Lost' \ Lost \subseteq Live(formed) \cup (finalized \ finalized')
  <2>0. /\ Lost = kept \ (Live(slots) \cup Live(formed) \cup finalized)
        /\ Lost' = kept' \ (Live(slots)' \cup Live(formed)' \cup finalized')
    <3>1. PoolInv'
      BY <1>2, ZenonT(60)
    <3>2. kept \subseteq Actions /\ kept' \subseteq Actions
      BY <3>1 DEF PoolInv, FiniteInv, TypeOK
    <3> QED BY <3>2 DEF Lost
  <2>1. ASSUME formed' = formed,
               kept' \ Live(slots)' \subseteq kept \ Live(slots)
        PROVE  Goal
    <3>1. Live(formed)' = Live(formed)
      BY <2>1, ZenonT(60) DEF Live
    <3> QED BY <2>0, <2>1, <3>1
  <2>2. ASSUME NEW a \in Actions, Submit(a) \/ Reorg(a)
        PROVE  Goal
    BY <2>1, <2>2, OfferLoses, ZenonT(60) DEF Submit, Reorg
  <2>3. ASSUME NEW a \in Actions, Announce(a)
        PROVE  Goal
    BY <2>1, <2>3, ZenonT(60) DEF Announce, mempool, Live
  <2>4. ASSUME NEW U \in SUBSET Outsiders, BuildRootBlock(U)
        PROVE  Goal
    <3>1. finalized' = finalized
      BY <2>4, ZenonT(60) DEF BuildRootBlock
    <3> QED BY <2>0, <2>4, <3>1, DrainLoses, ZenonT(60)
  <2>5. ASSUME finalized \subseteq finalized', kept' = kept, Live(slots) \subseteq Live(slots)'
        PROVE  Goal
    BY <2>0, <2>5, ZenonT(60)
  <2>6. ASSUME NEW U \in SUBSET Outsiders, Discard(U)
        PROVE  Goal
    BY <2>5, <2>6, ZenonT(60) DEF Discard, mempool, chain, Live
  <2>7. ASSUME NEW c \in BOOLEAN, StoreFormed(c)
        PROVE  Goal
    BY <2>5, <2>7, ZenonT(60) DEF StoreFormed, mempool, Live
  <2>8. ASSUME NEW A \in NetworkBlocks, SyncBlock(A)
        PROVE  Goal
    BY <2>5, <2>8, ZenonT(60) DEF SyncBlock, mempool, Live
  <2>9. ASSUME NEW A \in NetworkBlocks, ReceiveBlock(A)
        PROVE  Goal
    <3>1. Live(Retained(A)) = Live(slots) \ A
      BY RetainedType DEF PoolInv, FiniteInv, TypeOK
    <3>2. /\ Live(slots)' = Live(slots) \ A /\ finalized' = finalized \cup A
          /\ formed' = formed /\ kept' = kept
      BY <2>9, <3>1, ZenonT(60) DEF ReceiveBlock, Live
    <3>3. Live(formed)' = Live(formed)
      BY <3>2 DEF Live
    <3> QED BY <2>0, <3>2, <3>3, ZenonT(60)
  <2>10. CASE Restart
    <3>1. Live(slots)' = Live(disk) /\ finalized' = finalized /\ kept' = kept
      BY <2>10, ZenonT(60) DEF Restart, Live
    <3> QED BY <2>5, <3>1 DEF PoolInv
  <2> QED
    BY <2>2, <2>3, <2>4, <2>6, <2>7, <2>8, <2>9, <2>10, ZenonT(60) DEF Next
<1> QED
  BY <1>1, <1>2, <1>3, PTL DEF Spec, LossesAccountedFor
=============================================================================
