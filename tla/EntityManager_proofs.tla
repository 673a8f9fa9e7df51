------------------------- MODULE EntityManager_proofs -------------------------
(***************************************************************************)
(* Proofs about EntityManager: the entity IDs are sound whatever sequence  *)
(* of creations and deletions the server goes through.                     *)
(***************************************************************************)
EXTENDS EntityManager, EntityStore_proofs

-----------------------------------------------------------------------------
(* The component.                                                          *)

\* The strengthening of the invariants that a step preserves: what is still to be
\* deleted is alive.
IInv ==
  /\ TypeOK
  /\ IDsPartition
  /\ NoIDLeak
  /\ Len(store.ents) <= peak
  /\ entsToDelete \subseteq LiveIDs(store)

LEMMA InitIInv == Init => IInv
<1> SUFFICES ASSUME Init
             PROVE  IInv
  OBVIOUS
<1>1. store.ents = <<>> /\ store.first = 0 /\ store.pool = <<>> /\ store \in Store
  BY DEF Init, EmptyStore, Store
<1>2. DOMAIN store.ents = {} /\ DOMAIN store.pool = {}
  BY <1>1
<1>3. Len(store.ents) = 0 /\ Len(store.pool) = 0
  BY <1>1
<1>4. Partitioned(store)
  BY <1>2 DEF Partitioned, IDsDistinct, PoolDistinct, PoolDisjoint, IDsBelowTop
<1>5. QED
  BY <1>1, <1>3, <1>4 DEF Init, IInv, TypeOK, IDsPartition, NoIDLeak, NoneLost

\* A new entity: its ID is fresh, and the top rises only when all IDs below it are
\* in use, so never above the number of entities.
LEMMA NewIInv ==
  ASSUME IInv, NEW explodey \in BOOLEAN, New(explodey)
  PROVE  IInv' /\ LiveIDs(store) \subseteq LiveIDs(store)'
<1>1. store \in Store /\ Partitioned(store) /\ NoneLost(store) /\ store.first <= peak
      /\ peak \in Nat /\ Len(store.ents) <= peak
  BY DEF IInv, TypeOK, IDsPartition, NoIDLeak
<1>2. store' = NewEntity(store, explodey)
  BY DEF New
<1>3. /\ store' \in Store /\ Partitioned(store') /\ NoneLost(store')
      /\ LiveIDs(store') = LiveIDs(store) \cup {NextID(store)}
      /\ Len(store'.ents) = Len(store.ents) + 1
      /\ store'.first = IF store.pool = <<>> THEN store.first + 1 ELSE store.first
  BY <1>1, <1>2, NewEntitySound
<1>4. /\ Len(store.ents) \in Nat /\ Len(store.pool) \in Nat /\ store.first \in Nat
      /\ Len(store'.ents) \in Nat /\ store'.first \in Nat
  BY <1>1, <1>3, StoreParts
<1>5. /\ peak' = IF peak < Len(store'.ents) THEN Len(store'.ents) ELSE peak
      /\ UNCHANGED <<entsToDelete, deletedEntities>>
  BY DEF New
<1>6. peak' \in Nat /\ Len(store'.ents) <= peak' /\ peak <= peak'
  BY <1>1, <1>4, <1>5
<1>7. store'.first <= peak'
  <2>1. CASE store.pool = <<>>
    <3>1. Len(store.pool) = 0
      BY <2>1
    <3>2. store.first = Len(store.ents)
      BY <1>1, <1>4, <3>1 DEF NoneLost
    <3>3. store'.first = Len(store'.ents)
      BY <1>3, <2>1, <3>2
    <3>4. QED
      BY <1>6, <3>3
  <2>2. CASE store.pool # <<>>
    BY <1>1, <1>3, <1>4, <1>6, <2>2
  <2>3. QED
    BY <2>1, <2>2
<1>8. QED
  BY <1>3, <1>5, <1>6, <1>7 DEF IInv, TypeOK, IDsPartition, NoIDLeak

\* One iteration of the deletion loop.
LEMMA DeleteNextIInv ==
  ASSUME IInv, DeleteNext
  PROVE  /\ IInv'
         /\ LiveIDs(store) \ LiveIDs(store)' = {Last(deletedEntities')}
         /\ Len(deletedEntities') > Len(deletedEntities)
<1>1. store \in Store /\ Partitioned(store) /\ NoneLost(store) /\ store.first <= peak
      /\ peak \in Nat /\ Len(store.ents) <= peak /\ entsToDelete \subseteq LiveIDs(store)
      /\ deletedEntities \in Seq(Nat) /\ entsToDelete \in SUBSET Nat
  BY DEF IInv, TypeOK, IDsPartition, NoIDLeak
<1>2. PICK id \in entsToDelete :
        /\ deletedEntities' = Append(deletedEntities, id)
        /\ store' = DeleteEntity(store, id)
        /\ entsToDelete' = entsToDelete \ {id}
        /\ peak' = peak
  BY DEF DeleteNext
<1>3. id \in LiveIDs(store) /\ id \in Nat
  BY <1>1
<1>4. /\ store' \in Store /\ Partitioned(store') /\ NoneLost(store')
      /\ LiveIDs(store') = LiveIDs(store) \ {id}
      /\ Len(store'.ents) = Len(store.ents) - 1
      /\ store'.first <= store.first
  BY <1>1, <1>2, <1>3, DeleteEntitySound
<1>5. /\ Len(store.ents) \in Nat /\ store.first \in Nat /\ store'.first \in Nat
  BY <1>1, <1>4, StoreParts
<1>6. Len(store'.ents) <= peak' /\ store'.first <= peak'
  BY <1>1, <1>2, <1>4, <1>5
<1>7. /\ deletedEntities' \in Seq(Nat)
      /\ Len(deletedEntities') = Len(deletedEntities) + 1
      /\ deletedEntities'[Len(deletedEntities) + 1] = id
      /\ Len(deletedEntities) \in Nat
  BY <1>1, <1>2, <1>3, AppendProperties, LenProperties
<1>8. Last(deletedEntities') = id /\ Len(deletedEntities') > Len(deletedEntities)
  BY <1>7 DEF Last
<1>9. IInv'
  BY <1>1, <1>2, <1>4, <1>6, <1>7 DEF IInv, TypeOK, IDsPartition, NoIDLeak
<1>10. QED
  BY <1>3, <1>4, <1>8, <1>9

LEMMA NextIInv ==
  ASSUME IInv, [Next]_vars
  PROVE  IInv'
<1>1. ASSUME NEW explodey \in BOOLEAN, New(explodey)
      PROVE  IInv'
  BY <1>1, NewIInv
<1>2. CASE Update
  <2>1. store' = store /\ deletedEntities' = deletedEntities /\ peak' = peak
    BY <1>2 DEF Update
  <2>2. PICK hit \in SUBSET MayExplode(store) :
          entsToDelete' = {store.ents[k].id : k \in hit}
    BY <1>2 DEF Update
  <2>3. entsToDelete' \subseteq LiveIDs(store) /\ LiveIDs(store) \in SUBSET Nat
    BY <2>2, StoreParts DEF LiveIDs, IDsOf, MayExplode, IInv, TypeOK
  <2>4. QED
    BY <2>1, <2>3 DEF IInv, TypeOK, IDsPartition, NoIDLeak, LiveIDs
<1>3. CASE DeleteNext
  BY <1>3, DeleteNextIInv
<1>4. CASE DrainDeleted
  BY <1>4 DEF DrainDeleted, IInv, TypeOK, IDsPartition, NoIDLeak
<1>5. CASE UNCHANGED vars
  BY <1>5 DEF vars, IInv, TypeOK, IDsPartition, NoIDLeak
<1>6. QED
  BY <1>1, <1>2, <1>3, <1>4, <1>5 DEF Next

THEOREM Invariance == Spec => []IInv
BY InitIInv, NextIInv, PTL DEF Spec

\* The variables keep their types: an entity's ID is never negative, nor is the top
\* of the allocator (entity.h:106).
THEOREM TypeCorrect == Spec => []TypeOK
<1>1. IInv => TypeOK
  BY DEF IInv
<1>2. QED
  BY <1>1, Invariance, PTL

\* For every number of entities and every history, the IDs handed out are split
\* between entities and pool, each in one place (entity.cpp:211-231).
THEOREM IDsPartitioned == Spec => []IDsPartition
<1>1. IInv => IDsPartition
  BY DEF IInv
<1>2. QED
  BY <1>1, Invariance, PTL

\* No ID is lost and the allocator never counts above the most entities there have
\* been at once (entity.cpp:211-231).
THEOREM NoLeak == Spec => []NoIDLeak
<1>1. IInv => NoIDLeak
  BY DEF IInv
<1>2. QED
  BY <1>1, Invariance, PTL

\* update() deletes only what is there, and the assertion of put() at entity.cpp:225
\* holds whenever it does.
THEOREM SafeDeletion == Spec => []DeletionIsSafe
<1>1. ASSUME IInv
      PROVE  DeletionIsSafe
  <2>1. ASSUME NEW id \in entsToDelete
        PROVE  PutAsserts(store)
    BY <1>1, DeleteEntitySound DEF IInv, TypeOK, IDsPartition
  <2>2. QED
    BY <1>1, <2>1 DEF IInv, DeletionIsSafe
<1>2. QED
  BY <1>1, Invariance, PTL

\* An entity disappears in the steps that report it, and in no other
\* (entity.cpp:302-305).
THEOREM ReportsAreComplete == Spec => VanishIffReported
<1> DEFINE A == LiveIDs(store) \ LiveIDs(store)' =
                  IF Len(deletedEntities') > Len(deletedEntities)
                  THEN {Last(deletedEntities')} ELSE {}
<1>1. ASSUME IInv, [Next]_vars
      PROVE  [A]_vars
  <2>0. Len(deletedEntities) \in Nat
    BY <1>1, LenProperties DEF IInv, TypeOK
  <2>1. ASSUME NEW explodey \in BOOLEAN, New(explodey)
        PROVE  A
    BY <1>1, <2>0, <2>1, NewIInv DEF New
  <2>2. CASE Update
    BY <2>0, <2>2 DEF Update
  <2>3. CASE DeleteNext
    BY <1>1, <2>3, DeleteNextIInv
  <2>4. CASE DrainDeleted
    BY <2>0, <2>4 DEF DrainDeleted
  <2>5. QED
    BY <1>1, <2>1, <2>2, <2>3, <2>4 DEF Next
<1>2. QED
  BY <1>1, Invariance, PTL DEF Spec, VanishIffReported

=============================================================================
