----------------------------- MODULE EntityStore -----------------------------
(***************************************************************************)
(* The data structure inside narf::EntityManager (entity.h:111-148): the   *)
(* vector of entities and the EntityIDAllocator that numbers them.  Both   *)
(* the server, which creates entities with newEntity(), and a client       *)
(* replica, which creates them under the server's numbers with             *)
(* newEntity(id), keep one.                                                *)
(*                                                                         *)
(* A store is a record                                                     *)
(*   ents  - entities_, in vector order; of an entity only the ID and the  *)
(*           explodey flag are kept (position, velocity and model decide   *)
(*           nothing here);                                                *)
(*   first - firstFreeID_ of the allocator;                                *)
(*   pool  - freeIDPool_ of the allocator, the back is the last element.   *)
(***************************************************************************)
EXTENDS Naturals, SequencesExt

Entity == [id : Nat, explodey : BOOLEAN]
Store == [ents : Seq(Entity), first : Nat, pool : Seq(Nat)]

EmptyStore == [ents |-> <<>>, first |-> 0, pool |-> <<>>]

IDsOf(ents) == {ents[k].id : k \in DOMAIN ents}

\* The IDs of the entities of a store, and whether it has one of them.
LiveIDs(st) == IDsOf(st.ents)
Has(st, id) == id \in LiveIDs(st)

-----------------------------------------------------------------------------
\* EntityIDAllocator::get(): the ID it returns, and the allocator it leaves.
\* (The mutants defined below each state how one definition could go wrong.)
NextID(st) == IF st.pool = <<>> THEN st.first ELSE Last(st.pool)

\* Mutant of Get: the top moves the wrong way.
GetLowersTop(st) == IF st.pool = <<>> THEN [st EXCEPT !.first = @ - 1]
                                      ELSE [st EXCEPT !.pool = Front(@)]

Get(st) == IF st.pool = <<>> THEN [st EXCEPT !.first = @ + 1]
                             ELSE [st EXCEPT !.pool = Front(@)]

\* EntityIDAllocator::put(id): an ID at the top lowers the top, any other is
\* pooled.  With first = 0 the code compares id with the 32-bit value -1, which
\* no entity has, so the ID is pooled.

\* Mutants of Put: the top is lowered past an ID that is still out; or an ID below
\* the top is forgotten.
PutAnyLowersTop(st, id) == [st EXCEPT !.first = @ - 1]
PutForgets(st, id) == IF id + 1 = st.first THEN [st EXCEPT !.first = @ - 1] ELSE st

Put(st, id) == IF id + 1 = st.first THEN [st EXCEPT !.first = @ - 1]
                                    ELSE [st EXCEPT !.pool = Append(@, id)]

\* The assertion put() starts with (compiled out of release builds).
PutAsserts(st) == st.first > 0

-----------------------------------------------------------------------------
\* EntityManager::newEntity(): number from the allocator, entity at the back.
NewEntity(st, explodey) ==
  [Get(st) EXCEPT !.ents = Append(@, [id |-> NextID(st), explodey |-> explodey])]

\* EntityManager::newEntity(id), for replicas: the allocator is not told.
NewEntityWithID(st, id) ==
  [st EXCEPT !.ents = Append(@, [id |-> id, explodey |-> FALSE])]

\* EntityManager::deleteEntity(id): the first entity with the ID leaves the
\* vector and its ID goes back to the allocator; nothing happens without one.

\* Mutant of IndexOf: the vector's back is erased whatever was looked for.
IndexOfBack(ents, id) == Len(ents)

IndexOf(ents, id) ==
  CHOOSE k \in DOMAIN ents : /\ ents[k].id = id
                             /\ \A j \in DOMAIN ents : j < k => ents[j].id # id

DeleteEntity(st, id) ==
  IF Has(st, id)
  THEN Put([st EXCEPT !.ents = RemoveAt(@, IndexOf(@, id))], id)
  ELSE st

\* Entity::update() answers false for an explodey entity that touched a block, and
\* for no other: the positions of the entities it may be.
MayExplode(st) == {k \in DOMAIN st.ents : st.ents[k].explodey}

-----------------------------------------------------------------------------
(***************************************************************************)
(* What keeps a store sound: the IDs the allocator has handed out,         *)
(* 0 .. first-1, belong to one entity or to the pool, each of them once.   *)
(***************************************************************************)
IDsDistinct(st) ==
  \A j, k \in DOMAIN st.ents : st.ents[j].id = st.ents[k].id => j = k

PoolDistinct(st) == \A j, k \in DOMAIN st.pool : st.pool[j] = st.pool[k] => j = k

PoolDisjoint(st) == \A k \in DOMAIN st.pool : st.pool[k] \notin LiveIDs(st)

IDsBelowTop(st) == /\ \A k \in DOMAIN st.ents : st.ents[k].id < st.first
                   /\ \A k \in DOMAIN st.pool : st.pool[k] < st.first

Partitioned(st) ==
  IDsDistinct(st) /\ PoolDistinct(st) /\ PoolDisjoint(st) /\ IDsBelowTop(st)

\* None of them is lost.
NoneLost(st) == st.first = Len(st.ents) + Len(st.pool)

=============================================================================
