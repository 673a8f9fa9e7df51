---------------------------- MODULE EntityManager ----------------------------
(***************************************************************************)
(* narf::EntityManager as the server drives it (entity.cpp, server.cpp,    *)
(* playercmd.cpp).  Callers create entities; once per tick update() moves  *)
(* every entity, collects the ones that exploded and deletes them one by   *)
(* one, telling the listeners of onEntityDeleted about each just before it *)
(* goes.  The one listener is the server, whose deletedEntities queue is   *)
(* emptied by its tick.                                                    *)
(*                                                                         *)
(* The deletion loop is one action per iteration, and no other action can  *)
(* run while it is under way: the code has one thread.  The loop follows   *)
(* the vector's order, so its local vector entsToDelete is kept as the set *)
(* of the IDs it still has to delete, the first in entities_ being next.   *)
(***************************************************************************)
EXTENDS EntityStore

CONSTANTS
  MaxLive,     \* bound on the entities alive at once
  MaxReported  \* bound on the listener's queue when entities are created

ASSUME BoundsAssumption == MaxLive \in Nat /\ MaxReported \in Nat

VARIABLES
  store,           \* entities_ and idAllocator_
  entsToDelete,    \* what is left of the local of that name in update()
  deletedEntities, \* the listener's queue
  peak             \* history: the most entities there have ever been at once

vars == <<store, entsToDelete, deletedEntities, peak>>

TypeOK ==
  /\ store \in Store
  /\ entsToDelete \in SUBSET Nat
  /\ deletedEntities \in Seq(Nat)
  /\ peak \in Nat

Init ==
  /\ store = EmptyStore
  /\ entsToDelete = {}
  /\ deletedEntities = <<>>
  /\ peak = 0

\* newEntity(), for a player, the server's test entity, or a projectile.
New(explodey) ==
  /\ entsToDelete = {}
  /\ Len(store.ents) < MaxLive
  /\ Len(deletedEntities) < MaxReported
  /\ store' = NewEntity(store, explodey)
  /\ peak' = IF peak < Len(store'.ents) THEN Len(store'.ents) ELSE peak
  /\ UNCHANGED <<entsToDelete, deletedEntities>>

\* update(), first loop: Entity::update() answers false for any of those it may.
Update ==
  /\ entsToDelete = {}
  /\ \E hit \in SUBSET MayExplode(store) :
       entsToDelete' = {store.ents[k].id : k \in hit}
  /\ UNCHANGED <<store, deletedEntities, peak>>

\* update(), second loop: emit, then deleteEntity().
DeleteNext ==
  \E k \in DOMAIN store.ents :
    LET id == store.ents[k].id IN
    /\ id \in entsToDelete
    /\ \A j \in DOMAIN store.ents : j < k => store.ents[j].id \notin entsToDelete
    /\ deletedEntities' = Append(deletedEntities, id)
    /\ store' = DeleteEntity(store, id)
    /\ entsToDelete' = entsToDelete \ {id}
    /\ UNCHANGED peak

\* The listener's tick, when there is a client to tell, empties its queue.
DrainDeleted ==
  /\ entsToDelete = {}
  /\ deletedEntities' = <<>>
  /\ UNCHANGED <<store, entsToDelete, peak>>

Next ==
  \/ \E explodey \in BOOLEAN : New(explodey)
  \/ Update
  \/ DeleteNext
  \/ DrainDeleted

Spec == Init /\ [][Next]_vars

-----------------------------------------------------------------------------
\* The IDs the allocator has handed out, 0 .. first-1, are split exactly between
\* the entities and the pool, each ID once: however creations and deletions
\* interleave, get() (entity.cpp:211) cannot return the ID of a live entity, and
\* put() (entity.cpp:224) lowers the top only past an ID that is in neither.
IDsPartition == Partitioned(store)

\* No ID is ever lost: the IDs handed out are as many as the entities and the
\* pooled IDs together, and never more than the most entities ever alive at once,
\* so a server that creates and deletes for ever does not run out of 32-bit IDs.
NoIDLeak ==
  /\ NoneLost(store)
  /\ store.first <= peak

\* The assertion of put() (entity.cpp:225) holds whenever update() deletes, and
\* everything update() means to delete is still there when its turn comes.
DeletionIsSafe ==
  /\ entsToDelete \subseteq LiveIDs(store)
  /\ entsToDelete # {} => PutAsserts(store)

\* A listener of onEntityDeleted can mirror the set of entities: an entity
\* disappears exactly in the steps that report its ID, one at a time.
VanishIffReported ==
  [][LiveIDs(store) \ LiveIDs(store)' =
       IF Len(deletedEntities') > Len(deletedEntities)
       THEN {Last(deletedEntities')} ELSE {}]_vars

=============================================================================
