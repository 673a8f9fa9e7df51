------------------------------- MODULE Server -------------------------------
(***************************************************************************)
(* net::Server (narf/net/server.cpp) and the part of each client that       *)
(* mirrors its world (narf/client/main.cpp, processChunk .. processEntity). *)
(*                                                                          *)
(* The server runs one thread: tick() dispatches the events ENet has,       *)
(* updates the world and sends every connected client the chunks marked     *)
(* dirty, all entities, and the deletions.  Each handler and the rest of    *)
(* the tick are one action.  ENet, modelled from how it is used, keeps one  *)
(* peer object per client slot and delivers each channel of a connection    *)
(* reliably and in order; channels are not ordered with each other, and     *)
(* what is in flight is lost with the connection.                           *)
(*                                                                          *)
(* A chunk is represented by one of its blocks.  Of the entities, only      *)
(* existence, ID and the explodey flag are kept.  Chat is left out.         *)
(***************************************************************************)
EXTENDS EntityStore, Integers, FiniteSets

CONSTANTS
  Peers,        \* the ENet peer objects of the server's host
  NoPeer,       \* nullptr
  Chunks,       \* the coordinates of the chunks
  Ground,       \* the chunks generate() puts dirt in
  Bedrock,      \* the chunks generate() puts adminium in; it leaves the rest as air
  MaxConnects,  \* bound on connections
  MaxEdits,     \* bound on block commands
  MaxShots,     \* bound on projectiles fired
  Backlog       \* bound on the messages of a channel when a tick sends more

ASSUME ServerAssumption ==
  /\ IsFiniteSet(Peers) /\ NoPeer \notin Peers
  /\ IsFiniteSet(Chunks) /\ Ground \subseteq Chunks /\ Bedrock \subseteq Chunks
  /\ MaxConnects \in Nat /\ MaxEdits \in Nat /\ MaxShots \in Nat /\ Backlog \in Nat

VARIABLES
  link,            \* of each peer: free, requested, open, or lost (the client is
                   \* gone and the server not yet told)
  clients,         \* the server's client slots
  peerData,        \* ENetPeer::data: the peer's slot, or 0
  world,           \* the server's blocks, and its chunkCache of dirty flags
  store,           \* world->entityManager
  deletedEntities, \* IDs whose deletion no client has been sent
  toServer,        \* player commands in flight, per peer
  toClient,        \* messages in flight, per peer and channel
  replica,         \* the remote client's world, per peer
  budget           \* what the bounds still allow

vars == <<link, clients, peerData, world, store, deletedEntities,
          toServer, toClient, replica, budget>>

-----------------------------------------------------------------------------
Slot == 1 .. Cardinality(Peers)  \* maxClients of them
Block == {"Air", "Dirt", "Adminium", "Brick"}
Unallocated == "Unallocated"     \* the null chunk pointer of a chunk never fetched
InvalidID == -1                  \* UINT32_MAX

PlayerCommand == [type : {"Primary", "Secondary"}, chunk : Chunks] \cup [type : {"Ternary"}]
ChunkMsg == [chunk : Chunks, block : Block]
EntityMsg == [type : {"FullUpdate", "Deleted"}, id : Nat]

TypeOK ==
  /\ link \in [Peers -> {"free", "requested", "open", "lost"}]
  /\ clients \in [Slot -> [peer : Peers \cup {NoPeer}, entityID : Nat \cup {InvalidID}]]
  /\ peerData \in [Peers -> Slot \cup {0}]
  /\ world.block \in [Chunks -> Block \cup {Unallocated}]
  /\ DOMAIN world.dirty \subseteq Chunks
  /\ \A c \in DOMAIN world.dirty : world.dirty[c] \in BOOLEAN
  /\ store \in Store
  /\ deletedEntities \in Seq(Nat)
  /\ toServer \in [Peers -> Seq(PlayerCommand)]
  /\ toClient \in [Peers -> [chunk : Seq(ChunkMsg), entity : Seq(EntityMsg),
                             camera : Seq(Nat)]]
  /\ replica \in [Peers -> [block : [Chunks -> Block], store : Store,
                            playerEID : Nat \cup {InvalidID}]]
  /\ budget \in [connects : Nat, edits : Nat, shots : Nat]

-----------------------------------------------------------------------------
(***************************************************************************)
(* The world and its dirty flags, as operators on [block, dirty].           *)
(***************************************************************************)
Terrain(c) == CASE c \in Bedrock -> "Adminium"
                [] c \in Ground \ Bedrock -> "Dirt"
                [] OTHER -> "Air"

\* Mutant of ChunkUpdate: a chunk the cache knows keeps the flag it has.
ChunkUpdateNewOnly(dirty, S) ==
  [c \in DOMAIN dirty \cup S |-> IF c \in DOMAIN dirty THEN dirty[c] ELSE TRUE]

\* chunkUpdate() of each chunk of S: an absent entry is created, then set dirty.
ChunkUpdate(dirty, S) ==
  [c \in DOMAIN dirty \cup S |-> IF c \in S THEN TRUE ELSE dirty[c]]

\* Mutant of GetChunks: the chunk is handed out before it is there.
GetChunksLazily(w, S) == w

\* World::getChunk() of each chunk of S: the first fetch allocates the chunk and
\* generates it, and each block generated reports an update.
GetChunks(w, S) ==
  LET new == {c \in S : w.block[c] = Unallocated} IN
  [block |-> [c \in Chunks |-> IF c \in new THEN Terrain(c) ELSE w.block[c]],
   dirty |-> ChunkUpdate(w.dirty, {c \in new : Terrain(c) # "Air"})]

\* Chunk::putBlock() leaves an indestructible block alone.
Destructible(b) == b # "Adminium"

\* World::putBlock() in each chunk of S: only a block that is replaced reports an
\* update, even if it was the same.
PutBlocks(w, S, b) ==
  LET g    == GetChunks(w, S)
      soft == {c \in S : Destructible(g.block[c])}
  IN [block |-> [c \in Chunks |-> IF c \in soft THEN b ELSE g.block[c]],
      dirty |-> ChunkUpdate(g.dirty, soft)]

DirtyChunks(w) == {c \in DOMAIN w.dirty : w.dirty[c]}  \* clientChunkDirty()
MarkChunksClean(w) == [w EXCEPT !.dirty = [c \in DOMAIN w.dirty |-> FALSE]]

\* sendChunkUpdate() of each chunk of S; no two messages are about one chunk.
ChunkMessages(w, S) ==
  LET order == SetToSeq(S) IN
  [k \in DOMAIN order |-> [chunk |-> order[k], block |-> w.block[order[k]]]]

EntityMessages(type, ids) == [k \in DOMAIN ids |-> [type |-> type, id |-> ids[k]]]
IDSeq(ents) == [k \in DOMAIN ents |-> ents[k].id]

-----------------------------------------------------------------------------
\* A connected client has just made a new world, whose chunks it generates itself.
FreshReplica == [block |-> [c \in Chunks |-> Terrain(c)], store |-> EmptyStore,
                 playerEID |-> InvalidID]
EmptyChannels == [chunk |-> <<>>, entity |-> <<>>, camera |-> <<>>]

\* The constructor and genWorld(): one test entity.
Init ==
  /\ link = [p \in Peers |-> "free"]
  /\ clients = [i \in Slot |-> [peer |-> NoPeer, entityID |-> InvalidID]]
  /\ peerData = [p \in Peers |-> 0]
  /\ world = [block |-> [c \in Chunks |-> Unallocated], dirty |-> [c \in {} |-> FALSE]]
  /\ store = NewEntity(EmptyStore, FALSE)
  /\ deletedEntities = <<>>
  /\ toServer = [p \in Peers |-> <<>>]
  /\ toClient = [p \in Peers |-> EmptyChannels]
  /\ replica = [p \in Peers |-> FreshReplica]
  /\ budget = [connects |-> MaxConnects, edits |-> MaxEdits, shots |-> MaxShots]

-----------------------------------------------------------------------------
(***************************************************************************)
(* The environment: clients come, send commands and go.                     *)
(***************************************************************************)
serverVars == <<clients, peerData, world, store, deletedEntities>>

\* ENet takes a free peer object for the handshake.
Connect(p) ==
  /\ link[p] = "free"
  /\ budget.connects > 0
  /\ budget' = [budget EXCEPT !.connects = @ - 1]
  /\ link' = [link EXCEPT ![p] = "requested"]
  /\ replica' = [replica EXCEPT ![p] = FreshReplica]
  /\ UNCHANGED <<serverVars, toServer, toClient>>

\* The client quits, crashes or loses the network.  A peer whose CONNECT event
\* was not dispatched is reset without any event.
Leave(p) ==
  /\ link[p] \in {"requested", "open"}
  /\ link' = [link EXCEPT ![p] = IF @ = "open" THEN "lost" ELSE "free"]
  /\ toServer' = [toServer EXCEPT ![p] = IF link[p] = "open" THEN @ ELSE <<>>]
  /\ toClient' = [toClient EXCEPT ![p] = EmptyChannels]
  /\ replica' = [replica EXCEPT ![p] = FreshReplica]
  /\ UNCHANGED <<serverVars, budget>>

\* sendPlayerCommand(), once the client is connected.
SendCommand(p, cmd) ==
  /\ link[p] \in {"requested", "open"}
  /\ IF cmd.type = "Ternary"
     THEN budget.shots > 0 /\ budget' = [budget EXCEPT !.shots = @ - 1]
     ELSE budget.edits > 0 /\ budget' = [budget EXCEPT !.edits = @ - 1]
  /\ toServer' = [toServer EXCEPT ![p] = Append(@, cmd)]
  /\ UNCHANGED <<link, serverVars, toClient, replica>>

-----------------------------------------------------------------------------
(***************************************************************************)
(* The server.                                                              *)
(***************************************************************************)
\* The slot processConnect() finds: the first without a peer.
FreeSlot(i) == /\ i \in Slot
               /\ clients[i].peer = NoPeer
               /\ \A j \in Slot : j < i => clients[j].peer # NoPeer

\* Mutant of CameraTo: everyone is told, as with the greeting.
CameraToAll(p) == {p} \cup {q \in Peers : link[q] = "open"}

\* Who is told of the new player's entity: the player.
CameraTo(p) == {p}

\* processConnect(): slot, entity for the player, camera, and all the chunks.
ProcessConnect(p) ==
  /\ link[p] = "requested"
  /\ \E i \in Slot :
       /\ FreeSlot(i)
       /\ clients' = [clients EXCEPT ![i] = [peer |-> p, entityID |-> NextID(store)]]
       /\ peerData' = [peerData EXCEPT ![p] = i]
  /\ store' = NewEntity(store, FALSE)
  /\ world' = GetChunks(world, Chunks)
  /\ toClient' = [q \in Peers |->
       [toClient[q] EXCEPT
          !.camera = IF q \in CameraTo(p) THEN Append(@, NextID(store)) ELSE @,
          !.chunk = IF q = p THEN @ \o ChunkMessages(world', Chunks) ELSE @]]
  /\ link' = [link EXCEPT ![p] = "open"]
  /\ UNCHANGED <<deletedEntities, toServer, replica, budget>>

\* Mutant of ClearSlot: the slot keeps its peer.
KeepSlot(i) == clients

ClearSlot(i) == [clients EXCEPT ![i].peer = NoPeer]

\* processDisconnect(): the slot is freed; the player's entity stays.
ProcessDisconnect(p) ==
  /\ link[p] = "lost"
  /\ clients' = ClearSlot(peerData[p])
  /\ peerData' = [peerData EXCEPT ![p] = 0]
  /\ link' = [link EXCEPT ![p] = "free"]
  /\ toServer' = [toServer EXCEPT ![p] = <<>>]
  /\ UNCHANGED <<world, store, deletedEntities, toClient, replica, budget>>

\* PlayerCommand::exec(): a block removed, a block added, or a projectile fired.
Exec(cmd) ==
  \/ /\ cmd.type = "Primary" /\ UNCHANGED store
     /\ world' = PutBlocks(world, {cmd.chunk}, "Air")
  \/ /\ cmd.type = "Secondary" /\ UNCHANGED store
     /\ world' = PutBlocks(world, {cmd.chunk}, "Brick")
  \/ /\ cmd.type = "Ternary" /\ UNCHANGED world
     /\ store' = NewEntity(store, TRUE)

\* processPlayerCommand().
ProcessPlayerCommand(p) ==
  /\ peerData[p] # 0
  /\ toServer[p] # <<>>
  /\ Exec(Head(toServer[p]))
  /\ toServer' = [toServer EXCEPT ![p] = Tail(@)]
  /\ UNCHANGED <<link, clients, peerData, deletedEntities, toClient, replica, budget>>

-----------------------------------------------------------------------------
(***************************************************************************)
(* The rest of tick(): World::update(), the updates to each client, and     *)
(* markChunksClean().                                                       *)
(***************************************************************************)
Connected == {i \in Slot : clients[i].peer # NoPeer}

\* The queue is emptied inside the loop over the clients: the first one gets it all.
TellsDeletions(i) == i \in Connected /\ \A j \in Connected : i <= j

\* Mutant of ChunksSent: the flags are cleared after the first client.
ChunksSentToFirst(i, w) ==
  IF \A j \in Connected : i <= j THEN ChunkMessages(w, DirtyChunks(w)) ELSE <<>>

\* What the client in slot i is sent on the chunk channel.
ChunksSent(i, w) == ChunkMessages(w, DirtyChunks(w))

\* Mutant of EntitiesSent: nobody is told of deletions.
NoDeletionsSent(i, st, deleted) == EntityMessages("FullUpdate", IDSeq(st.ents))

\* What the client in slot i is sent on the entity channel.
EntitiesSent(i, st, deleted) ==
  EntityMessages("FullUpdate", IDSeq(st.ents))
    \o (IF TellsDeletions(i) THEN EntityMessages("Deleted", deleted) ELSE <<>>)

\* markChunksClean() does its work once per connected client, so for one at least.
Cleaned(w) == IF Connected = {} THEN w ELSE MarkChunksClean(w)

\* One turn of the loop that ends EntityManager::update(): the server notes the deletion
\* it is told of (onEntityDeleted), and the entity goes.
DeleteReported(u, id) == [store |-> DeleteEntity(u.store, id), deleted |-> Append(u.deleted, id)]

\* The loop: the entities of hit are deleted in the order they have in the vector.
UpdateEntities(hit) ==
  LET ents == store.ents
      after[k \in 0 .. Len(ents)] ==
        IF k = 0 THEN [store |-> store, deleted |-> deletedEntities]
        ELSE IF ents[k].id \in hit THEN DeleteReported(after[k - 1], ents[k].id)
        ELSE after[k - 1]
  IN after[Len(ents)]

\* hit: the entities that explode.  touched: the chunks entities look blocks up in.
\* blown: the chunks the explosions put air in.
Tick(hit, touched, blown) ==
  /\ \A p \in Peers : /\ Len(toClient[p].chunk) <= Backlog
                      /\ Len(toClient[p].entity) <= Backlog
  /\ LET entities == UpdateEntities(hit)
         updated  == PutBlocks(GetChunks(world, touched), blown, "Air")
         seen     == IF Connected = {} THEN updated ELSE GetChunks(updated, Chunks)
     IN /\ store' = entities.store
        /\ toClient' = [p \in Peers |->
             IF link[p] = "open"
             THEN [toClient[p] EXCEPT
                     !.chunk = @ \o ChunksSent(peerData[p], seen),
                     !.entity = @ \o EntitiesSent(peerData[p], entities.store, entities.deleted)]
             ELSE toClient[p]]
        /\ deletedEntities' = IF Connected = {} THEN entities.deleted ELSE <<>>
        /\ world' = Cleaned(seen)
  /\ UNCHANGED <<link, clients, peerData, toServer, replica, budget>>

ExplodeyIDs == {store.ents[k].id : k \in MayExplode(store)}
UnallocatedChunks == {c \in Chunks : world.block[c] = Unallocated}

TickQuiet == \E touched \in SUBSET UnallocatedChunks : Tick({}, touched, {})

TickExplosions ==
  \E hit \in SUBSET ExplodeyIDs \ {{}}, blown \in SUBSET Chunks \ {{}} :
    Tick(hit, {}, blown)

-----------------------------------------------------------------------------
(***************************************************************************)
(* The client's processReceive(), by channel.                               *)
(***************************************************************************)
ProcessChunk(p) ==
  /\ link[p] = "open"
  /\ toClient[p].chunk # <<>>
  /\ LET m == Head(toClient[p].chunk) IN
     replica' = [replica EXCEPT ![p].block[m.chunk] = m.block]
  /\ toClient' = [toClient EXCEPT ![p].chunk = Tail(@)]
  /\ UNCHANGED <<link, serverVars, toServer, budget>>

\* Mutant of ApplyEntity: a full update of an unknown entity is dropped.
ApplyKnownOnly(st, m) == IF m.type = "FullUpdate" THEN st ELSE DeleteEntity(st, m.id)

\* EntityManager::deserializeEntityUpdate().
ApplyEntity(st, m) ==
  CASE m.type = "FullUpdate" -> IF Has(st, m.id) THEN st ELSE NewEntityWithID(st, m.id)
    [] m.type = "Deleted"    -> DeleteEntity(st, m.id)

ProcessEntity(p) ==
  /\ link[p] = "open"
  /\ toClient[p].entity # <<>>
  /\ replica' = [replica EXCEPT ![p].store = ApplyEntity(@, Head(toClient[p].entity))]
  /\ toClient' = [toClient EXCEPT ![p].entity = Tail(@)]
  /\ UNCHANGED <<link, serverVars, toServer, budget>>

\* processPlayerCmd(): which entity the camera follows.
ProcessPlayerCmd(p) ==
  /\ link[p] = "open"
  /\ toClient[p].camera # <<>>
  /\ replica' = [replica EXCEPT ![p].playerEID = Head(toClient[p].camera)]
  /\ toClient' = [toClient EXCEPT ![p].camera = Tail(@)]
  /\ UNCHANGED <<link, serverVars, toServer, budget>>

-----------------------------------------------------------------------------
Next ==
  \/ \E p \in Peers : \/ Connect(p)
                      \/ Leave(p)
                      \/ \E cmd \in PlayerCommand : SendCommand(p, cmd)
                      \/ ProcessConnect(p)
                      \/ ProcessDisconnect(p)
                      \/ ProcessPlayerCommand(p)
                      \/ ProcessChunk(p)
                      \/ ProcessEntity(p)
                      \/ ProcessPlayerCmd(p)
  \/ TickQuiet
  \/ TickExplosions

Spec == Init /\ [][Next]_vars

\* The server's loop keeps ticking and dispatches what arrived; ENet delivers what
\* it accepted on an open connection.  Nothing is assumed of clients coming, acting
\* or leaving, nor that a projectile ever hits anything.
Fairness ==
  /\ WF_vars(TickQuiet \/ TickExplosions)
  /\ \A p \in Peers : /\ WF_vars(ProcessConnect(p))
                      /\ WF_vars(ProcessDisconnect(p))
                      /\ WF_vars(ProcessPlayerCommand(p))
                      /\ WF_vars(ProcessChunk(p))
                      /\ WF_vars(ProcessEntity(p))
                      /\ WF_vars(ProcessPlayerCmd(p))

FairSpec == Spec /\ Fairness

-----------------------------------------------------------------------------
\* The slots and the peers' data pointers are the two directions of one bijection,
\* over all the connections the server knows, and a peer that asks to connect always
\* finds a free slot: the "No client slots available" branch of processConnect
\* (server.cpp:209) is dead, and processDisconnect never dereferences a null client.
SlotsMatchPeers ==
  /\ \A p \in Peers : /\ link[p] \in {"open", "lost"} <=> peerData[p] # 0
                      /\ peerData[p] # 0 => clients[peerData[p]].peer = p
                      /\ link[p] = "requested" => \E i \in Slot : FreeSlot(i)
  /\ \A i \in Connected : peerData[clients[i].peer] = i

\* However projectiles come and go and IDs are reused, every connected player has an
\* entity of his own that stays alive on the server, which no explosion takes away
\* (processConnect, server.cpp:223; EntityManager::update, entity.cpp:294).
PlayersOwnEntities ==
  /\ \A i \in Connected : \E k \in DOMAIN store.ents :
       store.ents[k] = [id |-> clients[i].entityID, explodey |-> FALSE]
  /\ \A i, j \in Connected : clients[i].entityID = clients[j].entityID => i = j

\* Where the camera of a client is, or will be when what is in flight arrives: at the
\* entity the server made for its player (sendPlayerCameraUpdate, server.cpp:185).
CameraOnOwnEntity ==
  \A p \in Peers : link[p] = "open" =>
    clients[peerData[p]].entityID =
      IF toClient[p].camera = <<>> THEN replica[p].playerEID ELSE Last(toClient[p].camera)

\* What a client shows of a chunk once what is in flight has arrived.
LastAbout(q, c, k) == q[k].chunk = c /\ \A j \in DOMAIN q : j > k => q[j].chunk # c
Arriving(p, c, b) ==
  LET q == toClient[p].chunk IN
  \/ \E k \in DOMAIN q : LastAbout(q, c, k) /\ q[k].block = b
  \/ (\A k \in DOMAIN q : q[k].chunk # c) /\ replica[p].block[c] = b

\* No edit is lost: a chunk that some client will not see as it is, is marked dirty,
\* so the next tick sends it.  One flag per chunk, cleared for all clients at once
\* (server.cpp:150), serves clients that connected at different times, also while
\* edits arrive between their ticks.
StaleViewsAreDirty ==
  \A p \in Peers, c \in Chunks :
    link[p] = "open" /\ ~Arriving(p, c, world.block[c]) => c \in DirtyChunks(world)

\* Once clients stop editing, every client that stays connected ends with the
\* server's blocks.
ChunksConverge ==
  <>[](\A p \in Peers, c \in Chunks :
         link[p] = "open" => replica[p].block[c] = world.block[c])

\* Every entity of the server ends up in, and stays in, the world of each client that
\* stays connected, also one that got the deletion of an earlier owner of its ID.
EntitiesArrive ==
  <>[](\A p \in Peers : link[p] = "open" => LiveIDs(store) \subseteq LiveIDs(replica[p].store))

\* The first client, the one in the first slot, ends with exactly the server's entities:
\* it is sent every deletion while it is there.  The next to take the slot may be sent one
\* from before its time, even of the ID its own player got; a later tick puts that right.
FirstClientConverges ==
  <>[](\A p \in Peers : link[p] = "open" /\ peerData[p] = 1 =>
         LiveIDs(store) = LiveIDs(replica[p].store))

\* The comment at server.cpp:328, "send chunk and entity updates to all clients":
\* once nothing is left to send or in flight, no client shows an entity that is gone.
NoGhosts ==
  \A p \in Peers :
    link[p] = "open" /\ toClient[p].entity = <<>> /\ deletedEntities = <<>> =>
      LiveIDs(replica[p].store) \subseteq LiveIDs(store)

\* The assertion of EntityIDAllocator::put (entity.cpp:225) at a client, whenever it
\* applies a deletion of an entity it has.
ReplicaPutAsserts ==
  \A p \in Peers :
    LET q == toClient[p].entity IN
    link[p] = "open" /\ q # <<>> /\ Head(q).type = "Deleted" /\ Has(replica[p].store, Head(q).id) =>
      PutAsserts(replica[p].store)
=============================================================================
