----------------------------- MODULE Server_proofs -----------------------------
(***************************************************************************)
(* Proofs about Server: the client slots, the players' entities, the       *)
(* camera and the dirty flags are right for any number of clients, chunks  *)
(* and entities, and whatever the clients do.                              *)
(***************************************************************************)
EXTENDS Server, EntityStore_proofs

-----------------------------------------------------------------------------
(* What a client shows of a chunk.                                         *)

\* Arriving, as an operator on a channel and on the blocks of a replica.
Shows(q, blocks, c, b) ==
  \/ \E k \in DOMAIN q : LastAbout(q, c, k) /\ q[k].block = b
  \/ (\A k \in DOMAIN q : q[k].chunk # c) /\ blocks[c] = b

LEMMA ArrivingShows ==
  ASSUME NEW p, NEW c, NEW b
  PROVE  Arriving(p, c, b) <=> Shows(toClient[p].chunk, replica[p].block, c, b)
BY DEF Arriving, Shows

\* A message that is not about the chunk changes nothing of what arrives about it.
LEMMA ShowsSkip ==
  ASSUME NEW q \in Seq(ChunkMsg), NEW m \in Seq(ChunkMsg), NEW blocks, NEW c, NEW b,
         \A k \in DOMAIN m : m[k].chunk # c,
         Shows(q, blocks, c, b)
  PROVE  Shows(q \o m, blocks, c, b)
<1> DEFINE s == q \o m
<1>1. /\ DOMAIN q = 1 .. Len(q) /\ Len(q) \in Nat
      /\ DOMAIN m = 1 .. Len(m) /\ Len(m) \in Nat
  BY LenProperties
<1>2. /\ s \in Seq(ChunkMsg) /\ Len(s) = Len(q) + Len(m)
      /\ \A k \in 1 .. Len(q) + Len(m) :
           s[k] = IF k <= Len(q) THEN q[k] ELSE m[k - Len(q)]
  BY ConcatProperties
<1> HIDE DEF s
<1>3. DOMAIN s = 1 .. Len(q) + Len(m)
  BY <1>2, LenProperties
<1>4. \A k \in DOMAIN q : k \in DOMAIN s /\ s[k] = q[k]
  BY <1>1, <1>2, <1>3
<1>5. ASSUME NEW k \in DOMAIN s, s[k].chunk = c
      PROVE  k \in DOMAIN q
  <2>1. CASE k <= Len(q)
    BY <1>1, <1>3, <2>1
  <2>2. CASE ~(k <= Len(q))
    <3>1. k - Len(q) \in DOMAIN m /\ s[k] = m[k - Len(q)]
      BY <1>1, <1>2, <1>3, <2>2
    <3>2. QED
      BY <1>5, <3>1
  <2>3. QED
    BY <2>1, <2>2
<1>6. CASE \E k \in DOMAIN q : LastAbout(q, c, k) /\ q[k].block = b
  <2>1. PICK k \in DOMAIN q : LastAbout(q, c, k) /\ q[k].block = b
    BY <1>6
  <2>2. LastAbout(s, c, k) /\ s[k].block = b
    BY <1>4, <1>5, <2>1 DEF LastAbout
  <2>3. QED
    BY <1>4, <2>2 DEF Shows, s
<1>7. CASE (\A k \in DOMAIN q : q[k].chunk # c) /\ blocks[c] = b
  BY <1>4, <1>5, <1>7 DEF Shows, s
<1>8. QED
  BY <1>6, <1>7 DEF Shows

\* The one message about the chunk decides what arrives.
LEMMA ShowsSent ==
  ASSUME NEW q \in Seq(ChunkMsg), NEW m \in Seq(ChunkMsg), NEW blocks, NEW c,
         NEW k \in DOMAIN m, m[k].chunk = c,
         \A j \in DOMAIN m : m[j].chunk = c => j = k
  PROVE  Shows(q \o m, blocks, c, m[k].block)
<1> DEFINE s == q \o m
           n == Len(q)
           l == Len(m)
<1>1. n \in Nat /\ l \in Nat /\ DOMAIN m = 1 .. l
  BY LenProperties
<1>2. /\ s \in Seq(ChunkMsg) /\ Len(s) = n + l
      /\ \A j \in 1 .. n + l : s[j] = IF j <= n THEN q[j] ELSE m[j - n]
  BY ConcatProperties
<1>3. DOMAIN s = 1 .. n + l
  BY <1>2, LenProperties
<1> HIDE DEF s, n, l
<1>4. n + k \in DOMAIN s /\ s[n + k] = m[k]
  <2>1. n + k \in 1 .. n + l /\ ~(n + k <= n) /\ (n + k) - n = k
    BY <1>1
  <2>2. QED
    BY <1>2, <1>3, <2>1
<1>5. ASSUME NEW j \in DOMAIN s, j > n + k
      PROVE  s[j].chunk # c
  <2>1. j - n \in 1 .. l /\ ~(j <= n) /\ j - n # k
    BY <1>1, <1>3, <1>5
  <2>2. s[j] = m[j - n] /\ j - n \in DOMAIN m
    BY <1>1, <1>2, <1>3, <2>1
  <2>3. QED
    BY <2>1, <2>2
<1>6. LastAbout(s, c, n + k)
  BY <1>4, <1>5 DEF LastAbout
<1>7. QED
  BY <1>4, <1>6 DEF Shows, s

\* Applying the first message changes nothing of what arrives.
LEMMA ShowsApplied ==
  ASSUME NEW q \in Seq(ChunkMsg), q # <<>>, NEW blocks \in [Chunks -> Block],
         NEW c \in Chunks, NEW b, Shows(q, blocks, c, b)
  PROVE  Shows(Tail(q), [blocks EXCEPT ![Head(q).chunk] = Head(q).block], c, b)
<1> DEFINE t == Tail(q)
           m == Head(q)
           n == Len(q)
           after == [blocks EXCEPT ![m.chunk] = m.block]
<1>1. n \in Nat /\ n # 0 /\ DOMAIN q = 1 .. n
  BY LenProperties, EmptySeq
<1>2. /\ t \in Seq(ChunkMsg) /\ Len(t) = n - 1
      /\ \A k \in 1 .. Len(t) : t[k] = q[k + 1]
      /\ m = q[1]
  BY HeadTailProperties
<1>3. DOMAIN t = 1 .. n - 1
  BY <1>2, LenProperties
<1> HIDE DEF t, m, n
<1>4. \A k \in DOMAIN t : k + 1 \in DOMAIN q /\ t[k] = q[k + 1]
  BY <1>1, <1>2, <1>3
<1>5. \A k \in DOMAIN q : k # 1 => k - 1 \in DOMAIN t /\ t[k - 1] = q[k]
  <2> SUFFICES ASSUME NEW k \in 1 .. n, k # 1
               PROVE  k - 1 \in 1 .. n - 1 /\ t[k - 1] = q[k]
    BY <1>1, <1>3
  <2>1. k - 1 \in 1 .. n - 1 /\ (k - 1) + 1 = k
    BY <1>1
  <2>2. QED
    BY <1>2, <1>3, <2>1
<1>6. after[c] = IF c = m.chunk THEN m.block ELSE blocks[c]
  OBVIOUS
<1> HIDE DEF after
<1>7. CASE \E k \in DOMAIN q : LastAbout(q, c, k) /\ q[k].block = b
  <2>1. PICK k \in DOMAIN q : LastAbout(q, c, k) /\ q[k].block = b
    BY <1>7
  <2>2. CASE k = 1
    <3>1. after[c] = b
      BY <1>2, <1>6, <2>1, <2>2 DEF LastAbout
    <3>2. \A j \in DOMAIN t : t[j].chunk # c
      <4> SUFFICES ASSUME NEW j \in DOMAIN t
                   PROVE  t[j].chunk # c
        OBVIOUS
      <4>1. j + 1 > k /\ j + 1 \in DOMAIN q /\ t[j] = q[j + 1]
        BY <1>1, <1>3, <1>4, <2>2
      <4>2. QED
        BY <2>1, <4>1 DEF LastAbout
    <3>3. QED
      BY <3>1, <3>2 DEF Shows, t, after, m
  <2>3. CASE k # 1
    <3>1. k - 1 \in DOMAIN t /\ t[k - 1] = q[k]
      BY <1>5, <2>3
    <3>2. ASSUME NEW j \in DOMAIN t, j > k - 1
          PROVE  t[j].chunk # c
      <4>1. j + 1 > k /\ j + 1 \in DOMAIN q /\ t[j] = q[j + 1]
        BY <1>1, <1>3, <1>4, <2>1, <3>2
      <4>2. QED
        BY <2>1, <4>1 DEF LastAbout
    <3>3. LastAbout(t, c, k - 1) /\ t[k - 1].block = b
      BY <2>1, <3>1, <3>2 DEF LastAbout
    <3>4. QED
      BY <3>1, <3>3 DEF Shows, t
  <2>4. QED
    BY <2>2, <2>3
<1>8. CASE (\A k \in DOMAIN q : q[k].chunk # c) /\ blocks[c] = b
  <2>1. m.chunk # c
    BY <1>1, <1>2, <1>8
  <2>2. after[c] = b /\ \A k \in DOMAIN t : t[k].chunk # c
    BY <1>4, <1>6, <1>8, <2>1
  <2>3. QED
    BY <2>2 DEF Shows, t, after, m
<1>9. QED
  BY <1>7, <1>8 DEF Shows

-----------------------------------------------------------------------------
(* The world and its dirty flags.                                          *)

WorldOK(w) ==
  /\ w.block \in [Chunks -> Block \cup {Unallocated}]
  /\ DOMAIN w.dirty \subseteq Chunks
  /\ \A c \in DOMAIN w.dirty : w.dirty[c] \in BOOLEAN

\* From w to v no chunk is lost, and what changes in one is reported by its flag.
Reports(w, v) ==
  /\ WorldOK(v)
  /\ DirtyChunks(w) \subseteq DirtyChunks(v)
  /\ \A c \in Chunks : w.block[c] # Unallocated =>
       v.block[c] # Unallocated /\ (v.block[c] = w.block[c] \/ c \in DirtyChunks(v))

LEMMA TerrainType ==
  ASSUME NEW c
  PROVE  Terrain(c) \in Block /\ Terrain(c) # Unallocated
BY DEF Terrain, Block, Unallocated

LEMMA ChunkUpdateSound ==
  ASSUME NEW w, WorldOK(w), NEW S \in SUBSET Chunks
  PROVE  /\ DOMAIN ChunkUpdate(w.dirty, S) \subseteq Chunks
         /\ \A c \in DOMAIN ChunkUpdate(w.dirty, S) : ChunkUpdate(w.dirty, S)[c] \in BOOLEAN
         /\ \A c \in S : c \in DOMAIN ChunkUpdate(w.dirty, S) /\ ChunkUpdate(w.dirty, S)[c]
         /\ \A c \in DirtyChunks(w) :
              c \in DOMAIN ChunkUpdate(w.dirty, S) /\ ChunkUpdate(w.dirty, S)[c]
BY DEF WorldOK, ChunkUpdate, DirtyChunks

\* getChunk() (world.cpp:185) makes the chunk and leaves one that is there alone.
LEMMA GetChunksSound ==
  ASSUME NEW w, WorldOK(w), NEW S \in SUBSET Chunks
  PROVE  /\ Reports(w, GetChunks(w, S))
         /\ \A c \in S : GetChunks(w, S).block[c] # Unallocated
         /\ \A c \in Chunks : w.block[c] # Unallocated =>
              GetChunks(w, S).block[c] = w.block[c]
<1> DEFINE new == {c \in S : w.block[c] = Unallocated}
           D == {c \in new : Terrain(c) # "Air"}
           g == GetChunks(w, S)
<1>1. /\ g.block = [c \in Chunks |-> IF c \in new THEN Terrain(c) ELSE w.block[c]]
      /\ g.dirty = ChunkUpdate(w.dirty, D)
  BY DEF GetChunks
<1>2. D \in SUBSET Chunks
  OBVIOUS
<1>3. new = {c \in S : w.block[c] = Unallocated}
  OBVIOUS
<1> HIDE DEF g, new, D
<1>4. /\ DOMAIN g.dirty \subseteq Chunks
      /\ \A c \in DOMAIN g.dirty : g.dirty[c] \in BOOLEAN
      /\ DirtyChunks(w) \subseteq DirtyChunks(g)
  BY <1>1, <1>2, ChunkUpdateSound DEF DirtyChunks
<1>5. g.block \in [Chunks -> Block \cup {Unallocated}]
  BY <1>1, TerrainType DEF WorldOK
<1>6. \A c \in S : g.block[c] # Unallocated
  BY <1>1, <1>3, TerrainType
<1>7. \A c \in Chunks : w.block[c] # Unallocated => g.block[c] = w.block[c]
  BY <1>1, <1>3
<1>8. QED
  BY <1>4, <1>5, <1>6, <1>7 DEF Reports, WorldOK, g

\* putBlock() (world.cpp:122) makes the chunk, and reports the block if it was replaced.
LEMMA PutBlocksSound ==
  ASSUME NEW w, WorldOK(w), NEW S \in SUBSET Chunks, NEW b \in Block
  PROVE  Reports(w, PutBlocks(w, S, b))
<1> DEFINE g == GetChunks(w, S)
           soft == {c \in S : Destructible(g.block[c])}
           v == PutBlocks(w, S, b)
<1>1. /\ v.block = [c \in Chunks |-> IF c \in soft THEN b ELSE g.block[c]]
      /\ v.dirty = ChunkUpdate(g.dirty, soft)
  BY DEF PutBlocks
<1>2. Reports(w, g) /\ WorldOK(g)
  BY GetChunksSound DEF Reports
<1>3. soft \in SUBSET Chunks
  OBVIOUS
<1> HIDE DEF g, soft, v
<1>4. /\ DOMAIN v.dirty \subseteq Chunks
      /\ \A c \in DOMAIN v.dirty : v.dirty[c] \in BOOLEAN
      /\ DirtyChunks(g) \subseteq DirtyChunks(v)
      /\ soft \subseteq DirtyChunks(v)
  BY <1>1, <1>2, <1>3, ChunkUpdateSound DEF DirtyChunks
<1>5. v.block \in [Chunks -> Block \cup {Unallocated}]
  BY <1>1, <1>2 DEF WorldOK
<1>6. b # Unallocated
  BY DEF Block, Unallocated
<1>7. QED
  BY <1>1, <1>2, <1>4, <1>5, <1>6 DEF Reports, WorldOK, v

LEMMA ReportsTransitive ==
  ASSUME NEW w, NEW u, NEW v, Reports(w, u), Reports(u, v)
  PROVE  Reports(w, v)
BY DEF Reports

-----------------------------------------------------------------------------
(* Messages.                                                               *)

\* sendChunkUpdate() of a set of chunks: one message about each, with its block.
LEMMA ChunkMessagesSound ==
  ASSUME NEW w, WorldOK(w), NEW S \in SUBSET Chunks,
         \A c \in Chunks : w.block[c] # Unallocated
  PROVE  /\ ChunkMessages(w, S) \in Seq(ChunkMsg)
         /\ \A k \in DOMAIN ChunkMessages(w, S) : ChunkMessages(w, S)[k].chunk \in S
         /\ \A c \in S : \E k \in DOMAIN ChunkMessages(w, S) :
              /\ ChunkMessages(w, S)[k].chunk = c
              /\ ChunkMessages(w, S)[k].block = w.block[c]
              /\ \A j \in DOMAIN ChunkMessages(w, S) :
                   ChunkMessages(w, S)[j].chunk = c => j = k
<1> DEFINE order == SetToSeq(S)
           n == Len(order)
           m == ChunkMessages(w, S)
<1>1. IsFiniteSet(S)
  BY ServerAssumption, FS_Subset
<1>2. /\ order \in Seq(S) /\ DOMAIN order = 1 .. n
      /\ \A j, k \in DOMAIN order : order[j] = order[k] => j = k
      /\ \A x \in S : \E k \in DOMAIN order : order[k] = x
  BY <1>1, SetToSeqProperties
<1>3. m = [k \in DOMAIN order |-> [chunk |-> order[k], block |-> w.block[order[k]]]]
  BY DEF ChunkMessages
<1> HIDE DEF order, m
<1>4. n \in Nat
  BY <1>2, LenProperties
<1>5. \A k \in 1 .. n : order[k] \in S
  BY <1>2, ElementOfSeq
<1>6. \A c \in S : w.block[c] \in Block
  BY DEF WorldOK
<1>7. m \in [1 .. n -> ChunkMsg]
  BY <1>2, <1>3, <1>5, <1>6 DEF ChunkMsg
<1>8. m \in Seq(ChunkMsg)
  BY <1>4, <1>7, FunctionIsSeq
<1>9. /\ DOMAIN m = DOMAIN order
      /\ \A k \in DOMAIN m : m[k].chunk = order[k] /\ m[k].block = w.block[order[k]]
  BY <1>3
<1>10. ASSUME NEW c \in S
       PROVE  \E k \in DOMAIN m : /\ m[k].chunk = c /\ m[k].block = w.block[c]
                                  /\ \A j \in DOMAIN m : m[j].chunk = c => j = k
  BY <1>2, <1>9
<1>11. QED
  BY <1>2, <1>5, <1>8, <1>9, <1>10 DEF m

\* A client that is sent the dirty chunks will show every one of them, and still shows
\* the others; one that is sent all chunks will show them all.
LEMMA ShowsAfterSending ==
  ASSUME NEW w, WorldOK(w), NEW S \in SUBSET Chunks,
         \A c \in Chunks : w.block[c] # Unallocated,
         NEW q \in Seq(ChunkMsg), NEW blocks, NEW c \in Chunks,
         c \notin S => Shows(q, blocks, c, w.block[c])
  PROVE  Shows(q \o ChunkMessages(w, S), blocks, c, w.block[c])
<1> DEFINE m == ChunkMessages(w, S)
<1>1. /\ m \in Seq(ChunkMsg)
      /\ \A k \in DOMAIN m : m[k].chunk \in S
      /\ \A x \in S : \E k \in DOMAIN m :
           /\ m[k].chunk = x /\ m[k].block = w.block[x]
           /\ \A j \in DOMAIN m : m[j].chunk = x => j = k
  BY ChunkMessagesSound
<1> HIDE DEF m
<1>2. CASE c \in S
  <2>1. PICK k \in DOMAIN m : /\ m[k].chunk = c /\ m[k].block = w.block[c]
                              /\ \A j \in DOMAIN m : m[j].chunk = c => j = k
    BY <1>1, <1>2
  <2>2. Shows(q \o m, blocks, c, m[k].block)
    BY <1>1, <2>1, ShowsSent
  <2>3. QED
    BY <2>1, <2>2 DEF m
<1>3. CASE c \notin S
  <2>1. \A k \in DOMAIN m : m[k].chunk # c
    BY <1>1, <1>3
  <2>2. Shows(q \o m, blocks, c, w.block[c])
    BY <1>1, <1>3, <2>1, ShowsSkip
  <2>3. QED
    BY <2>2 DEF m
<1>4. QED
  BY <1>2, <1>3

LEMMA EntityMessagesType ==
  ASSUME NEW type \in {"FullUpdate", "Deleted"}, NEW ids \in Seq(Nat)
  PROVE  EntityMessages(type, ids) \in Seq(EntityMsg)
<1> DEFINE n == Len(ids)
<1>1. n \in Nat /\ DOMAIN ids = 1 .. n
  BY LenProperties
<1>2. \A k \in 1 .. n : ids[k] \in Nat
  BY ElementOfSeq
<1> HIDE DEF n
<1>3. EntityMessages(type, ids) \in [1 .. n -> EntityMsg]
  BY <1>1, <1>2 DEF EntityMessages, EntityMsg
<1>4. QED
  BY <1>1, <1>3, FunctionIsSeq

LEMMA EntitiesSentType ==
  ASSUME NEW i, NEW st \in Store, NEW deleted \in Seq(Nat)
  PROVE  EntitiesSent(i, st, deleted) \in Seq(EntityMsg)
<1> DEFINE ids == IDSeq(st.ents)
           n == Len(st.ents)
           d == IF TellsDeletions(i) THEN EntityMessages("Deleted", deleted) ELSE <<>>
<1>1. /\ n \in Nat /\ DOMAIN st.ents = 1 .. n
      /\ \A k \in DOMAIN st.ents : st.ents[k].id \in Nat
  BY StoreParts
<1> HIDE DEF n
<1>2. ids \in [1 .. n -> Nat]
  BY <1>1 DEF IDSeq
<1>3. ids \in Seq(Nat)
  BY <1>1, <1>2, FunctionIsSeq
<1> HIDE DEF ids
<1>4. EntityMessages("FullUpdate", ids) \in Seq(EntityMsg)
  BY <1>3, EntityMessagesType
<1>5. d \in Seq(EntityMsg)
  BY EntityMessagesType, EmptySeq
<1> HIDE DEF d
<1>6. EntityMessages("FullUpdate", ids) \o d \in Seq(EntityMsg)
  BY <1>4, <1>5, ConcatProperties
<1>7. QED
  BY <1>6 DEF EntitiesSent, d, ids

-----------------------------------------------------------------------------
(* The slots.                                                              *)

\* SlotsMatchPeers, without the free slot that it says a peer finds.
SlotsInverse ==
  /\ \A p \in Peers : /\ link[p] \in {"open", "lost"} <=> peerData[p] # 0
                      /\ peerData[p] # 0 => clients[peerData[p]].peer = p
  /\ \A i \in Connected : peerData[clients[i].peer] = i

\* There are as many slots as ENet has peers, so a peer without a slot leaves one free:
\* processConnect() (server.cpp:199) finds it.
LEMMA SlotIsFree ==
  ASSUME TypeOK, SlotsInverse, NEW p \in Peers, peerData[p] = 0
  PROVE  \E i \in Slot : FreeSlot(i)
<1> DEFINE n == Cardinality(Peers)
           Free == {i \in Slot : clients[i].peer = NoPeer}
<1>1. IsFiniteSet(Peers) /\ n \in Nat
  BY ServerAssumption, FS_CardinalityType
<1>2. Slot = 1 .. n
  BY DEF Slot
<1> HIDE DEF n
<1>3. Slot \subseteq Nat /\ 0 \notin Slot
  BY <1>1, <1>2
<1>4. ASSUME Free = {}
      PROVE  FALSE
  <2> DEFINE f == [i \in Slot |-> clients[i].peer]
  <2>1. \A i \in Slot : clients[i].peer # NoPeer /\ clients[i].peer \in Peers
    BY <1>4 DEF TypeOK
  <2>2. \A i \in Slot : peerData[clients[i].peer] = i
    BY <2>1 DEF SlotsInverse, Connected
  <2>3. f \in [Slot -> Peers] /\ \A i \in Slot : f[i] = clients[i].peer
    BY <2>1
  <2> HIDE DEF f
  <2>4. f \in Injection(Slot, Peers)
    BY <2>2, <2>3, Fun_IsInj
  <2>5. Cardinality(Slot) = Cardinality(Peers)
    <3>1. Cardinality(1 .. n) = n
      BY <1>1, FS_Interval
    <3>2. QED
      BY <1>2, <3>1 DEF n
  <2>6. f \in Surjection(Slot, Peers)
    BY <1>1, <2>4, <2>5, FS_Injection
  <2>7. PICK i \in Slot : f[i] = p
    BY <2>6 DEF Surjection
  <2>8. peerData[p] = i
    BY <2>2, <2>3, <2>7
  <2>9. QED
    BY <1>3, <2>8
<1>5. Free \subseteq Nat /\ Free # {}
  BY <1>3, <1>4
<1>6. PICK i \in Free : \A j \in Free : i <= j
  BY <1>5, LeastElement
<1>7. \A j \in Slot : j < i => clients[j].peer # NoPeer
  <2> SUFFICES ASSUME NEW j \in Slot, j < i, clients[j].peer = NoPeer
               PROVE  FALSE
    OBVIOUS
  <2>1. j \in Nat /\ i \in Nat /\ i <= j
    BY <1>3, <1>6
  <2>2. QED
    BY <2>1
<1>8. QED
  BY <1>6, <1>7 DEF FreeSlot

LEMMA SlotsFromInverse ==
  ASSUME TypeOK, SlotsInverse
  PROVE  SlotsMatchPeers
<1>1. ASSUME NEW p \in Peers, link[p] = "requested"
      PROVE  \E i \in Slot : FreeSlot(i)
  BY <1>1, SlotIsFree DEF SlotsInverse
<1>2. QED
  BY <1>1 DEF SlotsInverse, SlotsMatchPeers

-----------------------------------------------------------------------------
(* The deletions of a tick.                                                *)

\* What the loop makes of the store and the list of deletions in its first m turns.
UpdateStep(u, hit, id) == IF id \in hit THEN DeleteReported(u, id) ELSE u
IsUpdateRun(f, hit, m) ==
  f = [k \in 0 .. m |-> IF k = 0 THEN [store |-> store, deleted |-> deletedEntities]
                        ELSE UpdateStep(f[k - 1], hit, store.ents[k].id)]

LEMMA UpdateRunExists ==
  ASSUME NEW hit
  PROVE  \A m \in Nat : \E f : IsUpdateRun(f, hit, m)
<1> DEFINE T == {m \in Nat : \E f : IsUpdateRun(f, hit, m)}
           base == [store |-> store, deleted |-> deletedEntities]
<1>1. 0 \in T
  <2> DEFINE f == [k \in 0 .. 0 |-> base]
  <2>1. f = [k \in 0 .. 0 |-> IF k = 0 THEN base
                              ELSE UpdateStep(f[k - 1], hit, store.ents[k].id)]
    OBVIOUS
  <2>2. IsUpdateRun(f, hit, 0)
    BY <2>1 DEF IsUpdateRun
  <2>3. QED
    BY <2>2
<1>2. ASSUME NEW m \in T
      PROVE  m + 1 \in T
  <2>1. PICK f : IsUpdateRun(f, hit, m)
    OBVIOUS
  <2>2. f = [k \in 0 .. m |-> IF k = 0 THEN base
                              ELSE UpdateStep(f[k - 1], hit, store.ents[k].id)]
    BY <2>1 DEF IsUpdateRun
  <2> DEFINE g == [k \in 0 .. m + 1 |->
                     IF k <= m THEN f[k]
                     ELSE UpdateStep(f[m], hit, store.ents[m + 1].id)]
             h == [k \in 0 .. m + 1 |->
                     IF k = 0 THEN base ELSE UpdateStep(g[k - 1], hit, store.ents[k].id)]
  <2>3. ASSUME NEW k \in 0 .. m + 1
        PROVE  g[k] = h[k]
    <3> HIDE DEF base
    <3>1. CASE k = 0
      BY <2>2, <3>1
    <3>2. CASE k \in 1 .. m
      <4>1. k - 1 \in 0 .. m /\ k - 1 \in 0 .. m + 1 /\ k \in 0 .. m /\ k # 0
        BY <3>2
      <4>2. g[k] = UpdateStep(f[k - 1], hit, store.ents[k].id)
        BY <2>2, <4>1
      <4>3. g[k - 1] = f[k - 1]
        BY <4>1
      <4>4. h[k] = UpdateStep(g[k - 1], hit, store.ents[k].id)
        BY <4>1
      <4>5. QED
        BY <4>2, <4>3, <4>4
    <3>3. CASE k = m + 1
      <4>1. k - 1 = m /\ k # 0 /\ ~(k <= m) /\ m \in 0 .. m + 1
        BY <3>3
      <4>2. g[m] = f[m] /\ g[k] = UpdateStep(f[m], hit, store.ents[k].id)
        BY <3>3, <4>1
      <4>3. QED
        BY <4>1, <4>2
    <3>4. QED
      BY <3>1, <3>2, <3>3
  <2>4. g = h
    <3> HIDE DEF base
    <3>1. QED
      BY <2>3
  <2>5. IsUpdateRun(g, hit, m + 1)
    <3> HIDE DEF g
    <3>1. QED
      BY <2>4 DEF IsUpdateRun
  <2>6. QED
    BY <2>5
<1>3. T = Nat
  <2> HIDE DEF T
  <2>1. T \subseteq Nat
    BY DEF T
  <2>2. QED
    BY <1>1, <1>2, <2>1, SetInduction
<1>4. QED
  BY <1>3

\* EntityManager::update() (entity.cpp:294) keeps the store sound, takes away the entities
\* of hit and no others.
LEMMA UpdateEntitiesSound ==
  ASSUME store \in Store, Partitioned(store), deletedEntities \in Seq(Nat), NEW hit
  PROVE  /\ UpdateEntities(hit).store \in Store
         /\ Partitioned(UpdateEntities(hit).store)
         /\ EntitiesOf(UpdateEntities(hit).store) = {e \in EntitiesOf(store) : e.id \notin hit}
         /\ UpdateEntities(hit).deleted \in Seq(Nat)
<1> DEFINE n == Len(store.ents)
           base == [store |-> store, deleted |-> deletedEntities]
           after == CHOOSE f : IsUpdateRun(f, hit, n)
<1>1. /\ n \in Nat /\ DOMAIN store.ents = 1 .. n
      /\ \A k \in DOMAIN store.ents : store.ents[k].id \in Nat
  BY StoreParts
<1>2. IsUpdateRun(after, hit, n)
  BY <1>1, UpdateRunExists
<1>3. UpdateEntities(hit) = after[n]
  BY DEF UpdateEntities, IsUpdateRun, UpdateStep
<1> HIDE DEF after, n
<1>4. /\ after[0] = base
      /\ \A k \in 1 .. n : after[k] = UpdateStep(after[k - 1], hit, store.ents[k].id)
  BY <1>1, <1>2 DEF IsUpdateRun
<1> DEFINE Gone(k) == {store.ents[j].id : j \in 1 .. k} \cap hit
           Good(k) == /\ after[k].store \in Store
                      /\ Partitioned(after[k].store)
                      /\ EntitiesOf(after[k].store) =
                           {e \in EntitiesOf(store) : e.id \notin Gone(k)}
                      /\ after[k].deleted \in Seq(Nat)
           T == {k \in Nat : k <= n => Good(k)}
<1>5. 0 \in T
  BY <1>1, <1>4
<1>6. ASSUME NEW k \in T
      PROVE  k + 1 \in T
  <2> SUFFICES ASSUME k + 1 <= n
               PROVE  Good(k + 1)
    OBVIOUS
  <2> DEFINE id == store.ents[k + 1].id
             u == after[k]
  <2>1. k \in Nat /\ k + 1 \in 1 .. n /\ (k + 1) - 1 = k /\ Good(k)
    BY <1>1
  <2>2. after[k + 1] = UpdateStep(u, hit, id)
    BY <1>4, <2>1
  <2>3. id \in Nat /\ store.ents[k + 1] \in EntitiesOf(store)
    BY <1>1, <2>1 DEF EntitiesOf
  <2>4. {store.ents[j].id : j \in 1 .. k + 1} = {store.ents[j].id : j \in 1 .. k} \cup {id}
    BY <2>1
  <2>5. CASE id \notin hit
    <3>1. Gone(k + 1) = Gone(k)
      BY <2>4, <2>5
    <3>2. after[k + 1] = u
      BY <2>2, <2>5 DEF UpdateStep
    <3> HIDE DEF Gone
    <3>3. QED
      BY <2>1, <3>1, <3>2
  <2>6. CASE id \in hit
    <3>1. Gone(k + 1) = Gone(k) \cup {id}
      BY <2>4, <2>6
    <3>2. id \notin Gone(k)
      <4> SUFFICES ASSUME NEW j \in 1 .. k, store.ents[j].id = id
                   PROVE  FALSE
        OBVIOUS
      <4>0. k \in Nat /\ n \in Nat /\ k + 1 <= n
        BY <1>1
      <4>1. j \in 1 .. n /\ j # k + 1
        BY <4>0
      <4>2. QED
        BY <1>1, <2>1, <4>1 DEF Partitioned, IDsDistinct
    <3> HIDE DEF Gone
    <3>3. id \in LiveIDs(u.store)
      <4>1. store.ents[k + 1] \in EntitiesOf(u.store)
        BY <2>1, <2>3, <3>2
      <4>2. QED
        BY <4>1 DEF EntitiesOf, LiveIDs, IDsOf
    <3>4. /\ after[k + 1].store = DeleteEntity(u.store, id)
          /\ after[k + 1].deleted = Append(u.deleted, id)
      BY <2>2, <2>6 DEF UpdateStep, DeleteReported
    <3> HIDE DEF u, id
    <3>5. /\ DeleteEntity(u.store, id) \in Store
          /\ Partitioned(DeleteEntity(u.store, id))
          /\ EntitiesOf(DeleteEntity(u.store, id)) = {e \in EntitiesOf(u.store) : e.id # id}
      BY <2>1, <3>3, DeleteEntitySound, DeleteEntityTakes DEF u
    <3>6. Append(u.deleted, id) \in Seq(Nat)
      BY <2>1, <2>3, AppendProperties DEF u
    <3>7. {e \in EntitiesOf(u.store) : e.id # id} =
            {e \in EntitiesOf(store) : e.id \notin Gone(k + 1)}
      BY <2>1, <3>1 DEF u
    <3>8. QED
      BY <3>4, <3>5, <3>6, <3>7
  <2>7. QED
    BY <2>5, <2>6
<1>7. n \in T
  <2> HIDE DEF T
  <2>1. T \subseteq Nat
    BY DEF T
  <2>2. QED
    BY <1>1, <1>5, <1>6, <2>1, SetInduction
<1>8. Good(n)
  BY <1>1, <1>7
<1>9. {e \in EntitiesOf(store) : e.id \notin Gone(n)} =
        {e \in EntitiesOf(store) : e.id \notin hit}
  BY <1>1 DEF EntitiesOf
<1>10. QED
  BY <1>3, <1>8, <1>9

-----------------------------------------------------------------------------
(* The invariant: besides the properties, what they rest on.               *)

\* The chunks a client was sent are there: processConnect() fetched them all.
ClientsSeeAll ==
  (\E p \in Peers : link[p] = "open") => \A c \in Chunks : world.block[c] # Unallocated

IInv ==
  /\ TypeOK
  /\ SlotsInverse
  /\ Partitioned(store)
  /\ PlayersOwnEntities
  /\ CameraOnOwnEntity
  /\ ClientsSeeAll
  /\ StaleViewsAreDirty

LEMMA WorldTyped ==
  ASSUME TypeOK
  PROVE  WorldOK(world) /\ Reports(world, world)
BY DEF TypeOK, WorldOK, Reports

\* The server knows every open connection by a slot.
LEMMA OpenHasSlot ==
  ASSUME TypeOK, SlotsInverse, NEW p \in Peers, link[p] \in {"open", "lost"}
  PROVE  peerData[p] \in Connected /\ clients[peerData[p]].peer = p
BY ServerAssumption DEF TypeOK, SlotsInverse, Connected

LEMMA OwnersByEntity ==
  /\ PlayersOwnEntities <=>
       /\ \A i \in Connected :
            [id |-> clients[i].entityID, explodey |-> FALSE] \in EntitiesOf(store)
       /\ \A i, j \in Connected : clients[i].entityID = clients[j].entityID => i = j
  /\ PlayersOwnEntities' <=>
       /\ \A i \in Connected' :
            [id |-> clients'[i].entityID, explodey |-> FALSE] \in EntitiesOf(store')
       /\ \A i, j \in Connected' : clients'[i].entityID = clients'[j].entityID => i = j
BY DEF PlayersOwnEntities, EntitiesOf

\* A step that takes no player's entity away and adds no player.
LEMMA PlayersKept ==
  ASSUME PlayersOwnEntities, Connected' \subseteq Connected,
         \A i \in Connected' : clients'[i].entityID = clients[i].entityID,
         \A e \in EntitiesOf(store) : e.explodey = FALSE => e \in EntitiesOf(store')
  PROVE  PlayersOwnEntities'
<1>1. \A i \in Connected' :
        [id |-> clients'[i].entityID, explodey |-> FALSE] \in EntitiesOf(store')
  BY OwnersByEntity
<1>2. \A i, j \in Connected' : clients'[i].entityID = clients'[j].entityID => i = j
  BY OwnersByEntity
<1>3. QED
  BY <1>1, <1>2, OwnersByEntity

\* A step that leaves the cameras of the clients that stay alone.
LEMMA CamerasKept ==
  ASSUME CameraOnOwnEntity,
         \A p \in Peers : link'[p] = "open" =>
           /\ link[p] = "open" /\ peerData'[p] = peerData[p]
           /\ clients'[peerData[p]].entityID = clients[peerData[p]].entityID
           /\ toClient'[p].camera = toClient[p].camera
           /\ replica'[p].playerEID = replica[p].playerEID
  PROVE  CameraOnOwnEntity'
BY DEF CameraOnOwnEntity

\* A step that reports what it changes in the world and sends nothing about it.
LEMMA ViewsKept ==
  ASSUME ClientsSeeAll, StaleViewsAreDirty, Reports(world, world'),
         \A p \in Peers : link'[p] = "open" =>
           /\ link[p] = "open"
           /\ toClient'[p].chunk = toClient[p].chunk
           /\ replica'[p].block = replica[p].block
  PROVE  ClientsSeeAll' /\ StaleViewsAreDirty'
<1>1. ClientsSeeAll'
  BY DEF ClientsSeeAll, Reports
<1>2. ASSUME NEW p \in Peers, NEW c \in Chunks, link'[p] = "open",
             ~Arriving(p, c, world.block[c])'
      PROVE  c \in DirtyChunks(world')
  <2>1. /\ link[p] = "open" /\ toClient'[p].chunk = toClient[p].chunk
        /\ replica'[p].block = replica[p].block
    BY <1>2
  <2>2. world.block[c] # Unallocated
    BY <2>1 DEF ClientsSeeAll
  <2>3. CASE c \in DirtyChunks(world)
    BY <2>3 DEF Reports
  <2>4. CASE c \notin DirtyChunks(world) /\ world'.block[c] = world.block[c]
    <3>1. Arriving(p, c, world.block[c])
      BY <2>1, <2>4 DEF StaleViewsAreDirty
    <3>2. Arriving(p, c, world.block[c])'
      BY <2>1, <2>4, <3>1 DEF Arriving
    <3>3. QED
      BY <1>2, <3>2
  <2>5. QED
    BY <2>2, <2>3, <2>4 DEF Reports
<1>3. QED
  BY <1>1, <1>2 DEF StaleViewsAreDirty

LEMMA InitIInv == Init => IInv
<1> SUFFICES ASSUME Init
             PROVE  IInv
  OBVIOUS
<1>1. /\ EmptyStore \in Store /\ EmptyStore.ents = <<>> /\ EmptyStore.pool = <<>>
      /\ EmptyStore.first = 0
  BY EmptySeq DEF EmptyStore, Store
<1>2. Partitioned(EmptyStore)
  <2>1. DOMAIN EmptyStore.ents = {} /\ DOMAIN EmptyStore.pool = {}
    BY <1>1
  <2>2. QED
    BY <2>1 DEF Partitioned, IDsDistinct, PoolDistinct, PoolDisjoint, IDsBelowTop
<1>3. store \in Store /\ Partitioned(store)
  BY <1>1, <1>2, NewEntitySound DEF Init
<1>4. /\ <<>> \in Seq(Nat) /\ <<>> \in Seq(PlayerCommand)
      /\ EmptyChannels \in [chunk : Seq(ChunkMsg), entity : Seq(EntityMsg), camera : Seq(Nat)]
  BY EmptySeq DEF EmptyChannels
<1>5. FreshReplica \in [block : [Chunks -> Block], store : Store,
                        playerEID : Nat \cup {InvalidID}]
  BY <1>1, TerrainType DEF FreshReplica
<1>6. budget \in [connects : Nat, edits : Nat, shots : Nat]
  BY ServerAssumption DEF Init
<1>7. /\ world.block \in [Chunks -> Block \cup {Unallocated}]
      /\ DOMAIN world.dirty = {}
  BY DEF Init
<1>8. 0 \notin Slot
  BY FS_CardinalityType, ServerAssumption DEF Slot
<1>9. TypeOK
  BY <1>3, <1>4, <1>5, <1>6, <1>7 DEF Init, TypeOK
<1>10. Connected = {}
  BY DEF Init, Connected
<1>11. SlotsInverse /\ PlayersOwnEntities
  BY <1>10 DEF Init, SlotsInverse, PlayersOwnEntities
<1>12. CameraOnOwnEntity /\ ClientsSeeAll /\ StaleViewsAreDirty
  BY DEF Init, CameraOnOwnEntity, ClientsSeeAll, StaleViewsAreDirty
<1>13. QED
  BY <1>3, <1>9, <1>11, <1>12 DEF IInv

-----------------------------------------------------------------------------
(* The steps of the clients.                                               *)

LEMMA FreshReplicaType ==
  FreshReplica \in [block : [Chunks -> Block], store : Store,
                    playerEID : Nat \cup {InvalidID}]
<1>1. EmptyStore \in Store
  BY EmptySeq DEF EmptyStore, Store
<1>2. QED
  BY <1>1, TerrainType DEF FreshReplica

LEMMA EmptyChannelsType ==
  EmptyChannels \in [chunk : Seq(ChunkMsg), entity : Seq(EntityMsg), camera : Seq(Nat)]
BY EmptySeq DEF EmptyChannels

LEMMA ConnectIInv ==
  ASSUME IInv, NEW p \in Peers, Connect(p)
  PROVE  IInv'
<1> USE DEF IInv
<1>1. /\ link' = [link EXCEPT ![p] = "requested"]
      /\ replica' = [replica EXCEPT ![p] = FreshReplica]
      /\ budget' = [budget EXCEPT !.connects = @ - 1]
      /\ link[p] = "free" /\ budget.connects > 0
      /\ UNCHANGED <<clients, peerData, world, store, deletedEntities, toServer, toClient>>
  BY DEF Connect, serverVars
<1>2. TypeOK'
  <2>1. budget' \in [connects : Nat, edits : Nat, shots : Nat]
    <3> DEFINE n == budget.connects
    <3>1. n \in Nat /\ n > 0 /\ budget' = [budget EXCEPT !.connects = n - 1]
      BY <1>1 DEF TypeOK
    <3> HIDE DEF n
    <3>2. n - 1 \in Nat
      BY <3>1
    <3>3. QED
      BY <3>1, <3>2 DEF TypeOK
  <2>2. link' \in [Peers -> {"free", "requested", "open", "lost"}]
    BY <1>1 DEF TypeOK
  <2>3. QED
    BY <1>1, <2>1, <2>2, FreshReplicaType DEF TypeOK
<1>3. \A q \in Peers : link'[q] = "open" =>
        /\ link[q] = "open" /\ replica'[q] = replica[q]
  BY <1>1 DEF TypeOK
<1>4. SlotsInverse'
  BY <1>1 DEF TypeOK, SlotsInverse, Connected
<1>5. PlayersOwnEntities'
  BY <1>1 DEF PlayersOwnEntities, Connected
<1>6. CameraOnOwnEntity'
  BY <1>1, <1>3, CamerasKept
<1>7. ClientsSeeAll' /\ StaleViewsAreDirty'
  BY <1>1, <1>3, WorldTyped, ViewsKept
<1>8. QED
  BY <1>1, <1>2, <1>4, <1>5, <1>6, <1>7

LEMMA LeaveIInv ==
  ASSUME IInv, NEW p \in Peers, Leave(p)
  PROVE  IInv'
<1> USE DEF IInv
<1>1. /\ link[p] \in {"requested", "open"}
      /\ link' = [link EXCEPT ![p] = IF link[p] = "open" THEN "lost" ELSE "free"]
      /\ toServer' = [toServer EXCEPT ![p] = IF link[p] = "open" THEN toServer[p] ELSE <<>>]
      /\ toClient' = [toClient EXCEPT ![p] = EmptyChannels]
      /\ replica' = [replica EXCEPT ![p] = FreshReplica]
      /\ UNCHANGED <<clients, peerData, world, store, deletedEntities, budget>>
  BY DEF Leave, serverVars
<1>2. TypeOK'
  BY <1>1, FreshReplicaType, EmptyChannelsType, EmptySeq DEF TypeOK
<1>3. \A q \in Peers : link'[q] = "open" =>
        link[q] = "open" /\ replica'[q] = replica[q] /\ toClient'[q] = toClient[q]
  BY <1>1 DEF TypeOK
<1>4. SlotsInverse'
  BY <1>1 DEF TypeOK, SlotsInverse, Connected
<1>5. PlayersOwnEntities'
  BY <1>1 DEF PlayersOwnEntities, Connected
<1>6. CameraOnOwnEntity'
  BY <1>1, <1>3, CamerasKept
<1>7. ClientsSeeAll' /\ StaleViewsAreDirty'
  BY <1>1, <1>3, WorldTyped, ViewsKept
<1>8. QED
  BY <1>1, <1>2, <1>4, <1>5, <1>6, <1>7

LEMMA SendCommandIInv ==
  ASSUME IInv, NEW p \in Peers, NEW cmd \in PlayerCommand, SendCommand(p, cmd)
  PROVE  IInv'
<1> USE DEF IInv
<1>1. /\ \/ budget' = [budget EXCEPT !.shots = @ - 1] /\ budget.shots > 0
         \/ budget' = [budget EXCEPT !.edits = @ - 1] /\ budget.edits > 0
      /\ toServer' = [toServer EXCEPT ![p] = Append(toServer[p], cmd)]
      /\ UNCHANGED <<link, clients, peerData, world, store, deletedEntities, toClient, replica>>
  BY DEF SendCommand, serverVars
<1>2. Append(toServer[p], cmd) \in Seq(PlayerCommand)
  BY AppendProperties DEF TypeOK
<1>3. TypeOK'
  <2>1. budget' \in [connects : Nat, edits : Nat, shots : Nat]
    <3>1. \E n \in Nat : \/ budget' = [budget EXCEPT !.shots = n]
                         \/ budget' = [budget EXCEPT !.edits = n]
      <4>1. budget.shots \in Nat /\ budget.edits \in Nat
        BY DEF TypeOK
      <4>2. \A n \in Nat : n > 0 => n - 1 \in Nat
        OBVIOUS
      <4>3. QED
        BY <1>1, <4>1, <4>2
    <3>2. QED
      BY <3>1 DEF TypeOK
  <2>2. QED
    BY <1>1, <1>2, <2>1 DEF TypeOK
<1>4. SlotsInverse'
  BY <1>1 DEF SlotsInverse, Connected
<1>5. PlayersOwnEntities'
  BY <1>1 DEF PlayersOwnEntities, Connected
<1>6. CameraOnOwnEntity'
  BY <1>1, CamerasKept
<1>7. ClientsSeeAll' /\ StaleViewsAreDirty'
  BY <1>1, WorldTyped, ViewsKept
<1>8. QED
  BY <1>1, <1>3, <1>4, <1>5, <1>6, <1>7

-----------------------------------------------------------------------------
(* The steps of the server.                                                *)

\* processConnect() (server.cpp:196): the peer gets a free slot, a new entity, its camera
\* and all chunks; nobody else's slot, entity, camera or view changes.
LEMMA ProcessConnectIInv ==
  ASSUME IInv, NEW p \in Peers, ProcessConnect(p)
  PROVE  IInv'
<1> DEFINE id == NextID(store)
           after == GetChunks(world, Chunks)
           own == [id |-> id, explodey |-> FALSE]
<1>t. TypeOK /\ Partitioned(store) /\ store \in Store /\ WorldOK(world)
  BY WorldTyped DEF IInv, TypeOK
<1>1. PICK i \in Slot :
        /\ clients[i].peer = NoPeer
        /\ clients' = [clients EXCEPT ![i] = [peer |-> p, entityID |-> id]]
        /\ peerData' = [peerData EXCEPT ![p] = i]
  BY DEF ProcessConnect, FreeSlot
<1>2. /\ link[p] = "requested"
      /\ store' = NewEntity(store, FALSE)
      /\ world' = after
      /\ toClient' = [q \in Peers |->
           [toClient[q] EXCEPT
              !.camera = IF q = p THEN Append(toClient[q].camera, id) ELSE toClient[q].camera,
              !.chunk = IF q = p THEN toClient[q].chunk \o ChunkMessages(after, Chunks)
                        ELSE toClient[q].chunk]]
      /\ link' = [link EXCEPT ![p] = "open"]
      /\ UNCHANGED <<deletedEntities, toServer, replica, budget>>
  BY DEF ProcessConnect, CameraTo
<1>3. /\ store' \in Store /\ Partitioned(store') /\ id \in Nat /\ id \notin LiveIDs(store)
      /\ EntitiesOf(store') = EntitiesOf(store) \cup {own}
  BY <1>t, <1>2, NewEntitySound, NewEntityAdds, GetSound
<1>4. /\ Reports(world, after) /\ WorldOK(after)
      /\ \A c \in Chunks : after.block[c] # Unallocated
      /\ \A c \in Chunks : world.block[c] # Unallocated => after.block[c] = world.block[c]
  BY <1>t, GetChunksSound DEF Reports
<1> HIDE DEF id, after, own
<1>5. /\ Append(toClient[p].camera, id) \in Seq(Nat)
      /\ Append(toClient[p].camera, id) # <<>>
      /\ Last(Append(toClient[p].camera, id)) = id
  <2>1. toClient[p].camera \in Seq(Nat)
    BY <1>t DEF TypeOK
  <2> DEFINE s == toClient[p].camera
             n == Len(s)
  <2>2. s \in Seq(Nat) /\ id \in Nat
    BY <1>3, <2>1
  <2> HIDE DEF s
  <2>3. /\ Append(s, id) \in Seq(Nat) /\ Append(s, id) # <<>>
        /\ Len(Append(s, id)) = n + 1 /\ Append(s, id)[n + 1] = id
    BY <2>2, AppendProperties
  <2>4. QED
    BY <2>3 DEF Last, s
<1>6. toClient[p].chunk \o ChunkMessages(after, Chunks) \in Seq(ChunkMsg)
  <2>1. toClient[p].chunk \in Seq(ChunkMsg)
    BY <1>t DEF TypeOK
  <2>2. ChunkMessages(after, Chunks) \in Seq(ChunkMsg)
    BY <1>4, ChunkMessagesSound
  <2>3. QED
    BY <2>1, <2>2, ConcatProperties
<1>7. /\ toClient'[p].camera = Append(toClient[p].camera, id)
      /\ toClient'[p].chunk = toClient[p].chunk \o ChunkMessages(after, Chunks)
      /\ toClient'[p].entity = toClient[p].entity
      /\ \A q \in Peers \ {p} : toClient'[q].camera = toClient[q].camera
                                /\ toClient'[q].chunk = toClient[q].chunk
  <2> DEFINE camera(q) == IF q = p THEN Append(toClient[q].camera, id) ELSE toClient[q].camera
             chunk(q) == IF q = p THEN toClient[q].chunk \o ChunkMessages(after, Chunks)
                         ELSE toClient[q].chunk
  <2>1. \A q \in Peers :
          toClient[q] \in [chunk : Seq(ChunkMsg), entity : Seq(EntityMsg), camera : Seq(Nat)]
    BY <1>t DEF TypeOK
  <2>2. \A q \in Peers :
          toClient'[q] = [toClient[q] EXCEPT !.camera = camera(q), !.chunk = chunk(q)]
    BY <1>2
  <2> HIDE DEF camera, chunk
  <2>3. \A q \in Peers : /\ toClient'[q].camera = camera(q) /\ toClient'[q].chunk = chunk(q)
                         /\ toClient'[q].entity = toClient[q].entity
    BY <2>1, <2>2
  <2>4. QED
    BY <2>3 DEF camera, chunk
<1>8. /\ link'[p] = "open"
      /\ \A q \in Peers \ {p} : link'[q] = link[q]
      /\ peerData'[p] = i
      /\ \A q \in Peers \ {p} : peerData'[q] = peerData[q]
      /\ clients'[i] = [peer |-> p, entityID |-> id]
      /\ \A j \in Slot \ {i} : clients'[j] = clients[j]
  BY <1>t, <1>1, <1>2 DEF TypeOK
<1>9. 0 \notin Slot
  BY FS_CardinalityType, ServerAssumption DEF Slot
<1>10. TypeOK'
  <2>1. toClient' \in [Peers -> [chunk : Seq(ChunkMsg), entity : Seq(EntityMsg),
                                 camera : Seq(Nat)]]
    <3> DEFINE R == [chunk : Seq(ChunkMsg), entity : Seq(EntityMsg), camera : Seq(Nat)]
               new(q) ==
                 [toClient[q] EXCEPT
                    !.camera = IF q = p THEN Append(toClient[q].camera, id) ELSE toClient[q].camera,
                    !.chunk = IF q = p THEN toClient[q].chunk \o ChunkMessages(after, Chunks)
                              ELSE toClient[q].chunk]
    <3>1. toClient' = [q \in Peers |-> new(q)]
      BY <1>2
    <3>2. \A q \in Peers : toClient[q] \in R
      BY <1>t DEF TypeOK
    <3>3. ASSUME NEW q \in Peers
          PROVE  new(q) \in R
      <4> DEFINE cam == IF q = p THEN Append(toClient[q].camera, id) ELSE toClient[q].camera
                 chk == IF q = p THEN toClient[q].chunk \o ChunkMessages(after, Chunks)
                        ELSE toClient[q].chunk
      <4>1. toClient[q].camera \in Seq(Nat) /\ toClient[q].chunk \in Seq(ChunkMsg)
        BY <3>2
      <4>2. cam \in Seq(Nat)
        BY <1>5, <4>1
      <4>3. chk \in Seq(ChunkMsg)
        BY <1>6, <4>1
      <4> HIDE DEF cam, chk
      <4>4. [toClient[q] EXCEPT !.camera = cam, !.chunk = chk] \in R
        BY <3>2, <4>2, <4>3
      <4>5. QED
        BY <4>4 DEF cam, chk
    <3> HIDE DEF R, new
    <3>4. toClient' \in [Peers -> R]
      BY <3>1, <3>3
    <3>5. QED
      BY <3>4 DEF R
  <2>2. clients' \in [Slot -> [peer : Peers \cup {NoPeer}, entityID : Nat \cup {InvalidID}]]
    BY <1>t, <1>1, <1>3 DEF TypeOK
  <2>3. /\ world'.block \in [Chunks -> Block \cup {Unallocated}]
        /\ DOMAIN world'.dirty \subseteq Chunks
        /\ \A c \in DOMAIN world'.dirty : world'.dirty[c] \in BOOLEAN
    BY <1>2, <1>4 DEF WorldOK
  <2>4. /\ link' \in [Peers -> {"free", "requested", "open", "lost"}]
        /\ peerData' \in [Peers -> Slot \cup {0}]
    BY <1>t, <1>1, <1>2 DEF TypeOK
  <2>5. QED
    BY <1>t, <1>2, <1>3, <2>1, <2>2, <2>3, <2>4 DEF TypeOK
<1>11. /\ Connected' = Connected \cup {i} /\ i \notin Connected
       /\ p # NoPeer
  BY <1>1, <1>8, ServerAssumption DEF Connected
<1>12. SlotsInverse'
  <2>1. peerData[p] = 0
    BY <1>2 DEF IInv, SlotsInverse
  <2>2. ASSUME NEW q \in Peers
        PROVE  /\ link'[q] \in {"open", "lost"} <=> peerData'[q] # 0
               /\ peerData'[q] # 0 => clients'[peerData'[q]].peer = q
    <3>1. CASE q = p
      BY <1>8, <1>9, <3>1
    <3>2. CASE q # p
      <4>1. /\ link'[q] = link[q] /\ peerData'[q] = peerData[q]
            /\ peerData[q] \in Slot \cup {0}
        BY <1>t, <1>8, <3>2 DEF TypeOK
      <4>2. /\ link[q] \in {"open", "lost"} <=> peerData[q] # 0
            /\ peerData[q] # 0 => clients[peerData[q]].peer = q
        BY DEF IInv, SlotsInverse
      <4>3. peerData[q] # 0 => peerData[q] \in Slot \ {i}
        BY <1>1, <4>1, <4>2, ServerAssumption
      <4>4. QED
        BY <1>8, <4>1, <4>2, <4>3
    <3>3. QED
      BY <3>1, <3>2
  <2>3. ASSUME NEW j \in Connected'
        PROVE  peerData'[clients'[j].peer] = j
    <3>1. CASE j = i
      BY <1>8, <3>1
    <3>2. CASE j # i
      <4>1. j \in Connected /\ clients'[j] = clients[j]
        BY <1>8, <1>11, <3>2 DEF Connected
      <4>2. peerData[clients[j].peer] = j /\ clients[j].peer \in Peers /\ j # 0
        BY <1>t, <1>9, <4>1 DEF IInv, SlotsInverse, Connected, TypeOK
      <4>3. clients[j].peer # p
        BY <2>1, <4>2
      <4>4. QED
        BY <1>8, <4>1, <4>2, <4>3
    <3>3. QED
      BY <3>1, <3>2
  <2>4. QED
    BY <2>2, <2>3 DEF SlotsInverse
<1>13. PlayersOwnEntities'
  <2>0. /\ \A j \in Connected :
             [id |-> clients[j].entityID, explodey |-> FALSE] \in EntitiesOf(store)
        /\ \A j, k \in Connected : clients[j].entityID = clients[k].entityID => j = k
    BY OwnersByEntity DEF IInv
  <2>1. \A j \in Connected : clients'[j] = clients[j]
    BY <1>8, <1>11 DEF Connected
  <2>2. \A j \in Connected : clients[j].entityID # id
    <3> SUFFICES ASSUME NEW j \in Connected
                 PROVE  clients[j].entityID \in LiveIDs(store)
      BY <1>3
    <3>1. PICK k \in DOMAIN store.ents :
            store.ents[k] = [id |-> clients[j].entityID, explodey |-> FALSE]
      BY <2>0 DEF EntitiesOf
    <3>2. QED
      BY <3>1 DEF LiveIDs, IDsOf
  <2>3. clients'[i].entityID = id
    BY <1>8
  <2>4. \A j \in Connected' :
          [id |-> clients'[j].entityID, explodey |-> FALSE] \in EntitiesOf(store')
    BY <1>3, <1>11, <2>0, <2>1, <2>3 DEF own
  <2>5. \A j, k \in Connected' : clients'[j].entityID = clients'[k].entityID => j = k
    BY <1>11, <2>0, <2>1, <2>2, <2>3
  <2>6. QED
    BY <2>4, <2>5, OwnersByEntity
<1>14. CameraOnOwnEntity'
  <2> SUFFICES ASSUME NEW q \in Peers, link'[q] = "open"
               PROVE  clients'[peerData'[q]].entityID =
                        IF toClient'[q].camera = <<>> THEN replica'[q].playerEID
                        ELSE Last(toClient'[q].camera)
    BY DEF CameraOnOwnEntity
  <2>1. CASE q = p
    <3>1. clients'[peerData'[p]].entityID = id
      BY <1>8
    <3>2. toClient'[p].camera # <<>> /\ Last(toClient'[p].camera) = id
      BY <1>5, <1>7
    <3>3. QED
      BY <2>1, <3>1, <3>2
  <2>2. CASE q # p
    <3>1. link[q] = "open" /\ peerData'[q] = peerData[q] /\ toClient'[q].camera = toClient[q].camera
          /\ replica'[q] = replica[q]
      BY <1>2, <1>7, <1>8, <2>2
    <3>2. peerData[q] \in Connected
      BY <1>t, <3>1, OpenHasSlot DEF IInv
    <3>3. clients'[peerData[q]] = clients[peerData[q]]
      BY <1>8, <1>11, <3>2 DEF Connected
    <3>4. QED
      BY <3>1, <3>3 DEF IInv, CameraOnOwnEntity
  <2>3. QED
    BY <2>1, <2>2
<1>15. ClientsSeeAll'
  BY <1>2, <1>4 DEF ClientsSeeAll
<1>16. StaleViewsAreDirty'
  <2> SUFFICES ASSUME NEW q \in Peers, NEW c \in Chunks, link'[q] = "open",
                      c \notin DirtyChunks(world')
               PROVE  Arriving(q, c, world.block[c])'
    BY DEF StaleViewsAreDirty
  <2>1. CASE q = p
    <3>1. toClient[p].chunk \in Seq(ChunkMsg)
      BY <1>t DEF TypeOK
    <3>2. Shows(toClient[p].chunk \o ChunkMessages(after, Chunks), replica[p].block, c,
                after.block[c])
      BY <1>4, <3>1, ShowsAfterSending
    <3>3. toClient'[q].chunk = toClient[p].chunk \o ChunkMessages(after, Chunks)
          /\ replica'[q] = replica[p] /\ world' = after
      BY <1>2, <1>7, <2>1
    <3>4. QED
      BY <3>2, <3>3 DEF Arriving, Shows
  <2>2. CASE q # p
    <3>1. link[q] = "open" /\ toClient'[q].chunk = toClient[q].chunk /\ replica'[q] = replica[q]
      BY <1>2, <1>7, <1>8, <2>2
    <3>2. world'.block[c] = world.block[c] /\ c \notin DirtyChunks(world)
      BY <1>2, <1>4, <3>1 DEF IInv, ClientsSeeAll, Reports
    <3>3. Arriving(q, c, world.block[c])
      BY <3>1, <3>2 DEF IInv, StaleViewsAreDirty
    <3>4. QED
      BY <3>1, <3>2, <3>3 DEF Arriving
  <2>3. QED
    BY <2>1, <2>2
<1>17. QED
  BY <1>3, <1>10, <1>12, <1>13, <1>14, <1>15, <1>16 DEF IInv

\* processDisconnect() (server.cpp:242) finds the peer's slot and frees that one.
LEMMA ProcessDisconnectIInv ==
  ASSUME IInv, NEW p \in Peers, ProcessDisconnect(p)
  PROVE  IInv'
<1> DEFINE i == peerData[p]
<1>t. TypeOK /\ SlotsInverse
  BY DEF IInv
<1>1. /\ link[p] = "lost"
      /\ clients' = [clients EXCEPT ![i].peer = NoPeer]
      /\ peerData' = [peerData EXCEPT ![p] = 0]
      /\ link' = [link EXCEPT ![p] = "free"]
      /\ toServer' = [toServer EXCEPT ![p] = <<>>]
      /\ UNCHANGED <<world, store, deletedEntities, toClient, replica, budget>>
  BY DEF ProcessDisconnect, ClearSlot
<1>2. i \in Connected /\ i \in Slot /\ clients[i].peer = p /\ p # NoPeer
  BY <1>t, <1>1, OpenHasSlot, ServerAssumption DEF Connected
<1> HIDE DEF i
<1>3. TypeOK'
  <2>1. clients' \in [Slot -> [peer : Peers \cup {NoPeer}, entityID : Nat \cup {InvalidID}]]
    <3> DEFINE R == [peer : Peers \cup {NoPeer}, entityID : Nat \cup {InvalidID}]
               r == [clients[i] EXCEPT !.peer = NoPeer]
    <3>1. clients \in [Slot -> R] /\ clients[i] \in R
      BY <1>t, <1>2 DEF TypeOK
    <3>2. r \in R
      BY <3>1
    <3>3. clients' = [clients EXCEPT ![i] = r]
      BY <1>1
    <3> HIDE DEF R, r
    <3>4. clients' \in [Slot -> R]
      BY <3>1, <3>2, <3>3
    <3>5. QED
      BY <3>4 DEF R
  <2>2. toServer' \in [Peers -> Seq(PlayerCommand)]
    BY <1>t, <1>1, EmptySeq DEF TypeOK
  <2>3. /\ link' \in [Peers -> {"free", "requested", "open", "lost"}]
        /\ peerData' \in [Peers -> Slot \cup {0}]
    BY <1>t, <1>1 DEF TypeOK
  <2>4. QED
    BY <1>t, <1>1, <2>1, <2>2, <2>3 DEF TypeOK
<1>4. /\ \A q \in Peers \ {p} : link'[q] = link[q] /\ peerData'[q] = peerData[q]
      /\ link'[p] = "free" /\ peerData'[p] = 0
      /\ \A j \in Slot : clients'[j].entityID = clients[j].entityID
      /\ \A j \in Slot \ {i} : clients'[j] = clients[j]
      /\ clients'[i].peer = NoPeer
  BY <1>t, <1>1, <1>2 DEF TypeOK
<1>5. Connected' = Connected \ {i}
  BY <1>4 DEF Connected
<1>6. SlotsInverse'
  <2>1. \A q \in Peers \ {p} : peerData[q] # 0 => peerData[q] \in Slot \ {i}
    BY <1>t, <1>2 DEF TypeOK, SlotsInverse
  <2>2. \A q \in Peers : /\ link'[q] \in {"open", "lost"} <=> peerData'[q] # 0
                         /\ peerData'[q] # 0 => clients'[peerData'[q]].peer = q
    BY <1>t, <1>4, <2>1 DEF SlotsInverse
  <2>3. \A j \in Connected' : peerData'[clients'[j].peer] = j
    <3> SUFFICES ASSUME NEW j \in Connected, j # i
                 PROVE  peerData'[clients'[j].peer] = j
      BY <1>5
    <3>1. /\ peerData[clients[j].peer] = j /\ clients[j].peer \in Peers
          /\ clients'[j] = clients[j]
      BY <1>t, <1>4 DEF SlotsInverse, Connected, TypeOK
    <3>2. clients[j].peer # p
      BY <3>1 DEF i
    <3>3. QED
      BY <1>4, <3>1, <3>2
  <2>4. QED
    BY <2>2, <2>3 DEF SlotsInverse
<1>7. PlayersOwnEntities'
  BY <1>1, <1>4, <1>5, PlayersKept DEF IInv, Connected
<1>8. CameraOnOwnEntity'
  <2>1. \A q \in Peers : link'[q] = "open" =>
          /\ link[q] = "open" /\ peerData'[q] = peerData[q]
          /\ peerData[q] \in Slot
    BY <1>t, <1>4, OpenHasSlot DEF Connected
  <2>2. QED
    BY <1>1, <1>4, <2>1, CamerasKept DEF IInv
<1>9. ClientsSeeAll' /\ StaleViewsAreDirty'
  <2>1. \A q \in Peers : link'[q] = "open" => link[q] = "open"
    BY <1>4
  <2>2. QED
    BY <1>t, <1>1, <2>1, WorldTyped, ViewsKept DEF IInv
<1>10. QED
  BY <1>1, <1>3, <1>6, <1>7, <1>8, <1>9 DEF IInv

\* processPlayerCommand() (server.cpp:277): an edit is reported, a projectile is new.
LEMMA ProcessPlayerCommandIInv ==
  ASSUME IInv, NEW p \in Peers, ProcessPlayerCommand(p)
  PROVE  IInv'
<1> DEFINE cmd == Head(toServer[p])
<1>t. TypeOK /\ SlotsInverse /\ Partitioned(store) /\ store \in Store /\ WorldOK(world)
  BY WorldTyped DEF IInv, TypeOK
<1>1. /\ toServer[p] # <<>>
      /\ Exec(cmd)
      /\ toServer' = [toServer EXCEPT ![p] = Tail(toServer[p])]
      /\ UNCHANGED <<link, clients, peerData, deletedEntities, toClient, replica, budget>>
  BY DEF ProcessPlayerCommand
<1>2. cmd \in PlayerCommand /\ Tail(toServer[p]) \in Seq(PlayerCommand)
  <2>1. toServer[p] \in Seq(PlayerCommand)
    BY <1>t DEF TypeOK
  <2>2. QED
    BY <1>1, <2>1, HeadTailProperties
<1> HIDE DEF cmd
<1>3. /\ Reports(world, world')
      /\ store' \in Store /\ Partitioned(store') /\ EntitiesOf(store) \subseteq EntitiesOf(store')
  <2>1. ASSUME NEW b \in {"Air", "Brick"}, cmd.type \in {"Primary", "Secondary"},
               world' = PutBlocks(world, {cmd.chunk}, b)
        PROVE  Reports(world, world')
    <3>1. {cmd.chunk} \in SUBSET Chunks /\ b \in Block
      BY <1>2, <2>1 DEF PlayerCommand, Block
    <3>2. QED
      BY <1>t, <2>1, <3>1, PutBlocksSound
  <2>2. CASE store' = store /\ cmd.type = "Primary" /\ world' = PutBlocks(world, {cmd.chunk}, "Air")
    BY <1>t, <2>1, <2>2
  <2>3. CASE store' = store /\ cmd.type = "Secondary"
             /\ world' = PutBlocks(world, {cmd.chunk}, "Brick")
    BY <1>t, <2>1, <2>3
  <2>4. CASE world' = world /\ store' = NewEntity(store, TRUE)
    BY <1>t, <2>4, WorldTyped, NewEntitySound, NewEntityAdds
  <2>5. QED
    BY <1>1, <2>2, <2>3, <2>4 DEF Exec
<1>4. TypeOK'
  <2>1. toServer' \in [Peers -> Seq(PlayerCommand)]
    BY <1>t, <1>1, <1>2 DEF TypeOK
  <2>2. /\ world'.block \in [Chunks -> Block \cup {Unallocated}]
        /\ DOMAIN world'.dirty \subseteq Chunks
        /\ \A c \in DOMAIN world'.dirty : world'.dirty[c] \in BOOLEAN
    BY <1>3 DEF Reports, WorldOK
  <2>3. QED
    BY <1>t, <1>1, <1>3, <2>1, <2>2 DEF TypeOK
<1>5. SlotsInverse'
  BY <1>t, <1>1 DEF SlotsInverse, Connected
<1>6. PlayersOwnEntities'
  BY <1>1, <1>3, PlayersKept DEF IInv, Connected
<1>7. CameraOnOwnEntity'
  BY <1>1, CamerasKept DEF IInv
<1>8. ClientsSeeAll' /\ StaleViewsAreDirty'
  BY <1>1, <1>3, ViewsKept DEF IInv
<1>9. QED
  BY <1>3, <1>4, <1>5, <1>6, <1>7, <1>8 DEF IInv

\* No player's entity explodes: the ones that do are other entities, with other IDs
\* (Entity::update, entity.cpp:78).
LEMMA PlayersSurvive ==
  ASSUME store \in Store, Partitioned(store), NEW hit \in SUBSET ExplodeyIDs,
         NEW e \in EntitiesOf(store), e.explodey = FALSE
  PROVE  e.id \notin hit
<1>1. PICK j \in DOMAIN store.ents : store.ents[j] = e
  BY DEF EntitiesOf
<1>2. SUFFICES ASSUME e.id \in hit
               PROVE  FALSE
  OBVIOUS
<1>3. PICK k \in DOMAIN store.ents : store.ents[k].id = e.id /\ store.ents[k].explodey
  BY <1>2 DEF ExplodeyIDs, MayExplode
<1>4. j = k
  BY <1>1, <1>3 DEF Partitioned, IDsDistinct
<1>5. QED
  BY <1>1, <1>3, <1>4

\* The rest of tick() (server.cpp:319): the entities that exploded are gone, and when it
\* clears the dirty flags it has sent every dirty chunk to every client.
LEMMA TickIInv ==
  ASSUME IInv, NEW hit \in SUBSET ExplodeyIDs,
         NEW touched \in SUBSET Chunks, NEW blown \in SUBSET Chunks, Tick(hit, touched, blown)
  PROVE  IInv'
<1> DEFINE entities == UpdateEntities(hit)
           updated == PutBlocks(GetChunks(world, touched), blown, "Air")
           all == GetChunks(updated, Chunks)
           seen == IF Connected = {} THEN updated ELSE all
           chunk(p) == toClient[p].chunk \o ChunksSent(peerData[p], seen)
           entity(p) == toClient[p].entity
                          \o EntitiesSent(peerData[p], entities.store, entities.deleted)
<1>t. /\ TypeOK /\ SlotsInverse /\ Partitioned(store) /\ store \in Store /\ WorldOK(world)
      /\ deletedEntities \in Seq(Nat)
  BY WorldTyped DEF IInv, TypeOK
<1>1. /\ store' = entities.store
      /\ toClient' = [p \in Peers |->
           IF link[p] = "open"
           THEN [toClient[p] EXCEPT !.chunk = chunk(p), !.entity = entity(p)]
           ELSE toClient[p]]
      /\ deletedEntities' = IF Connected = {} THEN entities.deleted ELSE <<>>
      /\ world' = Cleaned(seen)
      /\ UNCHANGED <<link, clients, peerData, toServer, replica, budget>>
  BY DEF Tick
<1>2. /\ entities.store \in Store /\ Partitioned(entities.store)
      /\ EntitiesOf(entities.store) = {e \in EntitiesOf(store) : e.id \notin hit}
      /\ entities.deleted \in Seq(Nat)
  BY <1>t, UpdateEntitiesSound
<1>3. Reports(world, updated) /\ WorldOK(updated)
  <2> DEFINE g == GetChunks(world, touched)
  <2>1. Reports(world, g) /\ WorldOK(g)
    BY <1>t, GetChunksSound DEF Reports
  <2> HIDE DEF g
  <2>2. "Air" \in Block
    BY DEF Block
  <2>3. Reports(g, PutBlocks(g, blown, "Air"))
    BY <2>1, <2>2, PutBlocksSound
  <2>4. QED
    BY <2>1, <2>3, ReportsTransitive DEF g, Reports
<1>4. /\ Reports(world, all) /\ WorldOK(all)
      /\ \A c \in Chunks : all.block[c] # Unallocated
  <2> HIDE DEF updated
  <2>1. /\ Reports(updated, all) /\ \A c \in Chunks : all.block[c] # Unallocated
    BY <1>3, GetChunksSound
  <2>2. QED
    BY <1>3, <2>1, ReportsTransitive DEF Reports
<1>5. Connected # {} => /\ world'.block = all.block
                        /\ world'.dirty = [c \in DOMAIN all.dirty |-> FALSE]
  BY <1>1 DEF Cleaned, MarkChunksClean, GetChunks
<1>6. Connected = {} => world' = updated
  BY <1>1 DEF Cleaned
<1>7. WorldOK(world')
  BY <1>3, <1>4, <1>5, <1>6 DEF WorldOK
<1>8. \A p \in Peers : link[p] = "open" => Connected # {} /\ seen = all
  BY <1>t, OpenHasSlot
<1> HIDE DEF entities, updated, all, seen
<1>9. ASSUME NEW p \in Peers, link[p] = "open"
      PROVE  chunk(p) \in Seq(ChunkMsg) /\ entity(p) \in Seq(EntityMsg)
  <2>1. toClient[p].chunk \in Seq(ChunkMsg) /\ toClient[p].entity \in Seq(EntityMsg)
    BY <1>t DEF TypeOK
  <2>2. DirtyChunks(all) \in SUBSET Chunks
    BY <1>4 DEF WorldOK, DirtyChunks
  <2>3. ChunksSent(peerData[p], seen) \in Seq(ChunkMsg)
    BY <1>4, <1>8, <1>9, <2>2, ChunkMessagesSound DEF ChunksSent
  <2>4. EntitiesSent(peerData[p], entities.store, entities.deleted) \in Seq(EntityMsg)
    BY <1>2, EntitiesSentType
  <2>5. QED
    BY <2>1, <2>3, <2>4, ConcatProperties
<1>10. toClient' \in [Peers -> [chunk : Seq(ChunkMsg), entity : Seq(EntityMsg),
                                camera : Seq(Nat)]]
  <2> DEFINE R == [chunk : Seq(ChunkMsg), entity : Seq(EntityMsg), camera : Seq(Nat)]
  <2> HIDE DEF chunk, entity
  <2>1. toClient \in [Peers -> R]
    BY <1>t DEF TypeOK
  <2>2. ASSUME NEW p \in Peers, link[p] = "open"
        PROVE  [toClient[p] EXCEPT !.chunk = chunk(p), !.entity = entity(p)] \in R
    <3>1. toClient[p] \in R /\ chunk(p) \in Seq(ChunkMsg) /\ entity(p) \in Seq(EntityMsg)
      BY <1>9, <2>1, <2>2
    <3>2. QED
      BY <3>1
  <2> HIDE DEF R
  <2>3. toClient' \in [Peers -> R]
    BY <1>1, <2>1, <2>2
  <2>4. QED
    BY <2>3 DEF R
<1>11. \A p \in Peers : toClient'[p].camera = toClient[p].camera
  <2> HIDE DEF chunk, entity
  <2>1. \A p \in Peers :
          toClient[p] \in [chunk : Seq(ChunkMsg), entity : Seq(EntityMsg), camera : Seq(Nat)]
    BY <1>t DEF TypeOK
  <2>2. QED
    BY <1>1, <2>1
<1>12. TypeOK'
  <2>1. deletedEntities' \in Seq(Nat)
    BY <1>1, <1>2, EmptySeq
  <2>2. QED
    BY <1>t, <1>1, <1>2, <1>7, <1>10, <2>1 DEF TypeOK, WorldOK
<1>13. SlotsInverse'
  BY <1>t, <1>1 DEF SlotsInverse, Connected
<1>14. PlayersOwnEntities'
  <2>1. \A e \in EntitiesOf(store) : e.explodey = FALSE => e \in EntitiesOf(store')
    BY <1>t, <1>1, <1>2, PlayersSurvive
  <2>2. QED
    BY <1>1, <2>1, PlayersKept DEF IInv, Connected
<1>15. CameraOnOwnEntity'
  BY <1>1, <1>11, CamerasKept DEF IInv
<1>16. ClientsSeeAll'
  BY <1>1, <1>4, <1>5, <1>8 DEF ClientsSeeAll
<1>17. StaleViewsAreDirty'
  <2> SUFFICES ASSUME NEW p \in Peers, NEW c \in Chunks, link[p] = "open"
               PROVE  Arriving(p, c, world.block[c])'
    BY <1>1 DEF StaleViewsAreDirty
  <2> DEFINE D == DirtyChunks(all)
  <2>1. D \in SUBSET Chunks /\ toClient[p].chunk \in Seq(ChunkMsg)
    BY <1>t, <1>4 DEF WorldOK, DirtyChunks, TypeOK
  <2>2. c \notin D => Shows(toClient[p].chunk, replica[p].block, c, all.block[c])
    <3> SUFFICES ASSUME c \notin D
                 PROVE  Arriving(p, c, all.block[c])
      BY ArrivingShows
    <3>1. world.block[c] # Unallocated
      BY DEF IInv, ClientsSeeAll
    <3>2. c \notin DirtyChunks(world) /\ all.block[c] = world.block[c]
      BY <1>4, <3>1 DEF Reports
    <3>3. QED
      BY <3>2 DEF IInv, StaleViewsAreDirty
  <2> HIDE DEF D
  <2>3. Shows(toClient[p].chunk \o ChunkMessages(all, D), replica[p].block, c, all.block[c])
    BY <1>4, <2>1, <2>2, ShowsAfterSending
  <2>4. toClient'[p].chunk = toClient[p].chunk \o ChunkMessages(all, D)
    <3>1. chunk(p) = toClient[p].chunk \o ChunkMessages(all, D)
      BY <1>8 DEF ChunksSent, D
    <3>2. toClient'[p] = [toClient[p] EXCEPT !.chunk = chunk(p), !.entity = entity(p)]
      BY <1>1
    <3> HIDE DEF chunk, entity
    <3>3. toClient[p] \in [chunk : Seq(ChunkMsg), entity : Seq(EntityMsg), camera : Seq(Nat)]
      BY <1>t DEF TypeOK
    <3>4. QED
      BY <3>1, <3>2, <3>3
  <2>5. world'.block[c] = all.block[c] /\ replica'[p] = replica[p]
    BY <1>1, <1>5, <1>8
  <2>6. QED
    BY <2>3, <2>4, <2>5 DEF Arriving, Shows
<1>18. QED
  BY <1>1, <1>2, <1>12, <1>13, <1>14, <1>15, <1>16, <1>17 DEF IInv

-----------------------------------------------------------------------------
(* The steps of a client that receives.                                    *)

\* What a client's handler leaves is well typed when the replica and the queues it
\* writes are (ProcessChunk, ProcessEntity and ProcessPlayerCmd touch nothing else).
LEMMA ReceiveTypes ==
  ASSUME TypeOK, NEW p \in Peers,
         NEW r \in [block : [Chunks -> Block], store : Store, playerEID : Nat \cup {InvalidID}],
         NEW c \in [chunk : Seq(ChunkMsg), entity : Seq(EntityMsg), camera : Seq(Nat)],
         replica' = [replica EXCEPT ![p] = r],
         toClient' = [toClient EXCEPT ![p] = c],
         UNCHANGED <<link, clients, peerData, world, store, deletedEntities, toServer, budget>>
  PROVE  TypeOK'
<1>1. replica' \in [Peers -> [block : [Chunks -> Block], store : Store,
                             playerEID : Nat \cup {InvalidID}]]
  <2> DEFINE R == [block : [Chunks -> Block], store : Store, playerEID : Nat \cup {InvalidID}]
  <2>1. replica \in [Peers -> R] /\ r \in R
    BY DEF TypeOK
  <2> HIDE DEF R
  <2>2. replica' \in [Peers -> R]
    BY <2>1
  <2>3. QED
    BY <2>2 DEF R
<1>2. toClient' \in [Peers -> [chunk : Seq(ChunkMsg), entity : Seq(EntityMsg),
                              camera : Seq(Nat)]]
  <2> DEFINE R == [chunk : Seq(ChunkMsg), entity : Seq(EntityMsg), camera : Seq(Nat)]
  <2>1. toClient \in [Peers -> R] /\ c \in R
    BY DEF TypeOK
  <2> HIDE DEF R
  <2>2. toClient' \in [Peers -> R]
    BY <2>1
  <2>3. QED
    BY <2>2 DEF R
<1>3. QED
  <2>1. UNCHANGED <<link, clients, peerData, world, store, deletedEntities, toServer, budget>>
    OBVIOUS
  <2>2. TypeOK
    OBVIOUS
  <2>3. QED
    BY <1>1, <1>2, <2>1, <2>2 DEF TypeOK

\* processChunk() (main.cpp:804) makes true what was arriving.
LEMMA ProcessChunkIInv ==
  ASSUME IInv, NEW p \in Peers, ProcessChunk(p)
  PROVE  IInv'
<1> DEFINE q == toClient[p].chunk
           m == Head(q)
           blocks == [replica[p].block EXCEPT ![m.chunk] = m.block]
<1>t. TypeOK /\ SlotsInverse
  BY DEF IInv
<1>1. /\ link[p] = "open" /\ q # <<>>
      /\ replica' = [replica EXCEPT ![p].block[m.chunk] = m.block]
      /\ toClient' = [toClient EXCEPT ![p].chunk = Tail(q)]
      /\ UNCHANGED <<link, clients, peerData, world, store, deletedEntities, toServer, budget>>
  BY DEF ProcessChunk, serverVars
<1>2. /\ q \in Seq(ChunkMsg)
      /\ toClient[p] \in [chunk : Seq(ChunkMsg), entity : Seq(EntityMsg), camera : Seq(Nat)]
      /\ replica[p] \in [block : [Chunks -> Block], store : Store,
                         playerEID : Nat \cup {InvalidID}]
  BY <1>t DEF TypeOK
<1>3. m \in ChunkMsg /\ Tail(q) \in Seq(ChunkMsg)
  BY <1>1, <1>2, HeadTailProperties
<1> HIDE DEF m
<1>4. blocks \in [Chunks -> Block]
  BY <1>2, <1>3 DEF ChunkMsg
<1>5. /\ replica' = [replica EXCEPT ![p] = [replica[p] EXCEPT !.block = blocks]]
      /\ toClient' = [toClient EXCEPT ![p] = [toClient[p] EXCEPT !.chunk = Tail(q)]]
  BY <1>1
<1> HIDE DEF blocks, q
<1>6. /\ [replica[p] EXCEPT !.block = blocks] \in
           [block : [Chunks -> Block], store : Store, playerEID : Nat \cup {InvalidID}]
      /\ [toClient[p] EXCEPT !.chunk = Tail(q)] \in
           [chunk : Seq(ChunkMsg), entity : Seq(EntityMsg), camera : Seq(Nat)]
  BY <1>2, <1>3, <1>4
<1>7. /\ replica'[p].block = blocks /\ replica'[p].playerEID = replica[p].playerEID
      /\ toClient'[p].chunk = Tail(q) /\ toClient'[p].camera = toClient[p].camera
      /\ \A r \in Peers \ {p} : replica'[r] = replica[r] /\ toClient'[r] = toClient[r]
  BY <1>t, <1>2, <1>5 DEF TypeOK
<1>8. TypeOK'
  <2>1. UNCHANGED <<link, clients, peerData, world, store, deletedEntities, toServer, budget>>
    BY <1>1
  <2>2. QED
    BY <1>t, <1>5, <1>6, <2>1, ReceiveTypes, Zenon
<1>9. SlotsInverse'
  BY <1>t, <1>1 DEF SlotsInverse, Connected
<1>10. PlayersOwnEntities'
  BY <1>1, PlayersKept DEF IInv, Connected
<1>11. CameraOnOwnEntity'
  BY <1>1, <1>7, CamerasKept DEF IInv
<1>12. ClientsSeeAll'
  BY <1>1 DEF IInv, ClientsSeeAll
<1>13. StaleViewsAreDirty'
  <2> SUFFICES ASSUME NEW r \in Peers, NEW c \in Chunks, link[r] = "open",
                      Arriving(r, c, world.block[c])
               PROVE  Arriving(r, c, world.block[c])'
    BY <1>1 DEF IInv, StaleViewsAreDirty
  <2>1. CASE r = p
    <3>1. Shows(q, replica[p].block, c, world.block[c])
      BY <2>1, ArrivingShows DEF q
    <3>2. Shows(Tail(q), blocks, c, world.block[c])
      BY <1>1, <1>2, <3>1, ShowsApplied DEF blocks, m
    <3>3. /\ toClient'[p].chunk = Tail(q) /\ replica'[p].block = blocks
          /\ world'.block = world.block
      BY <1>1, <1>7
    <3>4. Arriving(p, c, world.block[c])' <=>
            Shows(toClient'[p].chunk, replica'[p].block, c, world'.block[c])
      BY DEF Arriving, Shows
    <3>5. Shows(toClient'[p].chunk, replica'[p].block, c, world'.block[c])
      BY <3>2, <3>3
    <3>6. QED
      BY <2>1, <3>4, <3>5
  <2>2. CASE r # p
    BY <1>1, <1>7, <2>2 DEF Arriving
  <2>3. QED
    BY <2>1, <2>2
<1>14. QED
  BY <1>1, <1>8, <1>9, <1>10, <1>11, <1>12, <1>13 DEF IInv

\* processEntity() touches the entities of the replica alone.
LEMMA ProcessEntityIInv ==
  ASSUME IInv, NEW p \in Peers, ProcessEntity(p)
  PROVE  IInv'
<1> DEFINE q == toClient[p].entity
           st == ApplyEntity(replica[p].store, Head(q))
<1>t. TypeOK /\ SlotsInverse
  BY DEF IInv
<1>1. /\ link[p] = "open" /\ q # <<>>
      /\ replica' = [replica EXCEPT ![p].store = st]
      /\ toClient' = [toClient EXCEPT ![p].entity = Tail(q)]
      /\ UNCHANGED <<link, clients, peerData, world, store, deletedEntities, toServer, budget>>
  BY DEF ProcessEntity, serverVars
<1>2. /\ q \in Seq(EntityMsg)
      /\ toClient[p] \in [chunk : Seq(ChunkMsg), entity : Seq(EntityMsg), camera : Seq(Nat)]
      /\ replica[p] \in [block : [Chunks -> Block], store : Store,
                         playerEID : Nat \cup {InvalidID}]
  BY <1>t DEF TypeOK
<1>3. Head(q) \in EntityMsg /\ Tail(q) \in Seq(EntityMsg)
  BY <1>1, <1>2, HeadTailProperties
<1>4. st \in Store
  <2>1. replica[p].store \in Store /\ Head(q).id \in Nat /\ Head(q).type \in {"FullUpdate", "Deleted"}
    BY <1>2, <1>3 DEF EntityMsg
  <2>2. CASE Head(q).type = "FullUpdate"
    BY <2>1, <2>2, NewEntityWithIDType DEF ApplyEntity
  <2>3. CASE Head(q).type = "Deleted"
    BY <2>1, <2>3, DeleteEntityType DEF ApplyEntity
  <2>4. QED
    BY <2>1, <2>2, <2>3
<1>5. /\ replica' = [replica EXCEPT ![p] = [replica[p] EXCEPT !.store = st]]
      /\ toClient' = [toClient EXCEPT ![p] = [toClient[p] EXCEPT !.entity = Tail(q)]]
  BY <1>1
<1> HIDE DEF st, q
<1>6. /\ [replica[p] EXCEPT !.store = st] \in
           [block : [Chunks -> Block], store : Store, playerEID : Nat \cup {InvalidID}]
      /\ [toClient[p] EXCEPT !.entity = Tail(q)] \in
           [chunk : Seq(ChunkMsg), entity : Seq(EntityMsg), camera : Seq(Nat)]
  BY <1>2, <1>3, <1>4
<1>7. \A r \in Peers : /\ replica'[r].block = replica[r].block
                       /\ replica'[r].playerEID = replica[r].playerEID
                       /\ toClient'[r].chunk = toClient[r].chunk
                       /\ toClient'[r].camera = toClient[r].camera
  BY <1>t, <1>2, <1>5 DEF TypeOK
<1>8. TypeOK'
  <2>1. UNCHANGED <<link, clients, peerData, world, store, deletedEntities, toServer, budget>>
    BY <1>1
  <2>2. QED
    BY <1>t, <1>5, <1>6, <2>1, ReceiveTypes, Zenon
<1>9. SlotsInverse'
  BY <1>t, <1>1 DEF SlotsInverse, Connected
<1>10. PlayersOwnEntities'
  BY <1>1, PlayersKept DEF IInv, Connected
<1>11. CameraOnOwnEntity'
  BY <1>1, <1>7, CamerasKept DEF IInv
<1>12. ClientsSeeAll' /\ StaleViewsAreDirty'
  BY <1>t, <1>1, <1>7, WorldTyped, ViewsKept DEF IInv
<1>13. QED
  BY <1>1, <1>8, <1>9, <1>10, <1>11, <1>12 DEF IInv

\* processPlayerCmd() (main.cpp:792): the camera goes where the message says, and the
\* last message decides.
LEMMA ProcessPlayerCmdIInv ==
  ASSUME IInv, NEW p \in Peers, ProcessPlayerCmd(p)
  PROVE  IInv'
<1> DEFINE q == toClient[p].camera
<1>t. TypeOK /\ SlotsInverse
  BY DEF IInv
<1>1. /\ link[p] = "open" /\ q # <<>>
      /\ replica' = [replica EXCEPT ![p].playerEID = Head(q)]
      /\ toClient' = [toClient EXCEPT ![p].camera = Tail(q)]
      /\ UNCHANGED <<link, clients, peerData, world, store, deletedEntities, toServer, budget>>
  BY DEF ProcessPlayerCmd, serverVars
<1>2. /\ q \in Seq(Nat)
      /\ toClient[p] \in [chunk : Seq(ChunkMsg), entity : Seq(EntityMsg), camera : Seq(Nat)]
      /\ replica[p] \in [block : [Chunks -> Block], store : Store,
                         playerEID : Nat \cup {InvalidID}]
  BY <1>t DEF TypeOK
<1>3. Head(q) \in Nat /\ Tail(q) \in Seq(Nat)
  BY <1>1, <1>2, HeadTailProperties
<1>4. Last(q) = IF Tail(q) = <<>> THEN Head(q) ELSE Last(Tail(q))
  <2> DEFINE n == Len(q)
             t == Tail(q)
  <2>1. /\ n \in Nat \ {0} /\ Head(q) = q[1] /\ Len(t) = n - 1
        /\ \A k \in 1 .. Len(t) : t[k] = q[k + 1]
        /\ t \in Seq(Nat)
    BY <1>1, <1>2, HeadTailProperties, EmptySeq
  <2>2. Last(q) = q[n] /\ Last(t) = t[Len(t)]
    BY DEF Last
  <2>3. t = <<>> <=> Len(t) = 0
    BY <2>1, EmptySeq
  <2> HIDE DEF n, t
  <2>4. CASE n = 1
    BY <2>1, <2>2, <2>3, <2>4 DEF t
  <2>5. CASE n # 1
    <3>1. n - 1 \in 1 .. Len(t) /\ (n - 1) + 1 = n /\ Len(t) # 0
      BY <2>1, <2>5
    <3>2. t[n - 1] = q[n]
      BY <2>1, <3>1
    <3>3. QED
      BY <2>1, <2>2, <2>3, <3>1, <3>2 DEF t
  <2>6. QED
    BY <2>4, <2>5
<1>5. /\ replica' = [replica EXCEPT ![p] = [replica[p] EXCEPT !.playerEID = Head(q)]]
      /\ toClient' = [toClient EXCEPT ![p] = [toClient[p] EXCEPT !.camera = Tail(q)]]
  BY <1>1
<1> HIDE DEF q
<1>6. /\ [replica[p] EXCEPT !.playerEID = Head(q)] \in
           [block : [Chunks -> Block], store : Store, playerEID : Nat \cup {InvalidID}]
      /\ [toClient[p] EXCEPT !.camera = Tail(q)] \in
           [chunk : Seq(ChunkMsg), entity : Seq(EntityMsg), camera : Seq(Nat)]
  BY <1>2, <1>3
<1>7. /\ replica'[p].playerEID = Head(q) /\ toClient'[p].camera = Tail(q)
      /\ \A r \in Peers \ {p} : replica'[r] = replica[r] /\ toClient'[r] = toClient[r]
      /\ \A r \in Peers : /\ replica'[r].block = replica[r].block
                          /\ toClient'[r].chunk = toClient[r].chunk
  BY <1>t, <1>2, <1>5 DEF TypeOK
<1>8. TypeOK'
  <2>1. UNCHANGED <<link, clients, peerData, world, store, deletedEntities, toServer, budget>>
    BY <1>1
  <2>2. QED
    BY <1>t, <1>5, <1>6, <2>1, ReceiveTypes, Zenon
<1>9. SlotsInverse'
  BY <1>t, <1>1 DEF SlotsInverse, Connected
<1>10. PlayersOwnEntities'
  BY <1>1, PlayersKept DEF IInv, Connected
<1>11. CameraOnOwnEntity'
  <2> SUFFICES ASSUME NEW r \in Peers, link[r] = "open"
               PROVE  clients[peerData[r]].entityID =
                        IF toClient'[r].camera = <<>> THEN replica'[r].playerEID
                        ELSE Last(toClient'[r].camera)
    BY <1>1 DEF CameraOnOwnEntity
  <2>1. CASE r = p
    <3>1. clients[peerData[p]].entityID = Last(q)
      BY <1>1 DEF IInv, CameraOnOwnEntity, q
    <3>2. QED
      BY <1>4, <1>7, <2>1, <3>1
  <2>2. CASE r # p
    BY <1>7, <2>2 DEF IInv, CameraOnOwnEntity
  <2>3. QED
    BY <2>1, <2>2
<1>12. ClientsSeeAll' /\ StaleViewsAreDirty'
  BY <1>t, <1>1, <1>7, WorldTyped, ViewsKept DEF IInv
<1>13. QED
  BY <1>1, <1>8, <1>9, <1>10, <1>11, <1>12 DEF IInv

-----------------------------------------------------------------------------
(* The theorems.                                                           *)

LEMMA NextIInv ==
  ASSUME IInv, [Next]_vars
  PROVE  IInv'
<1>1. ASSUME NEW p \in Peers,
             \/ Connect(p)
             \/ Leave(p)
             \/ \E cmd \in PlayerCommand : SendCommand(p, cmd)
             \/ ProcessConnect(p)
             \/ ProcessDisconnect(p)
             \/ ProcessPlayerCommand(p)
             \/ ProcessChunk(p)
             \/ ProcessEntity(p)
             \/ ProcessPlayerCmd(p)
      PROVE  IInv'
  BY <1>1, ConnectIInv, LeaveIInv, SendCommandIInv, ProcessConnectIInv, ProcessDisconnectIInv,
     ProcessPlayerCommandIInv, ProcessChunkIInv, ProcessEntityIInv, ProcessPlayerCmdIInv
<1>2. CASE TickQuiet
  <2>1. PICK touched \in SUBSET UnallocatedChunks : Tick({}, touched, {})
    BY <1>2 DEF TickQuiet
  <2>2. touched \in SUBSET Chunks /\ {} \in SUBSET ExplodeyIDs /\ {} \in SUBSET Chunks
    BY DEF UnallocatedChunks
  <2>3. QED
    BY <2>1, <2>2, TickIInv
<1>3. CASE TickExplosions
  <2>1. PICK hit \in SUBSET ExplodeyIDs, blown \in SUBSET Chunks : Tick(hit, {}, blown)
    BY <1>3 DEF TickExplosions
  <2>2. {} \in SUBSET Chunks
    OBVIOUS
  <2>3. QED
    BY <2>1, <2>2, TickIInv
<1>4. CASE UNCHANGED vars
  <2>1. /\ link' = link /\ clients' = clients /\ peerData' = peerData /\ world' = world
        /\ store' = store /\ deletedEntities' = deletedEntities /\ toServer' = toServer
        /\ toClient' = toClient /\ replica' = replica /\ budget' = budget
    BY <1>4 DEF vars
  <2>2. TypeOK' /\ SlotsInverse' /\ Partitioned(store)'
    BY <2>1 DEF IInv, TypeOK, SlotsInverse, Connected
  <2>3. PlayersOwnEntities' /\ CameraOnOwnEntity' /\ ClientsSeeAll' /\ StaleViewsAreDirty'
    BY <2>1 DEF IInv, PlayersOwnEntities, Connected, CameraOnOwnEntity, ClientsSeeAll,
                StaleViewsAreDirty, Arriving
  <2>4. QED
    BY <2>2, <2>3 DEF IInv
<1>5. QED
  BY <1>1, <1>2, <1>3, <1>4 DEF Next

\* The inductive invariant holds in every state of the server and its clients.
THEOREM Invariance == Spec => []IInv
BY InitIInv, NextIInv, PTL DEF Spec

\* Every message, command, slot and store has the type the code gives it: no chunk is sent
\* before it is there, and no ID is negative (server.cpp:139, entity.cpp:211).
THEOREM TypeCorrect == Spec => []TypeOK
<1>1. IInv => TypeOK
  BY DEF IInv
<1>2. QED
  BY <1>1, Invariance, PTL

\* For any number of clients, slots and peers stay the two directions of one bijection,
\* and a peer that connects finds a free slot, since there are as many slots as peers
\* (server.cpp:199-214, 254-259).
THEOREM SlotsAgree == Spec => []SlotsMatchPeers
<1>1. IInv => SlotsMatchPeers
  BY SlotsFromInverse DEF IInv
<1>2. QED
  BY <1>1, Invariance, PTL

\* Every connected player keeps an entity of his own, whatever explodes and however IDs
\* are reused (server.cpp:223, entity.cpp:294-306).
THEOREM PlayersKeepEntities == Spec => []PlayersOwnEntities
<1>1. IInv => PlayersOwnEntities
  BY DEF IInv
<1>2. QED
  BY <1>1, Invariance, PTL

\* The camera of every client is on its player's entity, or will be when the messages in
\* flight arrive (server.cpp:185, main.cpp:792).
THEOREM CameraFollowsPlayer == Spec => []CameraOnOwnEntity
<1>1. IInv => CameraOnOwnEntity
  BY DEF IInv
<1>2. QED
  BY <1>1, Invariance, PTL

\* One dirty flag per chunk is enough for all clients: what a client will not see as it is,
\* is marked dirty, so the next tick sends it (server.cpp:57-75, 122-160).
THEOREM NoEditIsLost == Spec => []StaleViewsAreDirty
<1>1. IInv => StaleViewsAreDirty
  BY DEF IInv
<1>2. QED
  BY <1>1, Invariance, PTL

=============================================================================
