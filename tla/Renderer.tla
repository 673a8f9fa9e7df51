------------------------------ MODULE Renderer ------------------------------
(***************************************************************************)
(* The client's picture of its world: narf::Renderer and ChunkVBO           *)
(* (narf/client/renderer.cpp), the ChunkCache that keeps one mesh per chunk *)
(* and gl::Buffer, over the coordinates and the chunk storage of            *)
(* narf::World.                                                             *)
(*                                                                          *)
(* Chunks are generated when first fetched, also while another chunk's mesh *)
(* is being built; each block that is put reports an update, which marks    *)
(* meshes dirty.  A block is opaque or it is air.  Of a mesh, only which    *)
(* faces it has is kept, and of OpenGL, only which buffer names are in use  *)
(* and what was last uploaded to each.                                      *)
(***************************************************************************)
EXTENDS Integers, FiniteSets, Sequences, SequencesExt, FiniteSetsExt

CONSTANTS
  WorldChunks,  \* <<chunksX, chunksY, chunksZ>>
  ChunkSize,    \* <<chunkSizeX, chunkSizeY, chunkSizeZ>>
  Terrain,      \* the blocks generate() puts
  Cameras,      \* the chunk columns <<x, y>> the camera may be over
  Distances,    \* the values of renderDistance_
  MaxChanges    \* bound on edits, chunks received, moves and reconnections

VARIABLES
  world,              \* the chunks allocated, and the opaque blocks in them
  cache,              \* vboCache_: the mesh of each chunk that has one
  buffer,             \* OpenGL's buffer names in use, and the contents of each
  entityVbo,          \* the name of entityVbo_
  distance,           \* renderDistance_
  chunkRebuildCount,  \* chunkRebuildCount_
  camera,             \* the chunk column the camera is over
  inFrame, toDraw,    \* whether render() runs, and the chunks it has yet to draw
  changes             \* what MaxChanges still allows

frame == <<inFrame, toDraw>>
vars == <<world, cache, buffer, entityVbo, distance, chunkRebuildCount, camera, frame, changes>>

-----------------------------------------------------------------------------
(***************************************************************************)
(* Coordinates.                                                             *)
(***************************************************************************)
Axis == 1 .. 3
Box(size) == (0 .. size[1] - 1) \X (0 .. size[2] - 1) \X (0 .. size[3] - 1)
Chunks == Box(WorldChunks)
WorldSize == [i \in Axis |-> WorldChunks[i] * ChunkSize[i]]

ValidCoords(b) == \A i \in Axis : b[i] \in 0 .. WorldSize[i] - 1

ChunkOf(b) == [i \in Axis |-> b[i] \div ChunkSize[i]]
InChunk(b) == [i \in Axis |-> b[i] % ChunkSize[i]]
Corner(c)  == [i \in Axis |-> c[i] * ChunkSize[i]]

\* The coordinates a ZYXCoordIter visits: x moves fastest, z slowest.
ZYXCoordIter(lo, n) ==
  [k \in 1 .. n[1] * n[2] * n[3] |->
     <<lo[1] + ((k - 1) % n[1]),
       lo[2] + (((k - 1) \div n[1]) % n[2]),
       lo[3] + ((k - 1) \div (n[1] * n[2]))>>]

BlocksOf(c) == ZYXCoordIter(Corner(c), ChunkSize)

Face == {<<1, 0, 0>>, <<-1, 0, 0>>, <<0, 1, 0>>, <<0, -1, 0>>, <<0, 0, 1>>, <<0, 0, -1>>}
Beyond(p, f) == [i \in Axis |-> p[i] + f[i]]

\* The quads an entity's cube draws, as one face that no block has.
EntityCube == <<<<0, 0, 0>>, <<0, 0, 0>>>>

\* What the constants are: sizes, blocks within the world, columns of chunks.
ASSUME RendererAssumption ==
  /\ WorldChunks \in [Axis -> Nat] /\ ChunkSize \in [Axis -> Nat \ {0}]
  /\ Terrain \subseteq Box(WorldSize)
  /\ Cameras \subseteq Int \X Int /\ Distances \subseteq Int
  /\ MaxChanges \in Nat

-----------------------------------------------------------------------------
(***************************************************************************)
(* Buffer objects.                                                          *)
(***************************************************************************)
\* glGenBuffers(): a name not in use.
FreeName(names) == Min((1 .. Cardinality(names) + 1) \ names)

Upload(bufs, name, contents) ==
  [n \in DOMAIN bufs \cup {name} |-> IF n = name THEN contents ELSE bufs[n]]

DeleteBuffers(bufs, names) == [n \in DOMAIN bufs \ names |-> bufs[n]]

-----------------------------------------------------------------------------
(***************************************************************************)
(* The world and the meshes, as operators on [made, opaque, cache, buffer,  *)
(* built].                                                                  *)
(***************************************************************************)
MarkDirty(meshes, S) ==
  [c \in DOMAIN meshes |-> [meshes[c] EXCEPT !.dirty = @ \/ c \in S]]

\* Renderer::chunkUpdate(): the chunk and the six around it.
ChunkUpdate(c) == {c} \cup {Beyond(c, f) : f \in Face}

\* Mutant of BlockUpdate: only the block's own chunk.
BlockUpdateOwn(b) == {ChunkOf(b)}

\* Renderer::blockUpdate(): the block's chunk, and across each face of the chunk the
\* block lies on, the chunk on the other side.
BlockUpdate(b) ==
  {ChunkOf(b)} \cup
  {Beyond(ChunkOf(b), f) : f \in {f \in Face :
     \E i \in Axis : \/ f[i] = -1 /\ InChunk(b)[i] = 0
                     \/ f[i] = 1  /\ InChunk(b)[i] = ChunkSize[i] - 1}}

\* World::getChunk() of each chunk of S: the first fetch generates the chunk.
GetChunks(st, S) ==
  LET new == {b \in Terrain : ChunkOf(b) \in S \ st.made} IN
  [st EXCEPT !.made = @ \cup S, !.opaque = @ \cup new,
             !.cache = MarkDirty(@, UNION {BlockUpdate(b) : b \in new})]

OpaqueIn(st, c) == st.opaque \cap Range(BlocksOf(c))

\* The chunks that World::isOpaque() fetches when it is asked what lies around each
\* opaque block of c.
Around(st, c) ==
  {ChunkOf(b) : b \in {n \in {Beyond(b, f) : b \in OpaqueIn(st, c), f \in Face} : ValidCoords(n)}}

\* The faces of the opaque blocks of c that no opaque block hides.
Faces(st, c) ==
  {bf \in OpaqueIn(st, c) \X Face : Beyond(bf[1], bf[2]) \notin st.opaque}

\* ChunkVBO::buildVBO(): fetches the chunk, and each neighbour before looking into it.
BuildVBO(st, c) ==
  LET own  == GetChunks(st, {c})
      seen == GetChunks(own, Around(own, c))
  IN [seen EXCEPT !.cache[c].faces = Faces(seen, c),
                  !.buffer = Upload(@, seen.cache[c].name, Faces(seen, c))]

\* ChunkVBO::render(): whatever the building marked is erased with the flag.
RenderMesh(st, c) ==
  IF st.cache[c].dirty THEN [BuildVBO(st, c) EXCEPT !.cache[c].dirty = FALSE] ELSE st

\* vboCache_.put(cc, ChunkVBO(gl, cc)): the cache gets a copy of a temporary, whose
\* destructor then deletes the buffer that both of them name.
PutMesh(st, c) ==
  LET mesh == [name |-> FreeName(DOMAIN st.buffer), dirty |-> TRUE, faces |-> {}] IN
  [st EXCEPT !.cache = [d \in DOMAIN @ \cup {c} |-> IF d = c THEN mesh ELSE @[d]]]

ChunkRebuildLimit == 1

RenderChunk(st, c) ==
  IF c \in DOMAIN st.cache THEN RenderMesh(st, c)
  ELSE IF st.built > ChunkRebuildLimit THEN st
  ELSE RenderMesh(PutMesh([st EXCEPT !.built = @ + 1], c), c)

-----------------------------------------------------------------------------
Clamp(x, lo, hi) == Max({lo, Min({x, hi})})

\* The chunks that render() draws along an axis: up to the distance on one side of
\* the camera's, and one fewer on the other.
DrawLow(i)  == Clamp(camera[i] - distance, 0, WorldChunks[i])
DrawHigh(i) == Clamp(camera[i] + distance, 0, WorldChunks[i])

Visible == {c \in Chunks : \A i \in 1 .. 2 : DrawLow(i) <= c[i] /\ c[i] < DrawHigh(i)}

\* In the order render() visits them: z fastest, y slowest.
DrawOrder ==
  LET nx == DrawHigh(1) - DrawLow(1)
      nz == WorldChunks[3]
  IN [k \in 1 .. Cardinality(Visible) |->
        <<DrawLow(1) + (((k - 1) \div nz) % nx),
          DrawLow(2) + ((k - 1) \div (nx * nz)),
          (k - 1) % nz>>]

\* The state the operators above work on, with n meshes added so far.
Current(n) == [made |-> world.made, opaque |-> world.opaque, cache |-> cache,
               buffer |-> buffer, built |-> n]

WorldAndCache(st) ==
  /\ world' = [made |-> st.made, opaque |-> st.opaque]
  /\ cache' = st.cache

NewWorld == [made |-> {}, opaque |-> {}]

Init ==
  /\ world = NewWorld /\ cache = <<>>
  /\ entityVbo = 1 /\ buffer = Upload(<<>>, 1, {})
  /\ distance \in Distances /\ chunkRebuildCount = 0
  /\ camera \in Cameras
  /\ inFrame = FALSE /\ toDraw = <<>>
  /\ changes = MaxChanges

Idle    == ~inFrame
Change  == Idle /\ changes > 0 /\ changes' = changes - 1 /\ UNCHANGED frame

\* The config event of video.renderDistance.
SetRenderDistance(d) ==
  /\ Change /\ distance' = d
  /\ UNCHANGED <<world, cache, buffer, entityVbo, chunkRebuildCount, camera>>

MoveCamera(to) ==
  /\ Change /\ camera' = to
  /\ UNCHANGED <<world, cache, buffer, entityVbo, distance, chunkRebuildCount>>

\* Physics, ray tracing or a command looks at the chunk.
FetchChunk(c) ==
  /\ Change
  /\ WorldAndCache(GetChunks(Current(0), {c}))
  /\ UNCHANGED <<buffer, entityVbo, distance, chunkRebuildCount, camera>>

\* World::putBlock() of an opaque block or of air.
PutBlock(b, opaque) ==
  /\ Change
  /\ LET st == GetChunks(Current(0), {ChunkOf(b)}) IN
     WorldAndCache([st EXCEPT !.opaque = IF opaque THEN @ \cup {b} ELSE @ \ {b},
                              !.cache = MarkDirty(@, BlockUpdate(b))])
  /\ UNCHANGED <<buffer, entityVbo, distance, chunkRebuildCount, camera>>

\* Chunk::deserialize() of a chunk the server sent.
ReceiveChunk(c, blocks) ==
  /\ Change /\ blocks \subseteq Range(BlocksOf(c))
  /\ LET st == GetChunks(Current(0), {c}) IN
     WorldAndCache([st EXCEPT !.opaque = (@ \ Range(BlocksOf(c))) \cup blocks,
                              !.cache = MarkDirty(@, ChunkUpdate(c))])
  /\ UNCHANGED <<buffer, entityVbo, distance, chunkRebuildCount, camera>>

\* Mutant of FirstRebuild: the count of the frame before is kept.
KeptRebuildCount == chunkRebuildCount

FirstRebuild == 0

\* Renderer::render() runs to its end before anything else does: it starts on the chunks
\* in range,
BeginFrame ==
  /\ Idle
  /\ inFrame' = TRUE /\ toDraw' = DrawOrder
  /\ chunkRebuildCount' = FirstRebuild
  /\ UNCHANGED <<world, cache, buffer, entityVbo, distance, camera, changes>>

\* draws them one by one,
DrawChunk ==
  /\ inFrame /\ toDraw # <<>>
  /\ \E st \in {RenderChunk(Current(chunkRebuildCount), Head(toDraw))} :
       /\ WorldAndCache(st)
       /\ buffer' = st.buffer /\ chunkRebuildCount' = st.built
  /\ toDraw' = Tail(toDraw)
  /\ UNCHANGED <<entityVbo, distance, camera, changes, inFrame>>

\* and ends with the entities.
DrawEntities ==
  /\ inFrame /\ toDraw = <<>>
  /\ inFrame' = FALSE
  /\ buffer' = Upload(buffer, entityVbo, {EntityCube})
  /\ UNCHANGED <<world, cache, entityVbo, distance, chunkRebuildCount, camera, changes, toDraw>>

Frame == BeginFrame \/ DrawChunk \/ DrawEntities

\* A new world, then a new renderer: the old one's buffers go, and the new one's
\* renderDistance_ is not initialised.
ProcessConnect ==
  /\ Change
  /\ world' = NewWorld
  /\ LET left == DeleteBuffers(buffer, {entityVbo} \cup {cache[c].name : c \in DOMAIN cache}) IN
     /\ entityVbo' = FreeName(DOMAIN left)
     /\ buffer' = Upload(left, entityVbo', {})
  /\ cache' = <<>>
  /\ distance' \in Distances
  /\ UNCHANGED <<chunkRebuildCount, camera>>

Next ==
  \/ \E d \in Distances : SetRenderDistance(d)
  \/ \E to \in Cameras : MoveCamera(to)
  \/ \E c \in Chunks : FetchChunk(c) \/ ReceiveChunk(c, {}) \/ ReceiveChunk(c, Range(BlocksOf(c)))
  \/ \E c \in Chunks : \E b \in Range(BlocksOf(c)), opaque \in BOOLEAN : PutBlock(b, opaque)
  \/ BeginFrame \/ DrawChunk \/ DrawEntities
  \/ ProcessConnect

Spec == Init /\ [][Next]_vars
FairSpec == Spec /\ WF_vars(Frame)

-----------------------------------------------------------------------------
(***************************************************************************)
(* Properties.                                                              *)
(***************************************************************************)
\* The opaque blocks of the world, a chunk not fetched yet counting as what
\* generate() will make of it.
Landscape == world.opaque \cup {b \in Terrain : ChunkOf(b) \notin world.made}

ShownFaces(c) ==
  {bf \in (Landscape \cap Range(BlocksOf(c))) \X Face : Beyond(bf[1], bf[2]) \notin Landscape}

\* What OpenGL holds for each mesh not marked dirty are exactly the faces its chunk
\* shows: no update is lost, though building a mesh generates chunks, generation marks
\* meshes, and the flag is cleared after the building; and no two meshes come to
\* share a buffer name through the copy that put() makes.
MeshesFresh ==
  \A c \in DOMAIN cache : ~cache[c].dirty =>
    /\ cache[c].name \in DOMAIN buffer
    /\ buffer[cache[c].name] = ShownFaces(c)

\* Two meshes are added per frame, so all that is in range is drawn at last, and stays
\* drawn as it is, once edits, chunks and moves cease.
VisibleMeshed ==
  <>[](\A c \in Visible : c \in DOMAIN cache /\ ~cache[c].dirty)
=============================================================================
