# narfblock in TLA+

Narfblock is a block-world game: a client (`src/src/narf/client`), a dedicated
server (`src/src/narf/server`, `src/src/narf/net`) and what they share (`src/src/narf`,
and the library `src/src/lib`). These modules model the parts of it that keep
state across steps, and check and prove what must hold of them. They are
translated from the code; where code and comment disagree, the modules follow
the code and a run shows the disagreement.

## The system

Both programs are one thread each, driven by `GameLoop::run` (`gameloop.cpp`):
input, then ticks of a fixed step, then a draw. They talk through ENet, over
reliable channels that are each in order and not ordered with one another
(`net/protocol.h`).

| Component | State | Operations | Hard behaviours | What makes it correct |
|---|---|---|---|---|
| Entity manager (`entity.cpp`) | vector of entities, allocator (top and pool of free IDs) | `newEntity`, `newEntity(id)`, `deleteEntity`, `update` | ID reuse; deletion after an iteration; listeners called in between | IDs are unique, none is lost, every deletion is reported |
| Server (`net/server.cpp`) | client slots, peers' data pointers, dirty flags per chunk, queue of deleted entities | ENet events, `tick` | clients that come and go between and in the middle of ticks; flags and queues shared by all clients | slots and peers match, no edit and no entity is lost on the way to a client |
| World and chunks (`world.cpp`, `chunk.cpp`) | chunks, allocated and generated when first fetched | `getBlock`, `putBlock`, serialisation | generation during reads reports updates | a replica shows the server's blocks |
| Client replica (`client/main.cpp`) | a world fed by messages, the ID the camera follows | `processChunk`, `processEntity`, `processPlayerCmd` | entity, camera and chunk messages in any mutual order | it converges to the server's world |
| Client session (`client/main.cpp`) | connection state, ENet peer, command queue, pointers into the world | `pollNet`, `sim_frame`, console commands | timeouts against late answers, cancelled attempts, the world replaced under the pointers | state agrees with ENet, pointers with the world, commands run where they were given |
| Game loop (`gameloop.cpp`) | accumulated time, step, quit | `run`, `setTickRate` | late frames, frames shorter than a tick, a rate changed by a tick | time is conserved, catching up is bounded, quit is honoured |
| Input (`input.cpp`) | held keys, one-shot flags, text mode | `processEvent`, `reset` | mode changes between press and release, pauses | held keys move the player, each click reaches one frame, nothing from a pause does |
| Text editor, console | text, cursor, scroll position | edits, scrolling | bytes against characters, unsigned scrolling | edits look like edits of characters, a full page is shown |
| Renderer (`client/renderer.cpp`, `chunkcache.h`) | cache of chunk meshes, dirty marks, count per frame, OpenGL buffers | `render`, `chunkUpdate`, `blockUpdate`, `setRenderDistance` | generation while a mesh is built, edits at the edge of a chunk, limit per frame | no stale mesh stays, all in range are built |
| Signals (`signal.h`) | ring of reference-counted handlers | `+=`, `-=`, `emit` | handlers that connect, remove and emit during emission | each handler is called once, nothing leaks or is freed early |
| INI configuration (`ini.cpp`) | values by key, lines with their text | `load`, `save`, `set…`, `init…`, `remove` | escapes, quotes, sections, lines without values or newlines | what is saved is what is loaded |
| Byte streams (`bytestream.cpp`) | bytes, position, the overran flag | typed reads and writes, `seek`, `skip` | reads past the end, a flag that stays | what was written is read |
| Text encodings (`utf.cpp`) | iterators over bytes | `toUTF16`, `toUTF8`, sizes | cut characters, surrogates | texts survive conversion |
| Fonts (`font.cpp`, `texture-font.cpp`, `gl/textureatlas.cpp`) | atlas, glyphs, text buffers | `getGlyph`, `print`, `width` | glyphs loaded while measuring, a full atlas | glyphs do not touch, the cursor is where the text is |
| Server console, commands, geometry, paths, files, images, addresses | | | | not modelled, see below |

How they interact: the loop calls `getInput`, `tick` and `draw`. The server's
tick dispatches ENet events to handlers that change slots, world and entities;
the world's callbacks set dirty flags, and the entity manager's signal
`onEntityDeleted` fills the queue of deletions; the end of the tick turns flags,
entities and queue into messages. The client's `pollNet` applies messages to its
world, whose callbacks mark meshes of the renderer; `sim_frame` puts player
commands in a queue that is executed locally or sent, depending on the
connection.

## Modules

| Module | Models | EXTENDS |
|---|---|---|
| `EntityStore` | the data structure of `EntityManager` and `EntityIDAllocator`, as operators on a record | |
| `EntityManager` | the manager as the server drives it, one action per iteration of the deletion loop | `EntityStore` |
| `Server` | `net::Server` with its world, composed with one replica per client and the channels between | `EntityStore` |
| `ClientSession` | the client's connection, command queue and world pointers | |
| `GameLoop` | the loop of both programs | |
| `TextEditor` | the text editor's string and cursor, in bytes, as operators on a record | |
| `FrontEnd` | the client's input in both modes, with its editor, the console's scrolling and the pause | `TextEditor`, `LineEdit` |
| `LineEdit` | abstract: an entry line of characters before and after the cursor | |
| `Renderer` | the client's chunk meshes over a world generated on demand | |
| `Signals` | the signal class, with what handlers may do during their calls | |
| `IniFile` | the configuration file as text, values and lines | |
| `ByteStream` | the byte stream of all messages | |
| `Utf8` | the text encodings, as operators | |
| `Conversion` | the loops that convert and read texts | `Utf8` |
| `Font` | the glyph atlas, the loading of glyphs, printing and measuring a line | `Utf8` |
| `MCLibrary` | the sum of the six parts above that have state, and their instance | `Renderer`, `Signals`, `ByteStream` |
| `SequenceLemmas` | lemmas on sequences, with induction, and on `FlattenSeq` | |
| `Library_proofs` | theorems about the renderer, the signals and the byte streams | `Renderer`, `Signals`, `ByteStream` |
| other `*_proofs` | theorems about the module named before the underscore | that module |
| `MC*` | instances for TLC | |

**EntityStore / EntityManager.** `store.ents` is `entities_`, `store.first` and
`store.pool` are `firstFreeID_` and `freeIDPool_`. Of an entity only ID and
`explodey` are kept: `Entity::update` decides, from positions, which explodey
entities die, so `Update` lets any set of them die. `DeleteNext` is one turn of
the loop at `entity.cpp:302`. `entityRefs_` is left out; every reference in the
code lives in a block that contains no creation or deletion.

**Server.** `link` is ENet's view of each peer object; the host has as many peers
as the server has slots. `ProcessConnect`, `ProcessDisconnect` and
`ProcessPlayerCommand` are the handlers, `Tick` is everything of
`Server::tick` after the event loop, including `markChunksClean`. Since each
handler is an action of its own, ticks with any number of events, in any order
between clients, are among the behaviours. A chunk stands for one of its blocks;
that is all the dirty flag and the messages tell apart. `Terrain` is what
`generate` puts there: air (no update reported), dirt, or indestructible
adminium. `TickQuiet` also lets entities look at chunks nobody has fetched, which
allocates them. `TickExplosions` lets any explodey entities go off, each tick putting air
in at least one chunk; `UpdateEntities` is the loop at `entity.cpp:302`, in the order of the
vector, with the listener `onEntityDeleted`. ENet's part (`Connect`, `Leave`, channels) is modelled from how
the code uses it: a peer's CONNECT event comes before its others, a connection
that ends before its CONNECT event was dispatched ends without one, and what is
in flight is lost with the connection. Chat changes nothing but text and is
left out.

**ClientSession.** `phase` is where the loop is; the ticks of a frame are any
number of `SimFrame`s, none of them when `paused`. Worlds are numbered, so
`renderer`, `selected` (the pointer in `selectedBlockFace`) and each command
remember which world they belong to. `peer` is ENet's one peer object of the
client's host. A `SimFrame` runs the console command, the trace, up to two new
commands and the queue, as `sim_frame` does, in that order.

**GameLoop.** `tAccum` and `tickStep` are the code's; `owed` and `granted` are
history variables that say what time went by and what time ticks were given. `maxFrameTime` is
what a frame is clipped to, which a tick may set (`setMaxFrameTime`), and `longest` what this frame
was. Both it and the step are positive, which the code does not check.

**FrontEnd.** `in` holds the members of `Input`; of each pair of counters `last`
says which side was pressed last. Every SDL event is an action, of which
`getInput` takes any number; `InputHandled` is the rest of it, `Tick` what is done
to the input when not paused. `down` is the user's hand. A character is the
number of its bytes; `Before` and `After` give `LineEdit` what it sees. Lines
of the console are counted. The keys one can choose for a run
all have the code's meaning in `NormalKeyDown`, `NormalKeyUp` and `TextKeyPressed`. The height of
the console is at least one line (the code subtracts unsigned, and a font of more than 116
pixels would not fit). Camera motion, the modes of the mouse and what is drawn are left out.

**Renderer.** `world` holds the chunks allocated and the opaque blocks, by
world coordinates, so that chunk edges, corners and the world's ends are those of
`calcChunkCoords` and `blockUpdate`. `GetChunks` is `World::getChunk` of several
chunks: generation reports its blocks, which marks meshes, also while a mesh is
built. One action is one chunk of the loop in `render` (`DrawChunk`), but
nothing else happens until the frame is over. `buffer` is OpenGL's: a name a mesh
carries is deleted by the temporary it was copied from (`chunkcache.h:65`) and used again by
the upload that follows at once. `ProcessConnect` makes a new
renderer, whose `renderDistance_` is not initialised.

**Signals.** `link` is the heap: a link's address is the handler's ID and may
be allocated again. `emissions` is the stack of `emit` calls; a handler that is
being called may do any of the actions, `Return` (its collector goes on) or `Stop` (it does
not). `freedRead` records that `emit` followed a pointer into a freed link, where
the behaviour ends, because what happens then is undefined.

**IniFile.** Characters are members of a small set, of which the
ones with a meaning to the parser are kept: a blank, a line end, a control character,
`;`, `"`, `\`, `[`, `]`, `=`, `.`. A line is what stands before the value, its text
and what stands behind. `Parse` and `ParseEntry` give what `Line::parse` makes of every line, also of
one that does not parse, of a quote that is not closed, of a comment where the value should be, and of a
file that ends right after a `=`. In the last two `valueStartPos` or `valueLength` is beyond
the line (`stray`), and when the value has changed `setValue` throws: `SaveConfigThrows` leaves
`client.ini` empty, as `cmdSaveConfig` has opened it for writing by then and nothing catches. `SaveConfig`
is the `save` that ends, with the write of the file, `Restart` a start of the
program from the file, so unsaved changes are lost there. The order in
which `unordered_map` gives new keys is one fixed order. Keys are set and removed among `Keys`; none of them
is on a line that does not parse, where `setValue` would use members nothing initialised.

**ByteStream.** `fields` remembers where what was written, in which form;
`last` relates a read to the field that begins there. Bytes have a small base. The
type of a number is its size; the endianness is explicit or the default. Reads of bytes and strings when a `seek` has put
the position beyond the data are left out: the code's differences of unsigned sizes wrap there.
The constructor leaves `overran_` uninitialised, so both values are initial ones.

**Conversion** writes a text of whole and cut characters, then reads it
through `UTF8Iterator` to UTF-16 and back. When no character of a single byte comes behind a cut one, also
when the last character is whole, the iterator steps over the terminating NUL (`at` is then one
beyond the text); what it reads from there is undefined, and the behaviour stops.

**Font.** `font.nodes` is the skyline of the atlas, `font.data` its pixels, each the
character whose bitmap was copied there last. `pens` remembers where `print` drew each character, its
kerning added, and the position it went on to; `DrawCursor` asks `width` for the place of the cursor
by a count of bytes. A line is
printed character by character; measuring may load glyphs.

**MCLibrary.** These six parts share no state and call one another only through plain
results, so a behaviour of this module is a behaviour of one of them, chosen at the
start, and one run checks them all.

## What the runs show

| Run | Bounds | Question | Result |
|---|---|---|---|
| `EntityManager` | 4 alive, 3 unread reports | do IDs stay unique and complete, and are deletions reported | holds |
| `ServerChunks` | 2 peers, an air and a bedrock chunk, 2 connections, 2 edits, backlog 2 | do slots match peers, is every stale view dirty | holds |
| `ServerPair` | 2 peers, a ground chunk, 2 connections, 2 projectiles | do players keep their entities, and is each client's camera on its own; do views converge to the server's; does the client of the first slot end with exactly its entities | holds |
| `ServerGhosts` | 2 peers, 1 projectile | are deletions sent to all clients (`server.cpp:328`) | violated |
| `ServerReplicaPut` | 1 peer, 1 projectile | does `put`'s assertion hold at a client (`entity.cpp:225`) | violated |
| `ClientSession` | 2 attempts, 3 commands | does the session agree with ENet, the world and the queue; do attempts and disconnections end | holds |
| `ClientStale` | 2 attempts, 2 commands | are commands given while Connecting discarded (`main.cpp:585`) | violated |
| `GameLoop` | step 17, longest frames 25 and 40, clock up to 60 | blend, conservation, catch-up, quit at a constant rate, the longest frame changed by ticks | holds |
| `GameLoopRate` | steps 17 and 33 | the blend when a tick changes the rate (`gameloop.cpp:144`) | violated |
| `FrontEnd` | 13 keys, a button, 3 modifier states, characters of 1 and 3 bytes, texts of 2, 5 events | do held keys, clicks, text and scrolling come out right around text mode, NumLock and pauses; does editing bytes implement `LineEdit` | holds |
| `FrontEndAssert` | 3 keys, 6 events | the assertion on the movement counters (`input.cpp:180`) | violated |
| `Library`: renderer | 4 chunks of 2 blocks, 2 cameras, distances 0 and 1, 2 changes | do meshes follow the world, and is all in range built | holds |
| `Library`: signals | 3 addresses, 4 connections, 2 emissions | is every handler that stays called once, is no link lost or freed early | holds, but for one order of removals |
| `Library`: configuration | 9 files, 4 keys, 5 values, 4 changes | does a saved configuration reload | holds under 4 conditions |
| `Library`: streams | sizes 1 and 2, base 3, 5 bytes, 4 calls | does what was written read back | holds |
| `Library`: text | 7 code points at the borders, 3 cut characters, 3 in a text | do texts survive reading and conversion, what does a cut character cost | holds as stated below |
| `Library`: fonts | atlas 8 by 8, 6 characters, lines of 3 | do glyphs keep apart, is the cursor where the text before it ends | holds below U+1000 and above U+FFFF |

**Bounds.** Four entities make pools of up to three IDs under a moving top, in every
order. Two peers are what one flag, one slot table and one queue can be
shared by; two connections suffice for one peer to leave and come back while
its old messages are gone, or for two peers at once. A backlog of two lets a
tick add to messages that are still in flight. In `ServerPair` a tick's
messages arrive before the next one adds to them, which bounds the state: what
matters there is the end. Two attempts let a
second connection meet what the first left behind; three commands let the queue
hold some from an attempt and two new ones. The steps of the loop are not multiples of each
other or of the clips, so that remainders occur. Five events are enough for a line entered
within a pause, or for a paste and three edits of it; the state of the input otherwise
depends on the last few events only. In `Library`, chunks of two blocks
have an edge on each side along one axis and both on the others, four of them make
every kind of neighbour and world end, and four chunks in range exceed the two meshes a frame may add; four connections on three
addresses reuse a freed one, and two emissions nest; the files have values plain, quoted, escaped,
empty and missing, a quote that is not closed, comments in place of a value and behind one, a last line without
its newline, after a `=` and of blanks, and sections of no name, of one twice, with a dot and ending one
another (lines that do not parse are only met as what the code makes of some of these); four changes are set,
save, change and save or restart; five bytes hold a
string or two numbers with a gap; the code points are those where the
number of bytes or units changes; the atlas is too small for all of the glyphs in
most orders. `Word`, `MaxTyped` and `MaxLines` are small
versions of 2^32 and of memory. `MaxConnects`, `MaxEdits`,
`MaxShots`, `MaxAttempts`, `MaxCommands`, `MaxEvents`, `MaxChanges`, `MaxCalls`, `MaxEmits`,
`MaxPieces` and `MaxLine` are counters for the sake of TLC; the code
has no such limits. `CHECK_DEADLOCK FALSE` stands where the program ends
(`ClientSession`, `GameLoop`, `FrontEnd`), and where a bound ends it (`Library`); the server never stops.

**Symmetry** of the peers is used in runs without liveness properties only.

**Fairness.** The server's loop ticks and dispatches for ever, and ENet delivers
what it accepted on a connection that stays open; nothing is assumed of clients
(they may never come, act or leave) or of projectiles (they may fly for ever).
The client's loop goes from poll to tick to draw for ever until told to stop, its clock goes
on, and ENet ends a disconnection that was asked for, by an answer or by its
timeout, at one of the polls (strong fairness, as the event can only be
dispatched while polling). The game loop's own steps happen, and the clock moves
in some frames again and again; it draws again and again, which is the fairness of `Library`. Event loops (`server.cpp:322`, `main.cpp:842`)
have no cap in the code; that they end is assumed.

**What was found.** (1) `deletedEntities` is drained for the first client, so
the others keep ghosts. (2) Replicas never draw IDs, so the first deletion a
client applies fails `assert(firstFreeID_ > 0)`. (3) Commands given while
Connecting are kept, not discarded, and run after the attempt, on the server or locally. (4)
Lowering the tick rate in a tick makes the blend negative. (5) A movement key pressed in
text mode and released after it fails `assert(moveForward_ >= 0)`. Other hazards have
no property, because nothing in the repository says otherwise; so, after a
disconnection the renderer still points at the deleted world, and
`selectedBlockFace` points into it until the next tick.

`Library`'s properties hold under conditions that are part of what was
found; each is stated with its property:

* *Signals.* "Callbacks may be removed and added during a signal emission" (`signal.h`) has an
  exception: when the handler an emission stands on is removed, and then the one
  behind it, the emission follows its old pointer to freed memory
  (`SafeButForOrphans`). No handler in the repository removes any.
* *Configuration.* `save` does not give back what it was given when a line lacks
  its newline (a last line, or any line with an empty value) and another is put behind it, when
  section names have dots or one ends the other, or when a value is by chance the escaped
  text of the one saved before (`Line::value` then holds the text). And it throws, when `client.ini` has
  already been truncated, if the value has changed on a line with a comment where its value should be (`k = ;c`,
  `ini.cpp:251`) or at the end of a file right after the `=`: the configuration is lost.
* *Streams.* `overran_` is never initialised, and stays set until a typed read succeeds or `overran()`
  is asked, which makes
  `read(size_t)` return all that is left; `seek` compares the old position with the
  size; `readFloat` and `readDouble` read 16 bits and are not used.
* *Text.* A cut character takes the first byte of the next one along; if that has more, it is cut by this
  and does the same. So each character of several bytes behind a cut one is read as a replacement character, the
  next one of a single byte is lost, and if there is none the NUL is: the iterator reads on beyond
  the text. `UTF8CharSize(uint32_t)` says four bytes from
  U+1000 on, so the cursor is drawn too far left behind characters from U+1000 to U+FFFF.
* *Fonts.* `getKerning` and `generateKerning` ignore the character before, so the
  kerning applied is that of a pair of equal characters. Printing and measuring agree on it, but for one:
  `print` adds the kerning of a character before drawing it and `width` of the text before does not, so the
  cursor is off the character behind it by that character's kerning.

## What is proved

TLAPS checks, for all values of the constants:

* `EntityManager_proofs`: types, `IDsPartition`, `NoIDLeak`, `DeletionIsSafe` and
  the action property `VanishIffReported`. The invariant is inductive only as a
  whole: that `put` may lower the top needs that no entity or pooled ID is at
  or above it, that IDs are distinct needs that pool and entities are disjoint,
  and that a report matches what vanishes needs that everything still to be deleted is alive.
  `EntityStore_proofs` holds what each operation of the store does (`GetSound`,
  `NewEntitySound`, `DeleteEntitySound` and so on) once, for the manager and for the server.
* `Server_proofs`: `SlotsMatchPeers`, `PlayersOwnEntities`, `CameraOnOwnEntity` and
  `StaleViewsAreDirty`, for any finite set of peers and of chunks, any backlog, and any number of
  connections, edits and shots. The strengthening: `SlotsInverse` (slots and peers' data
  pointers are inverse to each other, so a free slot is there whenever a CONNECT is dispatched,
  `server.cpp:199`, and a handler reads the slot of its own peer); `Partitioned`, which makes
  an ID that `newEntity` returns new to all players; and `ClientsSeeAll` (for every
  connected client each chunk is allocated on the server, so an edit of it is always reported).
  What a client is about to see is the last message in flight about a
  chunk, or its block if there is none (`Shows`): the lemmas `ShowsSkip`, `ShowsSent` and
  `ShowsApplied` say how sending and applying messages move it. Explosions are a loop over
  the entities; the lemma on it is by induction over the loop.
* `FrontEnd_proofs`: `LineIsWellFormed`, `MovesAsPressed`, `ClicksSeenOnce`,
  `NothingFromPause`, `ScrollbackShowsPage`, and the refinement `EditsLine`, for any sets of
  keys, buttons, modifiers, character sizes and font heights, any `Word`, and texts and behaviours of any
  length. In the inductive invariant, `EditorOK` says that the editor's bytes are the
  encoding of two sequences of characters that meet at the cursor. From it each operation on
  bytes is shown to be the operation of `LineEdit` on characters: a step to the right goes over the
  encoding of the next character, and one to the left finds the lead byte of the one
  before, as none of the bytes between is one. `MovesOK` makes
  movement inductive by counting: each counter is the number of held keys of its direction.
  `ClicksOK` adds to the requests which buttons are down, and `PauseOK` that what was given
  in a pause is there only while paused.
* `ClientSession_proofs`: `PeerMatchesState`, `PlayerIsInWorld`,
  `RendererShowsWorld`, `RanWhereIssued`, `QueueIsFIFO`. The strengthening is
  `AttemptIsClean` (during an attempt ENet has not connected and no server has
  named a player) and `QueueHoldsConnecting` (between frames the queue holds
  only commands of an attempt). The constants only bound attempts and commands,
  so the theorems are about sessions of any length.
* `GameLoop_proofs`: types always; `BlendInterpolates`, `TimeConserved` and
  `CatchUpBounded` under `RateFixed` (the set of tick rates has one member), for every
  step and clock, and any longest frames, which ticks may change. The assumption is needed: `GameLoopRate` shows why.
* `Library_proofs`, renderer: `MeshesFresh`, for worlds and chunks of any size, any terrain, cameras and
  distances, and any number of edits, chunks received and reconnections. The argument is about
  one landscape, in which a chunk not fetched yet counts as what `generate()` will make of it:
  fetching leaves it as it is (`GetChunksSound`), though it marks meshes; `buildVBO` fetches every
  chunk before looking into it, so it uploads the faces of the landscape (`FacesBuilt`);
  and an edit changes the faces only of chunks that `blockUpdate` marks (`UpdateReaches`, from
  what a step of one block does to quotient and remainder). Also `BuffersStayOwned`, which that
  needs: no two meshes name one buffer, and a new renderer starts where none is left. And
  `ZYXCoordIterVisitsChunk`: the iterator and the division of coordinates agree on what a chunk is.
* `Library_proofs`, signals: `SafeButForOrphans`, `CalledOnce` and `RingSettles`, for any addresses,
  any number of handlers, and emissions nested as deep as one likes. `SignalInv` says that there is a
  set `Q` of links and a ranking of it such that `next` and `prev` are inverse to each other on `Q`
  and `next` goes up the ranks (`Ringed`, `Ranked`; that `Q` is what `next` reaches is
  `RingReached`); that the references of a link are those of the ring and one for each emission that
  stands on it (`Counted`); and, unless links were orphaned, that a removed link still points into
  `Q` and that each emission has called exactly the handlers it has passed (`Progress`), where
  an emission on a removed link has passed what is before the link it points to. Adding at the end
  extends the ranking (`AddRing`), removing restricts it (`UnlinkRing`), and an emission that goes
  on passes one link only, as no rank is between neighbours (`AdvanceInv`).
* `Library_proofs`, byte streams: `FieldsReadBack`, for any base, types, numbers, strings and calls, in either
  byte order. `StreamInv` says that every field still whole stands in the data in its encoding
  (`FieldOK`, `Stands`, `Encodes`); a write leaves what stands beside it (`StoredStands`). That a
  number is the sum of its digits is `NumberOfLittle`, by induction, one more
  digit at a time (`DigitAdded`).

The constants are assumed to be what `ServerAssumption`, `FrontEndAssumption`, `RendererAssumption`, `SignalsAssumption`, `StreamAssumption` and the like
say, which TLC evaluates in the runs: that sets are finite, bounds are natural numbers, a key is not a
mouse button, the mouse buttons are among the three the code knows, characters have one to four bytes,
a console shows a line at least and, of lines, fewer than `Word`, chunks have a block at least, what `generate()` makes is within the world, no link has the address that stands for the head's,
a byte has two values at least, a type has a byte at least, and the numbers written are not negative.

Recursion and induction. The library's induction theorems are out of the provers' reach, so
`SequenceLemmas` derives what is needed, `LeastElement`, `SetInduction` and
`SeqInduction`, for sets instead of predicates, and unfolds recursive functions
from their definition as a CHOOSE: of `FlattenSeq` it shows `FlattenUnfold`, `FlattenAppend` and
`FlatMapConcat`. This is why the models have recursive functions where
others would write a RECURSIVE operator, and `Chars` is a `FlattenSeq`, not a
`SelectSeq`, of which the prover knows nothing, and `ByteStream` has `Power`, as it knows no `^`.

Only model-checked: `SavedFileReloads`, `TextSurvives`, `GlyphsIntact` and `CursorAtPen`, and all liveness, since
fairness and `ENABLED` are beyond the prover. The four are about what folds and selections
(`FoldLeft`, `SelectSeq`) compute over texts, lines and skylines of any length.

## Not modelled

* Geometry (`aabb`, `math/`): floating-point formulas, which TLC has no numbers for; with it,
  `Entity::update`'s physics, ray tracing and the camera.
* Chat: it relays text and changes nothing else.
* The server's and the terminal's console, the command table and the tokenizer: a loop over
  input, a lookup and a split.
* Saving and loading a world (`World::serialize`): the chunk messages the server sends, one for
  each chunk, written to a file; entities are not saved. Sizes other than the world's own, which
  `deserialize` takes over without a new chunk table, would need a model of its memory.
* Numbers in the configuration, and what `setValue` does to lines of it that do not parse.
* Drawing beyond which faces and buffers there are: textures, lights, interpolation, HUD, audio.
* Paths, files, images, embedded data, addresses, sockets: functions of strings and calls of the system.

## Plan

1. *Done*: entity manager, server with replicas, client session, game loop, and the
   front end with its editor and its abstract specification.
2. *Done*: the renderer's mesh cache with coordinates, signals, configuration, byte streams,
   text encodings and fonts.
3. *Done*: proofs about the entity manager, the session, the game loop, `Server` and `FrontEnd`, with
   the refinement of `LineEdit`.
4. Proofs about the parts of `Library`. *Done*: the renderer, the signals and the byte streams.
   `GlyphsIntact` needs an invariant of the skyline, and recursive functions for its folds.
5. An abstract specification of replication, a register per chunk that each client eventually
   reads, and `Server` shown to implement it; chat as a further channel.
