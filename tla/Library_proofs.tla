---------------------------- MODULE Library_proofs -----------------------------
(***************************************************************************)
(* Proofs about the parts of MCLibrary whose invariants hold for instances  *)
(* of any size: the renderer, whose meshes not marked dirty show what the   *)
(* world is; the signal, whose ring, reference counts and emissions fit     *)
(* together whatever its handlers do to it; and the byte stream, whose      *)
(* reads return what was written.                                           *)
(***************************************************************************)
EXTENDS Renderer, Signals, ByteStream, SequenceLemmas

-----------------------------------------------------------------------------
(* Coordinates.                                                            *)

Triple == [Axis -> Int]

\* Quotient and remainder are unique.
LEMMA Quotient ==
  ASSUME NEW n \in Nat \ {0}, NEW q \in Int, NEW r \in 0 .. n - 1
  PROVE  (n * q + r) \div n = q /\ (n * q + r) % n = r
<1> DEFINE x == n * q + r
<1>1. x \in Int /\ x = n * q + r
  OBVIOUS
<1> HIDE DEF x
<1>2. x \div n = q /\ x % n = r
  BY <1>1
<1>3. QED
  BY <1>2 DEF x

LEMMA Division ==
  ASSUME NEW n \in Nat \ {0}, NEW x \in Int
  PROVE  \E q \in Int, r \in 0 .. n - 1 : x = n * q + r /\ x \div n = q /\ x % n = r
<1>1. x \div n \in Int /\ x % n \in 0 .. n - 1
  OBVIOUS
<1>2. x = n * (x \div n) + (x % n)
  OBVIOUS
<1>3. QED
  BY <1>1, <1>2

LEMMA Products ==
  ASSUME NEW a \in Nat, NEW b \in Nat, NEW c \in Nat, a < b
  PROVE  a * c + c <= b * c
<1>1. b - a - 1 \in Nat /\ c * (b - a - 1) >= 0
  OBVIOUS
<1>2. QED
  BY <1>1

LEMMA ChunkOfTyped ==
  ASSUME NEW b \in Triple
  PROVE  ChunkOf(b) \in Triple /\ InChunk(b) \in Triple
BY RendererAssumption DEF ChunkOf, InChunk, Triple, Axis

LEMMA SamePoint ==
  ASSUME NEW p \in Triple, NEW q \in Triple, \A i \in Axis : p[i] = q[i]
  PROVE  p = q
BY DEF Triple

\* The iterator visits blocks of the chunk
LEMMA BlocksAreInChunk ==
  ASSUME NEW c \in Triple, NEW b \in Range(BlocksOf(c))
  PROVE  b \in Triple /\ ChunkOf(b) = c
<1> DEFINE n1 == ChunkSize[1]
           n2 == ChunkSize[2]
           n3 == ChunkSize[3]
<1>1. /\ n1 \in Nat \ {0} /\ n2 \in Nat \ {0} /\ n3 \in Nat \ {0}
      /\ c[1] \in Int /\ c[2] \in Int /\ c[3] \in Int
  BY RendererAssumption DEF Triple, Axis
<1>2. PICK k \in 1 .. n1 * n2 * n3 :
        b = <<Corner(c)[1] + ((k - 1) % n1), Corner(c)[2] + (((k - 1) \div n1) % n2),
              Corner(c)[3] + ((k - 1) \div (n1 * n2))>>
  BY DEF BlocksOf, ZYXCoordIter, Range
<1>3. Corner(c) = <<c[1] * n1, c[2] * n2, c[3] * n3>>
  BY DEF Corner, Axis
<1> DEFINE m == k - 1
           r1 == m % n1
           r2 == (m \div n1) % n2
           r3 == m \div (n1 * n2)
<1>4. m \in Nat /\ m < n1 * n2 * n3
  BY <1>1, <1>2
<1>5. b = <<c[1] * n1 + r1, c[2] * n2 + r2, c[3] * n3 + r3>>
  BY <1>2, <1>3
<1> HIDE DEF m, n1, n2, n3
<1>6. r1 \in 0 .. n1 - 1
  BY <1>1, <1>4, Division
<1>7. r2 \in 0 .. n2 - 1
  <2>1. m \div n1 \in Int
    BY <1>1, <1>4
  <2>2. QED
    BY <1>1, <2>1, Division
<1>8. r3 \in 0 .. n3 - 1
  <2> DEFINE p == n1 * n2
  <2>1. p \in Nat \ {0} /\ m < p * n3
    BY <1>1, <1>4
  <2> HIDE DEF p
  <2>2. PICK q \in Int, r \in 0 .. p - 1 : m = p * q + r /\ m \div p = q
    BY <1>4, <2>1, Division
  <2>3. q \in Int /\ r \in 0 .. p - 1 /\ m = p * q + r
    BY <2>2
  <2>4. q >= 0
    <3>1. q <= -1 => p * q <= -p
      BY <2>1, <2>3
    <3>2. QED
      BY <1>4, <2>1, <2>3, <3>1
  <2>5. q < n3
    <3>1. q >= n3 => p * q >= p * n3
      BY <1>1, <2>1, <2>3
    <3>2. QED
      BY <1>1, <1>4, <2>1, <2>3, <3>1
  <2>6. QED
    BY <1>1, <2>2, <2>4, <2>5 DEF p
<1> HIDE DEF r1, r2, r3
<1>9. b \in Triple /\ b[1] = n1 * c[1] + r1 /\ b[2] = n2 * c[2] + r2 /\ b[3] = n3 * c[3] + r3
  BY <1>1, <1>5, <1>6, <1>7, <1>8 DEF Triple, Axis
<1>10. b[1] \div n1 = c[1] /\ b[2] \div n2 = c[2] /\ b[3] \div n3 = c[3]
  <2>1. b[1] \div n1 = c[1]
    <3>1. (n1 * c[1] + r1) \div n1 = c[1]
      BY <1>1, <1>6, Quotient, Zenon
    <3>2. QED
      BY <1>9, <3>1
  <2>2. b[2] \div n2 = c[2]
    <3>1. (n2 * c[2] + r2) \div n2 = c[2]
      BY <1>1, <1>7, Quotient, Zenon
    <3>2. QED
      BY <1>9, <3>1
  <2>3. b[3] \div n3 = c[3]
    <3>1. (n3 * c[3] + r3) \div n3 = c[3]
      BY <1>1, <1>8, Quotient, Zenon
    <3>2. QED
      BY <1>9, <3>1
  <2>4. QED
    BY <2>1, <2>2, <2>3
<1>11. QED
  BY <1>9, <1>10 DEF ChunkOf, Triple, Axis, n1, n2, n3

\* and all of them.
LEMMA ChunkIsItsBlocks ==
  ASSUME NEW c \in Triple, NEW b \in Triple, ChunkOf(b) = c
  PROVE  b \in Range(BlocksOf(c))
<1> DEFINE n1 == ChunkSize[1]
           n2 == ChunkSize[2]
           n3 == ChunkSize[3]
           r1 == b[1] % n1
           r2 == b[2] % n2
           r3 == b[3] % n3
           p == n1 * n2
           j == n2 * r3 + r2
           m == n1 * j + r1
<1>1. /\ n1 \in Nat \ {0} /\ n2 \in Nat \ {0} /\ n3 \in Nat \ {0}
      /\ b[1] \in Int /\ b[2] \in Int /\ b[3] \in Int
      /\ c[1] \in Int /\ c[2] \in Int /\ c[3] \in Int
  BY RendererAssumption DEF Triple, Axis
<1>2. c[1] = b[1] \div n1 /\ c[2] = b[2] \div n2 /\ c[3] = b[3] \div n3
  BY DEF ChunkOf, Axis
<1>3. Corner(c) = <<c[1] * n1, c[2] * n2, c[3] * n3>>
  BY DEF Corner, Axis
<1>c. BlocksOf(c) = [k \in 1 .. n1 * n2 * n3 |->
           <<Corner(c)[1] + ((k - 1) % n1), Corner(c)[2] + (((k - 1) \div n1) % n2),
             Corner(c)[3] + ((k - 1) \div p)>>]
  BY DEF BlocksOf, ZYXCoordIter
<1> HIDE DEF n1, n2, n3
<1>4. /\ r1 \in 0 .. n1 - 1 /\ b[1] = n1 * c[1] + r1
      /\ r2 \in 0 .. n2 - 1 /\ b[2] = n2 * c[2] + r2
      /\ r3 \in 0 .. n3 - 1 /\ b[3] = n3 * c[3] + r3
  <2>1. r1 \in 0 .. n1 - 1 /\ b[1] = n1 * c[1] + r1
    <3>1. PICK q \in Int, r \in 0 .. n1 - 1 :
            b[1] = n1 * q + r /\ b[1] \div n1 = q /\ b[1] % n1 = r
      BY <1>1, Division
    <3>2. QED
      BY <1>2, <3>1
  <2>2. r2 \in 0 .. n2 - 1 /\ b[2] = n2 * c[2] + r2
    <3>1. PICK q \in Int, r \in 0 .. n2 - 1 :
            b[2] = n2 * q + r /\ b[2] \div n2 = q /\ b[2] % n2 = r
      BY <1>1, Division
    <3>2. QED
      BY <1>2, <3>1
  <2>3. r3 \in 0 .. n3 - 1 /\ b[3] = n3 * c[3] + r3
    <3>1. PICK q \in Int, r \in 0 .. n3 - 1 :
            b[3] = n3 * q + r /\ b[3] \div n3 = q /\ b[3] % n3 = r
      BY <1>1, Division
    <3>2. QED
      BY <1>2, <3>1
  <2>4. QED
    BY <2>1, <2>2, <2>3
<1> HIDE DEF r1, r2, r3
<1>5. p \in Nat \ {0} /\ j \in Nat /\ m \in Nat
  BY <1>1, <1>4
<1>6. m % n1 = r1 /\ m \div n1 = j /\ j % n2 = r2
  <2> HIDE DEF j
  <2>1. (n1 * j + r1) % n1 = r1 /\ (n1 * j + r1) \div n1 = j
    <3>1. n1 \in Nat \ {0} /\ j \in Int /\ r1 \in 0 .. n1 - 1
      BY <1>1, <1>4, <1>5
    <3> HIDE DEF m
    <3>2. QED
      BY <3>1, Quotient
  <2>2. j % n2 = r2
    BY <1>1, <1>4, Quotient DEF j
  <2>3. QED
    BY <2>1, <2>2
<1>7. m \div p = r3
  <2>1. n1 * r2 + r1 \in 0 .. p - 1
    <3>1. r2 \in Nat /\ n2 \in Nat /\ n1 \in Nat /\ r2 < n2
      BY <1>1, <1>4
    <3>2. r2 * n1 + n1 <= n2 * n1
      BY <3>1, Products
    <3>3. r2 * n1 >= 0
      BY <3>1
    <3>4. QED
      BY <1>1, <1>4, <3>2, <3>3
  <2>2. m = p * r3 + (n1 * r2 + r1)
    BY <1>1, <1>4
  <2> DEFINE r == n1 * r2 + r1
  <2> HIDE DEF p, m, r
  <2>3. r3 \in Int /\ p \in Nat \ {0} /\ r \in 0 .. p - 1 /\ m = p * r3 + r
    BY <1>4, <1>5, <2>1, <2>2 DEF r
  <2>4. QED
    BY <2>3, Quotient
<1>8. m + 1 \in 1 .. n1 * n2 * n3
  <2>1. j * n1 + n1 <= (n2 * n3) * n1
    <3>1. j < n2 * n3
      <4>1. r3 * n2 + n2 <= n3 * n2
        <5>1. r3 \in Nat /\ n3 \in Nat /\ n2 \in Nat /\ r3 < n3
          BY <1>1, <1>4
        <5>2. QED
          BY <5>1, Products
      <4>2. QED
        BY <1>1, <1>4, <4>1
    <3>2. n2 * n3 \in Nat
      BY <1>1
    <3>3. QED
      BY <1>1, <1>5, <3>1, <3>2, Products
  <2> HIDE DEF j
  <2>2. QED
    BY <1>1, <1>4, <1>5, <2>1
<1> HIDE DEF m, j, p
<1>9. b = BlocksOf(c)[m + 1]
  <2>1. (m + 1) - 1 = m
    BY <1>5
  <2>2. BlocksOf(c)[m + 1] = <<c[1] * n1 + r1, c[2] * n2 + r2, c[3] * n3 + r3>>
    BY <1>c, <1>3, <1>6, <1>7, <1>8, <2>1
  <2>3. b = <<b[1], b[2], b[3]>>
    BY DEF Triple, Axis
  <2>4. QED
    BY <1>1, <1>4, <2>2, <2>3
<1>10. QED
  BY <1>c, <1>8, <1>9 DEF Range

\* The iterator that buildVBO() and the generator go through a chunk with visits the
\* blocks that lie in the chunk, by World's division of coordinates, and no others.
THEOREM ZYXCoordIterVisitsChunk ==
  ASSUME NEW c \in Triple
  PROVE  Range(BlocksOf(c)) = {b \in Triple : ChunkOf(b) = c}
BY BlocksAreInChunk, ChunkIsItsBlocks

\* A step along an axis leaves the chunk at its edge only.
LEMMA StepAlong ==
  ASSUME NEW n \in Nat \ {0}, NEW x \in Int
  PROVE  /\ (x + 1) \div n = IF x % n = n - 1 THEN (x \div n) + 1 ELSE x \div n
         /\ (x - 1) \div n = IF x % n = 0 THEN (x \div n) - 1 ELSE x \div n
<1>1. PICK q \in Int, r \in 0 .. n - 1 : x = n * q + r /\ x \div n = q /\ x % n = r
  BY Division
<1>2. (x + 1) \div n = IF r = n - 1 THEN q + 1 ELSE q
  <2>1. CASE r = n - 1
    <3>1. x + 1 = n * (q + 1) + 0 /\ q + 1 \in Int /\ 0 \in 0 .. n - 1
      BY <1>1, <2>1
    <3>2. QED
      BY <2>1, <3>1, Quotient
  <2>2. CASE r # n - 1
    <3>1. x + 1 = n * q + (r + 1) /\ r + 1 \in 0 .. n - 1
      BY <1>1, <2>2
    <3>2. QED
      BY <2>2, <3>1, Quotient
  <2>3. QED
    BY <2>1, <2>2
<1>3. (x - 1) \div n = IF r = 0 THEN q - 1 ELSE q
  <2>1. CASE r = 0
    <3>1. x - 1 = n * (q - 1) + (n - 1) /\ q - 1 \in Int /\ n - 1 \in 0 .. n - 1
      BY <1>1, <2>1
    <3>2. QED
      BY <2>1, <3>1, Quotient
  <2>2. CASE r # 0
    <3>1. x - 1 = n * q + (r - 1) /\ r - 1 \in 0 .. n - 1
      BY <1>1, <2>2
    <3>2. QED
      BY <2>2, <3>1, Quotient
  <2>3. QED
    BY <2>1, <2>2
<1>4. QED
  BY <1>1, <1>2, <1>3

\* A face points along one axis, one way or the other.
LEMMA FaceAxis ==
  ASSUME NEW f \in Face
  PROVE  /\ f \in Triple
         /\ \E i \in Axis : /\ f[i] \in {1, -1}
                            /\ \A j \in Axis \ {i} : f[j] = 0
<1>1. f \in Triple
  BY DEF Face, Triple, Axis
<1>2. /\ f \in {<<1, 0, 0>>, <<-1, 0, 0>>} => f[1] \in {1, -1} /\ f[2] = 0 /\ f[3] = 0
      /\ f \in {<<0, 1, 0>>, <<0, -1, 0>>} => f[2] \in {1, -1} /\ f[1] = 0 /\ f[3] = 0
      /\ f \in {<<0, 0, 1>>, <<0, 0, -1>>} => f[3] \in {1, -1} /\ f[1] = 0 /\ f[2] = 0
  OBVIOUS
<1>3. 1 \in Axis /\ 2 \in Axis /\ 3 \in Axis /\ \A j \in Axis : j = 1 \/ j = 2 \/ j = 3
  BY DEF Axis
<1>4. QED
  BY <1>1, <1>2, <1>3 DEF Face

\* Every face has one that looks back.
LEMMA FaceBack ==
  ASSUME NEW f \in Face, NEW b \in Triple
  PROVE  Beyond(b, f) \in Triple /\ \E g \in Face : Beyond(Beyond(b, f), g) = b
<1> DEFINE g == [i \in Axis |-> -f[i]]
<1>1. f \in Triple /\ g \in Triple
  BY FaceAxis DEF Triple
<1>2. g \in Face
  <2>1. g = <<-f[1], -f[2], -f[3]>>
    BY DEF Axis
  <2>2. QED
    BY <2>1 DEF Face
<1>3. Beyond(b, f) \in Triple /\ Beyond(Beyond(b, f), g) \in Triple
  BY <1>1 DEF Beyond, Triple
<1>4. \A i \in Axis : Beyond(Beyond(b, f), g)[i] = b[i]
  BY <1>1 DEF Beyond, Triple
<1>5. Beyond(Beyond(b, f), g) = b
  BY <1>3, <1>4, SamePoint
<1>6. QED
  BY <1>2, <1>3, <1>5

\* blockUpdate() marks the chunk of every block that touches the updated one, and
\* chunkUpdate() those of every block that touches one of the chunk (renderer.cpp).
LEMMA UpdateReaches ==
  ASSUME NEW b \in Triple, NEW f \in Face
  PROVE  /\ ChunkOf(Beyond(b, f)) \in BlockUpdate(b)
         /\ ChunkOf(Beyond(b, f)) \in ChunkUpdate(ChunkOf(b))
<1> DEFINE n == Beyond(b, f)
           c == ChunkOf(b)
<1>1. PICK i \in Axis : f[i] \in {1, -1} /\ \A j \in Axis \ {i} : f[j] = 0
  BY FaceAxis
<1>2. f \in Triple /\ n \in Triple /\ c \in Triple /\ ChunkOf(n) \in Triple
  BY FaceAxis, FaceBack, ChunkOfTyped
<1>3. /\ ChunkSize[i] \in Nat \ {0} /\ b[i] \in Int
      /\ c[i] = b[i] \div ChunkSize[i] /\ InChunk(b)[i] = b[i] % ChunkSize[i]
  BY RendererAssumption DEF ChunkOf, InChunk, Triple
<1>4. \A j \in Axis \ {i} : ChunkOf(n)[j] = c[j]
  <2>1. \A j \in Axis \ {i} : n[j] = b[j]
    BY <1>1, <1>2 DEF Beyond, Triple
  <2>2. QED
    BY <2>1 DEF ChunkOf
<1>5. ChunkOf(n)[i] = (b[i] + f[i]) \div ChunkSize[i]
  BY DEF ChunkOf, Beyond
<1>6. CASE ChunkOf(n)[i] = c[i]
  <2>1. ChunkOf(n) = c
    BY <1>2, <1>4, <1>6, SamePoint
  <2>2. QED
    BY <2>1 DEF BlockUpdate, ChunkUpdate
<1>7. CASE ChunkOf(n)[i] # c[i]
  <2>1. /\ ChunkOf(n)[i] = c[i] + f[i]
        /\ \/ f[i] = -1 /\ InChunk(b)[i] = 0
           \/ f[i] = 1  /\ InChunk(b)[i] = ChunkSize[i] - 1
    <3>1. CASE f[i] = 1
      BY <1>3, <1>5, <1>7, <3>1, StepAlong
    <3>2. CASE f[i] = -1
      <4>1. b[i] + f[i] = b[i] - 1
        BY <1>3, <3>2
      <4>2. c[i] - 1 = c[i] + f[i]
        BY <1>2, <3>2 DEF Triple
      <4>3. QED
        BY <1>3, <1>5, <1>7, <3>2, <4>1, <4>2, StepAlong
    <3>3. QED
      BY <1>1, <3>1, <3>2
  <2>2. ChunkOf(n) = Beyond(c, f)
    <3>1. Beyond(c, f) \in Triple
      BY FaceBack, <1>2
    <3>2. \A j \in Axis : ChunkOf(n)[j] = Beyond(c, f)[j]
      <4> SUFFICES ASSUME NEW j \in Axis
                   PROVE  ChunkOf(n)[j] = Beyond(c, f)[j]
        OBVIOUS
      <4>1. Beyond(c, f)[j] = c[j] + f[j] /\ c[j] \in Int
        BY <1>2 DEF Beyond, Triple
      <4>2. CASE j = i
        BY <2>1, <4>1, <4>2
      <4>3. CASE j # i
        <5>1. f[j] = 0 /\ ChunkOf(n)[j] = c[j]
          BY <1>1, <1>4, <4>3
        <5> HIDE DEF c, n
        <5>2. QED
          BY <4>1, <5>1
      <4>4. QED
        BY <4>2, <4>3
    <3>3. QED
      BY <1>2, <3>1, <3>2, SamePoint
  <2>3. QED
    BY <2>1, <2>2 DEF BlockUpdate, ChunkUpdate
<1>8. QED
  BY <1>6, <1>7

-----------------------------------------------------------------------------
(* What the operators of the renderer do.                                  *)

FaceSet == SUBSET (Triple \X Triple)
Mesh    == [name : Nat, dirty : BOOLEAN, faces : FaceSet]
Meshes  == UNION {[D -> Mesh] : D \in SUBSET Triple}
Buffers == UNION {[N -> FaceSet] : N \in SUBSET Nat}
State ==
  [made : SUBSET Triple, opaque : SUBSET Triple, cache : Meshes, buffer : Buffers, built : Nat]

\* Landscape and ShownFaces, as operators on a state.
LandscapeOf(st) == st.opaque \cup {b \in Terrain : ChunkOf(b) \notin st.made}
FacesIn(land, c) ==
  {bf \in (land \cap Range(BlocksOf(c))) \X Face : Beyond(bf[1], bf[2]) \notin land}

\* A mesh not marked dirty is what OpenGL holds.
Fresh(st, c) ==
  ~st.cache[c].dirty =>
    /\ st.cache[c].name \in DOMAIN st.buffer
    /\ st.buffer[st.cache[c].name] = FacesIn(LandscapeOf(st), c)

Names(meshes) == {meshes[c].name : c \in DOMAIN meshes}

\* Besides the meshes, the buffers: each mesh and the entities (at v) have one of their
\* own, and there are no others.
Apart(st) == \A c, d \in DOMAIN st.cache : st.cache[c].name = st.cache[d].name => c = d
Sound(st, v) ==
  /\ st \in State
  /\ Apart(st)
  /\ DOMAIN st.buffer = Names(st.cache) \cup {v} /\ v \notin Names(st.cache)
  /\ IsFiniteSet(DOMAIN st.buffer)
  /\ \A c \in DOMAIN st.cache : Fresh(st, c)

LEMMA MeshesTyped ==
  ASSUME NEW m
  PROVE  m \in Meshes <=> DOMAIN m \subseteq Triple /\ m \in [DOMAIN m -> Mesh]
BY DEF Meshes

LEMMA BuffersTyped ==
  ASSUME NEW b
  PROVE  b \in Buffers <=> DOMAIN b \subseteq Nat /\ b \in [DOMAIN b -> FaceSet]
BY DEF Buffers

LEMMA MarkDirtySound ==
  ASSUME NEW m \in Meshes, NEW S
  PROVE  /\ MarkDirty(m, S) \in Meshes
         /\ DOMAIN MarkDirty(m, S) = DOMAIN m
         /\ \A c \in DOMAIN m : /\ MarkDirty(m, S)[c].name = m[c].name
                                /\ MarkDirty(m, S)[c].dirty <=> m[c].dirty \/ c \in S
<1> DEFINE d == MarkDirty(m, S)
<1>1. DOMAIN m \subseteq Triple /\ m \in [DOMAIN m -> Mesh]
  BY MeshesTyped
<1>2. d = [c \in DOMAIN m |-> [m[c] EXCEPT !.dirty = m[c].dirty \/ c \in S]]
  BY DEF MarkDirty
<1>3. ASSUME NEW c \in DOMAIN m
      PROVE  /\ d[c] \in Mesh /\ d[c].name = m[c].name
             /\ d[c].dirty <=> m[c].dirty \/ c \in S
  <2> DEFINE x == m[c].dirty \/ c \in S
  <2>1. x \in BOOLEAN /\ m[c] \in Mesh /\ d[c] = [m[c] EXCEPT !.dirty = x]
    BY <1>1, <1>2
  <2> HIDE DEF x, d
  <2>2. d[c] \in Mesh /\ d[c].name = m[c].name /\ d[c].dirty = x
    BY <2>1 DEF Mesh
  <2>3. QED
    BY <2>2 DEF x
<1>4. DOMAIN d = DOMAIN m /\ d \in [DOMAIN d -> Mesh]
  BY <1>2, <1>3
<1> HIDE DEF d
<1>5. d \in Meshes
  BY <1>1, <1>4, MeshesTyped
<1>6. QED
  BY <1>3, <1>4, <1>5 DEF d

\* The terrain is blocks of the world.
LEMMA TerrainTyped ==
  ASSUME NEW b \in Terrain
  PROVE  b \in Triple /\ ValidCoords(b)
<1>1. b \in Box(WorldSize) /\ WorldSize \in [Axis -> Nat]
  BY RendererAssumption DEF WorldSize
<1>2. QED
  BY <1>1 DEF Box, Triple, Axis, ValidCoords

\* Fetching chunks changes the picture of no world: what generate() puts was counted.
LEMMA GetChunksSound ==
  ASSUME NEW st \in State, NEW S \in SUBSET Triple
  PROVE  LET g == GetChunks(st, S) IN
         /\ g \in State
         /\ g.made = st.made \cup S
         /\ g.opaque = st.opaque \cup {b \in Terrain : ChunkOf(b) \in S \ st.made}
         /\ g.buffer = st.buffer /\ g.built = st.built
         /\ DOMAIN g.cache = DOMAIN st.cache
         /\ \A c \in DOMAIN st.cache : /\ g.cache[c].name = st.cache[c].name
                                       /\ st.cache[c].dirty => g.cache[c].dirty
         /\ LandscapeOf(g) = LandscapeOf(st)
<1> DEFINE g == GetChunks(st, S)
           new == {b \in Terrain : ChunkOf(b) \in S \ st.made}
           marked == MarkDirty(st.cache, UNION {BlockUpdate(b) : b \in new})
           made == st.made \cup S
           opaque == st.opaque \cup new
<1>1. g = [st EXCEPT !.made = made, !.opaque = opaque, !.cache = marked]
  BY DEF GetChunks
<1>2. st.cache \in Meshes /\ st.made \subseteq Triple /\ st.opaque \subseteq Triple
  BY DEF State
<1>3. /\ marked \in Meshes /\ DOMAIN marked = DOMAIN st.cache
      /\ \A c \in DOMAIN st.cache : /\ marked[c].name = st.cache[c].name
                                    /\ st.cache[c].dirty => marked[c].dirty
  BY <1>2, MarkDirtySound
<1>4. new \subseteq Triple
  BY TerrainTyped
<1>5. made \in SUBSET Triple /\ opaque \in SUBSET Triple
  BY <1>2, <1>4
<1>6. LandscapeOf([made |-> made, opaque |-> opaque]) = LandscapeOf(st)
  BY DEF LandscapeOf
<1> HIDE DEF g, marked, made, opaque
<1>7. /\ g \in State /\ g.made = made /\ g.opaque = opaque /\ g.cache = marked
      /\ g.buffer = st.buffer /\ g.built = st.built
  BY <1>1, <1>3, <1>5 DEF State
<1>8. LandscapeOf(g) = LandscapeOf(st)
  BY <1>6, <1>7 DEF LandscapeOf
<1>9. QED
  BY <1>3, <1>7, <1>8 DEF made, opaque, g

\* Where both are, the opaque blocks are the landscape: a chunk that is there, and a
\* block whose chunk was fetched.
LEMMA MadeIsLandscape ==
  ASSUME NEW st \in State, NEW c \in st.made
  PROVE  OpaqueIn(st, c) = LandscapeOf(st) \cap Range(BlocksOf(c))
<1>1. c \in Triple
  BY DEF State
<1>2. \A b \in Range(BlocksOf(c)) : ChunkOf(b) = c
  BY <1>1, BlocksAreInChunk
<1>3. QED
  BY <1>2 DEF OpaqueIn, LandscapeOf

\* buildVBO() looks at a world in which all the chunks it looks into have been fetched,
\* so the faces it uploads are those of the landscape.
LEMMA FacesBuilt ==
  ASSUME NEW st \in State, NEW c \in Triple
  PROVE  LET own  == GetChunks(st, {c})
             seen == GetChunks(own, Around(own, c))
         IN /\ own \in State /\ Around(own, c) \in SUBSET Triple
            /\ Faces(seen, c) = FacesIn(LandscapeOf(seen), c)
            /\ Faces(seen, c) \in FaceSet
<1> DEFINE own  == GetChunks(st, {c})
           S    == Around(own, c)
           seen == GetChunks(own, S)
           land == LandscapeOf(seen)
<1>1. own \in State /\ own.made = st.made \cup {c}
  BY GetChunksSound, {c} \in SUBSET Triple
<1> HIDE DEF own
<1>2. OpaqueIn(own, c) \subseteq Triple
  BY <1>1 DEF State, OpaqueIn
<1>3. \A b \in OpaqueIn(own, c), f \in Face :
        ValidCoords(Beyond(b, f)) => ChunkOf(Beyond(b, f)) \in S
  BY DEF Around
<1>4. S \in SUBSET Triple
  <2>1. \A b \in OpaqueIn(own, c), f \in Face : Beyond(b, f) \in Triple
    BY <1>2, FaceBack
  <2>2. \A n \in Triple : ChunkOf(n) \in Triple
    BY ChunkOfTyped
  <2>3. QED
    BY <2>1, <2>2 DEF Around
<1> HIDE DEF S
<1>5. /\ seen \in State /\ seen.made = own.made \cup S
      /\ seen.opaque = own.opaque \cup {b \in Terrain : ChunkOf(b) \in S \ own.made}
  BY <1>1, <1>4, GetChunksSound
<1> HIDE DEF seen
<1>6. c \in seen.made /\ c \in own.made
  BY <1>1, <1>5
<1>7. OpaqueIn(seen, c) = land \cap Range(BlocksOf(c))
  BY <1>5, <1>6, MadeIsLandscape
<1>8. OpaqueIn(seen, c) = OpaqueIn(own, c)
  <2>1. \A b \in Range(BlocksOf(c)) : ChunkOf(b) = c
    BY BlocksAreInChunk
  <2>2. QED
    BY <1>5, <1>6, <2>1 DEF OpaqueIn
<1>9. ASSUME NEW b \in OpaqueIn(seen, c), NEW f \in Face
      PROVE  Beyond(b, f) \in seen.opaque <=> Beyond(b, f) \in land
  <2> DEFINE n == Beyond(b, f)
  <2>1. n \in Terrain => ChunkOf(n) \in seen.made
    <3>1. SUFFICES ASSUME n \in Terrain
                   PROVE  ChunkOf(n) \in seen.made
      OBVIOUS
    <3>2. ValidCoords(n)
      BY <3>1, TerrainTyped
    <3>3. QED
      BY <1>3, <1>5, <1>8, <1>9, <3>2
  <2>2. QED
    BY <2>1 DEF LandscapeOf
<1>10. Faces(seen, c) = FacesIn(land, c)
  <2> HIDE DEF land
  <2>1. Faces(seen, c) = {bf \in OpaqueIn(seen, c) \X Face : Beyond(bf[1], bf[2]) \notin seen.opaque}
    BY DEF Faces
  <2>2. FacesIn(land, c) = {bf \in OpaqueIn(seen, c) \X Face : Beyond(bf[1], bf[2]) \notin land}
    BY <1>7 DEF FacesIn
  <2>3. \A bf \in OpaqueIn(seen, c) \X Face :
          Beyond(bf[1], bf[2]) \in seen.opaque <=> Beyond(bf[1], bf[2]) \in land
    BY <1>9
  <2>4. QED
    BY <2>1, <2>2, <2>3
<1>11. Faces(seen, c) \in FaceSet
  <2>1. OpaqueIn(seen, c) \subseteq Triple /\ Face \subseteq Triple
    BY <1>2, <1>8, FaceAxis
  <2>2. QED
    BY <2>1 DEF Faces, FaceSet
<1>12. QED
  BY <1>1, <1>4, <1>10, <1>11 DEF own, S, seen

\* Building a mesh fetches chunks, and uploads what the chunk shows to its buffer.
LEMMA BuildSound ==
  ASSUME NEW st \in State, NEW c \in DOMAIN st.cache
  PROVE  LET r == BuildVBO(st, c)
             name == st.cache[c].name
         IN /\ r \in State /\ r.built = st.built
            /\ DOMAIN r.cache = DOMAIN st.cache
            /\ \A d \in DOMAIN st.cache : /\ r.cache[d].name = st.cache[d].name
                                          /\ d # c /\ st.cache[d].dirty => r.cache[d].dirty
            /\ LandscapeOf(r) = LandscapeOf(st)
            /\ r.buffer = Upload(st.buffer, name, FacesIn(LandscapeOf(r), c))
<1> DEFINE own  == GetChunks(st, {c})
           S    == Around(own, c)
           seen == GetChunks(own, S)
           shown == Faces(seen, c)
           name == st.cache[c].name
           mesh == [seen.cache[c] EXCEPT !.faces = shown]
           meshes == [seen.cache EXCEPT ![c] = mesh]
           bufs == Upload(st.buffer, name, shown)
           r    == BuildVBO(st, c)
<1>1. c \in Triple /\ st.cache \in Meshes /\ st.buffer \in Buffers
  BY MeshesTyped DEF State
<1>2. /\ own \in State /\ own.buffer = st.buffer /\ own.built = st.built
      /\ DOMAIN own.cache = DOMAIN st.cache
      /\ \A d \in DOMAIN st.cache : /\ own.cache[d].name = st.cache[d].name
                                    /\ st.cache[d].dirty => own.cache[d].dirty
      /\ LandscapeOf(own) = LandscapeOf(st)
  BY <1>1, GetChunksSound, {c} \in SUBSET Triple
<1>3. /\ S \in SUBSET Triple /\ shown = FacesIn(LandscapeOf(seen), c) /\ shown \in FaceSet
  BY <1>1, FacesBuilt
<1> HIDE DEF own, S, shown
<1>4. /\ seen \in State /\ seen.buffer = st.buffer /\ seen.built = st.built
      /\ DOMAIN seen.cache = DOMAIN st.cache
      /\ \A d \in DOMAIN st.cache : /\ seen.cache[d].name = st.cache[d].name
                                    /\ st.cache[d].dirty => seen.cache[d].dirty
      /\ LandscapeOf(seen) = LandscapeOf(st)
  BY <1>2, <1>3, GetChunksSound
<1>5. r = [seen EXCEPT !.cache = meshes, !.buffer = bufs]
  <2>1. r = [seen EXCEPT !.cache[c].faces = shown,
                         !.buffer = Upload(seen.buffer, seen.cache[c].name, shown)]
    BY DEF BuildVBO, own, S, seen, shown
  <2> HIDE DEF seen
  <2>2. QED
    BY <1>4, <2>1
<1> HIDE DEF seen, r
<1>6. /\ DOMAIN seen.cache \subseteq Triple /\ seen.cache \in [DOMAIN seen.cache -> Mesh]
  BY <1>4, MeshesTyped DEF State
<1>7. mesh \in Mesh /\ mesh.name = name
  BY <1>3, <1>4, <1>6 DEF Mesh
<1> HIDE DEF mesh, name
<1>8. /\ meshes \in [DOMAIN meshes -> Mesh] /\ DOMAIN meshes = DOMAIN st.cache
      /\ meshes[c] = mesh
      /\ \A d \in DOMAIN st.cache \ {c} : meshes[d] = seen.cache[d]
  BY <1>4, <1>6, <1>7
<1> HIDE DEF meshes
<1>9. meshes \in Meshes
  BY <1>1, <1>8, MeshesTyped
<1>10. bufs \in Buffers
  <2>1. name \in Nat
    BY <1>1, MeshesTyped DEF Mesh, name
  <2>2. DOMAIN st.buffer \subseteq Nat /\ st.buffer \in [DOMAIN st.buffer -> FaceSet]
    BY <1>1, BuffersTyped
  <2>3. DOMAIN bufs = DOMAIN st.buffer \cup {name} /\ bufs \in [DOMAIN bufs -> FaceSet]
    BY <1>3, <2>1, <2>2 DEF Upload
  <2> HIDE DEF bufs
  <2>4. QED
    BY <2>1, <2>2, <2>3, BuffersTyped
<1> HIDE DEF bufs
<1>11. /\ r \in State /\ r.built = st.built /\ r.cache = meshes /\ r.buffer = bufs
       /\ r.made = seen.made /\ r.opaque = seen.opaque
  BY <1>4, <1>5, <1>9, <1>10 DEF State
<1>12. LandscapeOf(r) = LandscapeOf(st)
  BY <1>4, <1>11 DEF LandscapeOf
<1>13. \A d \in DOMAIN st.cache : /\ meshes[d].name = st.cache[d].name
                                  /\ d # c /\ st.cache[d].dirty => meshes[d].dirty
  BY <1>4, <1>7, <1>8 DEF name
<1>14. r.buffer = Upload(st.buffer, name, FacesIn(LandscapeOf(r), c))
  BY <1>3, <1>4, <1>11, <1>12 DEF bufs
<1>15. QED
  BY <1>8, <1>11, <1>12, <1>13, <1>14 DEF r, name

\* glGenBuffers() gives a name not in use.
LEMMA FreeNameSound ==
  ASSUME NEW names, IsFiniteSet(names)
  PROVE  FreeName(names) \in Nat \ names
<1> DEFINE n == Cardinality(names)
           T == (1 .. n + 1) \ names
<1>1. n \in Nat
  BY FS_CardinalityType
<1>2. T # {}
  <2>1. SUFFICES ASSUME 1 .. n + 1 \subseteq names
                 PROVE  FALSE
    OBVIOUS
  <2>2. Cardinality(1 .. n + 1) <= n
    BY <2>1, FS_Subset
  <2>3. Cardinality(1 .. n + 1) = n + 1
    BY <1>1, FS_Interval
  <2>4. QED
    BY <1>1, <2>2, <2>3
<1>3. T \subseteq Nat
  BY <1>1
<1> HIDE DEF T
<1>4. \E x \in T : \A y \in T : x =< y
  BY <1>2, <1>3, LeastElement
<1>5. Min(T) \in T
  BY <1>4 DEF Min
<1>6. QED
  BY <1>3, <1>5 DEF FreeName, T

\* Drawing a mesh makes it what its chunk shows, if it was not: render() of ChunkVBO.
LEMMA RenderMeshSound ==
  ASSUME NEW st \in State, NEW c \in DOMAIN st.cache, Apart(st),
         st.cache[c].dirty \/ Fresh(st, c),
         \A d \in DOMAIN st.cache \ {c} : Fresh(st, d)
  PROVE  LET r == RenderMesh(st, c) IN
         /\ r \in State /\ Apart(r)
         /\ DOMAIN r.cache = DOMAIN st.cache /\ Names(r.cache) = Names(st.cache)
         /\ DOMAIN r.buffer = IF st.cache[c].dirty THEN DOMAIN st.buffer \cup {st.cache[c].name}
                              ELSE DOMAIN st.buffer
         /\ \A d \in DOMAIN r.cache : Fresh(r, d)
<1> DEFINE r == RenderMesh(st, c)
           v == BuildVBO(st, c)
           name == st.cache[c].name
           mesh == [v.cache[c] EXCEPT !.dirty = FALSE]
           meshes == [v.cache EXCEPT ![c] = mesh]
<1>1. CASE ~st.cache[c].dirty
  <2>1. r = st /\ \A d \in DOMAIN st.cache : Fresh(st, d)
    BY <1>1 DEF RenderMesh
  <2>2. QED
    BY <1>1, <2>1
<1>2. CASE st.cache[c].dirty
  <2>1. /\ v \in State
        /\ DOMAIN v.cache = DOMAIN st.cache
        /\ \A d \in DOMAIN st.cache : /\ v.cache[d].name = st.cache[d].name
                                      /\ d # c /\ st.cache[d].dirty => v.cache[d].dirty
        /\ LandscapeOf(v) = LandscapeOf(st)
        /\ v.buffer = Upload(st.buffer, name, FacesIn(LandscapeOf(v), c))
    BY BuildSound
  <2>2. r = [v EXCEPT !.cache = meshes]
    BY <1>2 DEF RenderMesh
  <2> HIDE DEF v, r
  <2>3. DOMAIN v.cache \subseteq Triple /\ v.cache \in [DOMAIN v.cache -> Mesh]
    BY <2>1, MeshesTyped DEF State
  <2>4. mesh \in Mesh /\ mesh.name = name /\ ~mesh.dirty
    BY <2>1, <2>3 DEF Mesh
  <2> HIDE DEF mesh, name
  <2>5. /\ DOMAIN meshes = DOMAIN st.cache /\ meshes \in [DOMAIN meshes -> Mesh]
        /\ meshes[c] = mesh
        /\ \A d \in DOMAIN st.cache \ {c} : meshes[d] = v.cache[d]
    BY <2>1, <2>3, <2>4
  <2> HIDE DEF meshes
  <2>6. meshes \in Meshes
    BY <2>1, <2>3, <2>5, MeshesTyped
  <2>7. /\ r \in State /\ r.cache = meshes /\ r.buffer = v.buffer
        /\ r.made = v.made /\ r.opaque = v.opaque
    BY <2>1, <2>2, <2>6 DEF State
  <2>8. LandscapeOf(r) = LandscapeOf(st) /\ LandscapeOf(v) = LandscapeOf(st)
    BY <2>1, <2>7 DEF LandscapeOf
  <2>9. \A d \in DOMAIN st.cache : r.cache[d].name = st.cache[d].name
    BY <2>1, <2>4, <2>5, <2>7 DEF name
  <2>10. DOMAIN r.cache = DOMAIN st.cache
    BY <2>5, <2>7
  <2>11. Apart(r) /\ Names(r.cache) = Names(st.cache)
    BY <2>9, <2>10 DEF Apart, Names
  <2>12. /\ DOMAIN r.buffer = DOMAIN st.buffer \cup {name}
         /\ r.buffer[name] = FacesIn(LandscapeOf(st), c)
         /\ \A k \in DOMAIN st.buffer \ {name} : r.buffer[k] = st.buffer[k]
    BY <2>1, <2>7, <2>8 DEF Upload
  <2>13. ASSUME NEW d \in DOMAIN st.cache
         PROVE  Fresh(r, d)
    <3>1. CASE d = c
      <4>1. r.cache[d].name = name
        BY <2>9, <3>1 DEF name
      <4>2. QED
        BY <2>8, <2>12, <3>1, <4>1 DEF Fresh
    <3>2. CASE d # c
      <4>1. SUFFICES ASSUME ~r.cache[d].dirty
                     PROVE  /\ r.cache[d].name \in DOMAIN r.buffer
                            /\ r.buffer[r.cache[d].name] = FacesIn(LandscapeOf(r), d)
        BY DEF Fresh
      <4>2. ~st.cache[d].dirty
        BY <2>1, <2>5, <2>7, <3>2, <4>1
      <4>3. /\ st.cache[d].name \in DOMAIN st.buffer
            /\ st.buffer[st.cache[d].name] = FacesIn(LandscapeOf(st), d)
        BY <3>2, <4>2 DEF Fresh
      <4>4. st.cache[d].name # name
        BY <3>2 DEF Apart, name
      <4>5. QED
        BY <2>8, <2>9, <2>12, <4>3, <4>4
    <3>3. QED
      BY <3>1, <3>2
  <2>14. QED
    BY <1>2, <2>7, <2>10, <2>11, <2>12, <2>13 DEF r, name
<1>3. QED
  BY <1>1, <1>2

\* A chunk in range is drawn, or left for the next frame.
LEMMA RenderChunkSound ==
  ASSUME NEW st, NEW v \in Nat, Sound(st, v), NEW c \in Triple
  PROVE  Sound(RenderChunk(st, c), v)
<1>1. /\ st \in State /\ Apart(st) /\ v \notin Names(st.cache)
      /\ DOMAIN st.buffer = Names(st.cache) \cup {v} /\ IsFiniteSet(DOMAIN st.buffer)
      /\ \A d \in DOMAIN st.cache : Fresh(st, d)
  BY DEF Sound
<1>2. CASE c \in DOMAIN st.cache
  <2> DEFINE r == RenderMesh(st, c)
  <2>1. RenderChunk(st, c) = r
    BY <1>2 DEF RenderChunk
  <2>2. st.cache[c].name \in Names(st.cache)
    BY <1>2 DEF Names
  <2>3. /\ r \in State /\ Apart(r)
        /\ DOMAIN r.cache = DOMAIN st.cache /\ Names(r.cache) = Names(st.cache)
        /\ DOMAIN r.buffer = DOMAIN st.buffer
        /\ \A d \in DOMAIN r.cache : Fresh(r, d)
    <3>1. /\ r \in State /\ Apart(r)
          /\ DOMAIN r.cache = DOMAIN st.cache /\ Names(r.cache) = Names(st.cache)
          /\ DOMAIN r.buffer = IF st.cache[c].dirty
                               THEN DOMAIN st.buffer \cup {st.cache[c].name}
                               ELSE DOMAIN st.buffer
          /\ \A d \in DOMAIN r.cache : Fresh(r, d)
      BY <1>1, <1>2, RenderMeshSound
    <3> HIDE DEF r
    <3>2. QED
      BY <1>1, <2>2, <3>1
  <2> HIDE DEF r
  <2>4. QED
    BY <1>1, <2>1, <2>3 DEF Sound
<1>3. CASE c \notin DOMAIN st.cache /\ st.built > ChunkRebuildLimit
  BY <1>3 DEF RenderChunk
<1>4. CASE c \notin DOMAIN st.cache /\ ~(st.built > ChunkRebuildLimit)
  <2> DEFINE name == FreeName(DOMAIN st.buffer)
             new  == [name |-> name, dirty |-> TRUE, faces |-> {}]
             more == [d \in DOMAIN st.cache \cup {c} |-> IF d = c THEN new ELSE st.cache[d]]
             p    == PutMesh([st EXCEPT !.built = @ + 1], c)
             r    == RenderMesh(p, c)
  <2>1. name \in Nat \ DOMAIN st.buffer
    BY <1>1, FreeNameSound
  <2>2. p = [st EXCEPT !.built = st.built + 1, !.cache = more]
    <3>1. st.built \in Nat
      BY <1>1 DEF State
    <3>2. [st EXCEPT !.built = st.built + 1].buffer = st.buffer
          /\ [st EXCEPT !.built = st.built + 1].cache = st.cache
      BY <1>1 DEF State
    <3>3. QED
      BY <1>1, <3>1, <3>2 DEF PutMesh, State
  <2> HIDE DEF name, p
  <2>3. new \in Mesh /\ new.name = name /\ new.dirty
    BY <2>1 DEF Mesh, FaceSet
  <2> HIDE DEF new
  <2>4. DOMAIN st.cache \subseteq Triple /\ st.cache \in [DOMAIN st.cache -> Mesh]
    BY <1>1, MeshesTyped DEF State
  <2>5. /\ DOMAIN more = DOMAIN st.cache \cup {c} /\ more \in [DOMAIN more -> Mesh]
        /\ more[c] = new /\ \A d \in DOMAIN st.cache : more[d] = st.cache[d]
    BY <1>4, <2>3, <2>4
  <2> HIDE DEF more
  <2>6. more \in Meshes
    BY <2>4, <2>5, MeshesTyped
  <2>7. /\ p \in State /\ p.cache = more /\ p.buffer = st.buffer
        /\ p.made = st.made /\ p.opaque = st.opaque
    <3>1. st.built + 1 \in Nat
      BY <1>1 DEF State
    <3> DEFINE built == st.built + 1
    <3> HIDE DEF built
    <3>2. p = [st EXCEPT !.built = built, !.cache = more] /\ built \in Nat
      BY <2>2, <3>1 DEF built
    <3>3. QED
      BY <1>1, <2>6, <3>2 DEF State
  <2>8. Names(p.cache) = Names(st.cache) \cup {name}
    BY <2>3, <2>5, <2>7 DEF Names
  <2>9. name \notin Names(st.cache) /\ name # v
    BY <1>1, <2>1
  <2>10. Apart(p)
    <3>1. \A d \in DOMAIN st.cache : p.cache[d].name # p.cache[c].name
      BY <2>3, <2>5, <2>7, <2>9 DEF Names
    <3>2. QED
      BY <1>1, <2>5, <2>7, <3>1 DEF Apart
  <2>11. \A d \in DOMAIN p.cache \ {c} : Fresh(p, d)
    <3>1. LandscapeOf(p) = LandscapeOf(st)
      BY <2>7 DEF LandscapeOf
    <3>2. QED
      BY <1>1, <2>5, <2>7, <3>1 DEF Fresh
  <2>12. c \in DOMAIN p.cache /\ p.cache[c].dirty /\ p.cache[c].name = name
    BY <2>3, <2>5, <2>7
  <2>13. /\ r \in State /\ Apart(r)
         /\ DOMAIN r.cache = DOMAIN p.cache /\ Names(r.cache) = Names(p.cache)
         /\ DOMAIN r.buffer = DOMAIN p.buffer \cup {name}
         /\ \A d \in DOMAIN r.cache : Fresh(r, d)
    BY <2>7, <2>10, <2>11, <2>12, RenderMeshSound
  <2> HIDE DEF r
  <2>14. IsFiniteSet(DOMAIN r.buffer)
    BY <1>1, <2>7, <2>13, FS_AddElement
  <2>15. Sound(r, v)
    BY <1>1, <2>7, <2>8, <2>9, <2>13, <2>14 DEF Sound
  <2>16. QED
    BY <1>4, <2>15 DEF RenderChunk, r, p
<1>5. QED
  BY <1>2, <1>3, <1>4

-----------------------------------------------------------------------------
(* The order in which render() draws.                                      *)

LEMMA ChunksFinite ==
  IsFiniteSet(Chunks)
<1> DEFINE A == 0 .. WorldChunks[1] - 1
           B == 0 .. WorldChunks[2] - 1
           C == 0 .. WorldChunks[3] - 1
           f == [c \in Chunks |-> <<<<c[1], c[2]>>, c[3]>>]
<1>1. WorldChunks[1] \in Nat /\ WorldChunks[2] \in Nat /\ WorldChunks[3] \in Nat
  BY RendererAssumption DEF Axis
<1>2. IsFiniteSet((A \X B) \X C)
  <2>1. \A n \in Nat : IsFiniteSet(0 .. n - 1)
    <3>1. \A n \in Nat : 0 \in Int /\ n - 1 \in Int
      OBVIOUS
    <3>2. QED
      BY <3>1, FS_Interval, Zenon
  <2>2. IsFiniteSet(A) /\ IsFiniteSet(B) /\ IsFiniteSet(C)
    BY <1>1, <2>1
  <2> HIDE DEF A, B, C
  <2>3. IsFiniteSet(A \X B)
    BY <2>2, FS_Product
  <2>4. QED
    BY <2>2, <2>3, FS_Product
<1>3. f \in Injection(Chunks, (A \X B) \X C)
  <2>1. Chunks = A \X B \X C
    BY DEF Chunks, Box
  <2> HIDE DEF A, B, C
  <2>2. f \in [Chunks -> (A \X B) \X C]
    BY <2>1
  <2>3. ASSUME NEW c \in Chunks, NEW d \in Chunks, f[c] = f[d]
        PROVE  c = d
    <3>1. c[1] = d[1] /\ c[2] = d[2] /\ c[3] = d[3]
      BY <2>3
    <3>2. c = <<c[1], c[2], c[3]>> /\ d = <<d[1], d[2], d[3]>>
      BY <2>1
    <3>3. QED
      BY <3>1, <3>2
  <2>4. QED
    BY <2>2, <2>3 DEF Injection, IsInjective
<1>4. QED
  BY <1>2, <1>3, FS_Injection

LEMMA ClampTyped ==
  ASSUME NEW x \in Int, NEW lo \in Int, NEW hi \in Int
  PROVE  Clamp(x, lo, hi) \in Int
<1> DEFINE m == Min({x, hi})
<1>1. m \in {x, hi}
  <2>1. \E y \in {x, hi} : \A z \in {x, hi} : y =< z
    <3>1. CASE x <= hi
      BY <3>1
    <3>2. CASE ~(x <= hi)
      <4>1. hi <= x
        BY <3>2
      <4>2. QED
        BY <4>1
    <3>3. QED
      BY <3>1, <3>2
  <2>2. QED
    BY <2>1 DEF Min
<1> HIDE DEF m
<1>2. Max({lo, m}) \in {lo, m}
  <2>1. m \in Int
    BY <1>1
  <2>2. \E y \in {lo, m} : \A z \in {lo, m} : y >= z
    <3>1. CASE lo >= m
      BY <2>1, <3>1
    <3>2. CASE ~(lo >= m)
      <4>1. m >= lo
        BY <2>1, <3>2
      <4>2. QED
        BY <2>1, <4>1
    <3>3. QED
      BY <3>1, <3>2
  <2>3. QED
    BY <2>2 DEF Max
<1>3. QED
  BY <1>1, <1>2 DEF Clamp, m

LEMMA DrawOrderTyped ==
  ASSUME camera \in Int \X Int, distance \in Int
  PROVE  DrawOrder \in Seq(Triple)
<1> DEFINE x == DrawLow(1)
           y == DrawLow(2)
           nx == DrawHigh(1) - DrawLow(1)
           nz == WorldChunks[3]
           n == Cardinality(Visible)
<1>1. /\ WorldChunks[1] \in Nat /\ WorldChunks[2] \in Nat /\ WorldChunks[3] \in Nat
      /\ camera[1] \in Int /\ camera[2] \in Int
  BY RendererAssumption DEF Axis
<1>2. DrawLow(1) \in Int /\ DrawHigh(1) \in Int /\ DrawLow(2) \in Int
  <2>1. /\ camera[1] - distance \in Int /\ camera[2] - distance \in Int
        /\ camera[1] + distance \in Int
    BY <1>1
  <2>2. WorldChunks[1] \in Int /\ WorldChunks[2] \in Int /\ 0 \in Int
    BY <1>1
  <2>3. DrawLow(1) \in Int
    <3>1. Clamp(camera[1] - distance, 0, WorldChunks[1]) \in Int
      BY <2>1, <2>2, ClampTyped, Zenon
    <3>2. QED
      BY <3>1 DEF DrawLow
  <2>4. DrawHigh(1) \in Int
    <3>1. Clamp(camera[1] + distance, 0, WorldChunks[1]) \in Int
      BY <2>1, <2>2, ClampTyped, Zenon
    <3>2. QED
      BY <3>1 DEF DrawHigh
  <2>5. DrawLow(2) \in Int
    <3>1. Clamp(camera[2] - distance, 0, WorldChunks[2]) \in Int
      BY <2>1, <2>2, ClampTyped, Zenon
    <3>2. QED
      BY <3>1 DEF DrawLow
  <2>6. QED
    BY <2>3, <2>4, <2>5
<1>3. IsFiniteSet(Visible) /\ n \in Nat
  <2>1. Visible \in SUBSET Chunks
    BY DEF Visible
  <2>2. QED
    BY <2>1, ChunksFinite, FS_Subset, FS_CardinalityType
<1>4. ASSUME NEW k \in 1 .. n
      PROVE  <<x + (((k - 1) \div nz) % nx), y + ((k - 1) \div (nx * nz)), (k - 1) % nz>> \in Triple
  <2>1. Visible # {}
    BY <1>3, <1>4, FS_EmptySet
  <2>2. PICK c \in Chunks : DrawLow(1) <= c[1] /\ c[1] < DrawHigh(1)
    BY <2>1 DEF Visible
  <2>3. c[1] \in Int /\ c[3] \in Int /\ 0 <= c[3] /\ c[3] < WorldChunks[3]
    BY <1>1 DEF Chunks, Box
  <2>4. nx \in Nat \ {0} /\ nz \in Nat \ {0} /\ x \in Int /\ y \in Int /\ k - 1 \in Int
    BY <1>1, <1>2, <1>3, <2>2, <2>3
  <2> DEFINE m == k - 1
             r1 == (m \div nz) % nx
             r2 == m \div (nx * nz)
             r3 == m % nz
  <2> HIDE DEF nx, nz, x, y, m
  <2>5. r3 \in Int /\ m \div nz \in Int
    BY <2>4 DEF m
  <2>6. r1 \in Int
    BY <2>4, <2>5
  <2>7. r2 \in Int
    <3>1. nx * nz \in Nat \ {0}
      BY <2>4
    <3>2. QED
      BY <2>4, <3>1 DEF m
  <2> HIDE DEF r1, r2, r3
  <2>8. <<x + r1, y + r2, r3>> \in Triple
    BY <2>4, <2>5, <2>6, <2>7 DEF Triple, Axis
  <2>9. QED
    BY <2>8 DEF r1, r2, r3, m
<1>5. DrawOrder = [k \in 1 .. n |->
         <<x + (((k - 1) \div nz) % nx), y + ((k - 1) \div (nx * nz)), (k - 1) % nz>>]
  BY DEF DrawOrder
<1> HIDE DEF n, x, y, nx, nz
<1>6. DrawOrder \in [1 .. n -> Triple]
  BY <1>4, <1>5
<1>7. QED
  BY <1>3, <1>6, FunctionIsSeq

-----------------------------------------------------------------------------
(* The invariant.                                                          *)

MeshInv ==
  /\ Sound(Current(0), entityVbo)
  /\ entityVbo \in Nat /\ distance \in Int /\ camera \in Int \X Int
  /\ chunkRebuildCount \in Nat /\ toDraw \in Seq(Triple)

\* The number of meshes added is of no matter for the others.
LEMMA CountFree ==
  ASSUME NEW st, NEW n \in Nat, NEW v, Sound(st, v)
  PROVE  Sound([st EXCEPT !.built = n], v)
<1> DEFINE t == [st EXCEPT !.built = n]
<1>1. st \in State
  BY DEF Sound
<1>2. /\ t \in State
      /\ t.made = st.made /\ t.opaque = st.opaque /\ t.cache = st.cache /\ t.buffer = st.buffer
  BY <1>1 DEF State
<1> HIDE DEF t
<1>3. LandscapeOf(t) = LandscapeOf(st)
  BY <1>2 DEF LandscapeOf
<1>4. Sound(t, v)
  BY <1>2, <1>3 DEF Sound, Apart, Fresh
<1>5. QED
  BY <1>4 DEF t

-----------------------------------------------------------------------------
(* The steps.                                                              *)

\* The faces of a chunk are those of the blocks in it and around it.
LEMMA FacesElsewhere ==
  ASSUME NEW c \in Triple, NEW land \in SUBSET Triple,
         NEW after \in SUBSET Triple, NEW D \in SUBSET Triple,
         \A b \in Triple \ D : b \in after <=> b \in land,
         \A b \in D : ChunkOf(b) # c /\ \A f \in Face : ChunkOf(Beyond(b, f)) # c
  PROVE  FacesIn(after, c) = FacesIn(land, c)
<1>1. \A b \in Range(BlocksOf(c)) : b \in Triple /\ ChunkOf(b) = c
  BY BlocksAreInChunk
<1>2. after \cap Range(BlocksOf(c)) = land \cap Range(BlocksOf(c))
  BY <1>1
<1>3. ASSUME NEW b \in Range(BlocksOf(c)), NEW f \in Face
      PROVE  Beyond(b, f) \in after <=> Beyond(b, f) \in land
  <2>1. b \in Triple /\ ChunkOf(b) = c
    BY <1>1
  <2>2. Beyond(b, f) \in Triple /\ \E g \in Face : Beyond(Beyond(b, f), g) = b
    BY <2>1, FaceBack
  <2>3. Beyond(b, f) \notin D
    BY <2>1, <2>2
  <2>4. QED
    BY <2>2, <2>3
<1> DEFINE S == land \cap Range(BlocksOf(c))
<1>4. \A bf \in S \X Face : Beyond(bf[1], bf[2]) \in after <=> Beyond(bf[1], bf[2]) \in land
  BY <1>3
<1>5. /\ FacesIn(after, c) = {bf \in S \X Face : Beyond(bf[1], bf[2]) \notin after}
      /\ FacesIn(land, c) = {bf \in S \X Face : Beyond(bf[1], bf[2]) \notin land}
  BY <1>2 DEF FacesIn
<1> HIDE DEF S
<1>6. QED
  BY <1>4, <1>5

LEMMA LandscapeTyped ==
  ASSUME NEW st \in State
  PROVE  LandscapeOf(st) \in SUBSET Triple
BY TerrainTyped DEF LandscapeOf, State

\* Marking all the meshes whose chunks look different afterwards keeps the rest fresh.
LEMMA MarkedSound ==
  ASSUME NEW st, NEW v, Sound(st, v), NEW t \in State, NEW M,
         t.buffer = st.buffer, t.cache = MarkDirty(st.cache, M),
         \A c \in DOMAIN st.cache \ M :
            FacesIn(LandscapeOf(t), c) = FacesIn(LandscapeOf(st), c)
  PROVE  Sound(t, v)
<1>1. st \in State /\ Apart(st) /\ \A c \in DOMAIN st.cache : Fresh(st, c)
  BY DEF Sound
<1>2. /\ DOMAIN t.cache = DOMAIN st.cache
      /\ \A c \in DOMAIN st.cache : /\ t.cache[c].name = st.cache[c].name
                                    /\ t.cache[c].dirty <=> st.cache[c].dirty \/ c \in M
  <2>1. st.cache \in Meshes
    BY <1>1 DEF State
  <2>2. QED
    BY <2>1, MarkDirtySound
<1>3. Apart(t) /\ Names(t.cache) = Names(st.cache)
  BY <1>1, <1>2 DEF Apart, Names
<1>4. \A c \in DOMAIN t.cache : Fresh(t, c)
  BY <1>1, <1>2 DEF Fresh
<1>5. QED
  BY <1>3, <1>4 DEF Sound

LEMMA GetChunksKeepsSound ==
  ASSUME NEW st, NEW v, Sound(st, v), NEW S \in SUBSET Triple
  PROVE  Sound(GetChunks(st, S), v)
<1> DEFINE g == GetChunks(st, S)
<1>1. st \in State /\ Apart(st) /\ \A c \in DOMAIN st.cache : Fresh(st, c)
  BY DEF Sound
<1>2. /\ g \in State /\ g.buffer = st.buffer
      /\ DOMAIN g.cache = DOMAIN st.cache
      /\ \A c \in DOMAIN st.cache : /\ g.cache[c].name = st.cache[c].name
                                    /\ st.cache[c].dirty => g.cache[c].dirty
      /\ LandscapeOf(g) = LandscapeOf(st)
  BY <1>1, GetChunksSound
<1> HIDE DEF g
<1>3. Apart(g) /\ Names(g.cache) = Names(st.cache)
  BY <1>1, <1>2 DEF Apart, Names
<1>4. \A c \in DOMAIN g.cache : Fresh(g, c)
  BY <1>1, <1>2 DEF Fresh
<1>5. Sound(g, v)
  BY <1>2, <1>3, <1>4 DEF Sound
<1>6. QED
  BY <1>5 DEF g

\* What the actions leave in the variables is such a state.
LEMMA SoundThen ==
  ASSUME NEW t, NEW v, Sound(t, v), Current(0)' = t, entityVbo' = v
  PROVE  Sound(Current(0), entityVbo)'
<1>1. Sound(Current(0)', entityVbo')
  OBVIOUS
<1>2. QED
  BY <1>1 DEF Sound, Apart, Fresh, Names, LandscapeOf, FacesIn, State, Meshes, Buffers, Mesh,
              FaceSet, Triple, Face, Beyond, BlocksOf, ZYXCoordIter, Corner, ChunkOf, Range

LEMMA SoundAfter ==
  ASSUME NEW st, NEW v, Sound(st, v), WorldAndCache(st), buffer' = st.buffer, entityVbo' = v
  PROVE  Sound(Current(0), entityVbo)'
<1> DEFINE t == [st EXCEPT !.built = 0]
<1>1. Sound(t, v)
  BY CountFree
<1>2. st \in State
  BY DEF Sound
<1>3. Current(0)' = t
  BY <1>2 DEF WorldAndCache, Current, State
<1> HIDE DEF t
<1>4. QED
  BY <1>1, <1>3, SoundThen

LEMMA ChunkIsTriple ==
  ASSUME NEW c \in Chunks
  PROVE  c \in Triple
<1>1. WorldChunks[1] \in Nat /\ WorldChunks[2] \in Nat /\ WorldChunks[3] \in Nat
  BY RendererAssumption DEF Axis
<1>2. QED
  BY <1>1 DEF Chunks, Box, Triple, Axis

LEMMA FetchChunkInv ==
  ASSUME MeshInv, NEW c \in Chunks, FetchChunk(c)
  PROVE  MeshInv'
<1> DEFINE g == GetChunks(Current(0), {c})
<1>1. /\ WorldAndCache(g)
      /\ UNCHANGED <<buffer, entityVbo, distance, chunkRebuildCount, camera, toDraw>>
  BY DEF FetchChunk, Change, frame
<1>2. {c} \in SUBSET Triple
  BY ChunkIsTriple
<1>3. Sound(Current(0), entityVbo) /\ Current(0) \in State
  BY DEF MeshInv, Sound
<1>4. Sound(g, entityVbo)
  BY <1>2, <1>3, GetChunksKeepsSound
<1>5. g.buffer = buffer
  BY <1>2, <1>3, GetChunksSound DEF Current
<1> HIDE DEF g
<1>6. Sound(Current(0), entityVbo)'
  BY <1>1, <1>4, <1>5, SoundAfter
<1>7. QED
  BY <1>1, <1>6 DEF MeshInv

\* A block is put, and blockUpdate() marks what it may change (renderer.cpp).
LEMMA PutBlockInv ==
  ASSUME MeshInv, NEW b \in Triple, NEW opaque \in BOOLEAN,
         PutBlock(b, opaque)
  PROVE  MeshInv'
<1> DEFINE st == GetChunks(Current(0), {ChunkOf(b)})
           blocks == IF opaque THEN st.opaque \cup {b} ELSE st.opaque \ {b}
           M == BlockUpdate(b)
           t == [st EXCEPT !.opaque = blocks, !.cache = MarkDirty(st.cache, M)]
<1>1. /\ WorldAndCache(t)
      /\ UNCHANGED <<buffer, entityVbo, distance, chunkRebuildCount, camera, toDraw>>
  BY DEF PutBlock, Change, frame
<1>2. ChunkOf(b) \in Triple /\ {ChunkOf(b)} \in SUBSET Triple
  BY ChunkOfTyped
<1>3. Sound(Current(0), entityVbo) /\ Current(0) \in State
  BY DEF MeshInv, Sound
<1>4. Sound(st, entityVbo) /\ st \in State
  <2>1. Sound(st, entityVbo)
    BY <1>2, <1>3, GetChunksKeepsSound, Zenon
  <2> HIDE DEF st
  <2>2. QED
    BY <2>1 DEF Sound
<1>5. st.buffer = buffer /\ ChunkOf(b) \in st.made
  BY <1>2, <1>3, GetChunksSound DEF Current
<1> HIDE DEF st
<1>6. blocks \in SUBSET Triple
  BY <1>4 DEF State
<1>7. MarkDirty(st.cache, M) \in Meshes /\ st.cache \in Meshes
  BY <1>4, MarkDirtySound DEF State
<1>8. /\ t \in State /\ t.buffer = st.buffer /\ t.cache = MarkDirty(st.cache, M)
      /\ t.made = st.made /\ t.opaque = blocks
  BY <1>4, <1>6, <1>7 DEF State
<1> HIDE DEF t
<1>9. ASSUME NEW c \in DOMAIN st.cache \ M
      PROVE  FacesIn(LandscapeOf(t), c) = FacesIn(LandscapeOf(st), c)
  <2>1. c \in Triple
    BY <1>7, MeshesTyped
  <2>2. LandscapeOf(t) \in SUBSET Triple /\ LandscapeOf(st) \in SUBSET Triple
    BY <1>4, <1>8, LandscapeTyped
  <2>3. \A x \in Triple \ {b} : x \in LandscapeOf(t) <=> x \in LandscapeOf(st)
    BY <1>8 DEF LandscapeOf
  <2>4. ChunkOf(b) # c /\ \A f \in Face : ChunkOf(Beyond(b, f)) # c
    BY <1>9, UpdateReaches DEF BlockUpdate
  <2> DEFINE D == {b}
  <2>5. /\ D \in SUBSET Triple
        /\ \A x \in Triple \ D : x \in LandscapeOf(t) <=> x \in LandscapeOf(st)
        /\ \A x \in D : ChunkOf(x) # c /\ \A f \in Face : ChunkOf(Beyond(x, f)) # c
    BY <2>3, <2>4
  <2> HIDE DEF D
  <2>6. QED
    BY <2>1, <2>2, <2>5, FacesElsewhere
<1> HIDE DEF M
<1>10. Sound(t, entityVbo)
  BY <1>4, <1>8, <1>9, MarkedSound
<1>11. Sound(Current(0), entityVbo)'
  BY <1>1, <1>5, <1>8, <1>10, SoundAfter
<1>12. QED
  BY <1>1, <1>11 DEF MeshInv

\* A chunk received takes the place of all its blocks, and chunkUpdate() marks it and
\* the six around it.
LEMMA ReceiveChunkInv ==
  ASSUME MeshInv, NEW d \in Chunks, NEW blocks, ReceiveChunk(d, blocks)
  PROVE  MeshInv'
<1> DEFINE st == GetChunks(Current(0), {d})
           D == Range(BlocksOf(d))
           solid == (st.opaque \ D) \cup blocks
           M == ChunkUpdate(d)
           t == [st EXCEPT !.opaque = solid, !.cache = MarkDirty(st.cache, M)]
<1>1. /\ WorldAndCache(t) /\ blocks \subseteq D
      /\ UNCHANGED <<buffer, entityVbo, distance, chunkRebuildCount, camera, toDraw>>
  BY DEF ReceiveChunk, Change, frame
<1>2. d \in Triple /\ {d} \in SUBSET Triple
  BY ChunkIsTriple
<1>3. Sound(Current(0), entityVbo) /\ Current(0) \in State
  BY DEF MeshInv, Sound
<1>4. Sound(st, entityVbo) /\ st \in State
  <2>1. Sound(st, entityVbo)
    BY <1>2, <1>3, GetChunksKeepsSound, Zenon
  <2> HIDE DEF st
  <2>2. QED
    BY <2>1 DEF Sound
<1>5. st.buffer = buffer
  BY <1>2, <1>3, GetChunksSound DEF Current
<1>b. \A b \in D : b \in Triple /\ ChunkOf(b) = d
  BY <1>2, BlocksAreInChunk
<1> HIDE DEF st, D
<1>6. solid \in SUBSET Triple
  BY <1>1, <1>4, <1>b DEF State
<1>7. MarkDirty(st.cache, M) \in Meshes /\ st.cache \in Meshes
  BY <1>4, MarkDirtySound DEF State
<1>8. /\ t \in State /\ t.buffer = st.buffer /\ t.cache = MarkDirty(st.cache, M)
      /\ t.made = st.made /\ t.opaque = solid
  BY <1>4, <1>6, <1>7 DEF State
<1> HIDE DEF t
<1>9. ASSUME NEW c \in DOMAIN st.cache \ M
      PROVE  FacesIn(LandscapeOf(t), c) = FacesIn(LandscapeOf(st), c)
  <2>1. c \in Triple
    BY <1>7, MeshesTyped
  <2>2. LandscapeOf(t) \in SUBSET Triple /\ LandscapeOf(st) \in SUBSET Triple
    BY <1>4, <1>8, LandscapeTyped
  <2>3. \A x \in Triple \ D : x \in LandscapeOf(t) <=> x \in LandscapeOf(st)
    BY <1>1, <1>8 DEF LandscapeOf
  <2>4. ASSUME NEW b \in D
        PROVE  ChunkOf(b) # c /\ \A f \in Face : ChunkOf(Beyond(b, f)) # c
    <3>1. \A f \in Face : ChunkOf(Beyond(b, f)) \in M
      BY <1>b, UpdateReaches
    <3>2. ChunkOf(b) \in M
      BY <1>b DEF ChunkUpdate
    <3>3. QED
      BY <1>9, <3>1, <3>2
  <2>5. D \in SUBSET Triple
    BY <1>b
  <2>6. QED
    BY <2>1, <2>2, <2>3, <2>4, <2>5, FacesElsewhere
<1> HIDE DEF M
<1>10. Sound(t, entityVbo)
  BY <1>4, <1>8, <1>9, MarkedSound
<1>11. Sound(Current(0), entityVbo)'
  BY <1>1, <1>5, <1>8, <1>10, SoundAfter
<1>12. QED
  BY <1>1, <1>11 DEF MeshInv

\* render() draws one chunk of its order.
LEMMA DrawChunkInv ==
  ASSUME MeshInv, DrawChunk
  PROVE  MeshInv'
<1> DEFINE cur == Current(chunkRebuildCount)
           st  == RenderChunk(cur, Head(toDraw))
<1>1. /\ toDraw # <<>> /\ WorldAndCache(st)
      /\ buffer' = st.buffer /\ chunkRebuildCount' = st.built
      /\ toDraw' = Tail(toDraw)
      /\ UNCHANGED <<entityVbo, distance, camera>>
  BY DEF DrawChunk
<1>2. Head(toDraw) \in Triple /\ Tail(toDraw) \in Seq(Triple)
  BY <1>1, HeadTailProperties DEF MeshInv
<1>3. Sound(cur, entityVbo)
  <2>1. cur = [Current(0) EXCEPT !.built = chunkRebuildCount]
    BY DEF Current
  <2>2. QED
    BY <2>1, CountFree DEF MeshInv
<1> HIDE DEF cur
<1>4. Sound(st, entityVbo)
  BY <1>2, <1>3, RenderChunkSound DEF MeshInv
<1>5. st.built \in Nat
  BY <1>4 DEF Sound, State
<1> HIDE DEF st
<1>6. Sound(Current(0), entityVbo)'
  BY <1>1, <1>4, SoundAfter
<1>7. QED
  BY <1>1, <1>2, <1>5, <1>6 DEF MeshInv

\* The entities are drawn from a buffer that no mesh has.
LEMMA DrawEntitiesInv ==
  ASSUME MeshInv, DrawEntities
  PROVE  MeshInv'
<1> DEFINE cube == {EntityCube}
           st == Current(0)
           t  == [st EXCEPT !.buffer = Upload(buffer, entityVbo, cube)]
<1>1. /\ buffer' = Upload(buffer, entityVbo, cube)
      /\ UNCHANGED <<world, cache, entityVbo, distance, chunkRebuildCount, camera, toDraw>>
  BY DEF DrawEntities
<1>2. /\ st \in State /\ Apart(st) /\ entityVbo \notin Names(st.cache) /\ entityVbo \in Nat
      /\ DOMAIN st.buffer = Names(st.cache) \cup {entityVbo} /\ IsFiniteSet(DOMAIN st.buffer)
      /\ \A d \in DOMAIN st.cache : Fresh(st, d)
      /\ st.buffer = buffer
  BY DEF MeshInv, Sound, Current
<1>3. cube \in FaceSet
  BY DEF EntityCube, FaceSet, Triple, Axis
<1>4. Current(0)' = t
  BY <1>1 DEF Current
<1> HIDE DEF cube, st
<1> DEFINE bufs == Upload(buffer, entityVbo, cube)
<1>5. /\ DOMAIN buffer \subseteq Nat /\ buffer \in [DOMAIN buffer -> FaceSet]
  BY <1>2, BuffersTyped DEF State
<1>6. /\ DOMAIN bufs = DOMAIN buffer /\ bufs \in [DOMAIN bufs -> FaceSet]
      /\ \A n \in DOMAIN buffer \ {entityVbo} : bufs[n] = buffer[n]
  BY <1>2, <1>3, <1>5 DEF Upload
<1> HIDE DEF bufs
<1>7. bufs \in Buffers
  BY <1>5, <1>6, BuffersTyped
<1>8. t \in State /\ t.buffer = bufs /\ t.cache = st.cache /\ t.made = st.made /\ t.opaque = st.opaque
  BY <1>2, <1>7 DEF State, bufs
<1> HIDE DEF t
<1>9. LandscapeOf(t) = LandscapeOf(st)
  BY <1>8 DEF LandscapeOf
<1>10. \A d \in DOMAIN t.cache : Fresh(t, d)
  <2>1. \A d \in DOMAIN st.cache : st.cache[d].name # entityVbo
    BY <1>2 DEF Names
  <2>2. QED
    BY <1>2, <1>6, <1>8, <1>9, <2>1 DEF Fresh
<1>11. Sound(t, entityVbo)
  BY <1>2, <1>6, <1>8, <1>10 DEF Sound, Apart
<1>12. Sound(Current(0), entityVbo)'
  BY <1>1, <1>4, <1>11, SoundThen
<1>13. QED
  BY <1>1, <1>12 DEF MeshInv

\* render() starts: no mesh is touched.
LEMMA BeginFrameInv ==
  ASSUME MeshInv, BeginFrame
  PROVE  MeshInv'
<1>1. /\ UNCHANGED <<world, cache, buffer, entityVbo, distance, camera>>
      /\ toDraw' = DrawOrder /\ chunkRebuildCount' = 0
  BY DEF BeginFrame, FirstRebuild
<1>2. DrawOrder \in Seq(Triple)
  BY DrawOrderTyped DEF MeshInv
<1>3. Current(0)' = Current(0)
  BY <1>1 DEF Current
<1>4. Sound(Current(0), entityVbo)'
  BY <1>1, <1>3, SoundThen DEF MeshInv
<1>5. QED
  BY <1>1, <1>2, <1>4 DEF MeshInv

\* The settings and the camera are of no matter to the meshes there are.
LEMMA SettingsInv ==
  ASSUME MeshInv, UNCHANGED <<world, cache, buffer, entityVbo, chunkRebuildCount, toDraw>>,
         distance' \in Int, camera' \in Int \X Int
  PROVE  MeshInv'
<1>1. Current(0)' = Current(0)
  BY DEF Current
<1>2. Sound(Current(0), entityVbo)'
  BY <1>1, SoundThen DEF MeshInv
<1>3. QED
  BY <1>2 DEF MeshInv

\* A new renderer: no mesh, and the buffer of the entities.
LEMMA NoMeshSound ==
  ASSUME NEW left, DOMAIN left = {}, NEW v \in Nat
  PROVE  Sound([made |-> {}, opaque |-> {}, cache |-> <<>>,
                buffer |-> Upload(left, v, {}), built |-> 0], v)
<1> DEFINE bufs  == Upload(left, v, {})
           empty == [c \in {} |-> 0]
           st == [made |-> {}, opaque |-> {}, cache |-> <<>>, buffer |-> bufs, built |-> 0]
<1>1. DOMAIN bufs = {v} /\ bufs \in [{v} -> FaceSet]
  BY DEF Upload, FaceSet
<1> HIDE DEF bufs
<1>2. bufs \in Buffers
  BY <1>1, BuffersTyped
<1>3. DOMAIN <<>> = {} /\ <<>> \in [{} -> Mesh]
  OBVIOUS
<1>4. <<>> \in Meshes
  BY <1>3, MeshesTyped
<1>5. /\ st \in State /\ st.cache = <<>> /\ st.buffer = bufs
  BY <1>2, <1>4 DEF State
<1> HIDE DEF st
<1>6. Names(st.cache) = {} /\ Apart(st)
  BY <1>3, <1>5 DEF Names, Apart
<1>7. IsFiniteSet(DOMAIN st.buffer)
  BY <1>1, <1>5, FS_Singleton
<1>8. Sound(st, v)
  BY <1>1, <1>3, <1>5, <1>6, <1>7 DEF Sound
<1>9. QED
  BY <1>8 DEF st, bufs

\* The old renderer's buffers are all the buffers there were.
LEMMA ProcessConnectInv ==
  ASSUME MeshInv, ProcessConnect
  PROVE  MeshInv'
<1> DEFINE left == DeleteBuffers(buffer, {entityVbo} \cup {cache[c].name : c \in DOMAIN cache})
<1>1. /\ world' = NewWorld /\ cache' = <<>> /\ distance' \in Distances
      /\ entityVbo' = FreeName(DOMAIN left) /\ buffer' = Upload(left, entityVbo', {})
      /\ UNCHANGED <<chunkRebuildCount, camera, toDraw>>
  BY DEF ProcessConnect, Change, frame
<1>2. DOMAIN buffer = Names(cache) \cup {entityVbo}
  BY DEF MeshInv, Sound, Current
<1>3. DOMAIN left = {}
  BY <1>2 DEF DeleteBuffers, Names
<1> HIDE DEF left
<1>4. entityVbo' \in Nat
  BY <1>1, <1>3, FS_EmptySet, FreeNameSound
<1> DEFINE v == entityVbo'
           t == [made |-> {}, opaque |-> {}, cache |-> <<>>,
                 buffer |-> Upload(left, v, {}), built |-> 0]
<1>5. Current(0)' = t
  BY <1>1 DEF Current, NewWorld
<1>6. Sound(t, v)
  <2> HIDE DEF v
  <2>1. v \in Nat
    BY <1>4 DEF v
  <2>2. QED
    BY <1>3, <2>1, NoMeshSound
<1> HIDE DEF t
<1>7. Sound(Current(0), entityVbo)'
  BY <1>5, <1>6, SoundThen
<1>8. distance' \in Int
  BY <1>1, RendererAssumption
<1>9. QED
  BY <1>1, <1>4, <1>7, <1>8 DEF MeshInv

-----------------------------------------------------------------------------
(* The theorems.                                                           *)

LEMMA MeshInit ==
  ASSUME Init
  PROVE  MeshInv
<1> DEFINE t == [made |-> {}, opaque |-> {}, cache |-> <<>>,
                 buffer |-> Upload(<<>>, 1, {}), built |-> 0]
<1>1. Current(0) = t /\ entityVbo = 1
  BY DEF Init, NewWorld, Current
<1>2. Sound(t, 1)
  <2>1. DOMAIN <<>> = {} /\ 1 \in Nat
    OBVIOUS
  <2>2. QED
    BY <2>1, NoMeshSound, Zenon
<1> HIDE DEF t
<1>3. Sound(Current(0), entityVbo)
  BY <1>1, <1>2
<1>4. distance \in Int /\ camera \in Int \X Int /\ chunkRebuildCount \in Nat /\ toDraw = <<>>
  BY RendererAssumption DEF Init
<1>5. QED
  BY <1>1, <1>3, <1>4 DEF MeshInv

LEMMA MeshNext ==
  ASSUME MeshInv, [Next]_vars
  PROVE  MeshInv'
<1>1. ASSUME NEW d \in Distances, SetRenderDistance(d)
      PROVE  MeshInv'
  <2>1. /\ UNCHANGED <<world, cache, buffer, entityVbo, chunkRebuildCount, toDraw>>
        /\ distance' \in Int /\ camera' \in Int \X Int
    BY <1>1, RendererAssumption DEF SetRenderDistance, Change, frame, MeshInv
  <2>2. QED
    BY <2>1, SettingsInv
<1>2. ASSUME NEW to \in Cameras, MoveCamera(to)
      PROVE  MeshInv'
  <2>1. /\ UNCHANGED <<world, cache, buffer, entityVbo, chunkRebuildCount, toDraw>>
        /\ distance' \in Int /\ camera' \in Int \X Int
    BY <1>2, RendererAssumption DEF MoveCamera, Change, frame, MeshInv
  <2>2. QED
    BY <2>1, SettingsInv
<1>3. ASSUME NEW c \in Chunks,
             \/ FetchChunk(c) \/ ReceiveChunk(c, {}) \/ ReceiveChunk(c, Range(BlocksOf(c)))
      PROVE  MeshInv'
  <2>1. CASE FetchChunk(c)
    BY <2>1, FetchChunkInv
  <2>2. CASE ReceiveChunk(c, {})
    BY <2>2, ReceiveChunkInv
  <2>3. CASE ReceiveChunk(c, Range(BlocksOf(c)))
    BY <2>3, ReceiveChunkInv
  <2>4. QED
    BY <1>3, <2>1, <2>2, <2>3
<1>4. ASSUME NEW c \in Chunks, NEW b \in Range(BlocksOf(c)), NEW opaque \in BOOLEAN,
             PutBlock(b, opaque)
      PROVE  MeshInv'
  <2>1. b \in Triple
    BY ChunkIsTriple, BlocksAreInChunk
  <2>2. QED
    BY <1>4, <2>1, PutBlockInv
<1>5. CASE UNCHANGED vars
  <2>1. /\ UNCHANGED <<world, cache, buffer, entityVbo, chunkRebuildCount, toDraw>>
        /\ distance' \in Int /\ camera' \in Int \X Int
    BY <1>5 DEF vars, frame, MeshInv
  <2>2. QED
    BY <2>1, SettingsInv
<1>6. CASE BeginFrame \/ DrawChunk \/ DrawEntities \/ ProcessConnect
  BY <1>6, BeginFrameInv, DrawChunkInv, DrawEntitiesInv, ProcessConnectInv
<1>7. QED
  BY <1>1, <1>2, <1>3, <1>4, <1>5, <1>6 DEF Next

\* The inductive invariant of the renderer.
THEOREM MeshInvariance ==
  Spec => []MeshInv
<1>1. Init => MeshInv
  BY MeshInit
<1>2. MeshInv /\ [Next]_vars => MeshInv'
  BY MeshNext
<1>3. QED
  BY <1>1, <1>2, PTL DEF Spec

\* What OpenGL holds for each mesh not marked dirty is what its chunk shows.
THEOREM MeshesStayFresh ==
  Spec => []MeshesFresh
<1>1. MeshInv => MeshesFresh
  <2>1. LandscapeOf(Current(0)) = Landscape
    BY DEF LandscapeOf, Current, Landscape
  <2>2. \A c : FacesIn(Landscape, c) = ShownFaces(c)
    BY DEF FacesIn, ShownFaces
  <2>3. ASSUME MeshInv, NEW c \in DOMAIN cache, ~cache[c].dirty
        PROVE  /\ cache[c].name \in DOMAIN buffer
               /\ buffer[cache[c].name] = ShownFaces(c)
    <3>1. Current(0).cache = cache /\ Current(0).buffer = buffer
      BY DEF Current
    <3>2. Fresh(Current(0), c)
      BY <2>3, <3>1 DEF MeshInv, Sound
    <3>3. QED
      BY <2>1, <2>2, <2>3, <3>1, <3>2 DEF Fresh
  <2>4. QED
    BY <2>3 DEF MeshesFresh
<1>2. QED
  BY <1>1, MeshInvariance, PTL

\* The buffer names in use are the entities' and one for each mesh, all different.
BuffersOwned ==
  /\ DOMAIN buffer = {cache[c].name : c \in DOMAIN cache} \cup {entityVbo}
  /\ \A c \in DOMAIN cache : cache[c].name # entityVbo
  /\ \A c, d \in DOMAIN cache : cache[c].name = cache[d].name => c = d

\* No buffer is leaked or shared, through the temporary that vboCache_.put() copies and
\* through reconnections, each with a renderer of its own.
THEOREM BuffersStayOwned ==
  Spec => []BuffersOwned
<1>1. MeshInv => BuffersOwned
  <2>1. Current(0).cache = cache /\ Current(0).buffer = buffer
    BY DEF Current
  <2>2. QED
    BY <2>1 DEF MeshInv, Sound, Apart, Names, BuffersOwned
<1>2. QED
  BY <1>1, MeshInvariance, PTL

-----------------------------------------------------------------------------
(* The ring of a signal.                                                   *)

LinkAddress == Addresses \cup {RingHead}

Links == [active : BOOLEAN, next : LinkAddress, prev : LinkAddress, refs : Nat]

LinksOK(l) == DOMAIN l \subseteq LinkAddress /\ l \in [DOMAIN l -> Links]

\* m has links of l, which may be counted otherwise.
SameLinks(l, m) ==
  \A a \in DOMAIN m : /\ a \in DOMAIN l
                      /\ m[a].active = l[a].active
                      /\ m[a].next = l[a].next /\ m[a].prev = l[a].prev

\* The links Q are a ring, which reads the same both ways.
Ringed(l, Q) ==
  /\ RingHead \in Q /\ Q \subseteq DOMAIN l
  /\ \A a \in Q : /\ l[a].next \in Q /\ l[a].prev \in Q
                  /\ l[l[a].next].prev = a /\ l[l[a].prev].next = a
  /\ \A a \in DOMAIN l \ {RingHead} : l[a].active <=> a \in Q

\* rank grows along the ring Q, from the head to the last link and no further.
Ranked(l, Q, rank) ==
  /\ rank[RingHead] = 0
  /\ \A a, b \in Q : rank[a] = rank[b] => a = b
  /\ \A a \in Q : l[a].next # RingHead => rank[a] < rank[l[a].next]
  /\ \A a, b \in Q : rank[a] < rank[b] =>
                       l[a].next # RingHead /\ rank[l[a].next] <= rank[b]

Ranks == [LinkAddress -> Nat]

\* The links reached from the head are those of the ring.
LEMMA RingReached ==
  ASSUME NEW Q, NEW rank \in Ranks, LinksOK(link), Ringed(link, Q), Ranked(link, Q, rank)
  PROVE  Ring = Q \ {RingHead}
<1>q. Q \subseteq DOMAIN link /\ Q \subseteq LinkAddress /\ RingHead \in Q
  BY DEF Ringed, LinksOK
<1>1. ASSUME NEW a \in Ring
      PROVE  a \in Q \ {RingHead}
  <2>1. Q \in SUBSET DOMAIN link /\ RingHead \in Q /\ \A b \in Q : link[b].next \in Q
    BY DEF Ringed
  <2>2. QED
    BY <1>1, <2>1 DEF Ring
<1>2. ASSUME NEW a \in Q \ {RingHead}
      PROVE  a \in Ring
  <2> SUFFICES ASSUME NEW S \in SUBSET DOMAIN link, RingHead \in S,
                      \A b \in S : link[b].next \in S, a \notin S
               PROVE  FALSE
    BY <1>q DEF Ring
  <2> DEFINE T == {rank[c] : c \in Q \ S}
  <2>1. T \subseteq Nat /\ T # {}
    BY <1>q DEF Ranks
  <2>2. PICK m \in T : \A t \in T : m <= t
    <3> HIDE DEF T
    <3>1. QED
      BY <2>1, LeastElement
  <2>3. PICK c \in Q \ S : m = rank[c]
    OBVIOUS
  <2>4. /\ link[c].prev \in Q /\ link[link[c].prev].next = c /\ c # RingHead
    BY <2>3 DEF Ringed
  <2>5. rank[link[c].prev] < rank[c]
    BY <2>4 DEF Ranked
  <2>6. rank[link[c].prev] \in Nat /\ rank[c] \in Nat
    BY <1>q, <2>4 DEF Ranks
  <2>7. link[c].prev \in S
    BY <2>2, <2>3, <2>4, <2>5, <2>6
  <2>8. QED
    BY <2>3, <2>4, <2>7
<1>3. QED
  BY <1>1, <1>2

\* incref() changes a reference count.
LEMMA IncRefLinks ==
  ASSUME NEW l, LinksOK(l), NEW y \in DOMAIN l
  PROVE  /\ LinksOK(IncRef(l, y)) /\ SameLinks(l, IncRef(l, y))
         /\ DOMAIN IncRef(l, y) = DOMAIN l
         /\ \A a \in DOMAIN l :
              IncRef(l, y)[a].refs = IF a = y THEN l[a].refs + 1 ELSE l[a].refs
<1> DEFINE m == IncRef(l, y)
           r == [l[y] EXCEPT !.refs = l[y].refs + 1]
<1>1. l[y] \in Links /\ \A a \in DOMAIN l : l[a] \in Links
  BY DEF LinksOK
<1>2. m = [l EXCEPT ![y] = r]
  BY DEF IncRef
<1>3. /\ r \in Links /\ r.refs = l[y].refs + 1
      /\ r.active = l[y].active /\ r.next = l[y].next /\ r.prev = l[y].prev
  BY <1>1 DEF Links
<1> HIDE DEF m, r
<1>4. DOMAIN m = DOMAIN l /\ \A a \in DOMAIN l : m[a] = IF a = y THEN r ELSE l[a]
  BY <1>2
<1>5. LinksOK(m)
  BY <1>1, <1>2, <1>3 DEF LinksOK
<1>6. SameLinks(l, m)
  BY <1>3, <1>4 DEF SameLinks
<1>7. \A a \in DOMAIN l : m[a].refs = IF a = y THEN l[a].refs + 1 ELSE l[a].refs
  BY <1>3, <1>4
<1>8. QED
  BY <1>4, <1>5, <1>6, <1>7 DEF m

\* decref() changes it back, or frees the link.
LEMMA DecRefLinks ==
  ASSUME NEW l, LinksOK(l), NEW x \in DOMAIN l, l[x].refs # 0
  PROVE  /\ LinksOK(DecRef(l, x)) /\ SameLinks(l, DecRef(l, x))
         /\ DOMAIN DecRef(l, x) = IF l[x].refs = 1 THEN DOMAIN l \ {x} ELSE DOMAIN l
         /\ \A a \in DOMAIN DecRef(l, x) :
              DecRef(l, x)[a].refs = IF a = x THEN l[a].refs - 1 ELSE l[a].refs
<1> DEFINE m == DecRef(l, x)
           r == [l[x] EXCEPT !.refs = l[x].refs - 1]
<1>1. l[x] \in Links /\ \A a \in DOMAIN l : l[a] \in Links
  BY DEF LinksOK
<1>2. CASE l[x].refs = 1
  <2>1. m = [a \in DOMAIN l \ {x} |-> l[a]]
    <3>1. DOMAIN l \cap (DOMAIN l \ {x}) = DOMAIN l \ {x}
      OBVIOUS
    <3>2. QED
      BY <1>2, <3>1 DEF DecRef, Restricted
  <2> HIDE DEF m
  <2>2. DOMAIN m = DOMAIN l \ {x} /\ \A a \in DOMAIN l \ {x} : m[a] = l[a]
    BY <2>1
  <2>3. LinksOK(m)
    BY <1>1, <2>1 DEF LinksOK
  <2>4. SameLinks(l, m)
    BY <2>2 DEF SameLinks
  <2>5. QED
    BY <1>2, <2>2, <2>3, <2>4 DEF m
<1>3. CASE l[x].refs # 1
  <2>1. m = [l EXCEPT ![x] = r]
    BY <1>3 DEF DecRef
  <2>2. /\ r \in Links /\ r.refs = l[x].refs - 1
        /\ r.active = l[x].active /\ r.next = l[x].next /\ r.prev = l[x].prev
    BY <1>1 DEF Links
  <2> HIDE DEF m, r
  <2>3. DOMAIN m = DOMAIN l /\ \A a \in DOMAIN l : m[a] = IF a = x THEN r ELSE l[a]
    BY <2>1
  <2>4. LinksOK(m)
    BY <1>1, <2>1, <2>2 DEF LinksOK
  <2>5. SameLinks(l, m)
    BY <2>2, <2>3 DEF SameLinks
  <2>6. \A a \in DOMAIN m : m[a].refs = IF a = x THEN l[a].refs - 1 ELSE l[a].refs
    BY <2>2, <2>3
  <2>7. QED
    BY <1>3, <2>3, <2>4, <2>5, <2>6 DEF m
<1>4. QED
  BY <1>2, <1>3

\* What is no link of the ring may go.
LEMMA RingKept ==
  ASSUME NEW l, NEW m, NEW Q, NEW rank, Ringed(l, Q), Ranked(l, Q, rank),
         SameLinks(l, m), Q \subseteq DOMAIN m
  PROVE  Ringed(m, Q) /\ Ranked(m, Q, rank)
<1>1. \A a \in DOMAIN m : /\ a \in DOMAIN l
                          /\ m[a].active = l[a].active
                          /\ m[a].next = l[a].next /\ m[a].prev = l[a].prev
  BY DEF SameLinks
<1>2. \A a \in Q : l[a].next \in Q /\ l[a].prev \in Q
  BY DEF Ringed
<1>3. Ringed(m, Q)
  BY <1>1, <1>2 DEF Ringed
<1>4. \A a \in Q : m[a].next = l[a].next
  BY <1>1
<1>5. Ranked(m, Q, rank)
  BY <1>4 DEF Ranked
<1>6. QED
  BY <1>3, <1>5

-----------------------------------------------------------------------------
(* Reference counts.                                                       *)

\* The references a link has from the ring and from the signal.
RingRefs(Q, a) == IF a = RingHead THEN 2 ELSE IF a \in Q THEN 1 ELSE 0

\* Each link has those, and one from each of the emissions, n[a], that stand on it.
Counted(l, Q, n) ==
  /\ n \in [LinkAddress -> Nat]
  /\ \A a \in DOMAIN l : l[a].refs = RingRefs(Q, a) + n[a] /\ l[a].refs # 0
  /\ \A a \in LinkAddress : n[a] # 0 => a \in DOMAIN l

LEMMA IncRefCounted ==
  ASSUME NEW l, NEW Q, NEW n, LinksOK(l), Counted(l, Q, n), NEW y \in DOMAIN l
  PROVE  Counted(IncRef(l, y), Q, [n EXCEPT ![y] = n[y] + 1])
<1> DEFINE m == IncRef(l, y)
           p == [n EXCEPT ![y] = n[y] + 1]
<1>1. /\ DOMAIN m = DOMAIN l
      /\ \A a \in DOMAIN l : m[a].refs = IF a = y THEN l[a].refs + 1 ELSE l[a].refs
  BY IncRefLinks
<1>2. /\ n \in [LinkAddress -> Nat] /\ DOMAIN l \subseteq LinkAddress
      /\ \A a \in DOMAIN l : l[a].refs = RingRefs(Q, a) + n[a] /\ l[a].refs # 0
      /\ \A a \in LinkAddress : n[a] # 0 => a \in DOMAIN l
  BY DEF Counted, LinksOK
<1>3. \A a \in DOMAIN l : RingRefs(Q, a) \in Nat
  BY DEF RingRefs
<1>4. /\ p \in [LinkAddress -> Nat]
      /\ \A a \in LinkAddress : p[a] = IF a = y THEN n[a] + 1 ELSE n[a]
  BY <1>2
<1> HIDE DEF m, p
<1>5. Counted(m, Q, p)
  BY <1>1, <1>2, <1>3, <1>4 DEF Counted
<1>6. QED
  BY <1>5 DEF m, p

LEMMA DecRefCounted ==
  ASSUME NEW l, NEW Q, NEW n, LinksOK(l), Counted(l, Q, n), Q \subseteq DOMAIN l,
         RingHead \in Q, NEW x \in LinkAddress, n[x] # 0
  PROVE  /\ Counted(DecRef(l, x), Q, [n EXCEPT ![x] = n[x] - 1])
         /\ LinksOK(DecRef(l, x)) /\ SameLinks(l, DecRef(l, x))
         /\ Q \subseteq DOMAIN DecRef(l, x)
<1> DEFINE m == DecRef(l, x)
           p == [n EXCEPT ![x] = n[x] - 1]
<1>1. /\ n \in [LinkAddress -> Nat] /\ DOMAIN l \subseteq LinkAddress
      /\ \A a \in DOMAIN l : l[a].refs = RingRefs(Q, a) + n[a] /\ l[a].refs # 0
      /\ \A a \in LinkAddress : n[a] # 0 => a \in DOMAIN l
  BY DEF Counted, LinksOK
<1>2. x \in DOMAIN l /\ l[x].refs # 0
  BY <1>1
<1>3. /\ LinksOK(m) /\ SameLinks(l, m)
      /\ DOMAIN m = IF l[x].refs = 1 THEN DOMAIN l \ {x} ELSE DOMAIN l
      /\ \A a \in DOMAIN m : m[a].refs = IF a = x THEN l[a].refs - 1 ELSE l[a].refs
  BY <1>2, DecRefLinks
<1>4. /\ p \in [LinkAddress -> Nat]
      /\ \A a \in LinkAddress : p[a] = IF a = x THEN n[a] - 1 ELSE n[a]
  BY <1>1
<1>5. \A a \in DOMAIN l : RingRefs(Q, a) \in Nat /\ (a \in Q => RingRefs(Q, a) # 0)
  BY DEF RingRefs
<1> HIDE DEF m, p
<1>6. Q \subseteq DOMAIN m
  BY <1>1, <1>2, <1>3, <1>5
<1>7. Counted(m, Q, p)
  <2>1. ASSUME NEW a \in DOMAIN m
        PROVE  m[a].refs = RingRefs(Q, a) + p[a] /\ m[a].refs # 0
    <3>1. a \in DOMAIN l /\ a \in LinkAddress /\ (a = x => l[x].refs # 1)
      BY <1>1, <1>3
    <3>2. n[a] \in Nat /\ RingRefs(Q, a) \in Nat
      BY <1>1, <1>5, <3>1
    <3>3. QED
      BY <1>1, <1>3, <1>4, <3>1, <3>2
  <2>2. ASSUME NEW a \in LinkAddress, p[a] # 0
        PROVE  a \in DOMAIN m
    <3>1. CASE a = x
      <4>1. n[x] # 1 /\ n[x] \in Nat /\ RingRefs(Q, x) \in Nat
        BY <1>1, <1>2, <1>4, <1>5, <2>2, <3>1
      <4>2. l[x].refs # 1
        BY <1>1, <1>2, <4>1
      <4>3. QED
        BY <1>2, <1>3, <3>1, <4>2
    <3>2. CASE a # x
      BY <1>1, <1>3, <1>4, <2>2, <3>2
    <3>3. QED
      BY <3>1, <3>2
  <2>3. QED
    BY <1>4, <2>1, <2>2 DEF Counted
<1>8. QED
  BY <1>3, <1>6, <1>7 DEF m, p

Frames == [at : LinkAddress, phase : {"arrived", "calling", "done"},
           due : SUBSET LinkAddress, calls : [LinkAddress -> Nat]]

StandingOn(ems, a) == {k \in DOMAIN ems : ems[k].at = a}

\* How many emissions stand on each link.
Standing(ems) == [a \in LinkAddress |-> Cardinality(StandingOn(ems, a))]

LEMMA StandingFinite ==
  ASSUME NEW ems \in Seq(Frames), NEW a
  PROVE  IsFiniteSet(StandingOn(ems, a)) /\ Cardinality(StandingOn(ems, a)) \in Nat
<1>1. DOMAIN ems = 1 .. Len(ems) /\ Len(ems) \in Nat
  BY LenProperties
<1>2. IsFiniteSet(1 .. Len(ems))
  BY <1>1, FS_Interval
<1>3. StandingOn(ems, a) \in SUBSET (1 .. Len(ems))
  BY <1>1 DEF StandingOn
<1>4. IsFiniteSet(StandingOn(ems, a))
  BY <1>2, <1>3, FS_Subset
<1>5. QED
  BY <1>4, FS_CardinalityType

LEMMA StandingType ==
  ASSUME NEW ems \in Seq(Frames)
  PROVE  /\ Standing(ems) \in [LinkAddress -> Nat]
         /\ \A k \in DOMAIN ems : ems[k].at \in LinkAddress /\ Standing(ems)[ems[k].at] # 0
<1>1. \A a : IsFiniteSet(StandingOn(ems, a)) /\ Cardinality(StandingOn(ems, a)) \in Nat
  BY StandingFinite, Zenon
<1>2. ASSUME NEW k \in DOMAIN ems
      PROVE  ems[k].at \in LinkAddress /\ Cardinality(StandingOn(ems, ems[k].at)) # 0
  <2>1. ems[k] \in Frames
    BY LenProperties, ElementOfSeq
  <2>2. k \in StandingOn(ems, ems[k].at)
    BY DEF StandingOn
  <2>3. Cardinality(StandingOn(ems, ems[k].at)) # 0
    BY <1>1, <2>2, FS_EmptySet
  <2>4. QED
    BY <2>1, <2>3 DEF Frames
<1>3. QED
  BY <1>1, <1>2 DEF Standing

LEMMA StandingNowhere ==
  Standing(<<>>) = [a \in LinkAddress |-> 0]
<1>1. \A a : StandingOn(<<>>, a) = {}
  BY DEF StandingOn
<1>2. QED
  BY <1>1, FS_EmptySet DEF Standing

\* Frames which stand where the others stand.
LEMMA StandingSame ==
  ASSUME NEW ems, NEW fs, DOMAIN fs = DOMAIN ems, \A k \in DOMAIN ems : fs[k].at = ems[k].at
  PROVE  Standing(fs) = Standing(ems)
<1>1. \A a : StandingOn(fs, a) = StandingOn(ems, a)
  BY DEF StandingOn
<1>2. QED
  BY <1>1 DEF Standing

\* An emission begins,
LEMMA StandingPushed ==
  ASSUME NEW ems \in Seq(Frames), NEW f \in Frames
  PROVE  Standing(Append(ems, f)) =
           [Standing(ems) EXCEPT ![f.at] = Standing(ems)[f.at] + 1]
<1> DEFINE n == Len(ems)
           fs == Append(ems, f)
<1>1. /\ n \in Nat /\ DOMAIN ems = 1 .. n
      /\ DOMAIN fs = 1 .. n + 1 /\ fs[n + 1] = f /\ \A k \in 1 .. n : fs[k] = ems[k]
  BY LenProperties, AppendProperties
<1>2. f.at \in LinkAddress
  BY DEF Frames
<1> HIDE DEF n, fs
<1>3. \A a : StandingOn(fs, a) = IF a = f.at THEN StandingOn(ems, a) \cup {n + 1}
                                 ELSE StandingOn(ems, a)
  BY <1>1 DEF StandingOn
<1>4. n + 1 \notin StandingOn(ems, f.at)
  BY <1>1 DEF StandingOn
<1>5. Cardinality(StandingOn(ems, f.at) \cup {n + 1}) = Cardinality(StandingOn(ems, f.at)) + 1
  BY <1>4, StandingFinite, FS_AddElement
<1>6. \A a \in LinkAddress : Cardinality(StandingOn(fs, a)) =
                               IF a = f.at THEN Cardinality(StandingOn(ems, a)) + 1
                               ELSE Cardinality(StandingOn(ems, a))
  BY <1>3, <1>5
<1>7. Standing(fs) = [Standing(ems) EXCEPT ![f.at] = Standing(ems)[f.at] + 1]
  BY <1>2, <1>6 DEF Standing
<1>8. QED
  BY <1>7 DEF fs

\* moves
LEMMA StandingMoved ==
  ASSUME NEW ems \in Seq(Frames), NEW n \in DOMAIN ems, NEW f \in Frames
  PROVE  LET more == [Standing(ems) EXCEPT ![f.at] = Standing(ems)[f.at] + 1]
         IN Standing([ems EXCEPT ![n] = f]) =
              [more EXCEPT ![ems[n].at] = more[ems[n].at] - 1]
<1> DEFINE fs == [ems EXCEPT ![n] = f]
           x == ems[n].at
           y == f.at
<1>1. DOMAIN fs = DOMAIN ems /\ fs[n] = f /\ \A k \in DOMAIN ems \ {n} : fs[k] = ems[k]
  OBVIOUS
<1>2. x \in LinkAddress /\ y \in LinkAddress
  BY StandingType DEF Frames
<1>3. \A a : Cardinality(StandingOn(ems, a)) \in Nat
  BY StandingFinite
<1> HIDE DEF fs, x, y
<1>4. \A a : a # x /\ a # y => StandingOn(fs, a) = StandingOn(ems, a)
  BY <1>1 DEF StandingOn, x, y
<1>5. x = y => StandingOn(fs, x) = StandingOn(ems, x)
  BY <1>1 DEF StandingOn, x, y
<1>6. ASSUME x # y
      PROVE  /\ Cardinality(StandingOn(fs, x)) = Cardinality(StandingOn(ems, x)) - 1
             /\ Cardinality(StandingOn(fs, y)) = Cardinality(StandingOn(ems, y)) + 1
  <2>1. StandingOn(fs, x) = StandingOn(ems, x) \ {n} /\ n \in StandingOn(ems, x)
    BY <1>1, <1>6 DEF StandingOn, x, y
  <2>2. StandingOn(fs, y) = StandingOn(ems, y) \cup {n} /\ n \notin StandingOn(ems, y)
    BY <1>1, <1>6 DEF StandingOn, x, y
  <2>3. Cardinality(StandingOn(ems, x) \ {n}) = Cardinality(StandingOn(ems, x)) - 1
    BY <2>1, StandingFinite, FS_RemoveElement
  <2>4. Cardinality(StandingOn(ems, y) \cup {n}) = Cardinality(StandingOn(ems, y)) + 1
    BY <2>2, StandingFinite, FS_AddElement
  <2>5. QED
    BY <2>1, <2>2, <2>3, <2>4
<1> DEFINE s == Standing(ems)
           more == [s EXCEPT ![y] = s[y] + 1]
           less == [more EXCEPT ![x] = more[x] - 1]
<1>7. /\ DOMAIN s = LinkAddress /\ DOMAIN Standing(fs) = LinkAddress
      /\ \A a \in LinkAddress : /\ s[a] = Cardinality(StandingOn(ems, a))
                                /\ Standing(fs)[a] = Cardinality(StandingOn(fs, a))
  BY DEF Standing
<1>8. \A a \in LinkAddress : s[a] \in Nat
  BY <1>3, <1>7
<1> HIDE DEF s
<1>9. /\ DOMAIN less = LinkAddress
      /\ \A a \in LinkAddress :
           less[a] = IF x = y THEN s[a]
                     ELSE IF a = x THEN s[a] - 1 ELSE IF a = y THEN s[a] + 1 ELSE s[a]
  BY <1>2, <1>7, <1>8
<1>10. \A a \in LinkAddress : Standing(fs)[a] = less[a]
  <2> HIDE DEF less
  <2>1. QED
    BY <1>2, <1>4, <1>5, <1>6, <1>7, <1>9
<1>11. Standing(fs) \in [LinkAddress -> Int] /\ less \in [LinkAddress -> Int]
  BY <1>2, <1>8, <1>10, <1>9 DEF Standing
<1>12. Standing(fs) = less
  BY <1>10, <1>11
<1>13. QED
  BY <1>12 DEF fs, less, more, s, x, y

\* and ends.
LEMMA StandingPopped ==
  ASSUME NEW ems \in Seq(Frames), ems # <<>>
  PROVE  /\ Front(ems) \in Seq(Frames)
         /\ DOMAIN Front(ems) \subseteq DOMAIN ems
         /\ \A k \in DOMAIN Front(ems) : Front(ems)[k] = ems[k]
         /\ Standing(Front(ems)) =
              [Standing(ems) EXCEPT ![ems[Len(ems)].at] = Standing(ems)[ems[Len(ems)].at] - 1]
<1> DEFINE n == Len(ems)
           fs == Front(ems)
           x == ems[n].at
<1>1. /\ n \in Nat \ {0} /\ DOMAIN ems = 1 .. n /\ fs \in Seq(Frames)
      /\ DOMAIN fs = 1 .. n - 1 /\ \A k \in 1 .. n - 1 : fs[k] = ems[k]
  BY LenProperties, FrontProperties, EmptySeq
<1>2. x \in LinkAddress
  BY <1>1, StandingType
<1> HIDE DEF n, fs, x
<1>3. \A a : StandingOn(fs, a) = IF a = x THEN StandingOn(ems, a) \ {n}
                                 ELSE StandingOn(ems, a)
  BY <1>1 DEF StandingOn, x
<1>4. n \in StandingOn(ems, x)
  BY <1>1 DEF StandingOn, x
<1>5. Cardinality(StandingOn(ems, x) \ {n}) = Cardinality(StandingOn(ems, x)) - 1
  BY <1>4, StandingFinite, FS_RemoveElement
<1>6. \A a \in LinkAddress : Cardinality(StandingOn(fs, a)) =
                               IF a = x THEN Cardinality(StandingOn(ems, a)) - 1
                               ELSE Cardinality(StandingOn(ems, a))
  BY <1>3, <1>5
<1>7. Standing(fs) = [Standing(ems) EXCEPT ![x] = Standing(ems)[x] - 1]
  BY <1>2, <1>6 DEF Standing
<1>8. QED
  BY <1>1, <1>7 DEF fs, n, x

-----------------------------------------------------------------------------
(* Removing a link, and adding one.                                        *)

LEMMA LinkFields ==
  ASSUME NEW r \in Links, NEW x \in LinkAddress
  PROVE  /\ [r EXCEPT !.active = FALSE] \in Links
         /\ [r EXCEPT !.active = FALSE].active = FALSE
         /\ [r EXCEPT !.active = FALSE].next = r.next
         /\ [r EXCEPT !.active = FALSE].prev = r.prev
         /\ [r EXCEPT !.active = FALSE].refs = r.refs
         /\ [r EXCEPT !.next = x] \in Links
         /\ [r EXCEPT !.next = x].active = r.active
         /\ [r EXCEPT !.next = x].next = x
         /\ [r EXCEPT !.next = x].prev = r.prev
         /\ [r EXCEPT !.next = x].refs = r.refs
         /\ [r EXCEPT !.prev = x] \in Links
         /\ [r EXCEPT !.prev = x].active = r.active
         /\ [r EXCEPT !.prev = x].next = r.next
         /\ [r EXCEPT !.prev = x].prev = x
         /\ [r EXCEPT !.prev = x].refs = r.refs
BY DEF Links

\* m is l with link a out of the ring Q.
Shrunk(l, Q, n, rank, a, m) ==
  /\ LinksOK(m) /\ Ringed(m, Q \ {a}) /\ Ranked(m, Q \ {a}, rank) /\ Counted(m, Q \ {a}, n)
  /\ DOMAIN m \subseteq DOMAIN l
  /\ \A c \in DOMAIN m \ (Q \ {a}) : m[c].next = l[c].next
  /\ m[RingHead].active = l[RingHead].active

\* unlink(): its neighbours close up, and it stays while an emission stands on it.
LEMMA UnlinkRing ==
  ASSUME NEW l, NEW Q, NEW n, NEW rank \in Ranks, NEW a \in Q \ {RingHead},
         LinksOK(l), Ringed(l, Q), Ranked(l, Q, rank), Counted(l, Q, n)
  PROVE  Shrunk(l, Q, n, rank, a, Unlink(l, a))
<1> DEFINE m == Unlink(l, a)
           P == Q \ {a}
           x == l[a].next
           p == l[a].prev
           k == [l EXCEPT ![a].active = FALSE, ![x].prev = p, ![p].next = x]
<1>1. /\ RingHead \in Q /\ Q \subseteq DOMAIN l /\ DOMAIN l \subseteq LinkAddress
      /\ x \in Q /\ p \in Q /\ l[x].prev = a /\ l[p].next = a
      /\ \A c \in DOMAIN l : l[c] \in Links
  BY DEF Ringed, LinksOK
<1>2. \A c \in DOMAIN l : rank[c] \in Nat
  BY <1>1 DEF Ranks
<1>3. rank[p] < rank[a] /\ p # a
  BY <1>1, <1>2 DEF Ranked
<1>4. x # RingHead => rank[a] < rank[x]
  BY DEF Ranked
<1>5. x # a
  BY <1>1, <1>2, <1>4
<1>6. m = DecRef(k, a)
  BY DEF Unlink
<1>7. /\ DOMAIN k = DOMAIN l /\ k \in [DOMAIN l -> Links]
      /\ \A c \in DOMAIN l : /\ k[c].active = IF c = a THEN FALSE ELSE l[c].active
                             /\ k[c].next = IF c = p THEN x ELSE l[c].next
                             /\ k[c].prev = IF c = x THEN p ELSE l[c].prev
                             /\ k[c].refs = l[c].refs
  <2> DEFINE r1 == [l[a] EXCEPT !.active = FALSE]
             l1 == [l EXCEPT ![a] = r1]
             r2 == [l1[x] EXCEPT !.prev = p]
             l2 == [l1 EXCEPT ![x] = r2]
             r3 == [l2[p] EXCEPT !.next = x]
             l3 == [l2 EXCEPT ![p] = r3]
  <2>1. k = l3
    OBVIOUS
  <2>2. l \in [DOMAIN l -> Links] /\ x \in LinkAddress /\ p \in LinkAddress /\ a \in DOMAIN l
        /\ x \in DOMAIN l /\ p \in DOMAIN l
    BY <1>1 DEF LinksOK
  <2> HIDE DEF x, p, m, k
  <2>3. /\ r1 \in Links /\ r1.active = FALSE
        /\ r1.next = l[a].next /\ r1.prev = l[a].prev /\ r1.refs = l[a].refs
    BY <2>2, LinkFields
  <2> HIDE DEF r1
  <2>4. /\ l1 \in [DOMAIN l -> Links]
        /\ \A c \in DOMAIN l : l1[c] = IF c = a THEN r1 ELSE l[c]
    BY <2>2, <2>3
  <2> HIDE DEF l1
  <2>5. /\ r2 \in Links /\ r2.active = l1[x].active
        /\ r2.next = l1[x].next /\ r2.prev = p /\ r2.refs = l1[x].refs
    <3>1. l1[x] \in Links /\ p \in LinkAddress
      BY <2>2, <2>4
    <3>2. QED
      BY <3>1, LinkFields
  <2> HIDE DEF r2
  <2>6. /\ l2 \in [DOMAIN l -> Links]
        /\ \A c \in DOMAIN l : l2[c] = IF c = x THEN r2 ELSE l1[c]
    BY <2>2, <2>4, <2>5
  <2> HIDE DEF l2
  <2>7. /\ r3 \in Links /\ r3.active = l2[p].active
        /\ r3.next = x /\ r3.prev = l2[p].prev /\ r3.refs = l2[p].refs
    <3>1. l2[p] \in Links /\ x \in LinkAddress
      BY <2>2, <2>6
    <3>2. QED
      BY <3>1, LinkFields
  <2> HIDE DEF r3
  <2>8. /\ l3 \in [DOMAIN l -> Links]
        /\ \A c \in DOMAIN l : l3[c] = IF c = p THEN r3 ELSE l2[c]
    BY <2>2, <2>6, <2>7
  <2> HIDE DEF l3
  <2>9. \A c \in DOMAIN l : /\ c # a => l1[c].active = l[c].active
                            /\ l1[c].next = l[c].next /\ l1[c].prev = l[c].prev
                            /\ l1[c].refs = l[c].refs
    BY <2>3, <2>4
  <2>10. \A c \in DOMAIN l : /\ l2[c].active = l1[c].active /\ l2[c].next = l1[c].next
                             /\ c # x => l2[c].prev = l1[c].prev
                             /\ l2[c].refs = l1[c].refs
    BY <2>5, <2>6
  <2>11. \A c \in DOMAIN l : /\ l3[c].active = l2[c].active
                             /\ c # p => l3[c].next = l2[c].next
                             /\ l3[c].prev = l2[c].prev /\ l3[c].refs = l2[c].refs
    BY <2>7, <2>8
  <2>a. l1[a].active = FALSE /\ l2[x].prev = p /\ l3[p].next = x
    BY <2>2, <2>3, <2>4, <2>5, <2>6, <2>7, <2>8
  <2>12. ASSUME NEW c \in DOMAIN l
         PROVE  /\ l3[c].active = IF c = a THEN FALSE ELSE l[c].active
                /\ l3[c].next = IF c = p THEN x ELSE l[c].next
                /\ l3[c].prev = IF c = x THEN p ELSE l[c].prev
                /\ l3[c].refs = l[c].refs
    <3>1. /\ l3[c].refs = l[c].refs /\ l3[c].active = l1[c].active
          /\ l3[c].prev = l2[c].prev /\ l2[c].next = l[c].next
      BY <2>9, <2>10, <2>11
    <3>2. c # a => l3[c].active = l[c].active
      BY <2>9, <3>1
    <3>3. c # p => l3[c].next = l[c].next
      BY <2>11, <3>1
    <3>4. c # x => l3[c].prev = l[c].prev
      BY <2>9, <2>10, <3>1
    <3>5. c = a => l3[c].active = FALSE
      BY <2>a, <3>1
    <3>6. c = x => l3[c].prev = p
      BY <2>a, <3>1
    <3>7. QED
      BY <2>a, <3>1, <3>2, <3>3, <3>4, <3>5, <3>6
  <2>13. DOMAIN l3 = DOMAIN l
    BY <2>8
  <2>14. QED
    BY <2>1, <2>8, <2>12, <2>13
<1>8. \A c \in DOMAIN l : l[c].refs \in Nat /\ l[c].refs = RingRefs(Q, c) + n[c] /\ l[c].refs # 0
  BY <1>1 DEF Counted, Links
<1> HIDE DEF k, m
<1>9. LinksOK(k)
  BY <1>1, <1>7 DEF LinksOK
<1>10. a \in DOMAIN k /\ k[a].refs = l[a].refs /\ k[a].refs # 0
  BY <1>1, <1>7, <1>8
<1>11. /\ LinksOK(m) /\ SameLinks(k, m)
       /\ DOMAIN m = IF l[a].refs = 1 THEN DOMAIN l \ {a} ELSE DOMAIN l
       /\ \A c \in DOMAIN m : m[c].refs = IF c = a THEN l[c].refs - 1 ELSE l[c].refs
  <2>1. /\ LinksOK(m) /\ SameLinks(k, m)
        /\ DOMAIN m = IF k[a].refs = 1 THEN DOMAIN k \ {a} ELSE DOMAIN k
        /\ \A c \in DOMAIN m : m[c].refs = IF c = a THEN k[c].refs - 1 ELSE k[c].refs
    BY <1>6, <1>9, <1>10, DecRefLinks
  <2>2. \A c \in DOMAIN m : c \in DOMAIN l
    BY <1>7, <2>1
  <2>3. DOMAIN m = IF l[a].refs = 1 THEN DOMAIN l \ {a} ELSE DOMAIN l
    BY <1>7, <1>10, <2>1
  <2>4. \A c \in DOMAIN l : k[c].refs = l[c].refs
    BY <1>7
  <2>5. \A c \in DOMAIN m : m[c].refs = IF c = a THEN l[c].refs - 1 ELSE l[c].refs
    BY <2>1, <2>2, <2>4
  <2>6. QED
    BY <2>1, <2>3, <2>5
<1>12. /\ DOMAIN m \subseteq DOMAIN l /\ P \subseteq DOMAIN m /\ RingHead \in P
       /\ \A c \in DOMAIN m :
            /\ m[c].active = IF c = a THEN FALSE ELSE l[c].active
            /\ m[c].next = IF c = p THEN x ELSE l[c].next
            /\ m[c].prev = IF c = x THEN p ELSE l[c].prev
  <2>1. /\ DOMAIN m \subseteq DOMAIN l
        /\ \A c \in DOMAIN m : /\ m[c].active = k[c].active
                                /\ m[c].next = k[c].next /\ m[c].prev = k[c].prev
    BY <1>7, <1>11 DEF SameLinks
  <2>2. P \subseteq DOMAIN m /\ RingHead \in P
    BY <1>1, <1>11
  <2> HIDE DEF x, p, P
  <2>3. QED
    BY <1>7, <2>1, <2>2
<1>13. Ringed(m, P)
  <2>1. \A c \in P : /\ l[c].next \in Q /\ l[c].prev \in Q
                     /\ l[l[c].next].prev = c /\ l[l[c].prev].next = c
    BY DEF Ringed
  <2>2. x \in P /\ p \in P
    BY <1>1, <1>3, <1>5
  <2> HIDE DEF x, p
  <2>3. ASSUME NEW c \in P
        PROVE  /\ m[c].next \in P /\ m[c].prev \in P
               /\ m[m[c].next].prev = c /\ m[m[c].prev].next = c
    <3>1. c \in DOMAIN m /\ c # a
      BY <1>12
    <3>2. CASE c = p
      <4>1. m[c].next = x /\ m[x].prev = c
        BY <1>12, <2>2, <3>2
      <4>2. l[c].next = a
        BY <1>1, <3>2
      <4>3. m[c].prev \in P /\ m[m[c].prev].next = c
        <5>1. CASE c = x
          <6>1. m[c].prev = p /\ m[p].next = x
            BY <1>12, <3>1, <5>1, <2>2
          <6>2. QED
            BY <2>2, <3>2, <5>1, <6>1
        <5>2. CASE c # x
          <6>1. m[c].prev = l[c].prev
            BY <1>12, <3>1, <5>2
          <6>2. l[c].prev # a
            BY <1>1, <2>1, <5>2 DEF x
          <6>3. l[c].prev \in P
            BY <2>1, <6>2
          <6>4. l[c].prev # p
            BY <1>1, <2>1, <3>1
          <6>5. m[l[c].prev].next = l[l[c].prev].next
            BY <1>12, <6>3, <6>4
          <6>6. QED
            BY <2>1, <6>1, <6>3, <6>5
        <5>3. QED
          BY <5>1, <5>2
      <4>4. QED
        BY <2>2, <4>1, <4>3
    <3>3. CASE c # p
      <4>1. m[c].next = l[c].next
        BY <1>12, <3>1, <3>3
      <4>2. l[c].next # a
        BY <1>1, <2>1, <3>3 DEF p
      <4>3. l[c].next \in P /\ l[c].next # x
        BY <1>1, <2>1, <3>1, <4>2
      <4>4. m[l[c].next].prev = c
        BY <1>12, <2>1, <4>3
      <4>5. m[c].prev \in P /\ m[m[c].prev].next = c
        <5>1. CASE c = x
          <6>1. m[c].prev = p /\ m[p].next = x
            BY <1>12, <3>1, <5>1, <2>2
          <6>2. QED
            BY <2>2, <5>1, <6>1
        <5>2. CASE c # x
          <6>1. m[c].prev = l[c].prev
            BY <1>12, <3>1, <5>2
          <6>2. l[c].prev # a
            BY <1>1, <2>1, <5>2 DEF x
          <6>3. l[c].prev \in P
            BY <2>1, <6>2
          <6>4. l[c].prev # p
            BY <1>1, <2>1, <3>1
          <6>5. m[l[c].prev].next = l[l[c].prev].next
            BY <1>12, <6>3, <6>4
          <6>6. QED
            BY <2>1, <6>1, <6>3, <6>5
        <5>3. QED
          BY <5>1, <5>2
      <4>6. QED
        BY <4>1, <4>3, <4>4, <4>5
    <3>4. QED
      BY <3>2, <3>3
  <2>4. \A c \in DOMAIN m \ {RingHead} : m[c].active <=> c \in P
    <3>1. \A c \in DOMAIN l \ {RingHead} : l[c].active <=> c \in Q
      BY DEF Ringed
    <3>2. QED
      BY <1>12, <3>1
  <2>5. QED
    BY <1>12, <2>3, <2>4 DEF Ringed
<1>14. Ranked(m, P, rank)
  <2>1. /\ rank[RingHead] = 0
        /\ \A b, c \in Q : rank[b] = rank[c] => b = c
        /\ \A b \in Q : l[b].next # RingHead => rank[b] < rank[l[b].next]
        /\ \A b, c \in Q : rank[b] < rank[c] =>
                             l[b].next # RingHead /\ rank[l[b].next] <= rank[c]
    BY DEF Ranked
  <2>2. \A b \in P : m[b].next = IF b = p THEN x ELSE l[b].next
    BY <1>12
  <2> HIDE DEF x, p, P
  <2>3. ASSUME NEW b \in P, m[b].next # RingHead
        PROVE  rank[b] < rank[m[b].next]
    <3>0. b \in Q
      BY DEF P
    <3>1. CASE b = p
      <4>1. x # RingHead /\ m[b].next = x
        BY <2>2, <2>3, <3>1
      <4>2. rank[x] \in Nat /\ rank[p] \in Nat /\ rank[a] \in Nat
        BY <1>1, <1>2
      <4>3. QED
        BY <1>3, <1>4, <3>1, <4>1, <4>2
    <3>2. CASE b # p
      BY <2>1, <2>2, <2>3, <3>0, <3>2
    <3>3. QED
      BY <3>1, <3>2
  <2>4. ASSUME NEW b \in P, NEW c \in P, rank[b] < rank[c]
        PROVE  m[b].next # RingHead /\ rank[m[b].next] <= rank[c]
    <3>0. b \in Q /\ c \in Q /\ c # a
      BY DEF P
    <3>1. CASE b = p
      <4>1. rank[a] <= rank[c]
        BY <1>1, <2>1, <2>4, <3>0, <3>1
      <4>2. rank[a] \in Nat /\ rank[c] \in Nat /\ rank[a] # rank[c]
        BY <1>1, <1>2, <2>1, <3>0
      <4>3. rank[a] < rank[c]
        BY <4>1, <4>2
      <4>4. x # RingHead /\ rank[x] <= rank[c]
        BY <2>1, <3>0, <4>3 DEF x
      <4>5. QED
        BY <2>2, <3>1, <4>4
    <3>2. CASE b # p
      BY <2>1, <2>2, <2>4, <3>0, <3>2
    <3>3. QED
      BY <3>1, <3>2
  <2>5. P \subseteq Q
    BY DEF P
  <2>6. QED
    BY <2>1, <2>3, <2>4, <2>5 DEF Ranked
<1>15. Counted(m, P, n)
  <2>1. n \in [LinkAddress -> Nat] /\ \A c \in LinkAddress : n[c] # 0 => c \in DOMAIN l
    BY DEF Counted
  <2>2. ASSUME NEW c \in DOMAIN m
        PROVE  m[c].refs = RingRefs(P, c) + n[c] /\ m[c].refs # 0
    <3>1. c \in DOMAIN l /\ n[c] \in Nat
      BY <1>1, <1>12, <2>1
    <3>2. CASE c = a
      <4>1. RingRefs(Q, c) = 1 /\ RingRefs(P, c) = 0
        BY <3>2 DEF RingRefs
      <4>2. l[c].refs # 1
        BY <1>11, <3>2
      <4>3. QED
        BY <1>8, <1>11, <3>1, <3>2, <4>1, <4>2
    <3>3. CASE c # a
      <4>1. RingRefs(P, c) = RingRefs(Q, c)
        BY <3>3 DEF RingRefs
      <4>2. QED
        BY <1>8, <1>11, <3>1, <3>3, <4>1
    <3>4. QED
      BY <3>2, <3>3
  <2>3. ASSUME NEW c \in LinkAddress, n[c] # 0
        PROVE  c \in DOMAIN m
    <3>1. c \in DOMAIN l
      BY <2>1, <2>3
    <3>2. CASE c = a
      <4>1. l[c].refs = 1 + n[c] /\ n[c] \in Nat
        BY <1>8, <2>1, <3>1, <3>2 DEF RingRefs
      <4>2. l[a].refs # 1
        BY <2>3, <3>2, <4>1
      <4>3. QED
        BY <1>11, <3>1, <4>2
    <3>3. CASE c # a
      BY <1>11, <3>1, <3>3
    <3>4. QED
      BY <3>2, <3>3
  <2>4. QED
    BY <2>1, <2>2, <2>3 DEF Counted
<1>16. \A c \in DOMAIN m \ P : m[c].next = l[c].next
  BY <1>1, <1>3, <1>12
<1>17. m[RingHead].active = l[RingHead].active
  BY <1>12
<1>18. Shrunk(l, Q, n, rank, a, m)
  BY <1>11, <1>12, <1>13, <1>14, <1>15, <1>16, <1>17 DEF Shrunk
<1>19. QED
  BY <1>18 DEF m

\* m is l with link a at the end of the ring Q, where longer ranks it.
Grown(l, Q, n, rank, a, m, longer) ==
  /\ LinksOK(m) /\ Ringed(m, Q \cup {a}) /\ Counted(m, Q \cup {a}, n)
  /\ longer \in Ranks /\ Ranked(m, Q \cup {a}, longer)
  /\ \A c \in Q : longer[c] = rank[c]
  /\ DOMAIN m = DOMAIN l \cup {a}
  /\ \A c \in DOMAIN l \ Q : m[c].next = l[c].next
  /\ m[RingHead].active = l[RingHead].active

\* add_before(): the new link is the last of the ring.
LEMMA AddRing ==
  ASSUME NEW l, NEW Q, NEW n, NEW rank \in Ranks, NEW a \in Addresses \ DOMAIN l,
         LinksOK(l), Ringed(l, Q), Ranked(l, Q, rank), Counted(l, Q, n)
  PROVE  \E longer : Grown(l, Q, n, rank, a, AddBefore(l, a), longer)
<1> DEFINE m == AddBefore(l, a)
           P == Q \cup {a}
           h == RingHead
           z == l[h].prev
           longer == [rank EXCEPT ![a] = rank[z] + 1]
           new == [active |-> TRUE, next |-> h, prev |-> z, refs |-> 1]
           k == [c \in DOMAIN l \cup {a} |-> IF c = a THEN new ELSE l[c]]
<1>1. /\ h \in Q /\ Q \subseteq DOMAIN l /\ DOMAIN l \subseteq LinkAddress
      /\ z \in Q /\ l[z].next = h
      /\ \A c \in DOMAIN l : l[c] \in Links
  BY DEF Ringed, LinksOK
<1>2. a # h /\ a # z /\ a \notin Q /\ a \in LinkAddress
  BY <1>1, SignalsAssumption DEF RingHead, LinkAddress
<1>3. \A c \in LinkAddress : rank[c] \in Nat
  BY DEF Ranks
<1>4. m = [k EXCEPT ![z].next = a, ![h].prev = a]
  BY DEF AddBefore
<1>5. new \in Links /\ new.active = TRUE /\ new.next = h /\ new.prev = z /\ new.refs = 1
  BY <1>1 DEF Links
<1>6. \A c \in Q : rank[c] <= rank[z]
  <2>1. \A b \in Q, c \in Q : rank[b] < rank[c] => l[b].next # h
    BY DEF Ranked
  <2>2. \A c \in Q : ~(rank[z] < rank[c])
    BY <1>1, <2>1
  <2> HIDE DEF z
  <2>3. QED
    BY <1>1, <1>3, <2>2
<1> HIDE DEF m, new, z, h
<1>7. /\ DOMAIN m = DOMAIN l \cup {a} /\ m \in [DOMAIN m -> Links]
      /\ \A c \in DOMAIN l : /\ m[c].active = l[c].active
                             /\ m[c].next = IF c = z THEN a ELSE l[c].next
                             /\ m[c].prev = IF c = h THEN a ELSE l[c].prev
                             /\ m[c].refs = l[c].refs
      /\ m[a].active = TRUE /\ m[a].next = h /\ m[a].prev = z /\ m[a].refs = 1
  <2> DEFINE D == DOMAIN l \cup {a}
             r1 == [k[z] EXCEPT !.next = a]
             l1 == [k EXCEPT ![z] = r1]
             r2 == [l1[h] EXCEPT !.prev = a]
             l2 == [l1 EXCEPT ![h] = r2]
  <2>1. m = l2
    BY <1>4
  <2>2. /\ k \in [D -> Links] /\ z \in D /\ h \in D /\ z \in DOMAIN l /\ h \in DOMAIN l
        /\ \A c \in D : k[c] = IF c = a THEN new ELSE l[c]
    BY <1>1, <1>5
  <2> HIDE DEF k
  <2>3. k[z] \in Links
    BY <2>2
  <2>4. /\ r1 \in Links /\ r1.active = k[z].active
        /\ r1.next = a /\ r1.prev = k[z].prev /\ r1.refs = k[z].refs
    BY <1>2, <2>3, LinkFields
  <2> HIDE DEF r1
  <2>5. l1 \in [D -> Links] /\ \A c \in D : l1[c] = IF c = z THEN r1 ELSE k[c]
    BY <2>2, <2>4
  <2> HIDE DEF l1
  <2>6. l1[h] \in Links
    BY <2>2, <2>5
  <2>7. /\ r2 \in Links /\ r2.active = l1[h].active
        /\ r2.next = l1[h].next /\ r2.prev = a /\ r2.refs = l1[h].refs
    BY <1>2, <2>6, LinkFields
  <2> HIDE DEF r2
  <2>8. l2 \in [D -> Links] /\ \A c \in D : l2[c] = IF c = h THEN r2 ELSE l1[c]
    BY <2>2, <2>5, <2>7
  <2> HIDE DEF l2
  <2>9. \A c \in D : /\ l1[c].active = k[c].active
                     /\ l1[c].next = IF c = z THEN a ELSE k[c].next
                     /\ l1[c].prev = k[c].prev /\ l1[c].refs = k[c].refs
    BY <2>4, <2>5
  <2>10. \A c \in D : /\ l2[c].active = l1[c].active /\ l2[c].next = l1[c].next
                      /\ l2[c].prev = IF c = h THEN a ELSE l1[c].prev
                      /\ l2[c].refs = l1[c].refs
    BY <2>7, <2>8
  <2>11. \A c \in DOMAIN l : c \in D /\ k[c] = l[c]
    BY <2>2
  <2>12. a \in D /\ k[a] = new
    BY <2>2
  <2>13. DOMAIN m = D /\ m \in [D -> Links]
    BY <2>1, <2>8
  <2> HIDE DEF D
  <2>14. \A c \in DOMAIN l : /\ m[c].active = l[c].active
                             /\ m[c].next = IF c = z THEN a ELSE l[c].next
                             /\ m[c].prev = IF c = h THEN a ELSE l[c].prev
                             /\ m[c].refs = l[c].refs
    BY <2>1, <2>9, <2>10, <2>11
  <2>15. m[a].active = TRUE /\ m[a].next = h /\ m[a].prev = z /\ m[a].refs = 1
    BY <1>2, <1>5, <2>1, <2>9, <2>10, <2>12
  <2>16. QED
    BY <2>13, <2>14, <2>15 DEF D
<1>8. LinksOK(m)
  BY <1>1, <1>2, <1>7 DEF LinksOK
<1>9. \A c \in Q : /\ l[c].next \in Q /\ l[c].prev \in Q
                   /\ l[l[c].next].prev = c /\ l[l[c].prev].next = c
  BY DEF Ringed
<1>10. Ringed(m, P)
  <2>1. ASSUME NEW c \in Q
        PROVE  /\ m[c].next \in P /\ m[c].prev \in P
               /\ m[m[c].next].prev = c /\ m[m[c].prev].next = c
    <3>1. m[c].next \in P /\ m[m[c].next].prev = c
      <4>1. CASE c = z
        BY <1>1, <1>7, <4>1
      <4>2. CASE c # z
        <5>1. m[c].next = l[c].next /\ l[c].next \in Q
          BY <1>1, <1>7, <1>9, <4>2
        <5>2. l[c].next # h
          BY <1>9, <4>2 DEF z
        <5>3. m[l[c].next].prev = l[l[c].next].prev
          BY <1>1, <1>7, <5>1, <5>2
        <5>4. QED
          BY <1>9, <5>1, <5>3
      <4>3. QED
        BY <4>1, <4>2
    <3>2. m[c].prev \in P /\ m[m[c].prev].next = c
      <4>1. CASE c = h
        BY <1>1, <1>7, <4>1
      <4>2. CASE c # h
        <5>1. m[c].prev = l[c].prev /\ l[c].prev \in Q
          BY <1>1, <1>7, <1>9, <4>2
        <5>2. l[c].prev # z
          BY <1>1, <1>9, <4>2
        <5>3. m[l[c].prev].next = l[l[c].prev].next
          BY <1>1, <1>7, <5>1, <5>2
        <5>4. QED
          BY <1>9, <5>1, <5>3
      <4>3. QED
        BY <4>1, <4>2
    <3>3. QED
      BY <3>1, <3>2
  <2>2. m[a].next \in P /\ m[a].prev \in P /\ m[m[a].next].prev = a /\ m[m[a].prev].next = a
    BY <1>1, <1>7
  <2>3. \A c \in DOMAIN m \ {RingHead} : m[c].active <=> c \in P
    <3>1. \A c \in DOMAIN l \ {RingHead} : l[c].active <=> c \in Q
      BY DEF Ringed
    <3>2. QED
      BY <1>7, <3>1
  <2>4. QED
    BY <1>1, <1>7, <2>1, <2>2, <2>3 DEF Ringed, h
<1>11. /\ longer \in Ranks /\ longer[a] = rank[z] + 1
       /\ \A c \in Q : longer[c] = rank[c] /\ rank[c] \in Nat /\ rank[c] <= rank[z]
  <2>1. rank[z] + 1 \in Nat
    BY <1>1, <1>3
  <2>2. \A c \in Q : c \in LinkAddress /\ c # a
    BY <1>1, <1>2
  <2>3. QED
    BY <1>2, <1>3, <1>6, <2>1, <2>2 DEF Ranks
<1> HIDE DEF longer
<1>12. Ranked(m, P, longer)
  <2>1. /\ rank[RingHead] = 0
        /\ \A b, c \in Q : rank[b] = rank[c] => b = c
        /\ \A b \in Q : l[b].next # RingHead => rank[b] < rank[l[b].next]
        /\ \A b, c \in Q : rank[b] < rank[c] =>
                             l[b].next # RingHead /\ rank[l[b].next] <= rank[c]
    BY DEF Ranked
  <2>2. \A c \in Q : longer[c] # longer[a] /\ longer[c] < longer[a] /\ ~(longer[a] < longer[c])
    BY <1>1, <1>11
  <2>3. /\ \A b \in Q : m[b].next = IF b = z THEN a ELSE l[b].next
        /\ m[a].next = h
    BY <1>1, <1>7
  <2>4. longer[RingHead] = 0
    BY <1>1, <1>11, <2>1 DEF h
  <2>5. \A b, c \in P : longer[b] = longer[c] => b = c
    <3>1. \A b, c \in Q : longer[b] = longer[c] => b = c
      BY <1>11, <2>1
    <3>2. QED
      BY <2>2, <3>1
  <2>6. ASSUME NEW b \in P, m[b].next # RingHead
        PROVE  longer[b] < longer[m[b].next]
    <3>1. CASE b = z
      BY <1>1, <2>2, <2>3, <3>1
    <3>2. CASE b # z
      <4>1. b \in Q /\ m[b].next = l[b].next
        BY <2>3, <2>6, <3>2 DEF h
      <4>2. l[b].next \in Q
        BY <1>9, <4>1
      <4>3. QED
        BY <1>11, <2>1, <2>6, <4>1, <4>2
    <3>3. QED
      BY <3>1, <3>2
  <2>7. ASSUME NEW b \in P, NEW c \in P, longer[b] < longer[c]
        PROVE  m[b].next # RingHead /\ longer[m[b].next] <= longer[c]
    <3>1. b \in Q
      <4>1. ~(longer[a] < longer[a])
        BY <1>1, <1>11
      <4>2. QED
        BY <2>2, <2>7, <4>1
    <3>2. CASE b = z
      <4>1. c = a
        BY <1>1, <1>11, <2>7, <3>2
      <4>2. longer[a] <= longer[a]
        BY <1>1, <1>11
      <4>3. QED
        BY <1>2, <2>3, <3>1, <3>2, <4>1, <4>2 DEF h
    <3>3. CASE b # z
      <4>1. m[b].next = l[b].next /\ l[b].next \in Q
        BY <1>9, <2>3, <3>1, <3>3
      <4>2. l[b].next # RingHead
        BY <1>9, <3>1, <3>3 DEF z, h
      <4>3. CASE c \in Q
        BY <1>11, <2>1, <2>7, <3>1, <4>1, <4>3
      <4>4. CASE c = a
        BY <1>1, <1>11, <2>2, <4>1, <4>2, <4>4
      <4>5. QED
        BY <4>3, <4>4
    <3>4. QED
      BY <3>2, <3>3
  <2>8. QED
    BY <2>4, <2>5, <2>6, <2>7 DEF Ranked
<1>13. Counted(m, P, n)
  <2>1. /\ n \in [LinkAddress -> Nat] /\ \A c \in LinkAddress : n[c] # 0 => c \in DOMAIN l
        /\ \A c \in DOMAIN l : l[c].refs = RingRefs(Q, c) + n[c] /\ l[c].refs # 0
    BY DEF Counted
  <2>2. n[a] = 0
    BY <1>2, <2>1
  <2>3. \A c \in DOMAIN l : RingRefs(P, c) = RingRefs(Q, c)
    BY DEF RingRefs
  <2>4. RingRefs(P, a) = 1
    BY <1>2 DEF RingRefs, h
  <2>5. ASSUME NEW c \in DOMAIN m
        PROVE  m[c].refs = RingRefs(P, c) + n[c] /\ m[c].refs # 0
    <3>1. CASE c = a
      BY <1>7, <2>2, <2>4, <3>1
    <3>2. CASE c # a
      BY <1>7, <2>1, <2>3, <3>2
    <3>3. QED
      BY <3>1, <3>2
  <2>6. \A c \in LinkAddress : n[c] # 0 => c \in DOMAIN m
    BY <1>7, <2>1
  <2>7. QED
    BY <2>1, <2>5, <2>6 DEF Counted
<1>14. \A c \in DOMAIN l \ Q : m[c].next = l[c].next
  BY <1>1, <1>7
<1>15. m[RingHead].active = l[RingHead].active
  BY <1>1, <1>7 DEF h
<1>16. Grown(l, Q, n, rank, a, m, longer)
  BY <1>7, <1>8, <1>10, <1>11, <1>12, <1>13, <1>14, <1>15 DEF Grown
<1>17. QED
  BY <1>16 DEF m

-----------------------------------------------------------------------------
(* The invariant of a signal.                                              *)

\* Emission e has been past handler a.  An emission that stands on a link removed goes
\* on where that link points.
Passed(l, Q, rank, e, a) ==
  \/ e.phase = "done"
  \/ e.phase # "done" /\ e.at \in Q
       /\ (rank[a] < rank[e.at] \/ (a = e.at /\ e.phase = "calling"))
  \/ e.phase # "done" /\ e.at \notin Q
       /\ (l[e.at].next = RingHead \/ rank[a] < rank[l[e.at].next])

\* It has called those handlers once and the others not at all.
Progress(l, Q, rank, e) ==
  \A a \in e.due : e.calls[a] = IF Passed(l, Q, rank, e, a) THEN 1 ELSE 0

FrameOK(l, Q, e) ==
  /\ e.due \subseteq Q /\ (RingHead \in e.due => l[RingHead].active)
  /\ e.phase = "done" => e.at = RingHead

RingOK(l, ems, lost, Q, rank) ==
  /\ Ringed(l, Q) /\ Ranked(l, Q, rank) /\ Counted(l, Q, Standing(ems))
  /\ \A k \in DOMAIN ems : FrameOK(l, Q, ems[k])
  /\ ~lost => /\ \A c \in DOMAIN l \ Q : l[c].next \in Q
              /\ \A k \in DOMAIN ems : Progress(l, Q, rank, ems[k])

SignalTypeOK ==
  /\ LinksOK(link) /\ emissions \in Seq(Frames)
  /\ freedRead \in BOOLEAN /\ orphaned \in BOOLEAN
  /\ budget \in [connects : Nat, emits : Nat]

SignalInv ==
  /\ SignalTypeOK
  /\ freedRead => orphaned
  /\ RingExists => \E Q \in SUBSET LinkAddress, rank \in Ranks : RingOK(link, emissions, orphaned, Q, rank)
  /\ ~RingExists => DOMAIN link = {} /\ emissions = <<>>

\* A new ring.
LEMMA HeadRing ==
  ASSUME NEW b \in BOOLEAN, NEW lost
  PROVE  LET zero == [a \in LinkAddress |-> 0]
         IN /\ LinksOK(HeadOnly(b)) /\ zero \in Ranks /\ DOMAIN HeadOnly(b) = {RingHead}
            /\ RingOK(HeadOnly(b), <<>>, lost, {RingHead}, zero)
<1> DEFINE l == HeadOnly(b)
           h == RingHead
           zero == [a \in LinkAddress |-> 0]
           r == [active |-> b, next |-> h, prev |-> h, refs |-> 2]
<1>1. h \in LinkAddress
  BY DEF LinkAddress
<1>2. r \in Links /\ r.next = h /\ r.prev = h /\ r.refs = 2
  BY <1>1 DEF Links
<1>3. l = [a \in {h} |-> r]
  BY DEF HeadOnly
<1> HIDE DEF r
<1>4. DOMAIN l = {h} /\ l[h] = r /\ l \in [{h} -> Links]
  BY <1>2, <1>3
<1> HIDE DEF l
<1>5. LinksOK(l)
  BY <1>1, <1>4 DEF LinksOK
<1>6. zero \in Ranks /\ zero[h] = 0
  BY <1>1 DEF Ranks
<1>7. Ringed(l, {h})
  BY <1>2, <1>4 DEF Ringed, h
<1>8. Ranked(l, {h}, zero)
  BY <1>2, <1>4, <1>6 DEF Ranked, h
<1>9. Counted(l, {h}, Standing(<<>>))
  <2>1. Standing(<<>>) = zero
    BY StandingNowhere
  <2>2. RingRefs({h}, h) = 2
    BY DEF RingRefs, h
  <2>3. zero \in [LinkAddress -> Nat] /\ \A a \in LinkAddress : zero[a] = 0
    OBVIOUS
  <2> HIDE DEF zero, h
  <2>4. QED
    BY <1>2, <1>4, <1>6, <2>1, <2>2, <2>3 DEF Counted
<1>10. RingOK(l, <<>>, lost, {h}, zero)
  BY <1>4, <1>7, <1>8, <1>9 DEF RingOK
<1>11. QED
  BY <1>4, <1>5, <1>6, <1>10 DEF l, h

\* Where the emissions stand, there are links.
LEMMA Held ==
  ASSUME NEW l, NEW Q, NEW ems \in Seq(Frames), Counted(l, Q, Standing(ems)),
         NEW k \in DOMAIN ems
  PROVE  ems[k] \in Frames /\ ems[k].at \in DOMAIN l
<1>1. ems[k].at \in LinkAddress /\ Standing(ems)[ems[k].at] # 0
  BY StandingType
<1>2. ems[k] \in Frames
  BY LenProperties, ElementOfSeq
<1>3. QED
  BY <1>1, <1>2 DEF Counted

\* Frames as they were are as far as they were, when the ring is the same.
LEMMA FramesKept ==
  ASSUME NEW l, NEW m, NEW Q, NEW rank, NEW e, SameLinks(l, m), Q \subseteq DOMAIN m,
         RingHead \in Q, e.at \in DOMAIN m
  PROVE  /\ FrameOK(l, Q, e) => FrameOK(m, Q, e)
         /\ Progress(l, Q, rank, e) => Progress(m, Q, rank, e)
<1>1. m[RingHead].active = l[RingHead].active /\ m[e.at].next = l[e.at].next
  BY DEF SameLinks
<1>2. \A a : Passed(m, Q, rank, e, a) <=> Passed(l, Q, rank, e, a)
  BY <1>1 DEF Passed
<1>3. QED
  BY <1>1, <1>2 DEF FrameOK, Progress

LEMMA SignalInitInv ==
  ASSUME SignalInit
  PROVE  SignalInv
<1>1. /\ emissions = <<>> /\ freedRead = FALSE /\ orphaned = FALSE
      /\ budget \in [connects : Nat, emits : Nat] /\ emissions \in Seq(Frames)
  BY SignalsAssumption, EmptySeq DEF SignalInit
<1>2. CASE link = <<>>
  <2>1. LinksOK(link) /\ DOMAIN link = {}
    BY <1>2 DEF LinksOK
  <2>2. QED
    BY <1>1, <2>1 DEF SignalInv, SignalTypeOK, RingExists
<1>3. CASE link = HeadOnly(TRUE)
  <2>1. /\ LinksOK(link) /\ [a \in LinkAddress |-> 0] \in Ranks /\ DOMAIN link = {RingHead}
        /\ RingOK(link, <<>>, orphaned, {RingHead}, [a \in LinkAddress |-> 0])
    BY <1>3, HeadRing
  <2>2. \E Q \in SUBSET LinkAddress, rank \in Ranks : RingOK(link, emissions, orphaned, Q, rank)
    <3>1. /\ RingOK(link, emissions, orphaned, {RingHead}, [a \in LinkAddress |-> 0])
          /\ {RingHead} \in SUBSET LinkAddress
      BY <1>1, <2>1 DEF LinkAddress
    <3>2. QED
      BY <2>1, <3>1, Zenon
  <2>3. QED
    BY <1>1, <2>1, <2>2 DEF SignalInv, SignalTypeOK, RingExists
<1>4. QED
  BY <1>2, <1>3 DEF SignalInit

\* operator+=: an emission under way calls nobody less, and nobody twice.
LEMMA ConnectInv ==
  ASSUME SignalInv, NEW a \in Addresses, Connect(a)
  PROVE  SignalInv'
<1> DEFINE l == IF RingExists THEN link ELSE HeadOnly(FALSE)
           m == AddBefore(l, a)
<1>1. /\ a \notin DOMAIN link /\ link' = m /\ budget.connects > 0
      /\ budget' = [budget EXCEPT !.connects = budget.connects - 1]
      /\ emissions' = emissions /\ freedRead' = freedRead /\ orphaned' = orphaned
  BY DEF Connect
<1>2. /\ LinksOK(l) /\ a \notin DOMAIN l
      /\ \E Q \in SUBSET LinkAddress, rank \in Ranks : RingOK(l, emissions, orphaned, Q, rank)
  <2>1. CASE RingExists
    BY <1>1, <2>1 DEF SignalInv, SignalTypeOK
  <2>2. CASE ~RingExists
    <3>1. l = HeadOnly(FALSE) /\ emissions = <<>> /\ a # RingHead
      BY <2>2, SignalsAssumption DEF SignalInv, RingHead
    <3>2. /\ LinksOK(l) /\ DOMAIN l = {RingHead} /\ [c \in LinkAddress |-> 0] \in Ranks
          /\ RingOK(l, <<>>, orphaned, {RingHead}, [c \in LinkAddress |-> 0])
      BY <3>1, HeadRing
    <3> HIDE DEF l
    <3>3. \E Q \in SUBSET LinkAddress, rank \in Ranks : RingOK(l, emissions, orphaned, Q, rank)
      <4>1. /\ RingOK(l, emissions, orphaned, {RingHead}, [c \in LinkAddress |-> 0])
            /\ {RingHead} \in SUBSET LinkAddress
        BY <3>1, <3>2 DEF LinkAddress
      <4>2. QED
        BY <3>2, <4>1, Zenon
    <3>4. QED
      BY <3>1, <3>2, <3>3
  <2>3. QED
    BY <2>1, <2>2
<1> HIDE DEF l, m
<1>3. PICK Q \in SUBSET LinkAddress, rank \in Ranks : RingOK(l, emissions, orphaned, Q, rank)
  BY <1>2
<1> DEFINE P == Q \cup {a}
<1>4. Ringed(l, Q) /\ Ranked(l, Q, rank) /\ Counted(l, Q, Standing(emissions))
  BY <1>3 DEF RingOK
<1>a. a \in Addresses \ DOMAIN l
  BY <1>2
<1>b. PICK longer : Grown(l, Q, Standing(emissions), rank, a, m, longer)
  BY <1>2, <1>4, <1>a, AddRing DEF m
<1>5. /\ LinksOK(m) /\ Ringed(m, P) /\ Counted(m, P, Standing(emissions))
      /\ longer \in Ranks /\ Ranked(m, P, longer)
      /\ \A c \in Q : longer[c] = rank[c]
      /\ DOMAIN m = DOMAIN l \cup {a}
      /\ \A c \in DOMAIN l \ Q : m[c].next = l[c].next
      /\ m[RingHead].active = l[RingHead].active
  BY <1>b DEF Grown
<1>6. emissions \in Seq(Frames)
  BY DEF SignalInv, SignalTypeOK
<1>7. ASSUME NEW k \in DOMAIN emissions
      PROVE  FrameOK(m, P, emissions[k])
  BY <1>3, <1>5 DEF RingOK, FrameOK
<1>8. ASSUME ~orphaned
      PROVE  /\ \A c \in DOMAIN m \ P : m[c].next \in P
             /\ \A k \in DOMAIN emissions : Progress(m, P, longer, emissions[k])
  <2>1. \A c \in DOMAIN l \ Q : l[c].next \in Q
    BY <1>3, <1>8 DEF RingOK
  <2>2. ASSUME NEW k \in DOMAIN emissions
        PROVE  Progress(m, P, longer, emissions[k])
    <3> DEFINE e == emissions[k]
    <3>1. e.at \in DOMAIN l /\ e.due \subseteq Q /\ Progress(l, Q, rank, e)
      BY <1>3, <1>4, <1>6, <1>8, Held DEF RingOK, FrameOK
    <3> HIDE DEF e
    <3>2. e.at \in P <=> e.at \in Q
      BY <1>2, <3>1
    <3>3. e.at \notin Q => m[e.at].next = l[e.at].next /\ l[e.at].next \in Q
      BY <1>5, <2>1, <3>1
    <3>4. \A c \in e.due : Passed(m, P, longer, e, c) <=> Passed(l, Q, rank, e, c)
      BY <1>5, <3>1, <3>2, <3>3 DEF Passed
    <3>5. QED
      BY <3>1, <3>4 DEF Progress, e
  <2>3. QED
    BY <1>5, <2>1, <2>2
<1>9. RingOK(m, emissions, orphaned, P, longer)
  BY <1>5, <1>7, <1>8 DEF RingOK
<1>10. RingExists'
  BY <1>1, <1>4, <1>5 DEF RingExists, Ringed
<1>11. SignalTypeOK'
  <2>1. budget' \in [connects : Nat, emits : Nat]
    BY <1>1 DEF SignalInv, SignalTypeOK
  <2>2. QED
    BY <1>1, <1>5, <2>1 DEF SignalInv, SignalTypeOK
<1>12. \E R \in SUBSET LinkAddress, r \in Ranks : RingOK(link', emissions', orphaned', R, r)
  <2>1. RingOK(link', emissions', orphaned', P, longer) /\ P \in SUBSET LinkAddress
    BY <1>1, <1>9 DEF LinkAddress
  <2>2. QED
    BY <1>5, <2>1, Zenon
<1>13. QED
  BY <1>1, <1>10, <1>11, <1>12 DEF SignalInv

\* The ring that exists.
LEMMA RingThere ==
  ASSUME SignalInv, RingExists
  PROVE  \E Q \in SUBSET LinkAddress, rank \in Ranks :
           /\ RingOK(link, emissions, orphaned, Q, rank)
           /\ Ringed(link, Q) /\ Ranked(link, Q, rank) /\ Counted(link, Q, Standing(emissions))
           /\ Ring = Q \ {RingHead} /\ RingHead \in Q /\ Q \subseteq DOMAIN link
<1>1. PICK Q \in SUBSET LinkAddress, rank \in Ranks :
        RingOK(link, emissions, orphaned, Q, rank)
  BY DEF SignalInv
<1>2. Ringed(link, Q) /\ Ranked(link, Q, rank) /\ Counted(link, Q, Standing(emissions))
  BY <1>1 DEF RingOK
<1>3. LinksOK(link)
  BY DEF SignalInv, SignalTypeOK
<1>4. Ring = Q \ {RingHead}
  BY <1>2, <1>3, RingReached
<1>5. RingHead \in Q /\ Q \subseteq DOMAIN link
  BY <1>2 DEF Ringed
<1>6. QED
  BY <1>1, <1>2, <1>4, <1>5

\* With no ring there is nothing to remove, and no emission.
LEMMA NoRing ==
  ASSUME SignalInv, ~RingExists
  PROVE  Ring = {} /\ emissions = <<>>
BY DEF SignalInv, Ring

\* operator-=: an emission that stands on the link goes on where the link points, and is
\* as far as it was.
LEMMA DisconnectInv ==
  ASSUME SignalInv, NEW a \in Addresses, Disconnect(a)
  PROVE  SignalInv'
<1> DEFINE m == Unlink(link, a)
           fs == [k \in DOMAIN emissions |->
                    [emissions[k] EXCEPT !.due = emissions[k].due \ {a}]]
<1>1. /\ a \in Ring /\ link' = m /\ emissions' = fs
      /\ orphaned' = (orphaned \/ \E k \in DOMAIN emissions :
                        /\ emissions[k].at \in DOMAIN link \ (Ring \cup {RingHead})
                        /\ link[emissions[k].at].next = a)
      /\ freedRead' = freedRead /\ budget' = budget
  BY DEF Disconnect
<1>2. RingExists
  BY <1>1, NoRing
<1>3. PICK Q \in SUBSET LinkAddress, rank \in Ranks :
           /\ RingOK(link, emissions, orphaned, Q, rank)
           /\ Ringed(link, Q) /\ Ranked(link, Q, rank) /\ Counted(link, Q, Standing(emissions))
           /\ Ring = Q \ {RingHead} /\ RingHead \in Q /\ Q \subseteq DOMAIN link
  BY <1>2, RingThere
<1> DEFINE P == Q \ {a}
<1>4. LinksOK(link) /\ emissions \in Seq(Frames) /\ a \in Q \ {RingHead}
  BY <1>1, <1>3 DEF SignalInv, SignalTypeOK
<1>5. Shrunk(link, Q, Standing(emissions), rank, a, m)
  BY <1>3, <1>4, UnlinkRing
<1>6. /\ LinksOK(m) /\ Ringed(m, P) /\ Ranked(m, P, rank) /\ Counted(m, P, Standing(emissions))
      /\ DOMAIN m \subseteq DOMAIN link
      /\ \A c \in DOMAIN m \ P : m[c].next = link[c].next
      /\ m[RingHead].active = link[RingHead].active
  BY <1>5 DEF Shrunk
<1> HIDE DEF m
<1>7. \A k \in DOMAIN emissions : emissions[k] \in Frames /\ emissions[k].at \in DOMAIN m
  BY <1>4, <1>6, Held
<1>8. /\ DOMAIN fs = DOMAIN emissions
      /\ \A k \in DOMAIN emissions :
           /\ fs[k] \in Frames
           /\ fs[k].at = emissions[k].at /\ fs[k].phase = emissions[k].phase
           /\ fs[k].calls = emissions[k].calls /\ fs[k].due = emissions[k].due \ {a}
  <2>1. ASSUME NEW e \in Frames
        PROVE  LET f == [e EXCEPT !.due = e.due \ {a}]
               IN /\ f \in Frames /\ f.at = e.at /\ f.phase = e.phase
                  /\ f.calls = e.calls /\ f.due = e.due \ {a}
    BY DEF Frames
  <2>2. QED
    BY <1>7, <2>1
<1>9. fs \in Seq(Frames)
  <2>1. DOMAIN emissions = 1 .. Len(emissions) /\ Len(emissions) \in Nat
    BY <1>4, LenProperties
  <2>2. fs \in [1 .. Len(emissions) -> Frames]
    BY <1>8, <2>1
  <2> HIDE DEF fs
  <2>3. QED
    BY <2>1, <2>2, FunctionIsSeq
<1> HIDE DEF fs
<1>10. Standing(fs) = Standing(emissions)
  BY <1>8, StandingSame
<1>11. ASSUME NEW k \in DOMAIN fs
       PROVE  FrameOK(m, P, fs[k])
  <2>1. FrameOK(link, Q, emissions[k])
    BY <1>3, <1>8 DEF RingOK
  <2>2. QED
    BY <1>6, <1>8, <2>1 DEF FrameOK
<1>12. ASSUME ~orphaned'
       PROVE  /\ \A c \in DOMAIN m \ P : m[c].next \in P
              /\ \A k \in DOMAIN fs : Progress(m, P, rank, fs[k])
  <2>1. /\ ~orphaned
        /\ \A k \in DOMAIN emissions : emissions[k].at \in DOMAIN link \ Q =>
                                         link[emissions[k].at].next # a
    BY <1>1, <1>3, <1>12
  <2>2. /\ \A c \in DOMAIN link \ Q : link[c].next \in Q
        /\ \A k \in DOMAIN emissions : Progress(link, Q, rank, emissions[k])
    BY <1>3, <2>1 DEF RingOK
  <2>3. link[a].next \in Q /\ link[a].next # a
    <3>1. rank[a] \in Nat
      BY <1>4 DEF Ranks
    <3>2. link[a].next # RingHead => rank[a] < rank[link[a].next]
      BY <1>3, <1>4 DEF Ranked
    <3>3. QED
      BY <1>3, <1>4, <3>1, <3>2 DEF Ringed
  <2>4. ASSUME NEW c \in DOMAIN m \ P
        PROVE  m[c].next \in P
    <3>1. CASE c = a
      BY <1>6, <2>3, <3>1
    <3>2. CASE c # a
      <4>1. c \in DOMAIN link \ Q /\ m[c].next = link[c].next
        BY <1>6, <3>2
      <4>2. PICK k \in DOMAIN emissions : emissions[k].at = c
        <5>1. m[c].refs = RingRefs(P, c) + Standing(emissions)[c] /\ m[c].refs # 0
          BY <1>6 DEF Counted
        <5>2. RingRefs(P, c) = 0
          BY <1>3, <4>1 DEF RingRefs
        <5>3. Standing(emissions)[c] # 0
          <6>1. c \in LinkAddress
            BY <1>6 DEF LinksOK
          <6>2. Standing(emissions)[c] \in Nat
            BY <1>4, <6>1, StandingType
          <6>3. QED
            BY <5>1, <5>2, <6>2
        <5>4. StandingOn(emissions, c) # {}
          <6>1. c \in LinkAddress
            BY <1>6 DEF LinksOK
          <6>2. Cardinality(StandingOn(emissions, c)) # 0
            BY <5>3, <6>1 DEF Standing
          <6>3. QED
            BY <6>2, FS_EmptySet
        <5>5. QED
          BY <5>4 DEF StandingOn
      <4>3. link[c].next # a
        BY <2>1, <4>1, <4>2
      <4>4. QED
        BY <2>2, <4>1, <4>3
    <3>3. QED
      BY <3>1, <3>2
  <2>5. ASSUME NEW k \in DOMAIN fs
        PROVE  Progress(m, P, rank, fs[k])
    <3> DEFINE e == emissions[k]
               f == fs[k]
    <3>1. /\ e.at \in DOMAIN m /\ e.due \subseteq Q /\ Progress(link, Q, rank, e)
          /\ f.at = e.at /\ f.phase = e.phase /\ f.calls = e.calls /\ f.due = e.due \ {a}
      BY <1>3, <1>7, <1>8, <2>2 DEF RingOK, FrameOK
    <3> HIDE DEF e, f
    <3>2. ASSUME NEW c \in f.due
          PROVE  Passed(m, P, rank, f, c) <=> Passed(link, Q, rank, e, c)
      <4>1. c \in Q /\ c # a /\ rank[c] \in Nat /\ rank[a] \in Nat /\ rank[c] # rank[a]
        BY <1>3, <1>4, <3>1 DEF Ranks, Ranked
      <4>2. CASE e.at = a
        <5> DEFINE x == link[a].next
        <5>1. m[a].next = x /\ x \in Q
          BY <1>6, <2>3, <3>1, <4>2
        <5>2. Passed(m, P, rank, f, c) <=>
                e.phase = "done" \/ x = RingHead \/ rank[c] < rank[x]
          BY <3>1, <4>2, <5>1 DEF Passed
        <5>3. Passed(link, Q, rank, e, c) <=> e.phase = "done" \/ rank[c] < rank[a]
          BY <1>4, <4>1, <4>2 DEF Passed
        <5>4. /\ x # RingHead => rank[a] < rank[x]
              /\ rank[a] < rank[c] => x # RingHead /\ rank[x] <= rank[c]
          BY <1>3, <1>4, <4>1 DEF Ranked
        <5>5. rank[x] \in Nat
          BY <5>1 DEF Ranks
        <5> HIDE DEF x
        <5>6. QED
          BY <4>1, <5>2, <5>3, <5>4, <5>5
      <4>3. CASE e.at # a
        <5>1. e.at \in P <=> e.at \in Q
          BY <4>3
        <5>2. e.at \notin P => m[e.at].next = link[e.at].next
          BY <1>6, <3>1
        <5>3. QED
          BY <3>1, <5>1, <5>2 DEF Passed
      <4>4. QED
        BY <4>2, <4>3
    <3>3. QED
      BY <3>1, <3>2 DEF Progress, e, f
  <2>6. QED
    BY <2>4, <2>5
<1>13. RingOK(m, fs, orphaned', P, rank)
  BY <1>6, <1>10, <1>11, <1>12 DEF RingOK
<1>14. RingExists'
  BY <1>1, <1>6 DEF RingExists, Ringed
<1>15. SignalTypeOK'
  BY <1>1, <1>6, <1>9 DEF SignalInv, SignalTypeOK
<1>16. \E R \in SUBSET LinkAddress, r \in Ranks : RingOK(link', emissions', orphaned', R, r)
  <2>1. RingOK(link', emissions', orphaned', P, rank) /\ P \in SUBSET LinkAddress
    BY <1>1, <1>13
  <2>2. QED
    BY <2>1, Zenon
<1>17. freedRead' => orphaned'
  BY <1>1 DEF SignalInv
<1>18. QED
  BY <1>14, <1>15, <1>16, <1>17 DEF SignalInv

\* A step that leaves the links of the ring where they are, and what it has to show: that
\* the references still count the emissions, and for the emission it moved.
LEMMA RingGoesOn ==
  ASSUME NEW l, NEW m, NEW ems, NEW fs \in Seq(Frames), NEW lost, NEW Q, NEW rank,
         RingOK(l, ems, lost, Q, rank), SameLinks(l, m), Q \subseteq DOMAIN m,
         Counted(m, Q, Standing(fs)),
         \A k \in DOMAIN fs :
           \/ k \in DOMAIN ems /\ fs[k] = ems[k]
           \/ FrameOK(m, Q, fs[k]) /\ (~lost => Progress(m, Q, rank, fs[k]))
  PROVE  RingOK(m, fs, lost, Q, rank)
<1>1. Ringed(l, Q) /\ Ranked(l, Q, rank)
  BY DEF RingOK
<1>2. Ringed(m, Q) /\ Ranked(m, Q, rank)
  BY <1>1, RingKept
<1>3. RingHead \in Q
  BY <1>1 DEF Ringed
<1>4. ASSUME NEW k \in DOMAIN fs
      PROVE  FrameOK(m, Q, fs[k]) /\ (~lost => Progress(m, Q, rank, fs[k]))
  <2>1. CASE k \in DOMAIN ems /\ fs[k] = ems[k]
    <3>1. FrameOK(l, Q, fs[k]) /\ (~lost => Progress(l, Q, rank, fs[k]))
      BY <2>1 DEF RingOK
    <3>2. fs[k].at \in DOMAIN m
      BY Held
    <3>3. QED
      BY <1>3, <3>1, <3>2, FramesKept
  <2>2. CASE FrameOK(m, Q, fs[k]) /\ (~lost => Progress(m, Q, rank, fs[k]))
    BY <2>2
  <2>3. QED
    BY <2>1, <2>2
<1>5. ASSUME ~lost, NEW c \in DOMAIN m \ Q
      PROVE  m[c].next \in Q
  <2>1. c \in DOMAIN l \ Q /\ m[c].next = l[c].next
    BY DEF SameLinks
  <2>2. QED
    BY <1>5, <2>1 DEF RingOK
<1>6. QED
  BY <1>2, <1>4, <1>5 DEF RingOK

\* What makes the invariant again.
LEMMA RingRestored ==
  ASSUME NEW Q \in SUBSET LinkAddress, NEW rank \in Ranks, LinksOK(link'),
         emissions' \in Seq(Frames), RingOK(link', emissions', orphaned', Q, rank),
         freedRead' \in BOOLEAN, orphaned' \in BOOLEAN, freedRead' => orphaned',
         budget' \in [connects : Nat, emits : Nat]
  PROVE  SignalInv'
<1>1. RingExists'
  BY DEF RingOK, Ringed, RingExists
<1>2. \E R \in SUBSET LinkAddress, r \in Ranks : RingOK(link', emissions', orphaned', R, r)
  BY Zenon
<1>3. SignalTypeOK'
  BY DEF SignalTypeOK
<1>4. QED
  BY <1>1, <1>2, <1>3 DEF SignalInv

\* emit() begins at the head, with all its handlers before it.
LEMMA EmitInv ==
  ASSUME SignalInv, Emit
  PROVE  SignalInv'
<1> DEFINE h == RingHead
           m == IncRef(link, h)
           f == [at |-> h, phase |-> "arrived",
                 due |-> Ring \cup {a \in {h} : link[a].active},
                 calls |-> [a \in LinkAddress |-> 0]]
           fs == Append(emissions, f)
<1>1. /\ RingExists /\ link' = m /\ emissions' = fs /\ budget.emits > 0
      /\ budget' = [budget EXCEPT !.emits = budget.emits - 1]
      /\ freedRead' = freedRead /\ orphaned' = orphaned
  BY DEF Emit, LinkAddress
<1>2. PICK Q \in SUBSET LinkAddress, rank \in Ranks :
           /\ RingOK(link, emissions, orphaned, Q, rank)
           /\ Ringed(link, Q) /\ Ranked(link, Q, rank) /\ Counted(link, Q, Standing(emissions))
           /\ Ring = Q \ {RingHead} /\ RingHead \in Q /\ Q \subseteq DOMAIN link
  BY <1>1, RingThere
<1>3. LinksOK(link) /\ emissions \in Seq(Frames)
  BY DEF SignalInv, SignalTypeOK
<1>4. /\ LinksOK(m) /\ SameLinks(link, m) /\ DOMAIN m = DOMAIN link
  BY <1>2, <1>3, IncRefLinks
<1>5. Counted(m, Q, [Standing(emissions) EXCEPT ![h] = Standing(emissions)[h] + 1])
  BY <1>2, <1>3, IncRefCounted
<1>6. /\ f.at = h /\ f.phase = "arrived" /\ f.due \subseteq Q /\ h \in LinkAddress
      /\ (h \in f.due => link[h].active) /\ \A a \in LinkAddress : f.calls[a] = 0
  BY <1>2 DEF LinkAddress, Ring
<1>7. f \in Frames
  <2>1. /\ [a \in LinkAddress |-> 0] \in [LinkAddress -> Nat] /\ f.due \in SUBSET LinkAddress
    BY <1>6
  <2>2. QED
    BY <1>6, <2>1 DEF Frames
<1> HIDE DEF m, f
<1>8. Standing(fs) = [Standing(emissions) EXCEPT ![h] = Standing(emissions)[h] + 1]
  BY <1>3, <1>6, <1>7, StandingPushed
<1>9. fs \in Seq(Frames)
  BY <1>3, <1>7, AppendProperties
<1>10. FrameOK(m, Q, f)
  <2>1. m[h].active = link[h].active
    BY <1>2, <1>4 DEF SameLinks
  <2>2. QED
    BY <1>6, <2>1 DEF FrameOK, h
<1>11. Progress(m, Q, rank, f)
  <2>1. ASSUME NEW a \in f.due
        PROVE  ~Passed(m, Q, rank, f, a)
    <3>1. rank[a] \in Nat /\ rank[h] = 0
      BY <1>2, <1>6 DEF Ranked, Ranks, h
    <3>2. ~(rank[a] < rank[h])
      BY <3>1
    <3>3. QED
      BY <1>2, <1>6, <3>2 DEF Passed, h
  <2>2. QED
    BY <1>6, <2>1 DEF Progress
<1>12. \A k \in DOMAIN fs : \/ k \in DOMAIN emissions /\ fs[k] = emissions[k]
                            \/ fs[k] = f
  BY <1>3, AppendProperties, LenProperties
<1> HIDE DEF fs
<1>13. RingOK(m, fs, orphaned, Q, rank)
  <2>1. \A k \in DOMAIN fs :
           \/ k \in DOMAIN emissions /\ fs[k] = emissions[k]
           \/ FrameOK(m, Q, fs[k]) /\ (~orphaned => Progress(m, Q, rank, fs[k]))
    BY <1>10, <1>11, <1>12
  <2>2. Q \subseteq DOMAIN m /\ Counted(m, Q, Standing(fs))
    BY <1>2, <1>4, <1>5, <1>8
  <2>3. QED
    BY <1>2, <1>4, <1>9, <2>1, <2>2, RingGoesOn
<1>14. budget' \in [connects : Nat, emits : Nat]
  BY <1>1 DEF SignalInv, SignalTypeOK
<1>15. /\ freedRead' \in BOOLEAN /\ orphaned' \in BOOLEAN /\ (freedRead' => orphaned')
  BY <1>1 DEF SignalInv, SignalTypeOK
<1>16. QED
  <2>1. LinksOK(link') /\ emissions' \in Seq(Frames) /\ RingOK(link', emissions', orphaned', Q, rank)
    BY <1>1, <1>4, <1>9, <1>13
  <2>2. QED
    BY <1>14, <1>15, <2>1, RingRestored

\* The innermost emission.
LEMMA TopFrame ==
  ASSUME SignalInv, emissions # <<>>
  PROVE  /\ Len(emissions) \in Nat \ {0} /\ DOMAIN emissions = 1 .. Len(emissions)
         /\ Len(emissions) \in DOMAIN emissions /\ emissions \in Seq(Frames)
         /\ Top \in Frames /\ Top.at \in LinkAddress /\ RingExists
<1>1. emissions \in Seq(Frames)
  BY DEF SignalInv, SignalTypeOK
<1>2. Len(emissions) \in Nat \ {0} /\ DOMAIN emissions = 1 .. Len(emissions)
  BY <1>1, LenProperties, EmptySeq
<1>3. Len(emissions) \in DOMAIN emissions
  BY <1>2
<1>4. Top \in Frames
  BY <1>1, <1>2, <1>3, ElementOfSeq DEF Top
<1>5. Top.at \in LinkAddress
  BY <1>4 DEF Frames
<1>6. RingExists
  BY NoRing
<1>7. QED
  BY <1>1, <1>2, <1>3, <1>4, <1>5, <1>6

\* Another frame for it.
LEMMA TopReplaced ==
  ASSUME NEW ems \in Seq(Frames), NEW n \in DOMAIN ems, NEW f \in Frames
  PROVE  LET fs == [ems EXCEPT ![n] = f]
         IN /\ fs \in Seq(Frames) /\ DOMAIN fs = DOMAIN ems
            /\ fs[n] = f /\ \A k \in DOMAIN fs : k # n => fs[k] = ems[k]
BY ExceptSeq, LenProperties

\* A handler that is called was before the emission, and is behind it now.
LEMMA CallInv ==
  ASSUME SignalInv, Call
  PROVE  SignalInv'
<1> DEFINE e == Top
           n == Len(emissions)
           x == Top.at
           f == [e EXCEPT !.phase = "calling", !.calls = [e.calls EXCEPT ![x] = e.calls[x] + 1]]
           fs == [emissions EXCEPT ![n] = f]
<1>1. /\ emissions # <<>> /\ e.phase = "arrived" /\ link[x].active
      /\ link' = link /\ emissions' = fs
      /\ freedRead' = freedRead /\ orphaned' = orphaned /\ budget' = budget
  BY DEF Call, SetTop
<1>2. /\ n \in DOMAIN emissions /\ emissions \in Seq(Frames)
      /\ e \in Frames /\ x \in LinkAddress /\ RingExists
  BY <1>1, TopFrame
<1>3. PICK Q \in SUBSET LinkAddress, rank \in Ranks :
           /\ RingOK(link, emissions, orphaned, Q, rank)
           /\ Ringed(link, Q) /\ Ranked(link, Q, rank) /\ Counted(link, Q, Standing(emissions))
           /\ Ring = Q \ {RingHead} /\ RingHead \in Q /\ Q \subseteq DOMAIN link
  BY <1>2, RingThere
<1>4. /\ x \in DOMAIN link /\ FrameOK(link, Q, e)
      /\ (~orphaned => Progress(link, Q, rank, e))
  <2>1. e = emissions[n]
    BY DEF Top
  <2>2. x \in DOMAIN link
    BY <1>2, <1>3, <2>1, Held
  <2>3. QED
    BY <1>2, <1>3, <2>1, <2>2 DEF RingOK
<1>5. x \in Q
  BY <1>1, <1>3, <1>4 DEF Ringed
<1>6. /\ f \in Frames /\ f.at = x /\ f.phase = "calling" /\ f.due = e.due
      /\ \A a \in LinkAddress : f.calls[a] = IF a = x THEN e.calls[a] + 1 ELSE e.calls[a]
  <2> DEFINE c == [e.calls EXCEPT ![x] = e.calls[x] + 1]
  <2>1. e.calls \in [LinkAddress -> Nat]
    BY <1>2 DEF Frames
  <2>2. /\ c \in [LinkAddress -> Nat]
        /\ \A a \in LinkAddress : c[a] = IF a = x THEN e.calls[a] + 1 ELSE e.calls[a]
    <3> HIDE DEF e, x
    <3>1. QED
      BY <1>2, <2>1
  <2>3. f = [e EXCEPT !.phase = "calling", !.calls = c]
    OBVIOUS
  <2> HIDE DEF c, f
  <2>4. f \in Frames /\ f.at = x /\ f.phase = "calling" /\ f.due = e.due /\ f.calls = c
    BY <1>2, <2>2, <2>3 DEF Frames
  <2>5. QED
    BY <2>2, <2>4
<1> HIDE DEF e, f, x, n
<1>7. /\ fs \in Seq(Frames) /\ DOMAIN fs = DOMAIN emissions
      /\ fs[n] = f /\ \A k \in DOMAIN fs : k # n => fs[k] = emissions[k]
  BY <1>2, <1>6, TopReplaced
<1>8. Standing(fs) = Standing(emissions)
  <2>1. emissions[n].at = x
    BY DEF Top, n, x
  <2> HIDE DEF fs
  <2>2. DOMAIN fs = DOMAIN emissions /\ \A k \in DOMAIN emissions : fs[k].at = emissions[k].at
    BY <1>6, <1>7, <2>1
  <2>3. QED
    BY <2>2, StandingSame
<1>9. FrameOK(link, Q, f)
  BY <1>4, <1>6 DEF FrameOK
<1>10. ASSUME ~orphaned
       PROVE  Progress(link, Q, rank, f)
  <2>1. ASSUME NEW a \in f.due
        PROVE  f.calls[a] = IF Passed(link, Q, rank, f, a) THEN 1 ELSE 0
    <3>1. a \in e.due /\ a \in Q /\ a \in LinkAddress /\ e.at = x
      BY <1>4, <1>6 DEF FrameOK, e, x
    <3>2. e.calls[a] = IF Passed(link, Q, rank, e, a) THEN 1 ELSE 0
      BY <1>4, <1>10, <3>1 DEF Progress
    <3>3. Passed(link, Q, rank, e, a) <=> rank[a] < rank[x]
      BY <1>1, <1>5, <3>1 DEF Passed, e
    <3>4. Passed(link, Q, rank, f, a) <=> rank[a] < rank[x] \/ a = x
      BY <1>5, <1>6 DEF Passed
    <3>5. rank[x] \in Nat
      BY <1>2 DEF Ranks
    <3>6. QED
      BY <1>6, <3>1, <3>2, <3>3, <3>4, <3>5
  <2>2. QED
    BY <2>1 DEF Progress
<1> HIDE DEF fs
<1>11. RingOK(link, fs, orphaned, Q, rank)
  <2>1. \A k \in DOMAIN fs :
           \/ k \in DOMAIN emissions /\ fs[k] = emissions[k]
           \/ FrameOK(link, Q, fs[k]) /\ (~orphaned => Progress(link, Q, rank, fs[k]))
    BY <1>7, <1>9, <1>10
  <2>2. SameLinks(link, link)
    BY DEF SameLinks
  <2>3. QED
    BY <1>3, <1>7, <1>8, <2>1, <2>2, RingGoesOn
<1>12. QED
  <2>1. /\ LinksOK(link') /\ emissions' \in Seq(Frames)
        /\ RingOK(link', emissions', orphaned', Q, rank)
        /\ freedRead' \in BOOLEAN /\ orphaned' \in BOOLEAN /\ (freedRead' => orphaned')
        /\ budget' \in [connects : Nat, emits : Nat]
    BY <1>1, <1>7, <1>11 DEF SignalInv, SignalTypeOK
  <2>2. QED
    BY <2>1, RingRestored

\* The emission goes on to the next link: no handler is passed on the way but the one it
\* leaves, which it has called.  The link it stands on points nowhere only when it was
\* removed and the one it points to was removed after it.
LEMMA AdvanceInv ==
  ASSUME SignalInv, emissions # <<>>, ~freedRead, Advance,
         Top.phase = "calling" \/ (Top.phase = "arrived" /\ ~link[Top.at].active),
         orphaned' = orphaned, budget' = budget
  PROVE  SignalInv'
<1> DEFINE e == Top
           n == Len(emissions)
           x == Top.at
           y == link[x].next
<1>1. e.phase # "done" /\ (e.phase = "arrived" => ~link[x].active)
      /\ e.phase \in {"arrived", "calling"}
  OBVIOUS
<1>2. /\ n \in DOMAIN emissions /\ emissions \in Seq(Frames)
      /\ e \in Frames /\ x \in LinkAddress /\ RingExists
  BY TopFrame
<1>3. PICK Q \in SUBSET LinkAddress, rank \in Ranks :
           /\ RingOK(link, emissions, orphaned, Q, rank)
           /\ Ringed(link, Q) /\ Ranked(link, Q, rank) /\ Counted(link, Q, Standing(emissions))
           /\ Ring = Q \ {RingHead} /\ RingHead \in Q /\ Q \subseteq DOMAIN link
  BY <1>2, RingThere
<1>4. /\ x \in DOMAIN link /\ FrameOK(link, Q, e)
      /\ (~orphaned => Progress(link, Q, rank, e))
  <2>1. e = emissions[n]
    BY DEF Top
  <2>2. x \in DOMAIN link
    BY <1>2, <1>3, <2>1, Held
  <2>3. QED
    BY <1>2, <1>3, <2>1, <2>2 DEF RingOK
<1>5. ASSUME ~orphaned
      PROVE  y \in Q
  BY <1>3, <1>4, <1>5 DEF RingOK, Ringed
<1>6. /\ LinksOK(link) /\ (freedRead => orphaned) /\ orphaned \in BOOLEAN
      /\ freedRead \in BOOLEAN
      /\ budget \in [connects : Nat, emits : Nat]
  BY DEF SignalInv, SignalTypeOK
<1> DEFINE f == [e EXCEPT !.at = y, !.phase = IF y = RingHead THEN "done" ELSE "arrived"]
           fs == [emissions EXCEPT ![n] = f]
           m == StepOn(link, x, y)
<1>7. \/ /\ y \notin DOMAIN link
         /\ freedRead' = TRUE /\ link' = link /\ emissions' = emissions
      \/ /\ y \in DOMAIN link
         /\ link' = m /\ emissions' = fs /\ freedRead' = freedRead
  BY <1>4 DEF Advance, SetTop
<1>8. CASE /\ y \notin DOMAIN link
           /\ freedRead' = TRUE /\ link' = link /\ emissions' = emissions
  <2>1. orphaned
    BY <1>3, <1>5, <1>8
  <2>2. /\ LinksOK(link') /\ emissions' \in Seq(Frames)
        /\ RingOK(link', emissions', orphaned', Q, rank)
        /\ freedRead' \in BOOLEAN /\ orphaned' \in BOOLEAN /\ (freedRead' => orphaned')
        /\ budget' \in [connects : Nat, emits : Nat]
    <3> HIDE DEF e, n, x, y, f, fs, m
    <3>1. QED
      BY <1>2, <1>3, <1>6, <1>8, <2>1
  <2>3. QED
    BY <2>2, RingRestored
<1>9. CASE /\ y \in DOMAIN link
           /\ link' = m /\ emissions' = fs /\ freedRead' = freedRead
  <2>1. /\ f \in Frames /\ f.at = y /\ f.due = e.due /\ f.calls = e.calls
        /\ f.phase = IF y = RingHead THEN "done" ELSE "arrived"
    <3> DEFINE p == IF y = RingHead THEN "done" ELSE "arrived"
    <3>1. y \in LinkAddress /\ p \in {"arrived", "calling", "done"}
      BY <1>6, <1>9 DEF LinksOK
    <3> HIDE DEF e, x, y, p
    <3>2. QED
      BY <1>2, <3>1 DEF Frames, p
  <2> HIDE DEF f
  <2>2. /\ fs \in Seq(Frames) /\ DOMAIN fs = DOMAIN emissions
        /\ fs[n] = f /\ \A k \in DOMAIN fs : k # n => fs[k] = emissions[k]
    BY <1>2, <2>1, TopReplaced
  <2> DEFINE s == Standing(emissions)
             i == IncRef(link, y)
             more == [s EXCEPT ![y] = s[y] + 1]
  <2>3. emissions[n].at = x
    BY DEF Top
  <2>4. Standing(fs) = [more EXCEPT ![x] = more[x] - 1]
    BY <1>2, <2>1, <2>3, StandingMoved
  <2>5. /\ s \in [LinkAddress -> Nat] /\ s[x] # 0
    BY <1>2, <2>3, StandingType
  <2>6. LinksOK(i) /\ SameLinks(link, i) /\ DOMAIN i = DOMAIN link
    BY <1>6, <1>9, IncRefLinks
  <2>7. Counted(i, Q, more)
    BY <1>3, <1>6, <1>9, IncRefCounted
  <2>8. more[x] # 0
    <3> HIDE DEF s, x, y
    <3>1. s[x] + 1 # 0
      BY <1>2, <2>5
    <3>2. QED
      BY <1>2, <2>5, <3>1
  <2> HIDE DEF more, s, fs, i
  <2>9. /\ Counted(DecRef(i, x), Q, [more EXCEPT ![x] = more[x] - 1])
        /\ LinksOK(DecRef(i, x)) /\ SameLinks(i, DecRef(i, x))
        /\ Q \subseteq DOMAIN DecRef(i, x)
    BY <1>2, <1>3, <2>6, <2>7, <2>8, DecRefCounted
  <2>10. m = DecRef(i, x)
    BY DEF StepOn, i
  <2> HIDE DEF m
  <2>11. /\ Counted(m, Q, Standing(fs)) /\ LinksOK(m) /\ Q \subseteq DOMAIN m
         /\ SameLinks(link, m)
    BY <2>4, <2>6, <2>9, <2>10 DEF SameLinks
  <2>12. FrameOK(m, Q, f)
    <3>1. m[RingHead].active = link[RingHead].active
      BY <1>3, <2>11 DEF SameLinks
    <3>2. QED
      BY <1>4, <2>1, <3>1 DEF FrameOK
  <2>13. ASSUME ~orphaned
         PROVE  Progress(m, Q, rank, f)
    <3>1. y \in Q /\ rank[y] \in Nat
      BY <1>5, <2>13 DEF Ranks
    <3>2. ASSUME NEW a \in f.due
          PROVE  Passed(m, Q, rank, f, a) <=> Passed(link, Q, rank, e, a)
      <4>1. a \in e.due /\ a \in Q /\ rank[a] \in Nat /\ e.at = x
        BY <1>4, <2>1 DEF FrameOK, Ranks
      <4>2. Passed(m, Q, rank, f, a) <=> y = RingHead \/ rank[a] < rank[y]
        BY <2>1, <3>1 DEF Passed
      <4>3. CASE x \notin Q
        <5>1. Passed(link, Q, rank, e, a) <=> y = RingHead \/ rank[a] < rank[y]
          BY <1>1, <4>3 DEF Passed
        <5>2. QED
          BY <4>2, <5>1
      <4>4. CASE x \in Q
        <5>1. Passed(link, Q, rank, e, a) <=>
                rank[a] < rank[x] \/ (a = x /\ e.phase = "calling")
          BY <1>1, <4>4 DEF Passed
        <5>2. a = x => e.phase = "calling"
          <6>1. ASSUME a = x, e.phase = "arrived"
                PROVE  FALSE
            <7>1. ~link[x].active
              BY <1>1, <6>1
            <7>2. x = RingHead
              BY <1>3, <1>4, <4>4, <7>1 DEF Ringed
            <7>3. QED
              BY <1>4, <4>1, <6>1, <7>1, <7>2 DEF FrameOK
          <6>2. QED
            BY <1>1, <6>1
        <5>3. /\ rank[a] = rank[x] => a = x
              /\ y # RingHead => rank[x] < rank[y]
              /\ rank[x] < rank[a] => y # RingHead /\ rank[y] <= rank[a]
          BY <1>3, <4>1, <4>4 DEF Ranked
        <5>4. rank[x] \in Nat
          BY <1>2 DEF Ranks
        <5> HIDE DEF e, x, y
        <5>5. rank[a] < rank[x] \/ a = x <=> y = RingHead \/ rank[a] < rank[y]
          <6>1. rank[a] < rank[x] \/ rank[a] = rank[x] \/ rank[x] < rank[a]
            BY <4>1, <5>4
          <6>2. CASE rank[a] < rank[x]
            BY <3>1, <4>1, <5>3, <5>4, <6>2
          <6>3. CASE rank[a] = rank[x]
            BY <3>1, <4>1, <5>3, <5>4, <6>3
          <6>4. CASE rank[x] < rank[a]
            <7>1. ~(rank[a] < rank[x]) /\ a # x
              BY <4>1, <5>4, <6>4
            <7>2. y # RingHead /\ ~(rank[a] < rank[y])
              BY <3>1, <4>1, <5>3, <6>4
            <7>3. QED
              BY <7>1, <7>2
          <6>5. QED
            BY <6>1, <6>2, <6>3, <6>4
        <5>6. QED
          BY <4>2, <5>1, <5>2, <5>5
      <4>5. QED
        BY <4>3, <4>4
    <3>3. Progress(link, Q, rank, e)
      BY <1>4, <2>13
    <3> HIDE DEF e
    <3>4. QED
      BY <2>1, <3>2, <3>3 DEF Progress
  <2>14. \A k \in DOMAIN fs :
           \/ k \in DOMAIN emissions /\ fs[k] = emissions[k]
           \/ FrameOK(m, Q, fs[k]) /\ (~orphaned => Progress(m, Q, rank, fs[k]))
    BY <2>2, <2>12, <2>13
  <2>15. RingOK(m, fs, orphaned, Q, rank)
    BY <1>3, <2>2, <2>11, <2>14, RingGoesOn
  <2>16. /\ LinksOK(link') /\ emissions' \in Seq(Frames)
         /\ RingOK(link', emissions', orphaned', Q, rank)
         /\ freedRead' \in BOOLEAN /\ orphaned' \in BOOLEAN /\ (freedRead' => orphaned')
         /\ budget' \in [connects : Nat, emits : Nat]
    <3> HIDE DEF e, n, x, y
    <3>1. QED
      BY <1>6, <1>9, <2>2, <2>11, <2>15
  <2>17. QED
    BY <2>16, RingRestored
<1>10. QED
  BY <1>7, <1>8, <1>9

\* The emission ends, and its reference goes with it.
LEMMA LeaveInv ==
  ASSUME SignalInv, emissions # <<>>, link' = LeaveRing(link, Top.at), emissions' = Below,
         freedRead' = freedRead, orphaned' = orphaned, budget' = budget
  PROVE  SignalInv'
<1> DEFINE x == Top.at
           fs == Front(emissions)
           s == Standing(emissions)
           m == DecRef(link, x)
<1>1. /\ x \in LinkAddress /\ emissions \in Seq(Frames) /\ RingExists
      /\ Len(emissions) \in DOMAIN emissions /\ x = emissions[Len(emissions)].at
  BY TopFrame DEF Top
<1>2. PICK Q \in SUBSET LinkAddress, rank \in Ranks :
           /\ RingOK(link, emissions, orphaned, Q, rank)
           /\ Ringed(link, Q) /\ Ranked(link, Q, rank) /\ Counted(link, Q, Standing(emissions))
           /\ Ring = Q \ {RingHead} /\ RingHead \in Q /\ Q \subseteq DOMAIN link
  BY <1>1, RingThere
<1>3. /\ LinksOK(link) /\ (freedRead => orphaned) /\ orphaned \in BOOLEAN
      /\ freedRead \in BOOLEAN /\ budget \in [connects : Nat, emits : Nat]
  BY DEF SignalInv, SignalTypeOK
<1>4. emissions' = fs /\ link' = m
  BY DEF Below, Front, LeaveRing
<1>5. s[x] # 0
  BY <1>1, StandingType
<1>6. /\ fs \in Seq(Frames) /\ DOMAIN fs \subseteq DOMAIN emissions
      /\ \A k \in DOMAIN fs : fs[k] = emissions[k]
      /\ Standing(fs) = [s EXCEPT ![x] = s[x] - 1]
  BY <1>1, StandingPopped
<1> HIDE DEF fs, x
<1>7. /\ Counted(m, Q, [s EXCEPT ![x] = s[x] - 1])
      /\ LinksOK(m) /\ SameLinks(link, m) /\ Q \subseteq DOMAIN m
  BY <1>1, <1>2, <1>3, <1>5, DecRefCounted
<1> HIDE DEF s, m
<1>8. RingOK(m, fs, orphaned, Q, rank)
  <2>1. \A k \in DOMAIN fs :
           \/ k \in DOMAIN emissions /\ fs[k] = emissions[k]
           \/ FrameOK(m, Q, fs[k]) /\ (~orphaned => Progress(m, Q, rank, fs[k]))
    BY <1>6
  <2>2. Counted(m, Q, Standing(fs))
    BY <1>6, <1>7
  <2>3. QED
    BY <1>2, <1>6, <1>7, <2>1, <2>2, RingGoesOn
<1>9. QED
  BY <1>3, <1>4, <1>6, <1>7, <1>8, RingRestored

LEMMA SignalNextInv ==
  ASSUME SignalInv, [SignalNext]_signalVars
  PROVE  SignalInv'
<1>1. ASSUME NEW a \in Addresses, Connect(a)
      PROVE  SignalInv'
  BY <1>1, ConnectInv
<1>2. ASSUME NEW a \in Addresses, Disconnect(a)
      PROVE  SignalInv'
  BY <1>2, DisconnectInv
<1>3. CASE Emit
  BY <1>3, EmitInv
<1>4. CASE Call
  BY <1>4, CallInv
<1>5. CASE Skip
  BY <1>5, AdvanceInv DEF Skip
<1>6. CASE Return
  BY <1>6, AdvanceInv DEF Return
<1>7. CASE Stop
  BY <1>7, LeaveInv DEF Stop
<1>8. CASE Done
  <2>1. Top.at = RingHead
    <3>1. Len(emissions) \in DOMAIN emissions /\ RingExists /\ Top = emissions[Len(emissions)]
      BY <1>8, TopFrame DEF Done, Top
    <3>2. \E Q, rank : RingOK(link, emissions, orphaned, Q, rank)
      BY <3>1, RingThere
    <3>3. QED
      BY <1>8, <3>1, <3>2 DEF Done, RingOK, FrameOK
  <2>2. QED
    BY <1>8, <2>1, LeaveInv DEF Done
<1>9. CASE UNCHANGED signalVars
  <2>1. /\ link' = link /\ emissions' = emissions /\ freedRead' = freedRead
        /\ orphaned' = orphaned /\ budget' = budget
    BY <1>9 DEF signalVars
  <2>2. RingExists' <=> RingExists
    BY <2>1 DEF RingExists
  <2>3. QED
    BY <2>1, <2>2 DEF SignalInv, SignalTypeOK
<1>10. QED
  BY <1>1, <1>2, <1>3, <1>4, <1>5, <1>6, <1>7, <1>8, <1>9 DEF SignalNext

\* The ring, its reference counts and the emissions under way always fit together.
THEOREM SignalInvariant == SignalSpec => []SignalInv
<1>1. SignalInit => SignalInv
  BY SignalInitInv
<1>2. SignalInv /\ [SignalNext]_signalVars => SignalInv'
  BY SignalNextInv
<1>3. QED
  BY <1>1, <1>2, PTL DEF SignalSpec

\* emit() touches a freed link only where a removed link it stands on points to another
\* that was removed after it.
THEOREM SafeButForOrphansAlways == SignalSpec => []SafeButForOrphans
<1>1. SignalInv => SafeButForOrphans
  BY DEF SignalInv, SafeButForOrphans
<1>2. QED
  BY <1>1, SignalInvariant, PTL

\* An emission that comes back to the head has called each handler that was connected all
\* the while exactly once.
THEOREM CalledOnceAlways == SignalSpec => []CalledOnce
<1>1. SignalInv => CalledOnce
  <2> SUFFICES ASSUME SignalInv, ~orphaned, NEW k \in DOMAIN emissions,
                      emissions[k].phase = "done", NEW a \in emissions[k].due
               PROVE  emissions[k].calls[a] = 1
    BY DEF CalledOnce
  <2>1. RingExists
    BY NoRing
  <2>2. PICK Q, rank : RingOK(link, emissions, orphaned, Q, rank)
    BY <2>1, RingThere
  <2>3. Progress(link, Q, rank, emissions[k])
    BY <2>2 DEF RingOK
  <2>4. Passed(link, Q, rank, emissions[k], a)
    BY DEF Passed
  <2>5. QED
    BY <2>3, <2>4 DEF Progress
<1>2. QED
  BY <1>1, SignalInvariant, PTL

\* Between emissions the links are those of the ring, and no reference is left over.
THEOREM RingSettlesAlways == SignalSpec => []RingSettles
<1>1. SignalInv => RingSettles
  <2> SUFFICES ASSUME SignalInv, emissions = <<>>, RingExists
               PROVE  /\ DOMAIN link = Ring \cup {RingHead}
                      /\ link[RingHead].refs = 2 /\ \A a \in Ring : link[a].refs = 1
                      /\ \A a \in DOMAIN link : /\ link[link[a].next].prev = a
                                                /\ link[link[a].prev].next = a
    BY DEF RingSettles
  <2>1. PICK Q \in SUBSET LinkAddress, rank \in Ranks :
           /\ RingOK(link, emissions, orphaned, Q, rank)
           /\ Ringed(link, Q) /\ Ranked(link, Q, rank) /\ Counted(link, Q, Standing(emissions))
           /\ Ring = Q \ {RingHead} /\ RingHead \in Q /\ Q \subseteq DOMAIN link
    BY RingThere
  <2>2. DOMAIN link \subseteq LinkAddress
    BY DEF SignalInv, SignalTypeOK, LinksOK
  <2>3. \A a \in DOMAIN link : Standing(emissions)[a] = 0
    BY <2>2, StandingNowhere
  <2>4. \A a \in DOMAIN link : link[a].refs = RingRefs(Q, a) + 0 /\ link[a].refs # 0
    BY <2>1, <2>3 DEF Counted
  <2>5. \A a \in DOMAIN link : a \in Q
    <3>1. \A a \in DOMAIN link : a \notin Q => RingRefs(Q, a) = 0
      BY <2>1 DEF RingRefs
    <3>2. QED
      BY <2>4, <3>1
  <2>6. link[RingHead].refs = 2
    BY <2>1, <2>4 DEF RingRefs
  <2>7. \A a \in Ring : link[a].refs = 1
    BY <2>1, <2>4 DEF RingRefs
  <2>8. \A a \in DOMAIN link : /\ link[link[a].next].prev = a
                               /\ link[link[a].prev].next = a
    BY <2>1, <2>5 DEF Ringed
  <2>9. QED
    BY <2>1, <2>5, <2>6, <2>7, <2>8
<1>2. QED
  BY <1>1, SignalInvariant, PTL

-----------------------------------------------------------------------------
(* Numbers in bytes.                                                       *)

Byte == 0 .. Base - 1

\* A function defined by recursion exists.
IsRecursion(f, a, g, n) == f = [i \in 0 .. n |-> IF i = 0 THEN a ELSE g[<<i, f[i - 1]>>]]

LEMMA RecursionExists ==
  ASSUME NEW S, NEW a \in S, NEW g \in [Nat \X S -> S]
  PROVE  \A n \in Nat : \E f \in [0 .. n -> S] : IsRecursion(f, a, g, n)
<1> DEFINE T == {n \in Nat : \E f \in [0 .. n -> S] : IsRecursion(f, a, g, n)}
<1>1. 0 \in T
  <2> DEFINE f == [i \in 0 .. 0 |-> a]
  <2>1. f \in [0 .. 0 -> S]
    OBVIOUS
  <2>2. IsRecursion(f, a, g, 0)
    BY DEF IsRecursion
  <2>3. QED
    BY <2>1, <2>2
<1>2. ASSUME NEW n \in T
      PROVE  n + 1 \in T
  <2>1. PICK f \in [0 .. n -> S] : IsRecursion(f, a, g, n)
    OBVIOUS
  <2>2. f = [i \in 0 .. n |-> IF i = 0 THEN a ELSE g[<<i, f[i - 1]>>]]
    BY <2>1 DEF IsRecursion
  <2> DEFINE z == g[<<n + 1, f[n]>>]
             h == [i \in 0 .. n + 1 |-> IF i = n + 1 THEN z ELSE f[i]]
  <2>3. n \in Nat /\ n + 1 \in Nat /\ n + 1 # 0
    OBVIOUS
  <2>4. z \in S
    <3>1. f[n] \in S
      BY <2>1, <2>3
    <3>2. QED
      BY <2>3, <3>1
  <2> HIDE DEF z, T
  <2>5. h \in [0 .. n + 1 -> S]
    BY <2>1, <2>3, <2>4
  <2>6. /\ \A i \in 0 .. n : h[i] = f[i] /\ i \in 0 .. n + 1 /\ i # n + 1
        /\ h[n + 1] = z
    BY <2>3
  <2>7. ASSUME NEW i \in 0 .. n + 1
        PROVE  h[i] = IF i = 0 THEN a ELSE g[<<i, h[i - 1]>>]
    <3> HIDE DEF h
    <3>1. CASE i = n + 1
      <4>1. i # 0 /\ i - 1 = n /\ n \in 0 .. n
        BY <2>3, <3>1
      <4>2. QED
        BY <2>6, <3>1, <4>1 DEF z
    <3>2. CASE i # n + 1
      <4>1. i \in 0 .. n /\ (i # 0 => i - 1 \in 0 .. n)
        BY <2>3, <3>2
      <4>2. f[i] = IF i = 0 THEN a ELSE g[<<i, f[i - 1]>>]
        BY <2>2, <4>1
      <4>3. QED
        BY <2>6, <4>1, <4>2
    <3>3. QED
      BY <3>1, <3>2
  <2>8. h = [i \in 0 .. n + 1 |-> IF i = 0 THEN a ELSE g[<<i, h[i - 1]>>]]
    <3>1. h \in [0 .. n + 1 -> S]
      BY <2>5
    <3> HIDE DEF h
    <3>2. QED
      BY <2>7, <3>1
  <2>9. IsRecursion(h, a, g, n + 1)
    <3> HIDE DEF h
    <3>1. QED
      BY <2>8 DEF IsRecursion
  <2>10. QED
    <3> HIDE DEF h
    <3>1. QED
      BY <2>3, <2>5, <2>9 DEF T
<1>3. T = Nat
  <2>1. T \subseteq Nat
    OBVIOUS
  <2> HIDE DEF T
  <2>2. QED
    BY <1>1, <1>2, <2>1, SetInduction
<1>4. QED
  BY <1>3

IsPowers(p, n) == p = [i \in 0 .. n |-> IF i = 0 THEN 1 ELSE Base * p[i - 1]]

LEMMA PowersExist ==
  \A n \in Nat : \E p : IsPowers(p, n)
<1> SUFFICES ASSUME NEW n \in Nat
             PROVE  \E p : IsPowers(p, n)
  OBVIOUS
<1> DEFINE g == [t \in Nat \X Nat |-> Base * t[2]]
<1>b. Base \in Nat
  BY StreamAssumption
<1>1. g \in [Nat \X Nat -> Nat] /\ \A i, x \in Nat : g[<<i, x>>] = Base * x
  <2>1. \A t \in Nat \X Nat : Base * t[2] \in Nat
    BY <1>b
  <2>2. QED
    BY <2>1
<1> HIDE DEF g
<1>2. PICK p \in [0 .. n -> Nat] : IsRecursion(p, 1, g, n)
  BY <1>1, RecursionExists
<1>3. p = [i \in 0 .. n |-> IF i = 0 THEN 1 ELSE g[<<i, p[i - 1]>>]]
  BY <1>2 DEF IsRecursion
<1>4. ASSUME NEW i \in 0 .. n, i # 0
      PROVE  g[<<i, p[i - 1]>>] = Base * p[i - 1]
  <2>1. i - 1 \in 0 .. n /\ i \in Nat
    BY <1>4
  <2>2. p[i - 1] \in Nat
    BY <1>2, <2>1
  <2>3. QED
    BY <1>1, <2>1, <2>2
<1>5. IsPowers(p, n)
  BY <1>3, <1>4 DEF IsPowers
<1>6. QED
  BY <1>5

LEMMA PowersAgree ==
  ASSUME NEW n \in Nat, NEW m \in Nat, NEW p, NEW q, IsPowers(p, n), IsPowers(q, m)
  PROVE  \A i \in Nat : i <= n /\ i <= m => p[i] = q[i] /\ p[i] \in Nat \ {0}
<1> DEFINE T == {i \in Nat : i <= n /\ i <= m => p[i] = q[i] /\ p[i] \in Nat \ {0}}
<1>1. /\ \A i \in 0 .. n : p[i] = IF i = 0 THEN 1 ELSE Base * p[i - 1]
      /\ \A i \in 0 .. m : q[i] = IF i = 0 THEN 1 ELSE Base * q[i - 1]
  BY DEF IsPowers
<1>b. Base \in Nat \ {0}
  BY StreamAssumption
<1>2. 0 \in T
  BY <1>1
<1>3. ASSUME NEW i \in T
      PROVE  i + 1 \in T
  <2> SUFFICES ASSUME i + 1 <= n, i + 1 <= m
               PROVE  p[i + 1] = q[i + 1] /\ p[i + 1] \in Nat \ {0}
    OBVIOUS
  <2>1. i \in Nat /\ i <= n /\ i <= m /\ i + 1 \in 0 .. n /\ i + 1 \in 0 .. m /\ i + 1 # 0
        /\ (i + 1) - 1 = i
    OBVIOUS
  <2>2. p[i] = q[i] /\ p[i] \in Nat \ {0}
    BY <2>1
  <2>3. p[i + 1] = Base * p[i] /\ q[i + 1] = Base * q[i]
    BY <1>1, <2>1
  <2>4. \A x \in Nat \ {0} : Base * x \in Nat \ {0}
    BY <1>b
  <2>5. QED
    BY <2>2, <2>3, <2>4
<1>4. T = Nat
  <2>1. T \subseteq Nat
    OBVIOUS
  <2> HIDE DEF T
  <2>2. QED
    BY <1>2, <1>3, <2>1, SetInduction
<1>5. QED
  BY <1>4

LEMMA PowerUnfold ==
  ASSUME NEW n \in Nat
  PROVE  \E p : IsPowers(p, n) /\ Power(n) = p[n]
<1> DEFINE p == CHOOSE power : power = [i \in 0 .. n |-> IF i = 0 THEN 1 ELSE Base * power[i - 1]]
<1>1. \E power : power = [i \in 0 .. n |-> IF i = 0 THEN 1 ELSE Base * power[i - 1]]
  BY PowersExist DEF IsPowers
<1>2. p = [i \in 0 .. n |-> IF i = 0 THEN 1 ELSE Base * p[i - 1]]
  BY <1>1, Zenon
<1>3. Power(n) = p[n]
  BY DEF Power
<1> HIDE DEF p
<1>4. QED
  BY <1>2, <1>3 DEF IsPowers

\* Powers of the base.
LEMMA Powers ==
  /\ Power(0) = 1
  /\ \A n \in Nat : Power(n) \in Nat \ {0} /\ Power(n + 1) = Base * Power(n)
<1>1. Power(0) = 1
  BY PowerUnfold DEF IsPowers
<1>2. ASSUME NEW n \in Nat
      PROVE  Power(n) \in Nat \ {0} /\ Power(n + 1) = Base * Power(n)
  <2>1. PICK p : IsPowers(p, n) /\ Power(n) = p[n]
    BY PowerUnfold
  <2>2. n + 1 \in Nat /\ n <= n + 1 /\ n + 1 \in 0 .. n + 1 /\ n + 1 # 0 /\ (n + 1) - 1 = n
    OBVIOUS
  <2>3. PICK q : IsPowers(q, n + 1) /\ Power(n + 1) = q[n + 1]
    BY <2>2, PowerUnfold
  <2>4. q[n] = p[n] /\ p[n] \in Nat \ {0}
    BY <2>1, <2>2, <2>3, PowersAgree
  <2>5. q[n + 1] = Base * q[n]
    BY <2>2, <2>3 DEF IsPowers
  <2>6. QED
    BY <2>1, <2>3, <2>4, <2>5
<1>3. QED
  BY <1>1, <1>2

\* One more digit.
LEMMA DigitAdded ==
  ASSUME NEW v \in Nat, NEW b \in Nat \ {0}, NEW w \in Nat \ {0}
  PROVE  v % (b * w) = (v % w) + (((v \div w) % b) * w)
<1>1. PICK q \in Int, r \in 0 .. w - 1 : v = w * q + r /\ v \div w = q /\ v % w = r
  BY Division
<1>2. PICK q2 \in Int, d \in 0 .. b - 1 : q = b * q2 + d /\ q % b = d
  BY Division
<1> DEFINE n == b * w
           x == d * w + r
<1>3. d * w + w <= b * w /\ d * w \in Nat
  BY Products
<1>4. n \in Nat \ {0} /\ x \in 0 .. n - 1
  <2>1. n \in Nat
    OBVIOUS
  <2>2. d * w + r \in Nat /\ d * w + r <= b * w - 1
    BY <1>3
  <2>3. QED
    BY <2>1, <2>2
<1>5. v = n * q2 + x
  <2>1. w * (b * q2 + d) = (b * w) * q2 + d * w
    OBVIOUS
  <2>2. w * q = (b * w) * q2 + d * w
    BY <1>2, <2>1
  <2>3. QED
    BY <1>1, <2>2
<1> HIDE DEF n, x
<1>6. (n * q2 + x) % n = x
  BY <1>4, Quotient
<1>7. v % n = x
  BY <1>5, <1>6
<1>8. QED
  BY <1>1, <1>2, <1>7 DEF n, x

LEMMA SmallModulo ==
  ASSUME NEW v \in Nat, NEW n \in Nat \ {0}, v < n
  PROVE  v % n = v
<1>1. v \in 0 .. n - 1 /\ n * 0 + v = v
  OBVIOUS
<1>2. (n * 0 + v) % n = v
  BY <1>1, Quotient
<1>3. QED
  BY <1>1, <1>2

\* The bytes of a number.
LEMMA LittleBytes ==
  ASSUME NEW v \in Nat, NEW size \in Nat
  PROVE  /\ Little(v, size) \in Seq(Byte) /\ Len(Little(v, size)) = size
         /\ \A i \in 1 .. size : Little(v, size)[i] = (v \div Power(i - 1)) % Base
<1> DEFINE w == Little(v, size)
<1>1. ASSUME NEW i \in 1 .. size
      PROVE  (v \div Power(i - 1)) % Base \in Byte
  <2>1. Power(i - 1) \in Nat \ {0}
    <3>1. i - 1 \in Nat
      OBVIOUS
    <3>2. QED
      BY <3>1, Powers
  <2>2. v \div Power(i - 1) \in Int
    BY <2>1, Division
  <2>3. QED
    BY <2>2, StreamAssumption, Division DEF Byte
<1>2. w \in [1 .. size -> Byte]
  BY <1>1 DEF Little
<1>3. \A i \in 1 .. size : w[i] = (v \div Power(i - 1)) % Base
  BY DEF Little
<1> HIDE DEF w
<1>4. w \in Seq(Byte) /\ Len(w) = size
  BY <1>2, FunctionIsSeq
<1>5. QED
  BY <1>3, <1>4 DEF w

\* Turned around and back, they are as they were.
LEMMA OrderedBytes ==
  ASSUME NEW w \in Seq(Byte), NEW endian
  PROVE  /\ Ordered(w, endian) \in Seq(Byte) /\ Len(Ordered(w, endian)) = Len(w)
         /\ Ordered(Ordered(w, endian), endian) = w
<1>1. CASE endian # "BIG"
  BY <1>1 DEF Ordered
<1>2. CASE endian = "BIG"
  <2> DEFINE n == Len(w)
             r == [i \in 1 .. n |-> w[(n - i) + 1]]
  <2>1. n \in Nat /\ w \in [1 .. n -> Byte] /\ DOMAIN w = 1 .. n
    BY LenProperties, ElementOfSeq
  <2>2. r = Reverse(w)
    BY DEF Reverse
  <2> HIDE DEF n
  <2>3. \A i \in 1 .. n : (n - i) + 1 \in 1 .. n
    BY <2>1
  <2>4. r \in [1 .. n -> Byte]
    BY <2>1, <2>3
  <2>5. \A i \in 1 .. n : r[i] = w[(n - i) + 1]
    OBVIOUS
  <2> HIDE DEF r
  <2>6. r \in Seq(Byte) /\ Len(r) = n
    BY <2>1, <2>4, FunctionIsSeq
  <2>7. Reverse(r) = [i \in 1 .. n |-> r[(n - i) + 1]]
    BY <2>6 DEF Reverse
  <2>8. \A i \in 1 .. n : r[(n - i) + 1] = w[i]
    <3>1. ASSUME NEW i \in 1 .. n
          PROVE  r[(n - i) + 1] = w[i]
      <4>1. (n - i) + 1 \in 1 .. n /\ (n - ((n - i) + 1)) + 1 = i
        BY <2>1
      <4>2. r[(n - i) + 1] = w[(n - ((n - i) + 1)) + 1]
        BY <2>5, <4>1
      <4>3. QED
        BY <4>1, <4>2
    <3>2. QED
      BY <3>1
  <2>9. Reverse(r) = w
    BY <2>1, <2>7, <2>8
  <2>10. Ordered(w, endian) = r /\ Ordered(r, endian) = w
    BY <1>2, <2>2, <2>9 DEF Ordered
  <2>11. QED
    BY <2>6, <2>10 DEF n
<1>3. QED
  BY <1>1, <1>2

IsSum(sum, w) ==
  sum = [i \in 0 .. Len(w) |-> IF i = 0 THEN 0 ELSE sum[i - 1] + w[i] * Power(i - 1)]

LEMMA SumExists ==
  ASSUME NEW w \in Seq(Byte)
  PROVE  \E sum : IsSum(sum, w)
<1> DEFINE n == Len(w)
           digit(i) == IF i \in 1 .. n THEN w[i] * Power(i - 1) ELSE 0
           g == [t \in Nat \X Nat |-> t[2] + digit(t[1])]
<1>1. n \in Nat
  BY LenProperties
<1>2. \A i \in Nat : digit(i) \in Nat
  <2>1. ASSUME NEW i \in 1 .. n
        PROVE  w[i] * Power(i - 1) \in Nat
    <3>1. w[i] \in Nat
      BY ElementOfSeq, StreamAssumption DEF Byte
    <3>2. i - 1 \in Nat
      BY <1>1
    <3>3. Power(i - 1) \in Nat
      BY <3>2, Powers
    <3>4. QED
      BY <3>1, <3>3
  <2>2. QED
    BY <2>1
<1>3. \A i \in 1 .. n : digit(i) = w[i] * Power(i - 1)
  OBVIOUS
<1> HIDE DEF digit
<1>4. g \in [Nat \X Nat -> Nat] /\ \A i, x \in Nat : g[<<i, x>>] = x + digit(i)
  <2>1. ASSUME NEW t \in Nat \X Nat
        PROVE  t[2] + digit(t[1]) \in Nat
    <3>1. t[1] \in Nat /\ t[2] \in Nat
      OBVIOUS
    <3>2. digit(t[1]) \in Nat
      BY <1>2, <3>1
    <3>3. QED
      BY <3>1, <3>2
  <2>2. g \in [Nat \X Nat -> Nat]
    BY <2>1
  <2>3. ASSUME NEW i \in Nat, NEW x \in Nat
        PROVE  g[<<i, x>>] = x + digit(i)
    <3>1. <<i, x>> \in Nat \X Nat /\ <<i, x>>[1] = i /\ <<i, x>>[2] = x
      OBVIOUS
    <3>2. QED
      BY <3>1
  <2>4. QED
    BY <2>2, <2>3
<1> HIDE DEF g, n
<1>5. PICK s \in [0 .. n -> Nat] : IsRecursion(s, 0, g, n)
  BY <1>1, <1>4, RecursionExists
<1>6. s = [i \in 0 .. n |-> IF i = 0 THEN 0 ELSE g[<<i, s[i - 1]>>]]
  BY <1>5 DEF IsRecursion
<1>7. ASSUME NEW i \in 0 .. n, i # 0
      PROVE  g[<<i, s[i - 1]>>] = s[i - 1] + w[i] * Power(i - 1)
  <2>1. i - 1 \in 0 .. n /\ i \in Nat /\ i \in 1 .. n
    BY <1>1, <1>7
  <2>2. s[i - 1] \in Nat
    BY <1>5, <2>1
  <2>3. g[<<i, s[i - 1]>>] = s[i - 1] + digit(i)
    BY <1>4, <2>1, <2>2
  <2>4. QED
    BY <1>3, <2>1, <2>3
<1>8. s = [i \in 0 .. n |-> IF i = 0 THEN 0 ELSE s[i - 1] + w[i] * Power(i - 1)]
  BY <1>6, <1>7
<1>9. QED
  BY <1>8 DEF IsSum, n

LEMMA NumberUnfold ==
  ASSUME NEW w \in Seq(Byte)
  PROVE  \E sum : IsSum(sum, w) /\ Number(w) = sum[Len(w)]
<1> DEFINE s == CHOOSE sum : sum = [i \in 0 .. Len(w) |->
                  IF i = 0 THEN 0 ELSE sum[i - 1] + w[i] * Power(i - 1)]
<1>1. \E sum : sum = [i \in 0 .. Len(w) |->
                  IF i = 0 THEN 0 ELSE sum[i - 1] + w[i] * Power(i - 1)]
  BY SumExists DEF IsSum
<1>2. s = [i \in 0 .. Len(w) |-> IF i = 0 THEN 0 ELSE s[i - 1] + w[i] * Power(i - 1)]
  BY <1>1, Zenon
<1>3. Number(w) = s[Len(w)]
  BY DEF Number
<1> HIDE DEF s
<1>4. QED
  BY <1>2, <1>3 DEF IsSum

\* Bytes are a number,
LEMMA NumberType ==
  ASSUME NEW w \in Seq(Byte)
  PROVE  Number(w) \in Nat
<1>1. PICK sum : IsSum(sum, w) /\ Number(w) = sum[Len(w)]
  BY NumberUnfold
<1> DEFINE n == Len(w)
           T == {i \in Nat : i <= n => sum[i] \in Nat}
<1>2. n \in Nat
  BY LenProperties
<1>3. \A i \in 0 .. n : sum[i] = IF i = 0 THEN 0 ELSE sum[i - 1] + w[i] * Power(i - 1)
  BY <1>1 DEF IsSum
<1> HIDE DEF n
<1>4. 0 \in T
  BY <1>2, <1>3
<1>5. ASSUME NEW i \in T
      PROVE  i + 1 \in T
  <2> SUFFICES ASSUME i + 1 <= n
               PROVE  sum[i + 1] \in Nat
    OBVIOUS
  <2>1. i \in Nat /\ sum[i] \in Nat /\ i + 1 \in 1 .. n /\ i + 1 \in 0 .. n /\ i + 1 # 0
        /\ (i + 1) - 1 = i
    BY <1>2
  <2>2. w[i + 1] \in Nat
    BY <2>1, ElementOfSeq, StreamAssumption DEF Byte, n
  <2>3. Power(i) \in Nat
    BY <2>1, Powers
  <2>4. sum[i + 1] = sum[i] + w[i + 1] * Power(i)
    BY <1>3, <2>1
  <2>5. \A x, y \in Nat : x * y \in Nat
    OBVIOUS
  <2>6. w[i + 1] * Power(i) \in Nat
    BY <2>2, <2>3, <2>5
  <2>7. QED
    BY <2>1, <2>4, <2>6
<1>6. T = Nat
  <2>1. T \subseteq Nat
    OBVIOUS
  <2> HIDE DEF T
  <2>2. QED
    BY <1>4, <1>5, <2>1, SetInduction
<1>7. QED
  BY <1>1, <1>2, <1>6 DEF n

\* and those of a number are that number.
LEMMA NumberOfLittle ==
  ASSUME NEW v \in Nat, NEW size \in Nat, v < Power(size)
  PROVE  Number(Little(v, size)) = v
<1> DEFINE w == Little(v, size)
<1>1. /\ w \in Seq(Byte) /\ Len(w) = size
      /\ \A i \in 1 .. size : w[i] = (v \div Power(i - 1)) % Base
  BY LittleBytes
<1> HIDE DEF w
<1>2. PICK sum : IsSum(sum, w) /\ Number(w) = sum[size]
  BY <1>1, NumberUnfold
<1>3. \A i \in 0 .. size : sum[i] = IF i = 0 THEN 0 ELSE sum[i - 1] + w[i] * Power(i - 1)
  BY <1>1, <1>2 DEF IsSum
<1> DEFINE T == {i \in Nat : i <= size => sum[i] = v % Power(i)}
<1>4. 0 \in T
  BY <1>3, Powers
<1>5. ASSUME NEW i \in T
      PROVE  i + 1 \in T
  <2> SUFFICES ASSUME i + 1 <= size
               PROVE  sum[i + 1] = v % Power(i + 1)
    OBVIOUS
  <2>1. i \in Nat /\ sum[i] = v % Power(i) /\ i + 1 \in 1 .. size /\ i + 1 \in 0 .. size
        /\ i + 1 # 0 /\ (i + 1) - 1 = i
    OBVIOUS
  <2>2. Power(i) \in Nat \ {0} /\ Power(i + 1) = Base * Power(i)
    BY <2>1, Powers
  <2>3. sum[i + 1] = sum[i] + w[i + 1] * Power(i)
    BY <1>3, <2>1
  <2>4. w[i + 1] = (v \div Power(i)) % Base
    BY <1>1, <2>1
  <2>5. v % (Base * Power(i)) = (v % Power(i)) + (((v \div Power(i)) % Base) * Power(i))
    BY <2>2, StreamAssumption, DigitAdded
  <2>6. QED
    BY <2>1, <2>2, <2>3, <2>4, <2>5
<1>6. T = Nat
  <2>1. T \subseteq Nat
    OBVIOUS
  <2> HIDE DEF T
  <2>2. QED
    BY <1>4, <1>5, <2>1, SetInduction
<1>7. sum[size] = v % Power(size)
  BY <1>6
<1>8. v % Power(size) = v
  BY Powers, SmallModulo
<1>9. QED
  BY <1>2, <1>7, <1>8 DEF w

-----------------------------------------------------------------------------
(* Bytes in a stream.                                                      *)

\* The bytes w stand in d from p on.
Stands(d, p, w) == p + Len(w) <= Len(d) /\ \A i \in 1 .. Len(w) : d[p + i] = w[i]

LEMMA SliceStands ==
  ASSUME NEW d \in Seq(Byte), NEW p \in Nat, NEW w \in Seq(Byte), Stands(d, p, w)
  PROVE  SubSeq(d, p + 1, p + Len(w)) = w
<1> DEFINE n == Len(w)
           s == SubSeq(d, p + 1, p + n)
<1>1. /\ n \in Nat /\ Len(d) \in Nat /\ p + n <= Len(d)
      /\ \A i \in 1 .. n : d[p + i] = w[i]
  BY LenProperties DEF Stands
<1>2. \A i \in p + 1 .. p + n : d[i] \in Byte
  <2>1. \A i \in p + 1 .. p + n : i \in 1 .. Len(d)
    BY <1>1
  <2>2. QED
    BY <2>1, ElementOfSeq
<1> HIDE DEF n
<1>3. /\ s \in Seq(Byte)
      /\ Len(s) = IF p + 1 <= p + n THEN p + n - (p + 1) + 1 ELSE 0
      /\ \A i \in 1 .. p + n - (p + 1) + 1 : s[i] = d[p + 1 + i - 1]
  BY <1>1, <1>2, SubSeqProperties
<1> HIDE DEF s
<1>4. Len(s) = n
  BY <1>1, <1>3
<1>5. \A i \in 1 .. n : s[i] = w[i]
  <2>1. ASSUME NEW i \in 1 .. n
        PROVE  s[i] = w[i]
    <3>1. i \in 1 .. p + n - (p + 1) + 1 /\ p + 1 + i - 1 = p + i
      BY <1>1
    <3>2. QED
      BY <1>1, <1>3, <3>1
  <2>2. QED
    BY <2>1
<1>6. s = w
  BY <1>1, <1>3, <1>4, <1>5, SeqEqual DEF n
<1>7. QED
  BY <1>6 DEF s, n

LEMMA PartsStand ==
  ASSUME NEW d, Len(d) \in Nat, NEW p \in Nat, NEW u \in Seq(Byte), NEW w \in Seq(Byte),
         Stands(d, p, u \o w)
  PROVE  Stands(d, p, u) /\ Stands(d, p + Len(u), w)
<1> DEFINE x == u \o w
           m == Len(u)
           n == Len(w)
<1>1. /\ m \in Nat /\ n \in Nat /\ Len(x) = m + n
      /\ \A i \in 1 .. m + n : x[i] = IF i <= m THEN u[i] ELSE w[i - m]
  BY ConcatProperties, LenProperties
<1>2. p + (m + n) <= Len(d) /\ \A i \in 1 .. m + n : d[p + i] = x[i]
  BY <1>1 DEF Stands
<1> HIDE DEF x, m, n
<1>3. ASSUME NEW i \in 1 .. m
      PROVE  d[p + i] = u[i]
  <2>1. i \in 1 .. m + n /\ i <= m
    BY <1>1
  <2>2. QED
    BY <1>1, <1>2, <2>1
<1>4. ASSUME NEW i \in 1 .. n
      PROVE  d[(p + m) + i] = w[i]
  <2>1. m + i \in 1 .. m + n /\ ~(m + i <= m) /\ (m + i) - m = i /\ p + (m + i) = (p + m) + i
    BY <1>1
  <2>2. QED
    BY <1>1, <1>2, <2>1
<1>5. p + m <= Len(d) /\ (p + m) + n <= Len(d)
  BY <1>1, <1>2
<1>6. QED
  BY <1>3, <1>4, <1>5 DEF Stands, m, n

\* What is written stands there, and what stood elsewhere still does.
LEMMA StoredStands ==
  ASSUME NEW d \in Seq(Byte), NEW p \in Nat, NEW w \in Seq(Byte)
  PROVE  /\ Stored(d, p, w) \in Seq(Byte) /\ Stands(Stored(d, p, w), p, w)
         /\ \A q \in Nat, u \in Seq(Byte) :
              Stands(d, q, u) /\ (q + Len(u) <= p \/ p + Len(w) <= q) =>
                Stands(Stored(d, p, w), q, u)
<1> DEFINE m == Len(d)
           n == Len(w)
           k == IF p + n > m THEN p + n ELSE m
           byte(i) == IF i \in p + 1 .. p + n THEN w[i - p] ELSE IF i <= m THEN d[i] ELSE 0
           e == Stored(d, p, w)
<1>1. m \in Nat /\ n \in Nat /\ k \in Nat /\ p + n <= k /\ m <= k
  BY LenProperties
<1>2. e = [i \in 1 .. k |-> byte(i)]
  BY DEF Stored
<1>3. \A i \in 1 .. k : byte(i) \in Byte
  <2>1. ASSUME NEW i \in 1 .. k
        PROVE  byte(i) \in Byte
    <3>1. CASE i \in p + 1 .. p + n
      <4>1. i - p \in 1 .. Len(w)
        BY <1>1, <3>1
      <4>2. w[i - p] \in Byte
        BY <4>1, ElementOfSeq
      <4>3. QED
        BY <3>1, <4>2
    <3>2. CASE i \notin p + 1 .. p + n /\ i <= m
      <4>1. i \in 1 .. Len(d)
        BY <1>1, <3>2
      <4>2. d[i] \in Byte
        BY <4>1, ElementOfSeq
      <4>3. QED
        BY <3>2, <4>2
    <3>3. CASE i \notin p + 1 .. p + n /\ ~(i <= m)
      BY <3>3, StreamAssumption DEF Byte
    <3>4. QED
      BY <3>1, <3>2, <3>3
  <2>2. QED
    BY <2>1
<1> HIDE DEF k, e, m, n
<1>4. e \in Seq(Byte) /\ Len(e) = k
  <2>1. e \in [1 .. k -> Byte]
    BY <1>2, <1>3
  <2>2. QED
    BY <1>1, <2>1, FunctionIsSeq
<1>5. \A i \in 1 .. k : e[i] = byte(i)
  BY <1>2
<1>6. Stands(e, p, w)
  <2>1. ASSUME NEW i \in 1 .. n
        PROVE  e[p + i] = w[i]
    <3>1. p + i \in 1 .. k /\ p + i \in p + 1 .. p + n /\ (p + i) - p = i
      BY <1>1
    <3>2. QED
      BY <1>5, <3>1
  <2>2. QED
    BY <1>1, <1>4, <2>1 DEF Stands, n
<1>7. ASSUME NEW q \in Nat, NEW u \in Seq(Byte), Stands(d, q, u),
             q + Len(u) <= p \/ p + n <= q
      PROVE  Stands(e, q, u)
  <2> DEFINE l == Len(u)
  <2>1. l \in Nat /\ q + l <= m /\ \A i \in 1 .. l : d[q + i] = u[i]
    BY <1>7, LenProperties DEF Stands, m
  <2>2. q + l <= p \/ p + n <= q
    BY <1>7
  <2> HIDE DEF l
  <2>3. ASSUME NEW i \in 1 .. l
        PROVE  e[q + i] = u[i]
    <3>1. q + i \in 1 .. k /\ q + i \notin p + 1 .. p + n /\ q + i <= m
      BY <1>1, <2>1, <2>2
    <3>2. QED
      BY <1>5, <2>1, <3>1
  <2>4. q + l <= k
    BY <1>1, <2>1
  <2>5. QED
    BY <1>4, <2>3, <2>4 DEF Stands, l
<1>8. QED
  BY <1>4, <1>6, <1>7 DEF e, n

LEMMA CutStands ==
  ASSUME NEW d \in Seq(Byte), NEW n \in 0 .. Len(d)
  PROVE  /\ SubSeq(d, 1, n) \in Seq(Byte)
         /\ \A q \in Nat, u \in Seq(Byte) :
              Stands(d, q, u) /\ q + Len(u) <= n => Stands(SubSeq(d, 1, n), q, u)
<1> DEFINE e == SubSeq(d, 1, n)
<1>1. Len(d) \in Nat /\ n \in Nat /\ n <= Len(d)
  BY LenProperties
<1>2. \A i \in 1 .. n : d[i] \in Byte
  <2>1. \A i \in 1 .. n : i \in 1 .. Len(d)
    BY <1>1
  <2>2. QED
    BY <2>1, ElementOfSeq
<1>3. /\ e \in Seq(Byte)
      /\ Len(e) = IF 1 <= n THEN n - 1 + 1 ELSE 0
      /\ \A i \in 1 .. n - 1 + 1 : e[i] = d[1 + i - 1]
  BY <1>1, <1>2, SubSeqProperties
<1> HIDE DEF e
<1>4. Len(e) = n /\ \A i \in 1 .. n : e[i] = d[i]
  BY <1>1, <1>3
<1>5. ASSUME NEW q \in Nat, NEW u \in Seq(Byte), Stands(d, q, u), q + Len(u) <= n
      PROVE  Stands(e, q, u)
  <2>1. Len(u) \in Nat /\ \A i \in 1 .. Len(u) : d[q + i] = u[i]
    BY <1>5, LenProperties DEF Stands
  <2>2. \A i \in 1 .. Len(u) : q + i \in 1 .. n
    BY <1>1, <1>5, <2>1
  <2>3. QED
    BY <1>4, <1>5, <2>1, <2>2 DEF Stands
<1>6. QED
  BY <1>3, <1>5 DEF e

-----------------------------------------------------------------------------
(* The invariant of a stream.                                              *)

\* In this form the value is the bytes w.
Encodes(form, value, w) ==
  /\ form[2] \in Nat
  /\ \/ /\ form[1] = "number"
        /\ \E v \in Nat : /\ v < Power(form[2]) /\ value = <<v>>
                          /\ w = Ordered(Little(v, form[2]), form[3])
     \/ form[1] = "bytes" /\ value \in Seq(Byte) /\ form[2] = Len(value) /\ w = value
     \/ /\ form[1] = "string" /\ value \in Seq(Byte)
        /\ w = Ordered(Little(Len(value), form[2]), form[3]) \o value

FieldOK(d, f) ==
  /\ f.at \in Nat
  /\ \E w \in Seq(Byte) : f.size = Len(w) /\ Stands(d, f.at, w) /\ Encodes(f.form, f.value, w)

StreamTypeOK ==
  /\ data \in Seq(Byte) /\ pos \in Nat /\ overran \in BOOLEAN /\ default \in Endian
  /\ calls \in Nat

StreamInv ==
  /\ StreamTypeOK
  /\ \A f \in fields : FieldOK(data, f)
  /\ FieldsReadBack

\* A write leaves its field, and the fields it does not touch.
LEMMA PutInv ==
  ASSUME StreamInv, NEW form, NEW value, NEW w \in Seq(Byte), Encodes(form, value, w),
         Put(form, value, w), calls' \in Nat
  PROVE  StreamInv'
<1> DEFINE n == Len(w)
           r == [at |-> pos, form |-> form, size |-> n, value |-> value]
           d == Stored(data, pos, w)
<1>1. /\ data' = d /\ pos' = pos + n /\ fields' = Untouched(pos, n) \cup {r}
      /\ last' = NoRead /\ overran' = overran /\ default' = default
  BY DEF Put
<1>2. /\ data \in Seq(Byte) /\ pos \in Nat /\ overran \in BOOLEAN /\ default \in Endian
      /\ n \in Nat /\ \A f \in fields : FieldOK(data, f)
  BY LenProperties DEF StreamInv, StreamTypeOK
<1>3. /\ d \in Seq(Byte) /\ Stands(d, pos, w)
      /\ \A q \in Nat, u \in Seq(Byte) :
           Stands(data, q, u) /\ (q + Len(u) <= pos \/ pos + n <= q) => Stands(d, q, u)
  BY <1>2, StoredStands
<1> HIDE DEF d
<1>4. FieldOK(d, r)
  BY <1>2, <1>3 DEF FieldOK
<1> HIDE DEF r, n
<1>5. ASSUME NEW f \in Untouched(pos, n)
      PROVE  FieldOK(d, f)
  <2>1. f \in fields /\ (f.at + f.size <= pos \/ pos + n <= f.at)
    BY DEF Untouched
  <2>2. f.at \in Nat
    BY <1>2, <2>1 DEF FieldOK
  <2>3. PICK u \in Seq(Byte) : f.size = Len(u) /\ Stands(data, f.at, u)
                               /\ Encodes(f.form, f.value, u)
    BY <1>2, <2>1 DEF FieldOK
  <2>4. Stands(d, f.at, u)
    BY <1>3, <2>1, <2>2, <2>3
  <2>5. QED
    BY <2>2, <2>3, <2>4 DEF FieldOK
<1>6. \A f \in fields' : FieldOK(data', f)
  BY <1>1, <1>4, <1>5
<1>7. FieldsReadBack'
  BY <1>1 DEF FieldsReadBack, NoRead
<1>8. StreamTypeOK'
  BY <1>1, <1>2, <1>3 DEF StreamTypeOK
<1>9. QED
  BY <1>6, <1>7, <1>8 DEF StreamInv

LEMMA HereStands ==
  ASSUME StreamInv, NEW form, Here(form) # NoField
  PROVE  LET f == Here(form)
         IN /\ f.at = pos /\ f.form = form
            /\ \E w \in Seq(Byte) : /\ f.size = Len(w) /\ Stands(data, pos, w)
                                    /\ Encodes(form, f.value, w)
<1> DEFINE fs == {f \in fields : f.at = pos /\ f.form = form}
           g == CHOOSE f \in fs : TRUE
<1>1. fs # {} /\ Here(form) = g
  BY DEF Here
<1>2. g \in fs
  BY <1>1
<1>3. g \in fields /\ g.at = pos /\ g.form = form
  BY <1>2
<1> HIDE DEF g
<1>4. FieldOK(data, g)
  BY <1>3 DEF StreamInv
<1>5. QED
  BY <1>1, <1>3, <1>4 DEF FieldOK

\* A slice within the data is bytes.
LEMMA SliceType ==
  ASSUME NEW d \in Seq(Byte), NEW p \in Nat, NEW n \in Nat, p + n <= Len(d)
  PROVE  SubSeq(d, p + 1, p + n) \in Seq(Byte)
<1>1. \A i \in p + 1 .. p + n : d[i] \in Byte
  <2>1. \A i \in p + 1 .. p + n : i \in 1 .. Len(d)
    BY LenProperties
  <2>2. QED
    BY <2>1, ElementOfSeq
<1>2. QED
  BY <1>1, SubSeqProperties

\* read() of a number, at one that was written, is that number.
LEMMA ReadNumberInv ==
  ASSUME StreamInv, NEW size \in Types, NEW endian, ReadNumber(size, endian)
  PROVE  StreamInv'
<1> DEFINE form == <<"number", size, endian>>
           fits == ~Past(pos, size)
           f == Here(form)
<1>1. /\ overran' = ~fits /\ pos' = IF fits THEN pos + size ELSE pos
      /\ last' = [field |-> f, ok |-> fits,
                  value |-> IF fits THEN <<Number(Got(pos, size, endian))>> ELSE <<>>,
                  to |-> pos']
      /\ data' = data /\ default' = default /\ fields' = fields /\ calls > 0
      /\ calls' = calls - 1
  BY DEF ReadNumber, Spend
<1>2. /\ data \in Seq(Byte) /\ pos \in Nat /\ size \in Nat /\ Len(data) \in Nat
      /\ calls \in Nat /\ default \in Endian
  BY StreamAssumption, LenProperties DEF StreamInv, StreamTypeOK
<1>3. /\ last'.field = f /\ last'.ok = fits /\ last'.to = pos'
      /\ last'.value = IF fits THEN <<Number(Got(pos, size, endian))>> ELSE <<>>
  BY <1>1
<1>4. ASSUME f # NoField
      PROVE  last'.ok /\ last'.value = f.value /\ last'.to = f.at + f.size
  <2>1. /\ f.at = pos
        /\ \E w \in Seq(Byte) : /\ f.size = Len(w) /\ Stands(data, pos, w)
                                /\ Encodes(form, f.value, w)
    BY <1>4, HereStands
  <2>2. PICK w \in Seq(Byte) : /\ f.size = Len(w) /\ Stands(data, pos, w)
                               /\ Encodes(form, f.value, w)
    BY <2>1
  <2>3. form[1] = "number" /\ form[2] = size /\ form[3] = endian
    OBVIOUS
  <2> HIDE DEF f, form
  <2>4. PICK v \in Nat : /\ v < Power(size) /\ f.value = <<v>>
                         /\ w = Ordered(Little(v, size), endian)
    BY <2>2, <2>3 DEF Encodes
  <2>5. Little(v, size) \in Seq(Byte) /\ Len(Little(v, size)) = size
    BY <1>2, LittleBytes
  <2>6. Len(w) = size /\ Ordered(w, endian) = Little(v, size)
    BY <2>4, <2>5, OrderedBytes
  <2>7. fits
    BY <1>2, <2>2, <2>6 DEF Stands, Past
  <2>8. SubSeq(data, pos + 1, pos + size) = w
    <3>1. SubSeq(data, pos + 1, pos + Len(w)) = w
      BY <1>2, <2>2, SliceStands
    <3>2. QED
      BY <2>6, <3>1
  <2>9. Number(Got(pos, size, endian)) = v
    <3>1. Got(pos, size, endian) = Little(v, size)
      BY <2>6, <2>8 DEF Got
    <3>2. QED
      BY <1>2, <2>4, <3>1, NumberOfLittle
  <2> HIDE DEF fits
  <2>10. last'.ok /\ last'.value = <<v>> /\ pos' = pos + size
    BY <1>1, <1>3, <2>7, <2>9
  <2>11. QED
    BY <1>3, <2>1, <2>2, <2>4, <2>6, <2>10
<1>5. FieldsReadBack'
  <2> HIDE DEF f
  <2>1. QED
    BY <1>3, <1>4 DEF FieldsReadBack
<1>6. StreamTypeOK'
  <2> HIDE DEF f, form
  <2>1. pos' \in Nat
    BY <1>1, <1>2
  <2>2. overran' \in BOOLEAN
    BY <1>1
  <2>3. QED
    BY <1>1, <1>2, <2>1, <2>2 DEF StreamTypeOK
<1>7. QED
  BY <1>1, <1>5, <1>6 DEF StreamInv

\* So it is with bytes,
LEMMA ReadBytesInv ==
  ASSUME StreamInv, NEW c \in Nat, ReadBytes(c)
  PROVE  StreamInv'
<1> DEFINE form == <<"bytes", c, "LITTLE">>
           n == BytesRead(overran, pos, c)
           f == IF overran THEN NoField ELSE Here(form)
<1>1. /\ pos <= Len(data) /\ pos' = pos + n /\ overran' = (overran \/ Past(pos, c))
      /\ last' = [field |-> f, ok |-> ~overran', value |-> SubSeq(data, pos + 1, pos + n),
                  to |-> pos']
      /\ data' = data /\ default' = default /\ fields' = fields /\ calls > 0
      /\ calls' = calls - 1
  BY DEF ReadBytes, Spend
<1>2. /\ data \in Seq(Byte) /\ pos \in Nat /\ Len(data) \in Nat /\ overran \in BOOLEAN
      /\ calls \in Nat /\ default \in Endian
  BY LenProperties DEF StreamInv, StreamTypeOK
<1>3. /\ last'.field = f /\ last'.ok = ~overran' /\ last'.to = pos'
      /\ last'.value = SubSeq(data, pos + 1, pos + n)
  BY <1>1
<1>4. ASSUME f # NoField
      PROVE  last'.ok /\ last'.value = f.value /\ last'.to = f.at + f.size
  <2>1. ~overran /\ f = Here(form)
    BY <1>4
  <2>2. /\ f.at = pos
        /\ \E w \in Seq(Byte) : /\ f.size = Len(w) /\ Stands(data, pos, w)
                                /\ Encodes(form, f.value, w)
    BY <1>4, <2>1, HereStands
  <2>3. PICK w \in Seq(Byte) : /\ f.size = Len(w) /\ Stands(data, pos, w)
                               /\ Encodes(form, f.value, w)
    BY <2>2
  <2>4. form[1] = "bytes" /\ form[2] = c
    OBVIOUS
  <2> HIDE DEF f, form
  <2>5. w = f.value /\ Len(w) = c
    BY <2>3, <2>4 DEF Encodes
  <2>6. ~Past(pos, c)
    BY <1>2, <2>3, <2>5 DEF Stands, Past
  <2>7. n = c
    BY <2>1, <2>6 DEF BytesRead
  <2>8. SubSeq(data, pos + 1, pos + c) = w
    <3>1. SubSeq(data, pos + 1, pos + Len(w)) = w
      BY <1>2, <2>3, SliceStands
    <3>2. QED
      BY <2>5, <3>1
  <2> HIDE DEF n
  <2>9. overran' = FALSE
    BY <1>1, <2>1, <2>6
  <2>10. last'.value = w /\ last'.ok /\ last'.to = pos + c
    BY <1>1, <1>3, <2>7, <2>8, <2>9
  <2>11. QED
    BY <2>2, <2>3, <2>5, <2>10
<1>5. FieldsReadBack'
  <2> HIDE DEF f
  <2>1. QED
    BY <1>3, <1>4 DEF FieldsReadBack
<1>6. StreamTypeOK'
  <2>1. n \in Nat
    BY <1>1, <1>2 DEF BytesRead
  <2> HIDE DEF f, form, n
  <2>2. pos' \in Nat /\ overran' \in BOOLEAN
    BY <1>1, <1>2, <2>1
  <2>3. QED
    BY <1>1, <1>2, <2>2 DEF StreamTypeOK
<1>7. QED
  BY <1>1, <1>5, <1>6 DEF StreamInv

\* and with a string whose length its type can hold.
LEMMA ReadStringInv ==
  ASSUME StreamInv, NEW size \in Types, NEW endian, ReadString(size, endian)
  PROVE  StreamInv'
<1> DEFINE form == <<"string", size, endian>>
           fits  == ~Past(pos, size)
           start == IF fits THEN pos + size ELSE pos
           c     == IF fits THEN Number(Got(pos, size, endian)) ELSE 0
           n     == BytesRead(~fits, start, c)
           f == Here(form)
<1>1. /\ pos <= Len(data) /\ pos' = start + n /\ overran' = (~fits \/ Past(start, c))
      /\ last' = [field |-> f, ok |-> ~overran',
                  value |-> SubSeq(data, start + 1, start + n), to |-> pos']
      /\ data' = data /\ default' = default /\ fields' = fields /\ calls > 0
      /\ calls' = calls - 1
  BY DEF ReadString, Spend
<1>2. /\ data \in Seq(Byte) /\ pos \in Nat /\ size \in Nat /\ Len(data) \in Nat
      /\ calls \in Nat /\ default \in Endian
  BY StreamAssumption, LenProperties DEF StreamInv, StreamTypeOK
<1>3. /\ last'.field = f /\ last'.ok = ~overran' /\ last'.to = pos'
      /\ last'.value = SubSeq(data, start + 1, start + n)
  <2> HIDE DEF f, n, start
  <2>1. QED
    BY <1>1
<1>4. ASSUME f # NoField, Len(f.value) < Power(size)
      PROVE  last'.ok /\ last'.value = f.value /\ last'.to = f.at + f.size
  <2>1. /\ f.at = pos
        /\ \E w \in Seq(Byte) : /\ f.size = Len(w) /\ Stands(data, pos, w)
                                /\ Encodes(form, f.value, w)
    BY <1>4, HereStands
  <2>2. PICK w \in Seq(Byte) : /\ f.size = Len(w) /\ Stands(data, pos, w)
                               /\ Encodes(form, f.value, w)
    BY <2>1
  <2>3. form[1] = "string" /\ form[2] = size /\ form[3] = endian
    OBVIOUS
  <2> HIDE DEF f, form
  <2> DEFINE s == f.value
             m == Len(s)
             b == Little(m, size)
             u == Ordered(b, endian)
  <2>4. s \in Seq(Byte) /\ w = u \o s
    BY <2>2, <2>3 DEF Encodes
  <2>5. m \in Nat
    BY <2>4, LenProperties
  <2>6. b \in Seq(Byte) /\ Len(b) = size
    BY <1>2, <2>5, LittleBytes
  <2> HIDE DEF b
  <2>7. u \in Seq(Byte) /\ Len(u) = size /\ Ordered(u, endian) = b
    BY <2>6, OrderedBytes
  <2> HIDE DEF u
  <2>8. Len(w) = size + m
    BY <2>4, <2>7, ConcatProperties
  <2>9. Stands(data, pos, u) /\ Stands(data, pos + size, s)
    BY <1>2, <2>2, <2>4, <2>7, PartsStand
  <2>10. fits
    BY <1>2, <2>7, <2>9 DEF Stands, Past
  <2>11. Number(Got(pos, size, endian)) = m
    <3>1. SubSeq(data, pos + 1, pos + Len(u)) = u
      BY <1>2, <2>7, <2>9, SliceStands
    <3>2. SubSeq(data, pos + 1, pos + size) = u
      BY <2>7, <3>1
    <3>3. Got(pos, size, endian) = b
      BY <2>7, <3>2 DEF Got
    <3>4. Number(b) = m
      BY <1>2, <1>4, <2>5, NumberOfLittle DEF b
    <3>5. QED
      BY <3>3, <3>4
  <2>12. start = pos + size /\ c = m
    BY <2>10, <2>11
  <2> HIDE DEF start, c, fits, m, s
  <2>13. ~Past(start, c)
    <3>1. pos + size + m <= Len(data)
      BY <2>9 DEF Stands, m
    <3>2. QED
      BY <1>2, <2>5, <2>12, <3>1 DEF Past
  <2>14. n = m
    BY <2>10, <2>12, <2>13 DEF BytesRead
  <2>15. SubSeq(data, start + 1, start + n) = s
    <3>1. pos + size \in Nat
      BY <1>2
    <3>2. SubSeq(data, pos + size + 1, pos + size + Len(s)) = s
      BY <1>2, <2>4, <2>9, <3>1, SliceStands
    <3>3. QED
      BY <2>12, <2>14, <3>2 DEF m
  <2> HIDE DEF n
  <2>16. overran' = FALSE
    BY <1>1, <2>10, <2>13
  <2>17. last'.ok /\ last'.value = s /\ last'.to = pos + size + m
    BY <1>1, <1>3, <2>12, <2>14, <2>15, <2>16
  <2>18. f.at + f.size = pos + size + m
    BY <1>2, <2>1, <2>2, <2>5, <2>8
  <2>19. QED
    BY <2>17, <2>18 DEF s
<1>5. FieldsReadBack'
  <2>1. f # NoField => f.form[1] = "string" /\ f.form[2] = size
    <3>1. f # NoField => f.form = form
      BY HereStands
    <3>2. form[1] = "string" /\ form[2] = size
      OBVIOUS
    <3> HIDE DEF f, form
    <3>3. QED
      BY <3>1, <3>2
  <2> HIDE DEF f
  <2>2. QED
    BY <1>3, <1>4, <2>1 DEF FieldsReadBack
<1>6. StreamTypeOK'
  <2>1. ASSUME fits
        PROVE  pos + size <= Len(data) /\ Number(Got(pos, size, endian)) \in Nat
    <3>1. pos + size <= Len(data)
      BY <1>2, <2>1 DEF Past
    <3>2. SubSeq(data, pos + 1, pos + size) \in Seq(Byte)
      BY <1>2, <3>1, SliceType
    <3>3. Got(pos, size, endian) \in Seq(Byte)
      BY <3>2, OrderedBytes DEF Got
    <3>4. QED
      BY <3>1, <3>3, NumberType
  <2> HIDE DEF f, form, fits
  <2>2. start \in Nat /\ start <= Len(data) /\ c \in Nat
    BY <1>1, <1>2, <2>1
  <2> HIDE DEF start, c
  <2>3. n \in Nat
    BY <1>2, <2>2 DEF BytesRead
  <2> HIDE DEF n
  <2>4. pos' \in Nat /\ overran' \in BOOLEAN
    BY <1>1, <2>2, <2>3
  <2>5. QED
    BY <1>1, <1>2, <2>4 DEF StreamTypeOK
<1>7. QED
  BY <1>1, <1>5, <1>6 DEF StreamInv

\* A packet is cut behind the fields that are left.
LEMMA SendInv ==
  ASSUME StreamInv, NEW n \in 0 .. Len(data), Send(n)
  PROVE  StreamInv'
<1> DEFINE d == SubSeq(data, 1, n)
<1>1. /\ data' = d /\ pos' = 0 /\ overran' \in BOOLEAN /\ default' \in Endian
      /\ fields' = {f \in fields : f.at + f.size <= n} /\ last' = NoRead
      /\ calls > 0 /\ calls' = calls - 1
  BY DEF Send, Spend
<1>2. data \in Seq(Byte) /\ calls \in Nat /\ \A f \in fields : FieldOK(data, f)
  BY DEF StreamInv, StreamTypeOK
<1>3. /\ d \in Seq(Byte)
      /\ \A q \in Nat, u \in Seq(Byte) :
           Stands(data, q, u) /\ q + Len(u) <= n => Stands(d, q, u)
  BY <1>2, CutStands
<1> HIDE DEF d
<1>4. ASSUME NEW f \in fields'
      PROVE  FieldOK(d, f)
  <2>1. f \in fields /\ f.at + f.size <= n
    BY <1>1, <1>4
  <2>2. f.at \in Nat
    BY <1>2, <2>1 DEF FieldOK
  <2>3. PICK u \in Seq(Byte) : f.size = Len(u) /\ Stands(data, f.at, u)
                               /\ Encodes(f.form, f.value, u)
    BY <1>2, <2>1 DEF FieldOK
  <2>4. Stands(d, f.at, u)
    BY <1>3, <2>1, <2>2, <2>3
  <2>5. QED
    BY <2>2, <2>3, <2>4 DEF FieldOK
<1>5. FieldsReadBack'
  BY <1>1 DEF FieldsReadBack, NoRead
<1>6. StreamTypeOK'
  BY <1>1, <1>2, <1>3 DEF StreamTypeOK
<1>7. QED
  BY <1>1, <1>4, <1>5, <1>6 DEF StreamInv

\* The calls that touch no field.
LEMMA MovedInv ==
  ASSUME StreamInv, data' = data, fields' = fields, pos' \in Nat, overran' \in BOOLEAN,
         default' \in Endian, calls' \in Nat, last' = NoRead \/ last' = last
  PROVE  StreamInv'
<1>1. FieldsReadBack'
  BY DEF FieldsReadBack, NoRead, StreamInv
<1>2. StreamTypeOK'
  BY DEF StreamTypeOK, StreamInv
<1>3. QED
  BY <1>1, <1>2 DEF StreamInv

LEMMA StreamNextInv ==
  ASSUME StreamInv, [StreamNext]_streamVars
  PROVE  StreamInv'
<1>1. /\ data \in Seq(Byte) /\ pos \in Nat /\ overran \in BOOLEAN /\ default \in Endian
      /\ calls \in Nat /\ Len(data) \in Nat
  BY LenProperties DEF StreamInv, StreamTypeOK
<1>2. Spend => calls' \in Nat
  BY <1>1 DEF Spend
<1>3. /\ Types \subseteq Nat /\ Numbers \subseteq Nat /\ Strings \subseteq Seq(Byte)
      /\ MaxBytes \in Nat
  BY StreamAssumption DEF Byte
<1>4. ASSUME NEW size \in Types, NEW endian, NEW v \in Numbers, v < Power(size),
             WriteNumber(v, size, endian)
      PROVE  StreamInv'
  <2> DEFINE form == <<"number", size, endian>>
             w == Ordered(Little(v, size), endian)
  <2>1. w \in Seq(Byte)
    BY <1>3, LittleBytes, OrderedBytes
  <2>2. Encodes(form, <<v>>, w)
    <3>1. form[1] = "number" /\ form[2] = size /\ form[3] = endian
      OBVIOUS
    <3> HIDE DEF form
    <3>2. QED
      BY <1>3, <1>4, <3>1 DEF Encodes
  <2>3. Put(form, <<v>>, w) /\ calls' \in Nat
    BY <1>2, <1>4 DEF WriteNumber
  <2> HIDE DEF form, w
  <2>4. QED
    BY <2>1, <2>2, <2>3, PutInv
<1>5. ASSUME NEW size \in Types, NEW endian, NEW s \in Strings, WriteString(s, size, endian)
      PROVE  StreamInv'
  <2> DEFINE form == <<"string", size, endian>>
             u == Ordered(Little(Len(s), size), endian)
             w == u \o s
  <2>1. s \in Seq(Byte) /\ Len(s) \in Nat /\ size \in Nat
    BY <1>3, LenProperties
  <2>2. u \in Seq(Byte)
    BY <2>1, LittleBytes, OrderedBytes
  <2>3. w \in Seq(Byte)
    BY <2>1, <2>2, ConcatProperties
  <2>4. Encodes(form, s, w)
    <3>1. form[1] = "string" /\ form[2] = size /\ form[3] = endian
      OBVIOUS
    <3> HIDE DEF form
    <3>2. QED
      BY <2>1, <3>1 DEF Encodes
  <2>5. Put(form, s, w) /\ calls' \in Nat
    BY <1>2, <1>5 DEF WriteString
  <2> HIDE DEF form, w
  <2>6. QED
    BY <2>3, <2>4, <2>5, PutInv
<1>6. ASSUME NEW s \in Strings, WriteBytes(s)
      PROVE  StreamInv'
  <2> DEFINE form == <<"bytes", Len(s), "LITTLE">>
  <2>1. s \in Seq(Byte) /\ Len(s) \in Nat
    BY <1>3, LenProperties
  <2>2. Encodes(form, s, s)
    <3>1. form[1] = "bytes" /\ form[2] = Len(s)
      OBVIOUS
    <3> HIDE DEF form
    <3>2. QED
      BY <2>1, <3>1 DEF Encodes
  <2>3. Put(form, s, s) /\ calls' \in Nat
    BY <1>2, <1>6 DEF WriteBytes
  <2> HIDE DEF form
  <2>4. QED
    BY <2>1, <2>2, <2>3, PutInv
<1>7. ASSUME NEW size \in Types, NEW endian, ReadNumber(size, endian)
      PROVE  StreamInv'
  BY <1>7, ReadNumberInv
<1>8. ASSUME NEW size \in Types, NEW endian, ReadString(size, endian)
      PROVE  StreamInv'
  BY <1>8, ReadStringInv
<1>9. ASSUME NEW c \in 1 .. MaxBytes, ReadBytes(c)
      PROVE  StreamInv'
  <2>1. c \in Nat
    BY <1>3
  <2>2. QED
    BY <1>9, <2>1, ReadBytesInv
<1>10. ASSUME NEW c \in 1 .. MaxBytes, SkipBytes(c)
       PROVE  StreamInv'
  <2>1. pos' \in Nat
    BY <1>1, <1>3, <1>10 DEF SkipBytes
  <2>2. QED
    BY <1>1, <1>2, <1>10, <2>1, MovedInv DEF SkipBytes
<1>11. ASSUME NEW n \in 0 .. MaxBytes, Seek(n)
       PROVE  StreamInv'
  <2>1. pos' \in Nat
    BY <1>1, <1>3, <1>11 DEF Seek
  <2>2. QED
    BY <1>1, <1>2, <1>11, <2>1, MovedInv DEF Seek
<1>12. ASSUME NEW n \in 0 .. Len(data), Send(n)
       PROVE  StreamInv'
  BY <1>12, SendInv
<1>13. ASSUME NEW endian \in Endian, SetDefault(endian)
       PROVE  StreamInv'
  BY <1>1, <1>2, <1>13, MovedInv DEF SetDefault
<1>14. CASE Overran
  BY <1>1, <1>2, <1>14, MovedInv DEF Overran
<1>15. CASE Clear
  <2>1. /\ data' = <<>> /\ pos' = 0 /\ fields' = {} /\ last' = NoRead
        /\ overran' = overran /\ default' = default /\ calls' \in Nat
    BY <1>2, <1>15 DEF Clear
  <2>2. StreamTypeOK'
    BY <1>1, <2>1, EmptySeq DEF StreamTypeOK
  <2>3. FieldsReadBack'
    BY <2>1 DEF FieldsReadBack, NoRead
  <2>4. QED
    BY <2>1, <2>2, <2>3 DEF StreamInv
<1>16. CASE UNCHANGED streamVars
  <2>1. /\ data' = data /\ pos' = pos /\ overran' = overran /\ default' = default
        /\ fields' = fields /\ last' = last /\ calls' = calls
    BY <1>16 DEF streamVars
  <2>2. QED
    BY <1>1, <2>1, MovedInv
<1>17. QED
  BY <1>4, <1>5, <1>6, <1>7, <1>8, <1>9, <1>10, <1>11, <1>12, <1>13, <1>14, <1>15, <1>16
  DEF StreamNext

LEMMA StreamInitInv ==
  ASSUME StreamInit
  PROVE  StreamInv
<1>1. /\ data \in Seq(Byte) /\ pos \in Nat /\ overran \in BOOLEAN /\ default \in Endian
      /\ calls \in Nat /\ fields = {} /\ last = NoRead
  BY StreamAssumption, EmptySeq DEF StreamInit
<1>2. FieldsReadBack
  BY <1>1 DEF FieldsReadBack, NoRead
<1>3. QED
  BY <1>1, <1>2 DEF StreamInv, StreamTypeOK

\* What was written and is still whole stands in the data.
THEOREM StreamInvariant == StreamSpec => []StreamInv
<1>1. StreamInit => StreamInv
  BY StreamInitInv
<1>2. StreamInv /\ [StreamNext]_streamVars => StreamInv'
  BY StreamNextInv
<1>3. QED
  BY <1>1, <1>2, PTL DEF StreamSpec

\* A read where a field was written, in its form, returns its value and stops behind it.
THEOREM FieldsAlwaysReadBack == StreamSpec => []FieldsReadBack
<1>1. StreamInv => FieldsReadBack
  BY DEF StreamInv
<1>2. QED
  BY <1>1, StreamInvariant, PTL

================================================================================
