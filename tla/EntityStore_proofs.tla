-------------------------- MODULE EntityStore_proofs --------------------------
(***************************************************************************)
(* What the operations of a store of entities return and preserve.  The    *)
(* proofs about the entity manager and about the server rest on it.        *)
(***************************************************************************)
EXTENDS EntityStore, SequenceLemmas

-----------------------------------------------------------------------------
(* The operations of a store.                                              *)

\* What the type of a store says of its parts.
LEMMA StoreParts ==
  ASSUME NEW st \in Store
  PROVE  /\ st.ents \in Seq(Entity) /\ st.first \in Nat /\ st.pool \in Seq(Nat)
         /\ Len(st.ents) \in Nat /\ DOMAIN st.ents = 1 .. Len(st.ents)
         /\ Len(st.pool) \in Nat /\ DOMAIN st.pool = 1 .. Len(st.pool)
         /\ \A k \in DOMAIN st.ents : st.ents[k] \in Entity /\ st.ents[k].id \in Nat
         /\ \A k \in DOMAIN st.pool : st.pool[k] \in Nat
         /\ LiveIDs(st) \in SUBSET Nat
<1>1. st.ents \in Seq(Entity) /\ st.first \in Nat /\ st.pool \in Seq(Nat)
  BY DEF Store
<1>2. /\ Len(st.ents) \in Nat /\ DOMAIN st.ents = 1 .. Len(st.ents)
      /\ Len(st.pool) \in Nat /\ DOMAIN st.pool = 1 .. Len(st.pool)
  BY <1>1, LenProperties
<1>3. \A k \in DOMAIN st.ents : st.ents[k] \in Entity
  BY <1>1, <1>2, ElementOfSeq
<1>4. \A k \in DOMAIN st.pool : st.pool[k] \in Nat
  BY <1>1, <1>2, ElementOfSeq
<1>5. \A k \in DOMAIN st.ents : st.ents[k].id \in Nat
  BY <1>3 DEF Entity
<1>6. QED
  BY <1>1, <1>2, <1>3, <1>4, <1>5 DEF LiveIDs, IDsOf

\* EntityIDAllocator::get() (entity.cpp:211) returns an ID that is neither an
\* entity's nor left in the pool, and touches nothing else.
LEMMA GetSound ==
  ASSUME NEW st \in Store, Partitioned(st)
  PROVE  /\ Get(st) \in Store
         /\ Get(st).ents = st.ents
         /\ Get(st).first = IF st.pool = <<>> THEN st.first + 1 ELSE st.first
         /\ Get(st).first + Len(st.pool) = st.first + Len(Get(st).pool) + 1
         /\ Partitioned(Get(st))
         /\ NextID(st) \in Nat
         /\ NextID(st) < Get(st).first
         /\ NextID(st) \notin LiveIDs(st)
         /\ \A k \in DOMAIN Get(st).pool : Get(st).pool[k] # NextID(st)
<1> DEFINE new == Get(st)
           m == Len(st.pool)
<1> USE StoreParts
<1>0. m \in Nat /\ st.first \in Nat /\ DOMAIN st.pool = 1 .. m
  OBVIOUS
<1>1. CASE st.pool = <<>>
  <2>1. /\ new = [st EXCEPT !.first = @ + 1]
        /\ NextID(st) = st.first
    BY <1>1 DEF Get, NextID
  <2>2. /\ new \in Store
        /\ new.ents = st.ents /\ new.pool = st.pool /\ new.first = st.first + 1
    BY <2>1 DEF Store
  <2>3. DOMAIN st.pool = {} /\ m = 0
    BY <1>1
  <2> HIDE DEF new
  <2>4. Partitioned(new)
    BY <2>2, <2>3
    DEF Partitioned, IDsDistinct, PoolDistinct, PoolDisjoint, IDsBelowTop, LiveIDs, IDsOf
  <2>5. NextID(st) \notin LiveIDs(st)
    BY <2>1 DEF LiveIDs, IDsOf, Partitioned, IDsBelowTop
  <2>6. NextID(st) < new.first /\ NextID(st) \in Nat
    BY <1>0, <2>1, <2>2
  <2>7. QED
    BY <1>1, <2>2, <2>3, <2>4, <2>5, <2>6 DEF new
<1>2. CASE st.pool # <<>>
  <2>1. /\ new = [st EXCEPT !.pool = Front(@)]
        /\ NextID(st) = Last(st.pool)
    BY <1>2 DEF Get, NextID
  <2>2. /\ Front(st.pool) \in Seq(Nat)
        /\ Len(Front(st.pool)) = m - 1
        /\ \A k \in 1 .. m - 1 : Front(st.pool)[k] = st.pool[k]
        /\ Last(st.pool) = st.pool[m]
        /\ m \in 1 .. m
    BY <1>2, FrontProperties
  <2>3. /\ new \in Store
        /\ new.ents = st.ents /\ new.pool = Front(st.pool) /\ new.first = st.first
    BY <2>1, <2>2 DEF Store
  <2>4. DOMAIN Front(st.pool) = 1 .. m - 1
    BY <2>2, LenProperties
  <2> HIDE DEF new, m
  <2>5. \A k \in DOMAIN new.pool : k \in DOMAIN st.pool /\ new.pool[k] = st.pool[k] /\ k # m
    <3> SUFFICES ASSUME NEW k \in 1 .. m - 1
                 PROVE  k \in 1 .. m /\ new.pool[k] = st.pool[k] /\ k # m
      BY <1>0, <2>3, <2>4
    <3>1. k \in 1 .. m /\ k # m
      BY <1>0
    <3>2. QED
      BY <2>2, <2>3, <3>1
  <2>6. m \in DOMAIN st.pool /\ NextID(st) = st.pool[m]
    BY <1>0, <2>1, <2>2
  <2>7. Partitioned(new)
    BY <2>3, <2>5
    DEF Partitioned, IDsDistinct, PoolDistinct, PoolDisjoint, IDsBelowTop, LiveIDs, IDsOf
  <2>8. NextID(st) \notin LiveIDs(st) /\ NextID(st) < new.first /\ NextID(st) \in Nat
    BY <2>3, <2>6 DEF Partitioned, PoolDisjoint, IDsBelowTop
  <2>9. \A k \in DOMAIN new.pool : new.pool[k] # NextID(st)
    BY <2>5, <2>6 DEF Partitioned, PoolDistinct
  <2>10. new.first + m = st.first + Len(new.pool) + 1
    <3> DEFINE k == Len(new.pool)
               f == st.first
    <3>1. k = m - 1 /\ new.first = f /\ m \in Nat /\ f \in Nat
      BY <1>0, <2>2, <2>3
    <3> HIDE DEF k, f
    <3>2. f + m = f + k + 1
      BY <3>1
    <3>3. QED
      BY <3>1, <3>2 DEF k, f
  <2>11. QED
    BY <1>2, <2>3, <2>7, <2>8, <2>9, <2>10 DEF new, m
<1>3. QED
  BY <1>1, <1>2

\* newEntity() (entity.cpp:239) keeps a store sound and loses no ID.
LEMMA NewEntitySound ==
  ASSUME NEW st \in Store, NEW explodey \in BOOLEAN, Partitioned(st)
  PROVE  /\ NewEntity(st, explodey) \in Store
         /\ Partitioned(NewEntity(st, explodey))
         /\ LiveIDs(NewEntity(st, explodey)) = LiveIDs(st) \cup {NextID(st)}
         /\ NoneLost(st) => NoneLost(NewEntity(st, explodey))
         /\ Len(NewEntity(st, explodey).ents) = Len(st.ents) + 1
         /\ NewEntity(st, explodey).first =
              IF st.pool = <<>> THEN st.first + 1 ELSE st.first
<1> DEFINE got == Get(st)
           new == NewEntity(st, explodey)
           e == [id |-> NextID(st), explodey |-> explodey]
           n == Len(st.ents)
<1>1. /\ st.ents \in Seq(Entity) /\ n \in Nat /\ DOMAIN st.ents = 1 .. n
      /\ \A k \in DOMAIN st.ents : st.ents[k].id \in Nat
      /\ st.first \in Nat /\ Len(st.pool) \in Nat
  BY StoreParts
<1>2. /\ got \in Store /\ got.ents = st.ents
      /\ got.first = IF st.pool = <<>> THEN st.first + 1 ELSE st.first
      /\ got.first + Len(st.pool) = st.first + Len(got.pool) + 1
      /\ Partitioned(got)
      /\ NextID(st) \in Nat /\ NextID(st) < got.first /\ NextID(st) \notin LiveIDs(st)
      /\ \A k \in DOMAIN got.pool : got.pool[k] # NextID(st)
  BY GetSound
<1>3. got.first \in Nat /\ Len(got.pool) \in Nat
  BY <1>2, StoreParts
<1>4. e \in Entity /\ e.id = NextID(st)
  BY <1>2 DEF Entity
<1>5. new = [got EXCEPT !.ents = Append(got.ents, e)]
  BY DEF NewEntity
<1> HIDE DEF got, new, e, n
<1>6. /\ Append(st.ents, e) \in Seq(Entity)
      /\ Len(Append(st.ents, e)) = n + 1
      /\ \A k \in 1 .. n : Append(st.ents, e)[k] = st.ents[k]
      /\ Append(st.ents, e)[n + 1] = e
  BY <1>1, <1>4, AppendProperties DEF n
<1>7. /\ new \in Store
      /\ new.ents = Append(st.ents, e) /\ new.first = got.first /\ new.pool = got.pool
  BY <1>2, <1>5, <1>6 DEF Store
<1>8. DOMAIN new.ents = (1 .. n) \cup {n + 1}
  BY <1>1, <1>6, <1>7, LenProperties
<1>9. LiveIDs(new) = LiveIDs(st) \cup {NextID(st)}
  BY <1>1, <1>4, <1>6, <1>7, <1>8 DEF LiveIDs, IDsOf
<1>10. \A k \in 1 .. n : new.ents[k].id = st.ents[k].id /\ st.ents[k].id \in LiveIDs(st)
  BY <1>1, <1>6, <1>7 DEF LiveIDs, IDsOf
<1>11. new.ents[n + 1].id = NextID(st)
  BY <1>4, <1>6, <1>7
<1>12. IDsDistinct(new)
  <2>1. n + 1 \notin 1 .. n
    BY <1>1
  <2>2. \A k \in 1 .. n : new.ents[k].id # NextID(st)
    BY <1>2, <1>10
  <2>3. \A j, k \in 1 .. n : new.ents[j].id = new.ents[k].id => j = k
    BY <1>1, <1>10 DEF IDsDistinct, Partitioned
  <2>4. QED
    BY <1>8, <1>11, <2>1, <2>2, <2>3 DEF IDsDistinct
<1>13. PoolDistinct(new) /\ PoolDisjoint(new)
  BY <1>2, <1>7, <1>9 DEF PoolDistinct, PoolDisjoint, Partitioned, LiveIDs
<1>14. IDsBelowTop(new)
  <2>1. \A k \in 1 .. n : st.ents[k].id < got.first
    BY <1>1, <1>2 DEF Partitioned, IDsBelowTop
  <2>2. \A k \in DOMAIN new.pool : new.pool[k] < new.first
    BY <1>2, <1>7 DEF Partitioned, IDsBelowTop
  <2>3. QED
    BY <1>2, <1>7, <1>8, <1>10, <1>11, <2>1, <2>2 DEF IDsBelowTop
<1>15. NoneLost(st) => NoneLost(new)
  <2> DEFINE gf == got.first
             gp == Len(got.pool)
             sf == st.first
             sp == Len(st.pool)
  <2>1. NoneLost(st) <=> sf = n + sp
    BY DEF NoneLost, n
  <2>2. NoneLost(new) <=> gf = (n + 1) + gp
    BY <1>6, <1>7 DEF NoneLost
  <2>3. gf + sp = sf + gp + 1 /\ gf \in Nat /\ gp \in Nat /\ sf \in Nat /\ sp \in Nat
    BY <1>1, <1>2, <1>3
  <2> HIDE DEF gf, gp, sf, sp
  <2>4. QED
    BY <1>1, <2>1, <2>2, <2>3
<1>16. QED
  BY <1>2, <1>6, <1>7, <1>9, <1>12, <1>13, <1>14, <1>15 DEF Partitioned, new, n

\* deleteEntity() (entity.cpp:261) of an entity that is there removes that one,
\* gives its ID back to the allocator and keeps the store sound.  The assertion of
\* put() holds: an entity has an ID, so the top is above 0.
LEMMA DeleteEntitySound ==
  ASSUME NEW st \in Store, Partitioned(st), NEW id \in LiveIDs(st)
  PROVE  /\ DeleteEntity(st, id) \in Store
         /\ Partitioned(DeleteEntity(st, id))
         /\ LiveIDs(DeleteEntity(st, id)) = LiveIDs(st) \ {id}
         /\ NoneLost(st) => NoneLost(DeleteEntity(st, id))
         /\ Len(DeleteEntity(st, id).ents) = Len(st.ents) - 1
         /\ DeleteEntity(st, id).first <= st.first
         /\ PutAsserts(st)
<1> DEFINE n == Len(st.ents)
           m == Len(st.pool)
           i == IndexOf(st.ents, id)
           mid == [st EXCEPT !.ents = RemoveAt(@, i)]
           new == DeleteEntity(st, id)
<1>1. /\ st.ents \in Seq(Entity) /\ n \in Nat /\ DOMAIN st.ents = 1 .. n
      /\ st.pool \in Seq(Nat) /\ m \in Nat /\ DOMAIN st.pool = 1 .. m
      /\ \A k \in DOMAIN st.ents : st.ents[k].id \in Nat
      /\ \A k \in DOMAIN st.pool : st.pool[k] \in Nat
      /\ st.first \in Nat /\ id \in Nat
  BY StoreParts
<1>2. PICK k \in DOMAIN st.ents : st.ents[k].id = id
  BY DEF LiveIDs, IDsOf
<1>3. i \in 1 .. n /\ st.ents[i].id = id
  <2>1. \A j \in DOMAIN st.ents : st.ents[j].id = id => j = k
    BY <1>2 DEF Partitioned, IDsDistinct
  <2>2. k \in DOMAIN st.ents /\ k \in Nat
    BY <1>1, <1>2
  <2>3. /\ st.ents[k].id = id
        /\ \A j \in DOMAIN st.ents : j < k => st.ents[j].id # id
    BY <1>1, <1>2, <2>1, <2>2
  <2>4. QED
    BY <1>1, <2>2, <2>3 DEF IndexOf
<1>4. id < st.first /\ st.first > 0
  BY <1>1, <1>2 DEF Partitioned, IDsBelowTop
<1>5. new = Put(mid, id)
  BY DEF DeleteEntity, Has
<1>6. /\ RemoveAt(st.ents, i) \in Seq(Entity)
      /\ Len(RemoveAt(st.ents, i)) = n - 1
      /\ \A j \in 1 .. n - 1 :
           RemoveAt(st.ents, i)[j] = IF j < i THEN st.ents[j] ELSE st.ents[j + 1]
  BY <1>1, <1>3, RemoveAtProperties
<1>7. /\ mid \in Store
      /\ mid.ents = RemoveAt(st.ents, i) /\ mid.first = st.first /\ mid.pool = st.pool
  BY <1>6 DEF Store
<1> HIDE DEF n, m, i, mid, new
<1>8. /\ DOMAIN mid.ents = 1 .. n - 1
      /\ \A j \in 1 .. n - 1 : /\ j < i => mid.ents[j] = st.ents[j]
                               /\ ~(j < i) => mid.ents[j] = st.ents[j + 1]
  BY <1>6, <1>7, LenProperties
<1>9. \A j \in 1 .. n - 1 : \E l \in DOMAIN st.ents :
        l # i /\ mid.ents[j] = st.ents[l] /\ l = IF j < i THEN j ELSE j + 1
  <2> SUFFICES ASSUME NEW j \in 1 .. n - 1
               PROVE  \E l \in DOMAIN st.ents :
                        l # i /\ mid.ents[j] = st.ents[l] /\ l = IF j < i THEN j ELSE j + 1
    OBVIOUS
  <2>1. CASE j < i
    <3>1. j \in DOMAIN st.ents /\ j # i
      BY <1>1, <1>3, <2>1
    <3>2. QED
      BY <1>8, <2>1, <3>1
  <2>2. CASE ~(j < i)
    <3>1. j + 1 \in DOMAIN st.ents /\ j + 1 # i
      BY <1>1, <1>3, <2>2
    <3>2. QED
      BY <1>8, <2>2, <3>1
  <2>3. QED
    BY <2>1, <2>2
<1>10. \A l \in DOMAIN st.ents : l # i => \E j \in 1 .. n - 1 : mid.ents[j] = st.ents[l]
  <2> SUFFICES ASSUME NEW l \in DOMAIN st.ents, l # i
               PROVE  \E j \in 1 .. n - 1 : mid.ents[j] = st.ents[l]
    OBVIOUS
  <2>1. CASE l < i
    <3>1. l \in 1 .. n - 1
      BY <1>1, <1>3, <2>1
    <3>2. QED
      BY <1>8, <2>1, <3>1
  <2>2. CASE ~(l < i)
    <3>1. l - 1 \in 1 .. n - 1 /\ ~(l - 1 < i) /\ (l - 1) + 1 = l
      BY <1>1, <1>3, <2>2
    <3>2. QED
      BY <1>8, <3>1
  <2>3. QED
    BY <2>1, <2>2
<1>11. LiveIDs(mid) = LiveIDs(st) \ {id}
  <2>1. ASSUME NEW x \in LiveIDs(mid)
        PROVE  x \in LiveIDs(st) /\ x # id
    <3>1. PICK j \in 1 .. n - 1 : x = mid.ents[j].id
      BY <1>8 DEF LiveIDs, IDsOf
    <3>2. PICK l \in DOMAIN st.ents : l # i /\ mid.ents[j] = st.ents[l]
      BY <1>9
    <3>3. QED
      BY <1>1, <1>3, <3>1, <3>2 DEF LiveIDs, IDsOf, Partitioned, IDsDistinct
  <2>2. ASSUME NEW x \in LiveIDs(st), x # id
        PROVE  x \in LiveIDs(mid)
    <3>1. PICK l \in DOMAIN st.ents : x = st.ents[l].id
      BY DEF LiveIDs, IDsOf
    <3>2. l # i
      BY <1>3, <2>2, <3>1
    <3>3. PICK j \in 1 .. n - 1 : mid.ents[j] = st.ents[l]
      BY <1>10, <3>2
    <3>4. QED
      BY <1>8, <3>1, <3>3 DEF LiveIDs, IDsOf
  <2>3. QED
    BY <2>1, <2>2
<1>12. IDsDistinct(mid)
  <2> SUFFICES ASSUME NEW j1 \in 1 .. n - 1, NEW j2 \in 1 .. n - 1,
                      mid.ents[j1].id = mid.ents[j2].id
               PROVE  j1 = j2
    BY <1>8 DEF IDsDistinct
  <2>1. PICK l1 \in DOMAIN st.ents :
          mid.ents[j1] = st.ents[l1] /\ l1 = IF j1 < i THEN j1 ELSE j1 + 1
    BY <1>9
  <2>2. PICK l2 \in DOMAIN st.ents :
          mid.ents[j2] = st.ents[l2] /\ l2 = IF j2 < i THEN j2 ELSE j2 + 1
    BY <1>9
  <2>3. l1 = l2
    BY <2>1, <2>2 DEF Partitioned, IDsDistinct
  <2>4. j1 \in Int /\ j2 \in Int /\ i \in Int
    BY <1>1, <1>3
  <2>5. (IF j1 < i THEN j1 ELSE j1 + 1) = (IF j2 < i THEN j2 ELSE j2 + 1)
    BY <2>1, <2>2, <2>3
  <2>6. QED
    BY <2>4, <2>5
<1>13. \A j \in DOMAIN mid.ents : mid.ents[j].id < st.first /\ mid.ents[j].id # id
                                  /\ mid.ents[j].id \in Nat
  <2> SUFFICES ASSUME NEW j \in 1 .. n - 1
               PROVE  mid.ents[j].id < st.first /\ mid.ents[j].id # id
                      /\ mid.ents[j].id \in Nat
    BY <1>8
  <2>1. PICK l \in DOMAIN st.ents : l # i /\ mid.ents[j] = st.ents[l]
    BY <1>9
  <2>2. QED
    BY <1>1, <1>3, <2>1 DEF Partitioned, IDsBelowTop, IDsDistinct
<1>14. \A j \in DOMAIN st.pool : st.pool[j] # id /\ st.pool[j] < st.first
                                 /\ st.pool[j] \notin LiveIDs(mid) /\ st.pool[j] \in Nat
  BY <1>1, <1>11 DEF Partitioned, PoolDisjoint, IDsBelowTop
<1>15. /\ new \in Store
       /\ Partitioned(new)
       /\ new.ents = mid.ents
       /\ new.first <= st.first
       /\ NoneLost(st) => NoneLost(new)
  <2> DEFINE f == st.first
  <2>0. f \in Nat /\ n \in Nat /\ m \in Nat
    BY <1>1
  <2>l. NoneLost(st) <=> f = n + m
    BY DEF NoneLost, n, m
  <2>1. CASE id + 1 = st.first
    <3>1. /\ new = [mid EXCEPT !.first = mid.first - 1]
          /\ mid.first - 1 \in Nat
      BY <1>1, <1>4, <1>5, <1>7, <2>1 DEF Put
    <3>2. /\ new \in Store /\ new.ents = mid.ents /\ new.first = f - 1
          /\ new.pool = st.pool
      BY <1>7, <3>1 DEF Store
    <3>3. \A x \in Nat : x < f /\ x # id => x < f - 1
      BY <1>1, <2>1
    <3>4. Partitioned(new)
      <4>1. IDsDistinct(new) /\ LiveIDs(new) = LiveIDs(mid)
        BY <1>12, <3>2 DEF IDsDistinct, LiveIDs, IDsOf
      <4>2. PoolDistinct(new) /\ PoolDisjoint(new)
        BY <1>14, <3>2, <4>1 DEF Partitioned, PoolDistinct, PoolDisjoint
      <4>3. IDsBelowTop(new)
        BY <1>13, <1>14, <3>2, <3>3 DEF IDsBelowTop
      <4>4. QED
        BY <4>1, <4>2, <4>3 DEF Partitioned
    <3>5. NoneLost(new) <=> f - 1 = (n - 1) + m
      BY <1>6, <1>7, <3>2 DEF NoneLost, m
    <3> HIDE DEF f
    <3>6. (f = n + m => f - 1 = (n - 1) + m) /\ f - 1 <= f
      BY <2>0
    <3>7. QED
      BY <2>l, <3>2, <3>4, <3>5, <3>6 DEF f
  <2>2. CASE id + 1 # st.first
    <3>1. new = [mid EXCEPT !.pool = Append(mid.pool, id)]
      BY <1>5, <1>7, <2>2 DEF Put
    <3>2. /\ Append(st.pool, id) \in Seq(Nat)
          /\ Len(Append(st.pool, id)) = m + 1
          /\ \A j \in 1 .. m : Append(st.pool, id)[j] = st.pool[j]
          /\ Append(st.pool, id)[m + 1] = id
      BY <1>1, AppendProperties DEF m
    <3>3. /\ new \in Store /\ new.ents = mid.ents /\ new.first = f
          /\ new.pool = Append(st.pool, id)
      BY <1>7, <3>1, <3>2 DEF Store
    <3>4. /\ DOMAIN new.pool = (1 .. m) \cup {m + 1}
          /\ m + 1 \notin 1 .. m
      BY <1>1, <3>2, <3>3, LenProperties
    <3>5. Partitioned(new)
      <4>1. IDsDistinct(new) /\ LiveIDs(new) = LiveIDs(mid)
        BY <1>12, <3>3 DEF IDsDistinct, LiveIDs, IDsOf
      <4>2. PoolDistinct(new)
        <5>1. \A j \in 1 .. m : new.pool[j] = st.pool[j] /\ new.pool[j] # id
          BY <1>1, <1>14, <3>2, <3>3
        <5>2. new.pool[m + 1] = id
          BY <3>2, <3>3
        <5>3. \A j, l \in 1 .. m : new.pool[j] = new.pool[l] => j = l
          BY <1>1, <5>1 DEF Partitioned, PoolDistinct
        <5>4. QED
          BY <3>4, <5>1, <5>2, <5>3 DEF PoolDistinct
      <4>3. PoolDisjoint(new)
        BY <1>1, <1>11, <1>14, <3>2, <3>3, <3>4, <4>1 DEF PoolDisjoint
      <4>4. IDsBelowTop(new)
        BY <1>1, <1>4, <1>13, <1>14, <3>2, <3>3, <3>4 DEF IDsBelowTop
      <4>5. QED
        BY <4>1, <4>2, <4>3, <4>4 DEF Partitioned
    <3>6. NoneLost(new) <=> f = (n - 1) + (m + 1)
      BY <1>6, <1>7, <3>2, <3>3 DEF NoneLost
    <3> HIDE DEF f
    <3>7. (f = n + m => f = (n - 1) + (m + 1)) /\ f <= f
      BY <2>0
    <3>8. QED
      BY <2>l, <3>3, <3>5, <3>6, <3>7 DEF f
  <2>3. QED
    BY <2>1, <2>2
<1>16. QED
  <2>1. LiveIDs(new) = LiveIDs(st) \ {id}
    BY <1>11, <1>15 DEF LiveIDs
  <2>2. Len(new.ents) = n - 1
    BY <1>6, <1>7, <1>15
  <2>3. QED
    BY <1>4, <1>15, <2>1, <2>2 DEF new, n, PutAsserts

-----------------------------------------------------------------------------
(* The entities of a store, apart from their order.                        *)

EntitiesOf(st) == {st.ents[k] : k \in DOMAIN st.ents}

\* deleteEntity() finds the entity it is asked for, if there is one (entity.cpp:267).
LEMMA IndexOfFinds ==
  ASSUME NEW st \in Store, NEW id \in LiveIDs(st)
  PROVE  /\ IndexOf(st.ents, id) \in 1 .. Len(st.ents)
         /\ st.ents[IndexOf(st.ents, id)].id = id
<1> DEFINE T == {k \in DOMAIN st.ents : st.ents[k].id = id}
<1>1. DOMAIN st.ents = 1 .. Len(st.ents) /\ Len(st.ents) \in Nat
  BY StoreParts
<1>2. T \subseteq Nat /\ T # {}
  BY <1>1 DEF LiveIDs, IDsOf
<1>3. PICK k \in T : \A j \in T : k <= j
  BY <1>2, LeastElement
<1>4. k \in DOMAIN st.ents /\ st.ents[k].id = id
  BY <1>3
<1>5. \A j \in DOMAIN st.ents : j < k => st.ents[j].id # id
  <2> SUFFICES ASSUME NEW j \in DOMAIN st.ents, j < k, st.ents[j].id = id
               PROVE  FALSE
    OBVIOUS
  <2>1. k <= j
    BY <1>3
  <2>2. j \in Nat /\ k \in Nat
    BY <1>1, <1>4
  <2>3. QED
    BY <2>1, <2>2
<1>6. /\ IndexOf(st.ents, id) \in DOMAIN st.ents
      /\ st.ents[IndexOf(st.ents, id)].id = id
  BY <1>4, <1>5 DEF IndexOf
<1>7. QED
  BY <1>1, <1>6

\* put() (entity.cpp:224) keeps the types of the allocator: the top never goes below 0.
LEMMA PutType ==
  ASSUME NEW st \in Store, NEW id \in Nat
  PROVE  Put(st, id) \in Store /\ Put(st, id).ents = st.ents
<1>0. st.first \in Nat /\ st.pool \in Seq(Nat) /\ st.ents \in Seq(Entity)
  BY StoreParts
<1>1. CASE id + 1 = st.first
  <2>1. Put(st, id) = [st EXCEPT !.first = @ - 1] /\ st.first - 1 \in Nat
    BY <1>0, <1>1 DEF Put
  <2>2. QED
    BY <2>1 DEF Store
<1>2. CASE id + 1 # st.first
  <2>1. Put(st, id) = [st EXCEPT !.pool = Append(@, id)]
    BY <1>2 DEF Put
  <2>2. Append(st.pool, id) \in Seq(Nat)
    BY <1>0, AppendProperties
  <2>3. QED
    BY <2>1, <2>2 DEF Store
<1>3. QED
  BY <1>1, <1>2

\* deleteEntity() (entity.cpp:261) keeps the types of any store, also of a client's,
\* whose allocator does not know the IDs in use.
LEMMA DeleteEntityType ==
  ASSUME NEW st \in Store, NEW id \in Nat
  PROVE  DeleteEntity(st, id) \in Store
<1>1. CASE id \notin LiveIDs(st)
  BY <1>1 DEF DeleteEntity, Has
<1>2. CASE id \in LiveIDs(st)
  <2> DEFINE i == IndexOf(st.ents, id)
             mid == [st EXCEPT !.ents = RemoveAt(@, i)]
  <2>1. DeleteEntity(st, id) = Put(mid, id)
    BY <1>2 DEF DeleteEntity, Has
  <2>2. i \in 1 .. Len(st.ents) /\ st.ents \in Seq(Entity)
    BY <1>2, IndexOfFinds, StoreParts
  <2> HIDE DEF i
  <2>3. RemoveAt(st.ents, i) \in Seq(Entity)
    BY <2>2, RemoveAtProperties
  <2>4. mid \in Store
    BY <2>3 DEF Store
  <2>5. QED
    BY <2>1, <2>4, PutType
<1>3. QED
  BY <1>1, <1>2

\* newEntity(id) (entity.cpp:250) keeps the types of a client's store.
LEMMA NewEntityWithIDType ==
  ASSUME NEW st \in Store, NEW id \in Nat
  PROVE  NewEntityWithID(st, id) \in Store
<1> DEFINE e == [id |-> id, explodey |-> FALSE]
<1>1. e \in Entity /\ st.ents \in Seq(Entity)
  BY StoreParts DEF Entity
<1>2. Append(st.ents, e) \in Seq(Entity)
  BY <1>1, AppendProperties
<1>3. QED
  BY <1>2 DEF NewEntityWithID, Store

\* newEntity() (entity.cpp:239) adds one entity and changes no other.
LEMMA NewEntityAdds ==
  ASSUME NEW st \in Store, NEW explodey \in BOOLEAN, Partitioned(st)
  PROVE  EntitiesOf(NewEntity(st, explodey)) =
           EntitiesOf(st) \cup {[id |-> NextID(st), explodey |-> explodey]}
<1> DEFINE e == [id |-> NextID(st), explodey |-> explodey]
           n == Len(st.ents)
           new == NewEntity(st, explodey)
           s == Append(st.ents, e)
<1>1. Get(st).ents = st.ents /\ NextID(st) \in Nat /\ Get(st) \in Store
  BY GetSound
<1>2. new.ents = s
  BY <1>1 DEF NewEntity, Store
<1>3. e \in Entity /\ st.ents \in Seq(Entity) /\ n \in Nat /\ DOMAIN st.ents = 1 .. n
  BY <1>1, StoreParts DEF Entity
<1> HIDE DEF e, n, s
<1>4. /\ s \in Seq(Entity) /\ Len(s) = n + 1
      /\ \A k \in 1 .. n : s[k] = st.ents[k]
      /\ s[n + 1] = e
  BY <1>3, AppendProperties DEF s, n
<1>5. DOMAIN s = (1 .. n) \cup {n + 1}
  BY <1>3, <1>4, LenProperties
<1>6. {s[k] : k \in DOMAIN s} = {st.ents[k] : k \in DOMAIN st.ents} \cup {e}
  BY <1>3, <1>4, <1>5
<1>7. QED
  BY <1>2, <1>6 DEF EntitiesOf, e

\* deleteEntity() (entity.cpp:261) takes away the entity with the ID and changes no other.
LEMMA DeleteEntityTakes ==
  ASSUME NEW st \in Store, NEW id \in LiveIDs(st), Partitioned(st)
  PROVE  EntitiesOf(DeleteEntity(st, id)) = {e \in EntitiesOf(st) : e.id # id}
<1> DEFINE n == Len(st.ents)
           i == IndexOf(st.ents, id)
           s == RemoveAt(st.ents, i)
           mid == [st EXCEPT !.ents = s]
<1>1. /\ st.ents \in Seq(Entity) /\ n \in Nat /\ DOMAIN st.ents = 1 .. n /\ id \in Nat
  BY StoreParts
<1>2. i \in 1 .. n /\ st.ents[i].id = id
  BY IndexOfFinds
<1>3. DeleteEntity(st, id) = Put(mid, id)
  BY DEF DeleteEntity, Has
<1> HIDE DEF n, i, s
<1>4. /\ s \in Seq(Entity) /\ Len(s) = n - 1
      /\ \A j \in 1 .. n - 1 : s[j] = IF j < i THEN st.ents[j] ELSE st.ents[j + 1]
  BY <1>1, <1>2, RemoveAtProperties DEF s, n
<1>5. DOMAIN s = 1 .. n - 1
  BY <1>4, LenProperties
<1>6. mid \in Store /\ mid.ents = s
  BY <1>4 DEF Store
<1>7. DeleteEntity(st, id).ents = s
  BY <1>1, <1>3, <1>6, PutType
<1>8. ASSUME NEW j \in 1 .. n - 1
      PROVE  \E k \in 1 .. n : k # i /\ s[j] = st.ents[k]
  <2>1. CASE j < i
    <3>1. j \in 1 .. n /\ j # i
      BY <1>1, <1>2, <2>1
    <3>2. QED
      BY <1>4, <2>1, <3>1
  <2>2. CASE ~(j < i)
    <3>1. j + 1 \in 1 .. n /\ j + 1 # i
      BY <1>1, <1>2, <2>2
    <3>2. QED
      BY <1>4, <2>2, <3>1
  <2>3. QED
    BY <2>1, <2>2
<1>9. ASSUME NEW k \in 1 .. n, k # i
      PROVE  \E j \in 1 .. n - 1 : s[j] = st.ents[k]
  <2>1. CASE k < i
    <3>1. k \in 1 .. n - 1
      BY <1>1, <1>2, <2>1
    <3>2. QED
      BY <1>4, <2>1, <3>1
  <2>2. CASE ~(k < i)
    <3>1. k - 1 \in 1 .. n - 1 /\ ~(k - 1 < i) /\ (k - 1) + 1 = k
      BY <1>1, <1>2, <1>9, <2>2
    <3>2. s[k - 1] = st.ents[(k - 1) + 1]
      BY <1>4, <3>1
    <3>3. QED
      BY <3>1, <3>2
  <2>3. QED
    BY <2>1, <2>2
<1>10. \A k \in 1 .. n : st.ents[k].id # id <=> k # i
  BY <1>1, <1>2 DEF Partitioned, IDsDistinct
<1>11. {s[j] : j \in 1 .. n - 1} = {e \in {st.ents[k] : k \in 1 .. n} : e.id # id}
  <2>1. ASSUME NEW j \in 1 .. n - 1
        PROVE  s[j] \in {e \in {st.ents[k] : k \in 1 .. n} : e.id # id}
    BY <1>8, <1>10
  <2>2. ASSUME NEW k \in 1 .. n, st.ents[k].id # id
        PROVE  st.ents[k] \in {s[j] : j \in 1 .. n - 1}
    BY <1>9, <1>10, <2>2
  <2>3. QED
    BY <2>1, <2>2
<1>12. QED
  BY <1>1, <1>5, <1>7, <1>11 DEF EntitiesOf

=============================================================================
