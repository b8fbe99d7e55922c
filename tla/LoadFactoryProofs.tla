------------------------- MODULE LoadFactoryProofs -------------------------
(* What holds of the load balancer for any servers, any customers, any     *)
(* number of threads and any capacity of the cache.                        *)
EXTENDS LoadFactory, IndexLemmas

-----------------------------------------------------------------------------
(* The cache as sequences.  The list holds the ids used last, in the same  *)
(* order as `recent', and lru_map their set; set, hit and remove are made  *)
(* of three steps that keep this: an id is taken out, an item is put in    *)
(* front, the last item is dropped.                                        *)

Item == [id : Buyer, n : 0 .. NumOrders - 1]

Aligned(list, used, ids) ==
  /\ list \in Seq(Item) /\ used \in Seq(Buyer)
  /\ \A i, j \in 1 .. Len(used) : used[i] = used[j] => i = j
  /\ Len(list) <= Len(used)
  /\ \A i \in 1 .. Len(list) : list[i].id = used[i]
  /\ ids = {used[i] : i \in 1 .. Len(list)}

\* An item of an id not used so far is put in front.
LEMMA AlignedPush ==
  ASSUME NEW list, NEW used, NEW ids, Aligned(list, used, ids),
         NEW x \in Item, \A i \in 1 .. Len(used) : used[i] # x.id
  PROVE  /\ Aligned(<<x>> \o list, <<x.id>> \o used, ids \cup {x.id})
         /\ Len(<<x>> \o list) = Len(list) + 1
<1> DEFINE l == <<x>> \o list
           u == <<x.id>> \o used
<1>0. /\ list \in Seq(Item) /\ used \in Seq(Buyer) /\ x.id \in Buyer
      /\ Len(list) \in Nat /\ Len(used) \in Nat /\ Len(list) <= Len(used)
  BY LenProperties DEF Aligned, Item
<1>1. /\ l \in Seq(Item) /\ Len(l) = Len(list) + 1 /\ l[1] = x
      /\ \A i \in 1 .. Len(list) : l[i + 1] = list[i]
  BY <1>0, PushFront
<1>2. /\ u \in Seq(Buyer) /\ Len(u) = Len(used) + 1 /\ u[1] = x.id
      /\ \A i \in 1 .. Len(used) : u[i + 1] = used[i]
  BY <1>0, PushFront
<1> HIDE DEF l, u
<1>3. \A i \in 1 .. Len(u) : i = 1 \/ (i - 1 \in 1 .. Len(used) /\ u[i] = used[i - 1])
  <2> TAKE i \in 1 .. Len(u)
  <2>1. CASE i = 1
    BY <2>1
  <2>2. CASE i # 1
    <3>1. i - 1 \in 1 .. Len(used) /\ (i - 1) + 1 = i
      BY <2>2, <1>0, <1>2
    <3> QED BY <3>1, <1>2
  <2> QED BY <2>1, <2>2
<1>4. \A i \in 1 .. Len(l) : i = 1 \/ (i - 1 \in 1 .. Len(list) /\ l[i] = list[i - 1])
  <2> TAKE i \in 1 .. Len(l)
  <2>1. CASE i = 1
    BY <2>1
  <2>2. CASE i # 1
    <3>1. i - 1 \in 1 .. Len(list) /\ (i - 1) + 1 = i
      BY <2>2, <1>0, <1>1
    <3> QED BY <3>1, <1>1
  <2> QED BY <2>1, <2>2
<1>5. ASSUME NEW i \in 1 .. Len(u), NEW j \in 1 .. Len(u), u[i] = u[j]
      PROVE  i = j
  <2>0. \A a, b \in 1 .. Len(used) : used[a] = used[b] => a = b
    BY DEF Aligned
  <2>1. CASE i = 1 /\ j = 1
    BY <2>1
  <2>2. CASE i = 1 /\ j # 1
    BY <2>2, <1>2, <1>3, <1>5
  <2>3. CASE i # 1 /\ j = 1
    BY <2>3, <1>2, <1>3, <1>5
  <2>4. CASE i # 1 /\ j # 1
    <3>1. /\ i - 1 \in 1 .. Len(used) /\ u[i] = used[i - 1]
          /\ j - 1 \in 1 .. Len(used) /\ u[j] = used[j - 1]
      BY <2>4, <1>3
    <3>2. i - 1 = j - 1
      BY Zenon, <3>1, <2>0, <1>5
    <3>3. i \in Int /\ j \in Int
      OBVIOUS
    <3> QED BY <3>2, <3>3
  <2> QED BY <2>1, <2>2, <2>3, <2>4
<1>6. ASSUME NEW i \in 1 .. Len(l) PROVE l[i].id = u[i]
  <2>0. \A a \in 1 .. Len(list) : list[a].id = used[a]
    BY DEF Aligned
  <2>1. CASE i = 1
    BY <2>1, <1>1, <1>2
  <2>2. CASE i # 1
    <3>1. i \in 1 .. Len(u)
      BY <1>0, <1>1, <1>2
    <3> QED BY <3>1, <2>0, <2>2, <1>3, <1>4
  <2> QED BY <2>1, <2>2
<1>7. ids \cup {x.id} = {u[i] : i \in 1 .. Len(l)}
  <2>0. ids = {used[i] : i \in 1 .. Len(list)}
    BY DEF Aligned
  <2>1. ASSUME NEW k \in ids PROVE k \in {u[i] : i \in 1 .. Len(l)}
    <3>1. PICK i \in 1 .. Len(list) : k = used[i]
      BY <2>0
    <3>2. i + 1 \in 1 .. Len(l) /\ i \in 1 .. Len(used)
      BY <1>0, <1>1
    <3>3. u[i + 1] = used[i]
      BY <3>2, <1>2
    <3> QED BY <3>1, <3>2, <3>3
  <2>2. x.id \in {u[i] : i \in 1 .. Len(l)}
    <3>1. 1 \in 1 .. Len(l)
      BY <1>0, <1>1
    <3> QED BY <3>1, <1>2
  <2>3. ASSUME NEW i \in 1 .. Len(l) PROVE u[i] \in ids \cup {x.id}
    <3>1. CASE i = 1
      BY <3>1, <1>2
    <3>2. CASE i # 1
      <4>1. i \in 1 .. Len(u) /\ i - 1 \in 1 .. Len(list)
        BY <3>2, <1>0, <1>1, <1>2
      <4>2. u[i] = used[i - 1]
        BY <3>2, <4>1, <1>3
      <4> QED BY <4>1, <4>2, <2>0
    <3> QED BY <3>1, <3>2
  <2> QED BY <2>1, <2>2, <2>3
<1>8. Len(l) <= Len(u)
  BY <1>0, <1>1, <1>2
<1> QED BY <1>1, <1>2, <1>5, <1>6, <1>7, <1>8 DEF Aligned, l, u

\* The last item is dropped; its id stays among those used.
LEMMA AlignedFront ==
  ASSUME NEW list, NEW used, NEW ids, Aligned(list, used, ids), list # <<>>
  PROVE  /\ Aligned(Front(list), used, ids \ {Last(list).id})
         /\ Len(Front(list)) = Len(list) - 1
<1> DEFINE l == Front(list)
           n == Len(list)
<1>0. /\ list \in Seq(Item) /\ used \in Seq(Buyer) /\ Len(used) \in Nat
      /\ n <= Len(used)
      /\ \A i, j \in 1 .. Len(used) : used[i] = used[j] => i = j
      /\ \A i \in 1 .. n : list[i].id = used[i]
      /\ ids = {used[i] : i \in 1 .. n}
  BY LenProperties DEF Aligned
<1>1. /\ n \in Nat \ {0} /\ l \in Seq(Item) /\ Len(l) = n - 1
      /\ \A i \in 1 .. n - 1 : l[i] = list[i]
  BY <1>0, FrontShape
<1>2. Last(list).id = used[n]
  <2>1. n \in 1 .. n
    BY <1>1
  <2> QED BY <2>1, <1>0 DEF Last
<1> HIDE DEF l, n
<1>3. ids \ {Last(list).id} = {used[i] : i \in 1 .. Len(l)}
  <2>1. \A i \in 1 .. n : i # n <=> i \in 1 .. n - 1
    BY <1>1
  <2>2. \A i \in 1 .. n : used[i] # used[n] <=> i # n
    <3>1. n \in 1 .. Len(used) /\ 1 .. n \subseteq 1 .. Len(used)
      BY <1>0, <1>1
    <3> QED BY <3>1, <1>0
  <2>3. 1 .. n - 1 \subseteq 1 .. n
    BY <1>1
  <2> QED BY <2>1, <2>2, <2>3, <1>0, <1>1, <1>2
<1>4. Len(l) <= Len(used) /\ \A i \in 1 .. Len(l) : i \in 1 .. n
  BY <1>0, <1>1
<1>5. \A i \in 1 .. Len(l) : l[i].id = used[i]
  BY <1>0, <1>1, <1>4
<1> QED BY <1>0, <1>1, <1>3, <1>4, <1>5 DEF Aligned, l, n

\* The map has as many ids as the list has items.
LEMMA AlignedSize ==
  ASSUME NEW list, NEW used, NEW ids, Aligned(list, used, ids)
  PROVE  Cardinality(ids) = Len(list)
<1> DEFINE n == Len(list)
           f == [i \in 1 .. n |-> used[i]]
<1>0. /\ n \in Nat /\ Len(used) \in Nat /\ n <= Len(used)
      /\ \A i, j \in 1 .. Len(used) : used[i] = used[j] => i = j
      /\ ids = {used[i] : i \in 1 .. n}
  BY LenProperties DEF Aligned
<1> HIDE DEF n
<1>1. 1 .. n \subseteq 1 .. Len(used)
  BY <1>0
<1>2. f \in [1 .. n -> ids]
  BY <1>0
<1>3. \A i, j \in 1 .. n : f[i] = f[j] => i = j
  BY <1>0, <1>1
<1>4. \A k \in ids : \E i \in 1 .. n : f[i] = k
  BY <1>0
<1>5. ExistsBijection(1 .. n, ids)
  <2> HIDE DEF f
  <2>1. f \in Bijection(1 .. n, ids)
    BY <1>2, <1>3, <1>4
       DEF Bijection, Injection, Surjection, IsInjective
  <2> QED BY <2>1 DEF ExistsBijection
<1> QED BY <1>0, <1>5, FS_CountingElements DEF n

\* The k-th id used is taken out, and its item, if it has one.
LEMMA AlignedRemove ==
  ASSUME NEW list, NEW used, NEW ids, Aligned(list, used, ids),
         NEW k \in 1 .. Len(used)
  PROVE  LET l == IF k <= Len(list) THEN RemoveAt(list, k) ELSE list
             u == RemoveAt(used, k)
         IN  /\ Aligned(l, u, ids \ {used[k]})
             /\ \A i \in 1 .. Len(u) : u[i] # used[k]
             /\ Len(l) <= Len(list)
<1> DEFINE l == IF k <= Len(list) THEN RemoveAt(list, k) ELSE list
           u == RemoveAt(used, k)
           n == Len(list)
           At(i) == IF i < k THEN i ELSE i + 1
<1>0. /\ list \in Seq(Item) /\ used \in Seq(Buyer)
      /\ n \in Nat /\ Len(used) \in Nat /\ n <= Len(used) /\ k \in Nat
      /\ \A i, j \in 1 .. Len(used) : used[i] = used[j] => i = j
      /\ \A i \in 1 .. n : list[i].id = used[i]
      /\ ids = {used[i] : i \in 1 .. n}
  BY LenProperties DEF Aligned
<1>1. /\ u \in Seq(Buyer) /\ Len(u) = Len(used) - 1
      /\ \A i \in 1 .. Len(used) - 1 : u[i] = IF i < k THEN used[i] ELSE used[i + 1]
  BY <1>0, RemoveAtProperties
<1>2. /\ l \in Seq(Item) /\ Len(l) = IF k <= n THEN n - 1 ELSE n
      /\ \A i \in 1 .. Len(l) : l[i] = IF i < k THEN list[i] ELSE list[i + 1]
  <2>1. CASE k <= n
    <3>1. k \in 1 .. n /\ l = RemoveAt(list, k)
      BY <2>1, <1>0
    <3>2. /\ RemoveAt(list, k) \in Seq(Item) /\ Len(RemoveAt(list, k)) = n - 1
          /\ \A i \in 1 .. n - 1 :
               RemoveAt(list, k)[i] = IF i < k THEN list[i] ELSE list[i + 1]
      BY <3>1, <1>0, RemoveAtProperties
    <3> HIDE DEF l
    <3> QED BY <2>1, <3>1, <3>2
  <2>2. CASE ~(k <= n)
    <3>1. l = list
      BY <2>2
    <3>2. \A i \in 1 .. n : i < k
      BY <2>2, <1>0
    <3> HIDE DEF l
    <3> QED BY <2>2, <3>1, <3>2, <1>0
  <2> QED BY <2>1, <2>2
<1> HIDE DEF l, u, n
<1>3. /\ \A i \in 1 .. Len(u) : At(i) \in 1 .. Len(used) /\ At(i) # k
      /\ \A i \in 1 .. Len(l) : At(i) \in 1 .. n
      /\ \A i, j \in 1 .. Len(u) : At(i) = At(j) => i = j
      /\ Len(l) <= Len(u) /\ Len(l) <= n
  <2>1. Len(l) \in Nat /\ Len(u) \in Nat
    BY <1>0, <1>1, <1>2
  <2>2. CASE k <= n
    BY <2>1, <2>2, <1>0, <1>1, <1>2
  <2>3. CASE ~(k <= n)
    BY <2>1, <2>3, <1>0, <1>1, <1>2
  <2> QED BY <2>2, <2>3
<1>4. \A i \in 1 .. Len(u) : u[i] = used[At(i)]
  BY <1>1
<1>5. \A i \in 1 .. Len(l) : l[i] = list[At(i)]
  BY <1>2
<1>6. \A i \in 1 .. Len(l) : i \in 1 .. Len(u)
  BY <1>0, <1>1, <1>3
<1> HIDE DEF At
<1>7. \A i, j \in 1 .. Len(u) : u[i] = u[j] => i = j
  BY <1>0, <1>3, <1>4
<1>8. \A i \in 1 .. Len(l) : l[i].id = u[i]
  BY <1>0, <1>3, <1>4, <1>5, <1>6
<1>9. \A i \in 1 .. Len(u) : u[i] # used[k]
  BY <1>0, <1>3, <1>4
<1>10. ids \ {used[k]} = {u[i] : i \in 1 .. Len(l)}
  <2>1. ASSUME NEW i \in 1 .. Len(l) PROVE u[i] \in ids \ {used[k]}
    <3>1. At(i) \in 1 .. n /\ i \in 1 .. Len(u)
      BY <1>3, <1>6
    <3> QED BY <3>1, <1>0, <1>4, <1>9
  <2>2. ASSUME NEW i \in 1 .. n, used[i] # used[k]
        PROVE  used[i] \in {u[j] : j \in 1 .. Len(l)}
    <3>1. i # k
      BY <2>2
    <3>2. CASE i < k
      <4>1. i \in 1 .. Len(l) /\ At(i) = i
        BY <3>2, <1>0, <1>2 DEF At
      <4> QED BY <4>1, <1>4, <1>6
    <3>3. CASE i > k
      <4>1. i - 1 \in 1 .. Len(l) /\ At(i - 1) = i
        BY <3>3, <1>0, <1>2 DEF At
      <4> QED BY <4>1, <1>4, <1>6
    <3>4. i < k \/ i > k
      BY <3>1, <1>0
    <3> QED BY <3>2, <3>3, <3>4
  <2>3. ASSUME NEW x \in ids, x # used[k] PROVE x \in {u[j] : j \in 1 .. Len(l)}
    <3>1. PICK i \in 1 .. n : x = used[i]
      BY <1>0
    <3> QED BY <3>1, <2>2, <2>3
  <2>4. {u[j] : j \in 1 .. Len(l)} \subseteq ids \ {used[k]}
    BY <2>1
  <2> QED BY <2>3, <2>4
<1> QED
  <2>1. Aligned(l, u, ids \ {used[k]})
    BY <1>1, <1>2, <1>3, <1>7, <1>8, <1>10 DEF Aligned
  <2> QED BY <2>1, <1>3, <1>9 DEF l, u, n

-----------------------------------------------------------------------------
(* The cache of the balancer.                                              *)

CacheInv ==
  /\ Aligned(cache_list, recent, lru_map)
  /\ Len(cache_list) <= cache_capacity

\* Without id, the cache is still what was used last.
LEMMA WithoutId ==
  ASSUME CacheInv, NEW id \in Buyer
  PROVE  /\ Aligned(Others(id), Forget(id), lru_map \ {id})
         /\ \A i \in 1 .. Len(Forget(id)) : Forget(id)[i] # id
         /\ Len(Others(id)) <= cache_capacity
<1> DEFINE n == Len(cache_list)
<1>0. /\ Aligned(cache_list, recent, lru_map)
      /\ cache_list \in Seq(Item) /\ recent \in Seq(Buyer)
      /\ n \in Nat /\ Len(recent) \in Nat /\ n <= Len(recent)
      /\ n <= cache_capacity /\ cache_capacity \in Nat
      /\ DOMAIN cache_list = 1 .. n /\ DOMAIN recent = 1 .. Len(recent)
      /\ \A i, j \in 1 .. Len(recent) : recent[i] = recent[j] => i = j
      /\ \A i \in 1 .. n : cache_list[i].id = recent[i]
      /\ lru_map = {recent[i] : i \in 1 .. n}
  BY LenProperties, LoadAssumption DEF CacheInv, Aligned
<1>1. CASE id \in Range(recent)
  <2> DEFINE k == CHOOSE i \in DOMAIN recent : recent[i] = id
  <2>1. k \in 1 .. Len(recent) /\ recent[k] = id
    BY <1>0, <1>1 DEF Range
  <2>2. Forget(id) = RemoveAt(recent, k)
    BY <1>1 DEF Forget
  <2> HIDE DEF k
  <2>3. Others(id) = IF k <= n THEN RemoveAt(cache_list, k) ELSE cache_list
    <3>1. CASE k <= n
      <4>1. k \in 1 .. n
        BY <3>1, <2>1, <1>0
      <4>2. id \in lru_map
        BY <4>1, <2>1, <1>0
      <4>3. \A i \in 1 .. n : cache_list[i].id = id <=> i = k
        <5>1. 1 .. n \subseteq 1 .. Len(recent)
          BY <1>0
        <5> QED BY <5>1, <4>1, <2>1, <1>0
      <4>4. Place(id) = k
        BY <4>1, <4>3, <1>0 DEF Place
      <4> QED BY <3>1, <4>2, <4>4 DEF Others
    <3>2. CASE ~(k <= n)
      <4>1. id \notin lru_map
        <5>1. \A i \in 1 .. n : i \in 1 .. Len(recent) /\ i # k
          BY <3>2, <2>1, <1>0
        <5> QED BY <5>1, <2>1, <1>0
      <4> QED BY <3>2, <4>1 DEF Others
    <3> QED BY <3>1, <3>2
  <2>4. LET l == IF k <= n THEN RemoveAt(cache_list, k) ELSE cache_list
            u == RemoveAt(recent, k)
        IN  /\ Aligned(l, u, lru_map \ {recent[k]})
            /\ \A i \in 1 .. Len(u) : u[i] # recent[k]
            /\ Len(l) <= Len(cache_list)
    <3>1. Aligned(cache_list, recent, lru_map)
      BY <1>0
    <3>2. k \in 1 .. Len(recent)
      BY <2>1
    <3> QED BY <3>1, <3>2, AlignedRemove
  <2>5. /\ Aligned(Others(id), Forget(id), lru_map \ {id})
        /\ \A i \in 1 .. Len(Forget(id)) : Forget(id)[i] # id
        /\ Len(Others(id)) <= n
    BY <2>1, <2>2, <2>3, <2>4
  <2>6. Len(Others(id)) \in Nat
    BY <2>5, LenProperties DEF Aligned
  <2> QED BY <2>5, <2>6, <1>0
<1>2. CASE id \notin Range(recent)
  <2>1. \A i \in 1 .. Len(recent) : recent[i] # id
    BY <1>2, <1>0 DEF Range
  <2>2. id \notin lru_map
    <3>1. 1 .. n \subseteq 1 .. Len(recent)
      BY <1>0
    <3> QED BY <3>1, <2>1, <1>0
  <2>3. Forget(id) = recent /\ Others(id) = cache_list /\ lru_map \ {id} = lru_map
    BY <1>2, <2>2 DEF Forget, Others
  <2> QED BY <2>1, <2>3, <1>0
<1> QED BY <1>1, <1>2

\* remove_from_cache keeps the cache in step.
LEMMA CacheRemoveInv ==
  ASSUME CacheInv, NEW id \in Buyer, CacheRemove(id)
  PROVE  CacheInv'
  BY WithoutId DEF CacheRemove, CacheInv

\* get_from_cache keeps it, and the map too.
LEMMA CacheHitInv ==
  ASSUME CacheInv, NEW id \in lru_map, CacheHit(id)
  PROVE  CacheInv'
<1>0. /\ cache_list \in Seq(Item) /\ recent \in Seq(Buyer)
      /\ DOMAIN cache_list = 1 .. Len(cache_list) /\ Len(cache_list) \in Nat
      /\ \A i \in 1 .. Len(cache_list) : cache_list[i].id = recent[i]
      /\ lru_map = {recent[i] : i \in 1 .. Len(cache_list)}
      /\ Len(cache_list) <= cache_capacity
  BY LenProperties DEF CacheInv, Aligned
<1> DEFINE x == cache_list[Place(id)]
<1>1. x \in Item /\ x.id = id
  <2>1. \E i \in DOMAIN cache_list : cache_list[i].id = id
    BY <1>0
  <2>2. Place(id) \in DOMAIN cache_list /\ cache_list[Place(id)].id = id
    BY <2>1 DEF Place
  <2> QED BY <2>2, <1>0, LenProperties
<1> HIDE DEF x
<1>2. id \in Buyer
  BY <1>1 DEF Item
<1>3. /\ Aligned(Others(id), Forget(id), lru_map \ {id})
      /\ \A i \in 1 .. Len(Forget(id)) : Forget(id)[i] # x.id
  BY <1>1, <1>2, WithoutId
<1>4. Aligned(<<x>> \o Others(id), <<id>> \o Forget(id), (lru_map \ {id}) \cup {id})
  BY <1>1, <1>3, AlignedPush
<1>5. (lru_map \ {id}) \cup {id} = lru_map
  OBVIOUS
<1>6. Aligned(cache_list, recent, lru_map)'
  BY <1>4, <1>5 DEF CacheHit, Use, x
<1>7. Len(cache_list') <= cache_capacity
  <2>1. Cardinality(lru_map) = Len(cache_list)
    BY AlignedSize DEF CacheInv
  <2>2. Cardinality(lru_map) = Len(<<x>> \o Others(id))
    BY <1>4, <1>5, AlignedSize
  <2> QED BY <2>1, <2>2, <1>0 DEF CacheHit, x
<1> QED BY <1>6, <1>7 DEF CacheInv

\* set_in_cache keeps it, whether or not it evicts.
LEMMA CacheSetInv ==
  ASSUME CacheInv, NEW id \in Buyer, NEW n \in 0 .. NumOrders - 1, CacheSet(id, n)
  PROVE  CacheInv'
<1> DEFINE x    == [id |-> id, n |-> n]
           list == <<x>> \o Others(id)
           ids  == lru_map \cup {id}
<1>1. x \in Item /\ x.id = id
  BY DEF Item
<1>2. /\ Aligned(Others(id), Forget(id), lru_map \ {id})
      /\ \A i \in 1 .. Len(Forget(id)) : Forget(id)[i] # x.id
      /\ Len(Others(id)) <= cache_capacity
  BY <1>1, WithoutId
<1>3. cache_capacity \in Nat /\ Len(Others(id)) \in Nat
  BY <1>2, LenProperties, LoadAssumption DEF Aligned
<1> HIDE DEF x
<1>4. /\ Aligned(list, Use(id), (lru_map \ {id}) \cup {id})
      /\ Len(list) = Len(Others(id)) + 1
  BY <1>1, <1>2, AlignedPush DEF Use
<1>5. (lru_map \ {id}) \cup {id} = ids
  OBVIOUS
<1>6. Cardinality(ids) = Len(list)
  BY <1>4, <1>5, AlignedSize
<1>7. list # <<>> /\ Len(list) \in Nat
  BY <1>3, <1>4
<1>8. /\ lru_map' = IF Cardinality(ids) > cache_capacity
                    THEN ids \ {Last(list).id} ELSE ids
      /\ cache_list' = IF Cardinality(ids) > cache_capacity
                       THEN Front(list) ELSE list
      /\ recent' = Use(id)
  BY DEF CacheSet, x
<1> HIDE DEF list, ids
<1>9. CASE Cardinality(ids) > cache_capacity
  <2>1. /\ Aligned(Front(list), Use(id), ids \ {Last(list).id})
        /\ Len(Front(list)) = Len(list) - 1
    BY <1>4, <1>5, <1>7, AlignedFront
  <2>2. Len(Front(list)) <= cache_capacity
    BY <2>1, <1>2, <1>3, <1>4
  <2> QED BY <2>1, <2>2, <1>8, <1>9 DEF CacheInv
<1>10. CASE ~(Cardinality(ids) > cache_capacity)
  <2>1. Len(list) <= cache_capacity
    BY <1>3, <1>6, <1>7, <1>10
  <2>2. Aligned(list, Use(id), ids)
    BY <1>4, <1>5
  <2> QED BY <2>1, <2>2, <1>8, <1>10 DEF CacheInv
<1> QED BY <1>9, <1>10

-----------------------------------------------------------------------------
(* The invariant.  Beside the types it says whose request a thread handles *)
(* where, and that a thread between its lookup and its fill holds cr_lock  *)
(* and still misses.                                                       *)

ThreadInv(e, r) ==
  /\ r \in Engineer
  /\ r.pc \in {"ignored", "connect", "failover", "order", "taken", "executed"} =>
       e \in Buyer /\ r.id = e /\ r.n \in 0 .. NumOrders - 1
  /\ r.pc \in {"balance", "lookup", "read", "fill"} => e \in Reader /\ r.id \in Buyer
  /\ r.pc = "fill" => r.n \in -1 .. NumOrders - 1

Control == \A e \in Thread : ThreadInv(e, eng[e])

LockInv ==
  \A e \in Thread :
    eng[e].pc \in {"read", "fill"} => cr_lock = e /\ eng[e].id \notin lru_map

Inv == TypeOK /\ Control /\ CacheInv /\ LockInv

\* TypeOK without what Control and CacheInv say already.
FieldTypes ==
  /\ live \subseteq Server
  /\ history \in Seq(Item)
  /\ applied \in [Server -> 0 .. Len(history)]
  /\ producer \in Server \cup {NoServer} /\ cluster \in Cluster
  /\ crashed \in BOOLEAN
  /\ primary_server_index \in 0 .. total_servers - 1
  /\ round_robin_counter \in Nat
  /\ cr_lock \in Reader \cup {NoThread}
  /\ sent \in [Thread -> Nat]
  /\ answered \in [Buyer -> -1 .. NumOrders - 1]

RestType == FieldTypes /\ DOMAIN eng = Thread /\ eng = [t \in Thread |-> eng[t]]

LEMMA InvParts == Inv <=> RestType /\ Control /\ CacheInv /\ LockInv
<1>1. CacheInv => /\ cache_list \in Seq(Item) /\ recent \in Seq(Buyer)
                  /\ lru_map \subseteq Buyer
  <2> SUFFICES ASSUME CacheInv
               PROVE  /\ cache_list \in Seq(Item) /\ recent \in Seq(Buyer)
                      /\ lru_map \subseteq Buyer
    OBVIOUS
  <2>1. /\ cache_list \in Seq(Item) /\ recent \in Seq(Buyer)
        /\ Len(cache_list) \in Nat /\ Len(recent) \in Nat
        /\ Len(cache_list) <= Len(recent)
        /\ lru_map = {recent[i] : i \in 1 .. Len(cache_list)}
    BY LenProperties DEF CacheInv, Aligned
  <2>2. \A i \in 1 .. Len(cache_list) : recent[i] \in Buyer
    BY <2>1, LenProperties
  <2> QED BY <2>1, <2>2
<1>2. (DOMAIN eng = Thread /\ eng = [t \in Thread |-> eng[t]]) /\ Control
        => eng \in [Thread -> Engineer]
  BY DEF Control, ThreadInv
<1>3. eng \in [Thread -> Engineer] =>
        DOMAIN eng = Thread /\ eng = [t \in Thread |-> eng[t]]
  OBVIOUS
<1> QED BY <1>1, <1>2, <1>3 DEF Inv, TypeOK, RestType, FieldTypes, Item

\* The servers, by index.
LEMMA Servers ==
  /\ total_servers \in Nat \ {0}
  /\ \A i \in Nat : i % total_servers \in 0 .. total_servers - 1
  /\ \A i \in 0 .. total_servers - 1 : Connect(i) \in live \cup {NoServer}
<1>1. Len(Replicas) \in Nat \ {0}
  BY LoadAssumption, LenProperties, EmptySeq
<1>2. ASSUME NEW i \in Nat PROVE i % total_servers \in 0 .. total_servers - 1
  BY <1>1 DEF total_servers
<1> QED BY <1>1, <1>2 DEF total_servers, Connect

\* A server that has applied a prefix of the history reports one of its orders.
LEMMA RecordType ==
  ASSUME history \in Seq(Item), NEW k \in 0 .. Len(history), NEW id
  PROVE  Record(k, id) \in -1 .. NumOrders - 1
<1> DEFINE W == {i \in 1 .. k : history[i].id = id}
<1>0. NumOrders \in Nat
  BY LoadAssumption
<1>1. CASE W = {}
  BY <1>0, <1>1 DEF Record
<1>2. CASE W # {}
  <2>0. W \in SUBSET (1 .. k) /\ 1 \in Int /\ k \in Int
    BY LenProperties
  <2>1. Max(W) \in W /\ Record(k, id) = history[Max(W)].n
    <3>1. Record(k, id) = history[Max(W)].n
      BY <1>2 DEF Record
    <3> HIDE DEF W
    <3> QED BY <3>1, <2>0, <1>2, MaxOfIndices
  <2>2. Max(W) \in 1 .. Len(history)
    BY <2>1, LenProperties
  <2>3. history[Max(W)] \in Item
    BY <2>2, LenProperties
  <2>4. history[Max(W)].n \in 0 .. NumOrders - 1
    BY <2>3 DEF Item
  <2> QED BY <2>1, <2>4, <1>0
<1> QED BY <1>1, <1>2

\* So does a server that may report anything, or is down.
LEMMA ReportedType ==
  ASSUME FieldTypes, NEW s, NEW id
  PROVE  Reported(s, id) \subseteq -1 .. NumOrders - 1
<1>0. -1 \in -1 .. NumOrders - 1
  BY LoadAssumption
<1>1. CASE s \in live /\ cluster # "apart"
  <2>1. applied[s] \in 0 .. Len(history) /\ history \in Seq(Item)
    BY <1>1 DEF FieldTypes
  <2>2. Record(applied[s], id) \in -1 .. NumOrders - 1
    BY <2>1, RecordType
  <2> QED BY <1>1, <2>2 DEF Reported
<1>2. CASE s \notin live
  BY <1>0, <1>2 DEF Reported
<1>3. CASE s \in live /\ cluster = "apart"
  BY <1>3 DEF Reported
<1> QED BY <1>1, <1>2, <1>3

\* One thread moves.
LEMMA EngineerMoves ==
  ASSUME RestType, Control, NEW e \in Thread, NEW r, ThreadInv(e, r),
         eng' = [eng EXCEPT ![e] = r]
  PROVE  /\ Control'
         /\ DOMAIN eng' = Thread /\ eng' = [t \in Thread |-> eng'[t]]
         /\ eng'[e] = r /\ \A t \in Thread \ {e} : eng'[t] = eng[t]
<1>1. /\ DOMAIN eng' = Thread /\ eng' = [t \in Thread |-> eng'[t]]
      /\ eng'[e] = r /\ \A t \in Thread \ {e} : eng'[t] = eng[t]
  BY DEF RestType
<1> QED BY <1>1 DEF Control, ThreadInv

\* Nobody is between lookup and fill while the lock is free.
LEMMA FreeLock ==
  ASSUME LockInv, cr_lock = NoThread, NEW e \in Thread
  PROVE  eng[e].pc \notin {"read", "fill"}
  BY LoadAssumption DEF LockInv

LEMMA IdleType == Idle \in Engineer /\ Idle.pc = "idle"
  BY DEF Idle, Engineer, Pc

LEMMA InitInv == Init => Inv
<1> SUFFICES ASSUME Init PROVE Inv
  OBVIOUS
<1>0. (\A T : <<>> \in Seq(T)) /\ Len(<<>>) = 0
  BY EmptySeq
<1>2. RestType
  <2>1. NumOrders \in Nat /\ Len(history) = 0 /\ history \in Seq(Item)
    BY <1>0, LoadAssumption DEF Init
  <2>2. applied \in [Server -> 0 .. Len(history)]
    BY <2>1 DEF Init
  <2>3. answered \in [Buyer -> -1 .. NumOrders - 1]
    BY <2>1 DEF Init
  <2>4. primary_server_index \in 0 .. total_servers - 1
    BY Servers DEF Init
  <2>5. DOMAIN eng = Thread /\ eng = [t \in Thread |-> eng[t]]
    BY DEF Init
  <2>6. producer \in Server \cup {NoServer} /\ cluster \in Cluster
    BY DEF Init, Cluster
  <2> QED BY <2>1, <2>2, <2>3, <2>4, <2>5, <2>6 DEF Init, RestType, FieldTypes
<1>3. Control
  BY IdleType DEF Init, Control, ThreadInv
<1>4. CacheInv
  BY <1>0, LoadAssumption DEF Init, CacheInv, Aligned
<1>5. LockInv
  BY IdleType DEF Init, LockInv
<1> QED BY <1>2, <1>3, <1>4, <1>5, InvParts

-----------------------------------------------------------------------------
(* Each step. *)

\* A step of one thread.
LEMMA ThreadMoves ==
  ASSUME Inv, NEW e \in Thread, NEW r, ThreadInv(e, r),
         r.pc \in {"read", "fill"} => cr_lock' = e /\ r.id \notin lru_map',
         eng' = [eng EXCEPT ![e] = r], FieldTypes', CacheInv',
         (cr_lock' = cr_lock /\ lru_map' = lru_map) \/ cr_lock \in {NoThread, e}
  PROVE  Inv'
<1>1. RestType /\ Control /\ LockInv
  BY InvParts
<1>2. /\ Control'
      /\ DOMAIN eng' = Thread /\ eng' = [t \in Thread |-> eng'[t]]
      /\ eng'[e] = r /\ \A t \in Thread \ {e} : eng'[t] = eng[t]
  BY <1>1, EngineerMoves
<1>3. RestType'
  BY <1>2 DEF RestType
<1>4. LockInv'
  <2>0. NoThread \notin Thread
    BY LoadAssumption
  <2> SUFFICES ASSUME NEW t \in Thread, eng'[t].pc \in {"read", "fill"}
               PROVE  cr_lock' = t /\ eng'[t].id \notin lru_map'
    BY DEF LockInv
  <2>1. CASE t = e
    BY <2>1, <1>2
  <2>2. CASE t # e
    <3>1. eng'[t] = eng[t]
      BY <2>2, <1>2
    <3>2. cr_lock = t /\ eng[t].id \notin lru_map
      BY <1>1, <3>1 DEF LockInv
    <3> QED BY <2>0, <2>2, <3>1, <3>2
  <2> QED BY <2>1, <2>2
<1> QED
  <2>1. (RestType /\ Control /\ CacheInv /\ LockInv)'
    BY <1>2, <1>3, <1>4
  <2>2. Inv' <=> (RestType /\ Control /\ CacheInv /\ LockInv)'
    BY InvParts, PTL
  <2> QED BY <2>1, <2>2

\* The facts each step starts from.
LEMMA InvFacts ==
  ASSUME Inv, NEW e \in Thread
  PROVE  /\ FieldTypes /\ CacheInv /\ LockInv /\ eng[e] \in Engineer
         /\ ThreadInv(e, eng[e])
  BY InvParts DEF RestType, Control, ThreadInv

LEMMA RequestOrderInv ==
  ASSUME Inv, NEW b \in Buyer, NEW type \in RequestType, RequestOrder(b, type)
  PROVE  Inv'
<1> DEFINE r == [Idle EXCEPT !.pc = IF type = 1 THEN "connect" ELSE "ignored",
                             !.id = b, !.n = sent[b]]
<1>0. b \in Thread /\ NumOrders \in Nat
  BY LoadAssumption DEF Thread
<1>1. FieldTypes /\ CacheInv
  BY <1>0, InvFacts
<1>2. sent[b] \in 0 .. NumOrders - 1
  BY <1>0, <1>1 DEF FieldTypes, RequestOrder
<1>3. ThreadInv(b, r) /\ r.pc \notin {"read", "fill"}
  <2> DEFINE p == IF type = 1 THEN "connect" ELSE "ignored"
  <2>1. p \in {"connect", "ignored"}
    OBVIOUS
  <2>2. r = [Idle EXCEPT !.pc = p, !.id = b, !.n = sent[b]]
    OBVIOUS
  <2> HIDE DEF p, r
  <2>3. r.pc = p /\ r.id = b /\ r.n = sent[b]
    BY <2>2, IdleType DEF Engineer
  <2>4. r \in Engineer
    <3>1. p \in Pc /\ sent[b] \in Int
      BY <1>2, <2>1 DEF Pc
    <3> QED BY <2>2, <3>1, IdleType DEF Engineer
  <2> QED BY <1>2, <2>1, <2>3, <2>4 DEF ThreadInv
<1>4. eng' = [eng EXCEPT ![b] = r]
  BY DEF RequestOrder
<1>5. FieldTypes'
  <2>1. sent' \in [Thread -> Nat]
    BY <1>0, <1>1 DEF FieldTypes, RequestOrder
  <2> QED BY <1>1, <2>1 DEF FieldTypes, RequestOrder, servers
<1>6. CacheInv' /\ cr_lock' = cr_lock /\ lru_map' = lru_map
  BY <1>1 DEF CacheInv, RequestOrder, cache
<1> HIDE DEF r
<1> QED BY <1>0, <1>3, <1>4, <1>5, <1>6, ThreadMoves

LEMMA ConnectPrimaryInv ==
  ASSUME Inv, NEW b \in Thread, ConnectPrimary(b) PROVE Inv'
<1> DEFINE r == [eng[b] EXCEPT !.pc = "failover",
                               !.stub = Connect(primary_server_index)]
<1>1. FieldTypes /\ CacheInv /\ eng[b] \in Engineer /\ ThreadInv(b, eng[b])
  BY InvFacts
<1>2. Connect(primary_server_index) \in Server \cup {NoServer}
  BY <1>1, Servers DEF FieldTypes
<1>3. eng[b].pc = "connect" /\ eng' = [eng EXCEPT ![b] = r]
  BY DEF ConnectPrimary
<1>4. ThreadInv(b, r) /\ r.pc \notin {"read", "fill"}
  BY <1>1, <1>2, <1>3 DEF ThreadInv, Engineer, Pc
<1>5. FieldTypes' /\ CacheInv' /\ cr_lock' = cr_lock /\ lru_map' = lru_map
  BY <1>1 DEF FieldTypes, ConnectPrimary, servers, cache, CacheInv
<1> HIDE DEF r
<1> QED BY <1>3, <1>4, <1>5, ThreadMoves

LEMMA FailoverInv ==
  ASSUME Inv, NEW b \in Thread, Failover(b) PROVE Inv'
<1> DEFINE r == [eng[b] EXCEPT !.attempts = @ + 1,
                               !.stub = Connect(primary_server_index')]
<1>1. FieldTypes /\ CacheInv /\ eng[b] \in Engineer /\ ThreadInv(b, eng[b])
  BY InvFacts
<1>2. primary_server_index' \in 0 .. total_servers - 1
  <2>1. primary_server_index + 1 \in Nat
    BY <1>1, Servers DEF FieldTypes
  <2> QED BY <2>1, Servers DEF Failover
<1>3. Connect(primary_server_index') \in Server \cup {NoServer}
  BY <1>1, <1>2, Servers DEF FieldTypes
<1>4. eng[b].pc = "failover" /\ eng' = [eng EXCEPT ![b] = r]
  BY DEF Failover
<1>5. ThreadInv(b, r) /\ r.pc \notin {"read", "fill"}
  <2>1. eng[b].attempts + 1 \in Nat
    BY <1>1 DEF Engineer
  <2>2. r \in Engineer
    BY <1>1, <1>3, <2>1 DEF Engineer
  <2>3. r.pc = "failover" /\ r.id = eng[b].id /\ r.n = eng[b].n
    BY <1>1, <1>4 DEF Engineer
  <2> HIDE DEF r
  <2> QED BY <1>1, <1>4, <2>2, <2>3 DEF ThreadInv
<1>6. FieldTypes' /\ CacheInv' /\ cr_lock' = cr_lock /\ lru_map' = lru_map
  BY <1>1, <1>2 DEF FieldTypes, Failover, servers, cache, CacheInv
<1> HIDE DEF r
<1> QED BY <1>4, <1>5, <1>6, ThreadMoves

LEMMA RemoveFromCacheInv ==
  ASSUME Inv, NEW b \in Thread, RemoveFromCache(b) PROVE Inv'
<1> DEFINE r == [eng[b] EXCEPT !.pc = "order"]
<1>1. FieldTypes /\ CacheInv /\ eng[b] \in Engineer /\ ThreadInv(b, eng[b])
  BY InvFacts
<1>2. eng[b].pc = "failover" /\ eng' = [eng EXCEPT ![b] = r]
  BY DEF RemoveFromCache, Step
<1>3. ThreadInv(b, r) /\ r.pc \notin {"read", "fill"}
  BY <1>1, <1>2 DEF ThreadInv, Engineer, Pc
<1>4. FieldTypes' /\ cr_lock = NoThread
  <2>1. producer' \in Server \cup {NoServer} /\ cluster' \in Cluster
    BY <1>1 DEF FieldTypes, RemoveFromCache, SendOrder, Cluster
  <2> QED BY <1>1, <2>1 DEF FieldTypes, RemoveFromCache, SendOrder
<1>5. b \in Buyer
  BY <1>1, <1>2 DEF ThreadInv
<1>6. \E id \in Buyer : CacheRemove(id)
  BY <1>5 DEF RemoveFromCache
<1>7. CacheInv'
  BY <1>1, <1>6, CacheRemoveInv
<1> HIDE DEF r
<1> QED BY <1>2, <1>3, <1>4, <1>7, ThreadMoves

LEMMA TakeInv ==
  ASSUME Inv, NEW b \in Thread, Take(b) PROVE Inv'
<1> DEFINE r == [eng[b] EXCEPT !.pc = "taken"]
<1>1. FieldTypes /\ CacheInv /\ eng[b] \in Engineer /\ ThreadInv(b, eng[b])
  BY InvFacts
<1>2. eng[b].pc = "order" /\ eng' = [eng EXCEPT ![b] = r]
  BY DEF Take, Step
<1>3. ThreadInv(b, r) /\ r.pc \notin {"read", "fill"}
  BY <1>1, <1>2 DEF ThreadInv, Engineer, Pc
<1>4. history' \in Seq(Item) /\ Len(history') = Len(history) + 1 /\ Len(history) \in Nat
  <2>1. b \in Buyer /\ eng[b].n \in 0 .. NumOrders - 1
    BY <1>1, <1>2 DEF ThreadInv
  <2>2. [id |-> b, n |-> eng[b].n] \in Item
    BY <2>1 DEF Item
  <2>3. history' = Append(history, [id |-> b, n |-> eng[b].n]) /\ history \in Seq(Item)
    BY <1>1 DEF Take, FieldTypes
  <2> QED BY <2>2, <2>3, AppendProperties, LenProperties
<1>5. applied' \in [Server -> 0 .. Len(history')]
  <2>1. applied \in [Server -> 0 .. Len(history)] /\ applied' = applied
    BY <1>1 DEF FieldTypes, Take
  <2>2. \A s \in Server : applied[s] \in 0 .. Len(history) + 1
    BY <2>1, <1>4
  <2> QED BY <2>1, <2>2, <1>4
<1>6. FieldTypes' /\ CacheInv' /\ cr_lock' = cr_lock /\ lru_map' = lru_map
  BY <1>1, <1>4, <1>5 DEF FieldTypes, Take, cache, CacheInv
<1> HIDE DEF r
<1> QED BY <1>2, <1>3, <1>6, ThreadMoves

\* The greater of two numbers.
LEMMA MaxOfPair ==
  ASSUME NEW i \in Int, NEW j \in Int
  PROVE  Max({i, j}) = IF i >= j THEN i ELSE j
<1>1. PICK m : m = IF i >= j THEN i ELSE j
  OBVIOUS
<1>2. m \in {i, j} /\ \A y \in {i, j} : m >= y
  BY <1>1
<1>3. ASSUME NEW x \in {i, j}, \A y \in {i, j} : x >= y PROVE x = m
  BY <1>2, <1>3
<1>4. Max({i, j}) = m
  BY <1>2, <1>3 DEF Max
<1> QED BY <1>1, <1>4

LEMMA ExecuteInv ==
  ASSUME Inv, NEW b \in Thread, Execute(b) PROVE Inv'
<1> DEFINE r == [eng[b] EXCEPT !.pc = "executed"]
<1>1. FieldTypes /\ CacheInv /\ eng[b] \in Engineer /\ ThreadInv(b, eng[b])
  BY InvFacts
<1>2. eng[b].pc = "taken" /\ eng' = [eng EXCEPT ![b] = r]
  BY DEF Execute, Step
<1>3. ThreadInv(b, r) /\ r.pc \notin {"read", "fill"}
  BY <1>1, <1>2 DEF ThreadInv, Engineer, Pc
<1>4. applied' \in [Server -> 0 .. Len(history)]
  <2>0. Len(history) \in Nat /\ applied \in [Server -> 0 .. Len(history)]
    BY <1>1, LenProperties DEF FieldTypes
  <2>1. ASSUME NEW s \in Server
        PROVE  /\ applied[s] \in 0 .. Len(history)
               /\ Max({applied[s], Len(history) - 1}) \in 0 .. Len(history)
    <3>1. applied[s] \in 0 .. Len(history)
      BY <2>0
    <3>2. Max({applied[s], Len(history) - 1}) =
            IF applied[s] >= Len(history) - 1 THEN applied[s] ELSE Len(history) - 1
      BY <2>0, <3>1, MaxOfPair
    <3> QED BY <2>0, <3>1, <3>2
  <2>2. Len(history) \in 0 .. Len(history)
    BY <2>0
  <2>3. applied' = [s \in Server |->
           IF s = eng[b].stub THEN Len(history)
           ELSE IF s \in live THEN Max({applied[s], Len(history) - 1})
           ELSE applied[s]]
    BY DEF Execute
  <2> QED BY <2>1, <2>2, <2>3
<1>5. FieldTypes' /\ CacheInv' /\ cr_lock' = cr_lock /\ lru_map' = lru_map
  BY <1>1, <1>4 DEF FieldTypes, Execute, cache, CacheInv
<1> HIDE DEF r
<1> QED BY <1>2, <1>3, <1>5, ThreadMoves

\* A thread that goes back to its receive is out of the way.
LEMMA IdleInv == ASSUME NEW e \in Thread
                 PROVE  ThreadInv(e, Idle) /\ Idle.pc \notin {"read", "fill"}
  BY IdleType DEF ThreadInv

LEMMA DeliverInv ==
  ASSUME Inv, NEW b \in Thread, Deliver(b) PROVE Inv'
<1>1. FieldTypes /\ CacheInv /\ eng[b] \in Engineer /\ ThreadInv(b, eng[b])
  BY InvFacts
<1>2. b \in Buyer /\ eng[b].n \in 0 .. NumOrders - 1
  BY <1>1 DEF Deliver, ThreadInv
<1>3. answered' \in [Buyer -> -1 .. NumOrders - 1]
  <2>1. eng[b].n \in -1 .. NumOrders - 1 /\ answered \in [Buyer -> -1 .. NumOrders - 1]
    BY <1>1, <1>2, LoadAssumption DEF FieldTypes
  <2> QED BY <2>1 DEF Deliver
<1>4. FieldTypes' /\ CacheInv' /\ cr_lock' = cr_lock /\ lru_map' = lru_map
  BY <1>1, <1>3 DEF FieldTypes, Deliver, servers, cache, CacheInv
<1>5. eng' = [eng EXCEPT ![b] = Idle]
  BY DEF Deliver
<1> QED BY <1>4, <1>5, IdleInv, ThreadMoves

LEMMA DeliverInvalidInv ==
  ASSUME Inv, NEW b \in Thread, DeliverInvalid(b) PROVE Inv'
<1>1. FieldTypes /\ CacheInv
  BY InvFacts
<1>2. sent' \in [Thread -> Nat]
  BY <1>1, LoadAssumption DEF FieldTypes, DeliverInvalid
<1>3. FieldTypes' /\ CacheInv' /\ cr_lock' = cr_lock /\ lru_map' = lru_map
  BY <1>1, <1>2 DEF FieldTypes, DeliverInvalid, servers, cache, CacheInv
<1>4. eng' = [eng EXCEPT ![b] = Idle]
  BY DEF DeliverInvalid
<1> QED BY <1>3, <1>4, IdleInv, ThreadMoves

LEMMA RequestReadInv ==
  ASSUME Inv, NEW e \in Reader, NEW id \in Buyer, RequestRead(e, id) PROVE Inv'
<1> DEFINE r == [Idle EXCEPT !.pc = "balance", !.id = id]
<1>0. e \in Thread
  BY DEF Thread
<1>1. FieldTypes /\ CacheInv
  BY <1>0, InvFacts
<1>2. r \in Engineer /\ r.pc = "balance" /\ r.id = id
  BY IdleType DEF Engineer, Pc
<1>3. eng' = [eng EXCEPT ![e] = r]
  BY DEF RequestRead
<1> HIDE DEF r
<1>4. ThreadInv(e, r) /\ r.pc \notin {"read", "fill"}
  BY <1>2 DEF ThreadInv
<1>5. sent' \in [Thread -> Nat]
  BY <1>0, <1>1 DEF FieldTypes, RequestRead
<1>6. FieldTypes' /\ CacheInv' /\ cr_lock' = cr_lock /\ lru_map' = lru_map
  BY <1>1, <1>5 DEF FieldTypes, RequestRead, servers, cache, CacheInv
<1> QED BY <1>0, <1>3, <1>4, <1>6, ThreadMoves

LEMMA BalanceInv ==
  ASSUME Inv, NEW e \in Thread, Balance(e) PROVE Inv'
<1> DEFINE at(i)  == Connect((round_robin_counter + i) % total_servers)
           found  == {i \in 0 .. total_servers - 1 : at(i) # NoServer}
           passes == IF found = {} THEN total_servers ELSE Min(found) + 1
           r      == [eng[e] EXCEPT !.pc = "lookup", !.stub = at(passes - 1)]
<1>1. FieldTypes /\ CacheInv /\ eng[e] \in Engineer /\ ThreadInv(e, eng[e])
  BY InvFacts
<1>2. /\ eng[e].pc = "balance" /\ eng' = [eng EXCEPT ![e] = r]
      /\ round_robin_counter' = round_robin_counter + passes
  BY DEF Balance
<1>3. passes \in Nat \ {0}
  <2>0. total_servers \in Nat \ {0}
    BY Servers
  <2>1. CASE found = {}
    BY <2>0, <2>1
  <2>2. CASE found # {}
    <3>1. found \in SUBSET (0 .. total_servers - 1) /\ 0 \in Int /\ total_servers - 1 \in Int
      BY <2>0
    <3> HIDE DEF found
    <3>2. Min(found) \in found
      BY <2>2, <3>1, MinOfIndices
    <3>3. Min(found) \in Nat
      <4>1. Min(found) \in 0 .. total_servers - 1
        BY Zenon, <3>1, <3>2
      <4> DEFINE m == Min(found)
      <4> HIDE DEF m
      <4>2. m \in Nat
        BY <4>1, <2>0 DEF m
      <4> QED BY <4>2 DEF m
    <3>4. passes = Min(found) + 1
      BY <2>2
    <3> HIDE DEF passes
    <3> QED BY <3>3, <3>4
  <2> QED BY <2>1, <2>2
<1> HIDE DEF found, passes
<1>4. round_robin_counter' \in Nat /\ at(passes - 1) \in Server \cup {NoServer}
  <2>1. round_robin_counter \in Nat /\ live \subseteq Server
    BY <1>1 DEF FieldTypes
  <2>2. round_robin_counter + (passes - 1) \in Nat
    BY <2>1, <1>3
  <2> QED BY <2>1, <2>2, <1>2, <1>3, Servers
<1> HIDE DEF at
<1>5. ThreadInv(e, r) /\ r.pc \notin {"read", "fill"}
  <2>1. r \in Engineer
    BY <1>1, <1>4 DEF Engineer, Pc
  <2>2. r.pc = "lookup" /\ r.id = eng[e].id
    BY <1>1 DEF Engineer
  <2> HIDE DEF r
  <2> QED BY <1>1, <1>2, <2>1, <2>2 DEF ThreadInv
<1>6. FieldTypes' /\ CacheInv' /\ cr_lock' = cr_lock /\ lru_map' = lru_map
  BY <1>1, <1>4 DEF FieldTypes, Balance, servers, cache, CacheInv
<1> HIDE DEF r
<1> QED BY <1>2, <1>5, <1>6, ThreadMoves

LEMMA LookupHitInv ==
  ASSUME Inv, NEW e \in Thread, LookupHit(e) PROVE Inv'
<1>1. FieldTypes /\ CacheInv
  BY InvFacts
<1>2. \E id \in lru_map : CacheHit(id)
  BY DEF LookupHit
<1>3. CacheInv'
  BY <1>1, <1>2, CacheHitInv
<1>4. FieldTypes' /\ cr_lock = NoThread /\ eng' = [eng EXCEPT ![e] = Idle]
  BY <1>1 DEF FieldTypes, LookupHit, servers
<1> QED BY <1>3, <1>4, IdleInv, ThreadMoves

LEMMA LookupMissInv ==
  ASSUME Inv, NEW e \in Thread, LookupMiss(e) PROVE Inv'
<1> DEFINE r == [eng[e] EXCEPT !.pc = "read"]
<1>1. FieldTypes /\ CacheInv /\ eng[e] \in Engineer /\ ThreadInv(e, eng[e])
  BY InvFacts
<1>2. /\ eng[e].pc = "lookup" /\ eng' = [eng EXCEPT ![e] = r]
      /\ cr_lock = NoThread /\ cr_lock' = e
      /\ eng[e].id \notin lru_map /\ lru_map' = lru_map
  BY DEF LookupMiss, Step, cache
<1>3. ThreadInv(e, r) /\ r.id = eng[e].id
  BY <1>1, <1>2 DEF ThreadInv, Engineer, Pc
<1>4. e \in Reader
  BY <1>1, <1>2 DEF ThreadInv
<1>5. FieldTypes' /\ CacheInv'
  BY <1>1, <1>2, <1>4 DEF FieldTypes, LookupMiss, servers, cache, CacheInv
<1> HIDE DEF r
<1> QED BY <1>2, <1>3, <1>5, ThreadMoves

LEMMA ReadRecordInv ==
  ASSUME Inv, NEW e \in Thread, ReadRecord(e) PROVE Inv'
<1>0. PICK n \in Reported(eng[e].stub, eng[e].id) :
        eng' = [eng EXCEPT ![e].pc = "fill", ![e].n = n]
  BY DEF ReadRecord
<1> DEFINE r == [eng[e] EXCEPT !.pc = "fill", !.n = n]
<1>1. /\ FieldTypes /\ CacheInv /\ LockInv
      /\ eng[e] \in Engineer /\ ThreadInv(e, eng[e])
  BY InvFacts
<1>2. eng[e].pc = "read" /\ eng' = [eng EXCEPT ![e] = r]
  BY <1>0 DEF ReadRecord
<1>3. n \in -1 .. NumOrders - 1
  BY <1>0, <1>1, ReportedType
<1>4. ThreadInv(e, r) /\ r.id = eng[e].id
  <2>1. r \in Engineer
    <3>1. n \in Int
      BY <1>3, LoadAssumption
    <3> QED BY <3>1, <1>1 DEF Engineer, Pc
  <2>2. r.pc = "fill" /\ r.n = n /\ r.id = eng[e].id
    BY <1>1 DEF Engineer
  <2> HIDE DEF r
  <2> QED BY <2>1, <2>2, <1>1, <1>2, <1>3 DEF ThreadInv
<1>5. cr_lock = e /\ eng[e].id \notin lru_map
  BY <1>1, <1>2 DEF LockInv
<1>6. FieldTypes' /\ CacheInv' /\ cr_lock' = cr_lock /\ lru_map' = lru_map
  BY <1>1 DEF FieldTypes, ReadRecord, servers, cache, CacheInv
<1> HIDE DEF r
<1> QED BY <1>2, <1>4, <1>5, <1>6, ThreadMoves

LEMMA FillInv ==
  ASSUME Inv, NEW e \in Thread, Fill(e) PROVE Inv'
<1>1. FieldTypes /\ CacheInv /\ LockInv /\ ThreadInv(e, eng[e])
  BY InvFacts
<1>2. /\ eng[e].pc = "fill" /\ cr_lock' = NoThread
      /\ eng' = [eng EXCEPT ![e] = Idle]
  BY DEF Fill
<1>3. cr_lock = e
  BY <1>1, <1>2 DEF LockInv
<1>4. FieldTypes'
  BY <1>1, <1>2 DEF FieldTypes, Fill, servers
<1>5. CacheInv'
  <2>1. CASE eng[e].n = -1
    BY <2>1, <1>1 DEF Fill, cache, CacheInv
  <2>2. CASE eng[e].n # -1
    <3>1. eng[e].id \in Buyer /\ eng[e].n \in -1 .. NumOrders - 1 /\ NumOrders \in Nat
      BY <1>1, <1>2, LoadAssumption DEF ThreadInv
    <3>2. eng[e].n \in 0 .. NumOrders - 1
      BY <2>2, <3>1
    <3>3. CacheSet(eng[e].id, eng[e].n)
      BY <2>2 DEF Fill
    <3> QED BY <1>1, <3>1, <3>2, <3>3, CacheSetInv
  <2> QED BY <2>1, <2>2
<1> QED BY <1>2, <1>3, <1>4, <1>5, IdleInv, ThreadMoves

\* No thread moves.
LEMMA NoThreadMoves ==
  ASSUME Inv, FieldTypes', UNCHANGED <<eng, cr_lock, cache>>
  PROVE  Inv'
<1>1. RestType /\ Control /\ CacheInv /\ LockInv
  BY InvParts
<1>2. (RestType /\ Control /\ CacheInv /\ LockInv)'
  BY <1>1 DEF RestType, Control, CacheInv, LockInv, cache
<1>3. Inv' <=> (RestType /\ Control /\ CacheInv /\ LockInv)'
  BY InvParts, PTL
<1> QED BY <1>2, <1>3

LEMMA NullStubInv ==
  ASSUME Inv, NEW e \in Thread, NullStub(e) PROVE Inv'
<1>1. FieldTypes
  BY InvFacts
<1>2. FieldTypes'
  BY <1>1 DEF FieldTypes, NullStub, servers
<1> QED BY <1>2, NoThreadMoves DEF NullStub

LEMMA ServerCrashInv ==
  ASSUME Inv, NEW s \in Server, ServerCrash(s) PROVE Inv'
<1>1. FieldTypes
  BY InvParts DEF RestType
<1>2. cluster' \in Cluster
  BY <1>1 DEF FieldTypes, ServerCrash, Cluster
<1>3. FieldTypes'
  BY <1>1, <1>2 DEF FieldTypes, ServerCrash
<1> QED BY <1>3, NoThreadMoves DEF ServerCrash

LEMMA ReplicateInv ==
  ASSUME Inv, NEW s \in Server, Replicate(s) PROVE Inv'
<1>1. FieldTypes
  BY InvParts DEF RestType
<1>2. PICK k \in {Len(history) - 1, Len(history)} :
        k > applied[s] /\ applied' = [applied EXCEPT ![s] = k]
  BY DEF Replicate
<1>3. k \in 0 .. Len(history)
  <2>1. Len(history) \in Nat /\ applied[s] \in 0 .. Len(history)
    BY <1>1, LenProperties DEF FieldTypes
  <2> QED BY <1>2, <2>1
<1>4. applied' \in [Server -> 0 .. Len(history)]
  BY <1>1, <1>2, <1>3 DEF FieldTypes
<1>5. FieldTypes'
  BY <1>1, <1>4 DEF FieldTypes, Replicate
<1> QED BY <1>5, NoThreadMoves DEF Replicate

-----------------------------------------------------------------------------
(* The theorems. *)

LEMMA NextInv == Inv /\ [Next]_vars => Inv'
<1> SUFFICES ASSUME Inv, [Next]_vars PROVE Inv'
  OBVIOUS
<1>1. ASSUME NEW e \in Thread, EngineerThread(e) PROVE Inv'
  BY <1>1, ConnectPrimaryInv, FailoverInv, RemoveFromCacheInv, TakeInv,
     ExecuteInv, DeliverInv, DeliverInvalidInv, BalanceInv, LookupHitInv, LookupMissInv,
     ReadRecordInv, FillInv, NullStubInv
     DEF EngineerThread
<1>2. CASE UNCHANGED vars
  <2>1. FieldTypes'
    BY <1>2, InvParts DEF RestType, FieldTypes, vars, servers
  <2> QED BY <1>2, <2>1, NoThreadMoves DEF vars
<1> QED BY <1>1, <1>2, RequestOrderInv, RequestReadInv, ReplicateInv,
           ServerCrashInv DEF Next

LEMMA SpecInv == Spec => []Inv
  BY InitInv, NextInv, PTL DEF Spec

(* Every field and local of the balancer keeps its type, with any number   *)
(* of threads, servers and crashes.                                        *)
THEOREM TypeCorrect == Spec => []TypeOK
<1>1. Inv => TypeOK
  BY DEF Inv
<1> QED BY <1>1, SpecInv, PTL

(* No iterator of lru_map dangles, through hits, fills, evictions and      *)
(* removals, for any capacity.                                             *)
THEOREM IteratorsValid == Spec => []MapMirrorsList
<1>1. Inv => MapMirrorsList
  <2> SUFFICES ASSUME Inv PROVE MapMirrorsList
    OBVIOUS
  <2> DEFINE ids == [i \in DOMAIN cache_list |-> cache_list[i].id]
             n   == Len(cache_list)
  <2>1. /\ DOMAIN cache_list = 1 .. n /\ n \in Nat /\ Len(recent) \in Nat
        /\ n <= Len(recent)
        /\ \A i, j \in 1 .. Len(recent) : recent[i] = recent[j] => i = j
        /\ \A i \in 1 .. n : cache_list[i].id = recent[i]
        /\ lru_map = {recent[i] : i \in 1 .. n}
    BY LenProperties DEF Inv, CacheInv, Aligned
  <2>2. DOMAIN ids = 1 .. n /\ \A i \in 1 .. n : ids[i] = recent[i] /\ i \in 1 .. Len(recent)
    BY <2>1
  <2> HIDE DEF ids, n
  <2>3. IsInjective(ids)
    BY <2>1, <2>2 DEF IsInjective
  <2>4. Range(ids) = lru_map
    BY <2>1, <2>2 DEF Range
  <2> QED BY <2>3, <2>4 DEF MapMirrorsList, ids
<1> QED BY <1>1, SpecInv, PTL

(* The cache never outgrows its capacity and holds the ids used last.      *)
THEOREM CacheIsLRU == Spec => []CacheIsMostRecent
<1>1. Inv => CacheIsMostRecent
  BY LenProperties DEF Inv, CacheInv, Aligned, CacheIsMostRecent
<1> QED BY <1>1, SpecInv, PTL

(* A thread that fills the cache still misses, whatever the others did     *)
(* since its lookup.                                                       *)
THEOREM FillAfterMiss == Spec => []FillIsMiss
<1>1. Inv => FillIsMiss
  BY DEF Inv, LockInv, FillIsMiss
<1> QED BY <1>1, SpecInv, PTL

-----------------------------------------------------------------------------
(* How stale the cache can be. *)

\* Record, of any history.
RecordIn(h, k, id) ==
  LET writes == {i \in 1 .. k : h[i].id = id}
  IN  IF writes = {} THEN -1 ELSE h[Max(writes)].n

\* The last order of the history counts, if it is id's.
LEMMA RecordOfLast ==
  ASSUME NEW h \in Seq(Item), NEW k \in 1 .. Len(h), NEW id
  PROVE  RecordIn(h, k, id) = IF h[k].id = id THEN h[k].n ELSE RecordIn(h, k - 1, id)
<1> DEFINE W(j) == {i \in 1 .. j : h[i].id = id}
<1>0. Len(h) \in Nat /\ k \in Nat \ {0}
  BY LenProperties
<1>1. CASE h[k].id = id
  <2>1. k \in W(k) /\ W(k) \in SUBSET (1 .. k) /\ 1 \in Int /\ k \in Int
    BY <1>0, <1>1
  <2>2. RecordIn(h, k, id) = h[Max(W(k))].n
    BY <2>1 DEF RecordIn
  <2> HIDE DEF W
  <2>3. Max(W(k)) \in W(k) /\ \A y \in W(k) : Max(W(k)) >= y
    BY <2>1, MaxOfIndices
  <2>4. Max(W(k)) \in 1 .. k /\ Max(W(k)) >= k
    BY <2>1, <2>3
  <2>5. Max(W(k)) = k
    <3> DEFINE m == Max(W(k))
    <3> HIDE DEF m
    <3>1. m \in 1 .. k /\ m >= k
      BY <2>4 DEF m
    <3>2. m = k
      BY <3>1, <1>0
    <3> QED BY <3>2 DEF m
  <2> QED BY <1>1, <2>2, <2>5
<1>2. CASE h[k].id # id
  <2>1. ASSUME NEW i \in W(k) PROVE i \in W(k - 1)
    BY <1>0, <1>2
  <2>2. ASSUME NEW i \in W(k - 1) PROVE i \in W(k)
    BY <1>0
  <2>3. W(k) = W(k - 1)
    <3> HIDE DEF W
    <3> QED BY <2>1, <2>2
  <2>4. /\ RecordIn(h, k, id) = IF W(k) = {} THEN -1 ELSE h[Max(W(k))].n
        /\ RecordIn(h, k - 1, id) = IF W(k - 1) = {} THEN -1 ELSE h[Max(W(k - 1))].n
    BY DEF RecordIn
  <2> HIDE DEF W
  <2> QED BY <1>2, <2>3, <2>4
<1> QED BY <1>1, <1>2

\* A longer history has the same records in its prefixes.
LEMMA RecordOfPrefix ==
  ASSUME NEW h \in Seq(Item), NEW x \in Item, NEW k \in 0 .. Len(h), NEW id
  PROVE  RecordIn(Append(h, x), k, id) = RecordIn(h, k, id)
<1> DEFINE g == Append(h, x)
           W == {i \in 1 .. k : h[i].id = id}
           V == {i \in 1 .. k : g[i].id = id}
<1>0. Len(h) \in Nat /\ \A i \in 1 .. Len(h) : g[i] = h[i]
  BY LenProperties, AppendProperties
<1> HIDE DEF g
<1>1. \A i \in 1 .. k : i \in 1 .. Len(h) /\ g[i] = h[i]
  BY <1>0
<1>2. V = W
  BY <1>1
<1>3. CASE W = {}
  BY <1>2, <1>3 DEF RecordIn, g
<1>4. CASE W # {}
  <2>1. W \in SUBSET (1 .. k) /\ 1 \in Int /\ k \in Int
    BY <1>0
  <2>2. /\ RecordIn(g, k, id) = g[Max(V)].n
        /\ RecordIn(h, k, id) = h[Max(W)].n
    BY <1>2, <1>4 DEF RecordIn
  <2> HIDE DEF W, V
  <2>3. Max(W) \in W
    BY <2>1, <1>4, MaxOfIndices
  <2>4. Max(W) \in 1 .. k
    BY <2>1, <2>3
  <2> QED BY <1>1, <1>2, <2>2, <2>4 DEF g
<1> QED BY <1>3, <1>4

\* The last order taken for b.
LastTaken(b) == RecordIn(history, Len(history), b)

OrderOK(r, n, last) ==
  /\ r.pc \in {"connect", "failover", "order"} => r.n = last + 1 /\ n = last + 2
  /\ r.pc \in {"taken", "executed"} => r.n = last /\ n = last + 1
  /\ r.pc = "idle" => n = last + 1 \/ n >= NumOrders

\* While an order of b waits to be taken nothing about b may be more than
\* one order behind, or it would be three behind after the next.
RecentEnough(b, n) ==
  n >= LastTaken(b) - (IF eng[b].pc = "order" THEN 1 ELSE 2)

\* A buyer's requests continue its orders taken without a gap.
RequestsInOrder == \A b \in Buyer : OrderOK(eng[b], sent[b], LastTaken(b))
OrdersInOrder ==
  \A i \in 1 .. Len(history) :
    history[i].n = RecordIn(history, i - 1, history[i].id) + 1

\* b's last order is in execution, or it was lost and b has stopped ordering.
InHand(b) == eng[b].pc = "taken" \/ (eng[b].pc = "idle" /\ sent[b] >= NumOrders)

\* One server is sent orders and executes them one by one.
OneServerSent ==
  /\ \A b \in OnWay : eng[b].stub = producer
  /\ \A a, b \in OnWay : eng[a].pc = "taken" /\ eng[b].pc = "taken" => a = b
  /\ cluster = "split" => OnWay = {}

\* A server lags by one order, or by two while the second is in hand.
ServersLag ==
  \A s \in live :
    applied[s] < Len(history) - 1 =>
      /\ applied[s] = Len(history) - 2
      /\ LET b == history[Len(history)].id
         IN  InHand(b) /\ (cluster = "split" \/ b \in OnWay)

CachedRecentEnough == \A x \in Range(cache_list) : RecentEnough(x.id, x.n)
ReadRecentEnough ==
  \A e \in Thread :
    eng[e].pc = "fill" /\ eng[e].n # -1 => RecentEnough(eng[e].id, eng[e].n)

\* The servers and the cache, while the logs are together.
ServersInv == OneServerSent /\ ServersLag
Close == CachedRecentEnough /\ ReadRecentEnough

LagInv ==
  /\ Inv
  /\ RequestsInOrder /\ OrdersInOrder
  /\ cluster # "apart" => ServersInv /\ Close

-----------------------------------------------------------------------------
(* The servers, as long as their logs are together.                        *)

\* The owner of the order that a server lags two behind.
LEMMA LastOwner ==
  ASSUME FieldTypes, NEW s \in live, applied[s] < Len(history) - 1
  PROVE  /\ Len(history) \in Nat \ {0, 1} /\ applied[s] \in Nat
         /\ history[Len(history)].id \in Buyer
<1>1. /\ history \in Seq(Item) /\ Len(history) \in Nat
      /\ applied[s] \in 0 .. Len(history)
  BY LenProperties DEF FieldTypes
<1>2. Len(history) \in 1 .. Len(history) /\ Len(history) > 1
  BY <1>1
<1>3. history[Len(history)] \in Item
  BY <1>1, <1>2, LenProperties
<1> QED BY <1>1, <1>2, <1>3 DEF Item

\* Steps that leave the servers alone and what is on its way.
LEMMA ServersStay ==
  ASSUME ServersInv, FieldTypes, UNCHANGED servers, OnWay' = OnWay,
         \A b \in OnWay : eng'[b].pc = eng[b].pc /\ eng'[b].stub = eng[b].stub,
         \A b \in Buyer : InHand(b) => InHand(b)'
  PROVE  ServersInv'
<1>1. OneServerSent'
  BY DEF ServersInv, OneServerSent, servers
<1>2. ServersLag'
  <2> SUFFICES ASSUME NEW s \in live, applied[s] < Len(history) - 1
               PROVE  /\ applied[s] = Len(history) - 2
                      /\ InHand(history[Len(history)].id)'
                      /\ cluster = "split" \/ history[Len(history)].id \in OnWay
    BY DEF ServersLag, servers
  <2>1. PICK b \in Buyer : b = history[Len(history)].id
    BY LastOwner
  <2>2. InHand(b) /\ (cluster = "split" \/ b \in OnWay) /\ applied[s] = Len(history) - 2
    BY <2>1 DEF ServersInv, ServersLag
  <2>3. InHand(b)'
    BY <2>2
  <2> QED BY <2>1, <2>2, <2>3 DEF InHand, servers
<1> QED BY <1>1, <1>2 DEF ServersInv

\* One thread moves and has no order on its way, before or after.
LEMMA OthersStay ==
  ASSUME ServersInv, FieldTypes, UNCHANGED servers, NEW e \in Thread,
         \A t \in Thread \ {e} : eng'[t] = eng[t] /\ sent'[t] = sent[t],
         e \in Buyer => e \notin OnWay /\ e \notin OnWay' /\ (InHand(e) => InHand(e)')
  PROVE  ServersInv'
<1>0. Buyer \subseteq Thread
  BY DEF Thread
<1>1. \A b \in Buyer \ {e} : eng'[b] = eng[b] /\ sent'[b] = sent[b]
  BY <1>0
<1>2. OnWay' = OnWay
  BY <1>1 DEF OnWay, servers
<1>3. \A b \in OnWay : eng'[b] = eng[b]
  BY <1>1 DEF OnWay
<1>4. ASSUME NEW b \in Buyer, InHand(b) PROVE InHand(b)'
  <2>1. CASE b = e
    BY <2>1, <1>4
  <2>2. CASE b # e
    BY <2>2, <1>1, <1>4 DEF InHand
  <2> QED BY <2>1, <2>2
<1> QED BY <1>2, <1>3, <1>4, ServersStay

\* LastTaken(b) is one of the buyer's orders.
LEMMA LastTakenType ==
  ASSUME Inv, NEW b PROVE LastTaken(b) \in -1 .. NumOrders - 1
<1>1. history \in Seq(Item) /\ Len(history) \in 0 .. Len(history)
  BY InvParts, LenProperties DEF RestType, FieldTypes
<1>2. Record(Len(history), b) \in -1 .. NumOrders - 1
  BY <1>1, RecordType
<1> QED BY <1>2 DEF Record, LastTaken, RecordIn

\* A step in which no order is taken: no thread starts to wait for that
\* either, and what comes into the cache is recent enough.
LEMMA QuietMoves ==
  ASSUME LagInv, Inv', NEW e, history' = history,
         cluster' # "apart" => cluster # "apart" /\ ServersInv',
         \A t \in Thread \ {e} : eng'[t] = eng[t] /\ sent'[t] = sent[t],
         e \in Thread /\ eng'[e].pc = "order" => eng[e].pc = "order",
         e \in Buyer => OrderOK(eng'[e], sent'[e], LastTaken(e)),
         cluster # "apart" =>
           /\ \A x \in Range(cache_list)' :
                x \in Range(cache_list) \/ RecentEnough(x.id, x.n)
           /\ e \in Thread /\ eng'[e].pc = "fill" /\ eng'[e].n # -1 =>
                RecentEnough(eng'[e].id, eng'[e].n)
  PROVE  LagInv'
<1>1. \A b : LastTaken(b)' = LastTaken(b)
  BY DEF LastTaken
<1>2. ASSUME NEW b \in Buyer, NEW n \in Int, RecentEnough(b, n) PROVE RecentEnough(b, n)'
  <2>0. LastTaken(b) \in Int /\ b \in Thread
    BY LastTakenType, LoadAssumption DEF LagInv, Thread
  <2>1. eng'[b].pc = "order" => eng[b].pc = "order"
    <3>1. CASE b = e
      BY <2>0, <3>1
    <3>2. CASE b # e
      BY <2>0, <3>2
    <3> QED BY <3>1, <3>2
  <2>2. n >= LastTaken(b) - (IF eng[b].pc = "order" THEN 1 ELSE 2)
    BY <1>2 DEF RecentEnough
  <2>3. n >= LastTaken(b)' - (IF eng'[b].pc = "order" THEN 1 ELSE 2)
    BY <2>0, <2>1, <2>2, <1>1
  <2> QED BY <2>3 DEF RecentEnough
<1>3. RequestsInOrder'
  <2>1. \A b \in Buyer : OrderOK(eng'[b], sent'[b], LastTaken(b))
    BY DEF LagInv, RequestsInOrder, Thread
  <2> QED BY <2>1, <1>1 DEF RequestsInOrder, OrderOK
<1>4. OrdersInOrder'
  BY DEF LagInv, OrdersInOrder
<1>5. ASSUME cluster # "apart" PROVE CachedRecentEnough'
  <2> SUFFICES ASSUME NEW x \in Range(cache_list)' PROVE RecentEnough(x.id, x.n)'
    BY DEF CachedRecentEnough
  <2>1. RecentEnough(x.id, x.n)
    BY <1>5 DEF LagInv, Close, CachedRecentEnough
  <2>2. x.id \in Buyer /\ x.n \in Int
    <3>1. cache_list' \in Seq(Item) /\ NumOrders \in Nat
      BY InvParts, LoadAssumption DEF Inv, TypeOK, Item
    <3>2. x \in Item
      BY <3>1, LenProperties DEF Range
    <3> QED BY <3>1, <3>2 DEF Item
  <2> QED BY <2>1, <2>2, <1>2
<1>6. ASSUME cluster # "apart" PROVE ReadRecentEnough'
  <2> SUFFICES ASSUME NEW t \in Thread, eng'[t].pc = "fill", eng'[t].n # -1
               PROVE  RecentEnough(eng[t].id, eng[t].n)'
    BY DEF ReadRecentEnough
  <2>1. RecentEnough(eng'[t].id, eng'[t].n)
    BY <1>6 DEF LagInv, Close, ReadRecentEnough
  <2>2. eng'[t].id \in Buyer /\ eng'[t].n \in Int
    BY DEF Inv, TypeOK, Control, ThreadInv, Engineer
  <2>3. PICK b \in Buyer, n \in Int : b = eng'[t].id /\ n = eng'[t].n
    BY <2>2
  <2>4. RecentEnough(b, n)'
    BY <2>1, <2>3, <1>2
  <2> QED BY <2>3, <2>4 DEF RecentEnough
<1> QED BY <1>3, <1>4, <1>5, <1>6 DEF LagInv, Close

\* The same of a thread that leaves the servers alone.
LEMMA ThreadQuiet ==
  ASSUME LagInv, Inv', NEW e \in Thread, UNCHANGED servers,
         \A t \in Thread \ {e} : eng'[t] = eng[t] /\ sent'[t] = sent[t],
         eng'[e].pc \notin {"order", "taken"},
         e \in Buyer => /\ OrderOK(eng'[e], sent'[e], LastTaken(e))
                        /\ e \notin OnWay /\ (InHand(e) => InHand(e)'),
         cluster # "apart" =>
           /\ \A x \in Range(cache_list)' :
                x \in Range(cache_list) \/ RecentEnough(x.id, x.n)
           /\ eng'[e].pc = "fill" /\ eng'[e].n # -1 =>
                RecentEnough(eng'[e].id, eng'[e].n)
  PROVE  LagInv'
<1>1. e \notin OnWay'
  BY DEF OnWay
<1>2. ASSUME cluster' # "apart" PROVE cluster # "apart" /\ ServersInv'
  <2>1. cluster # "apart" /\ ServersInv /\ FieldTypes
    BY <1>2, InvParts DEF LagInv, RestType, servers
  <2>2. ServersInv'
    BY <1>1, <2>1, OthersStay
  <2> QED BY <2>1, <2>2
<1>3. history' = history
  BY DEF servers
<1> QED BY <1>2, <1>3, QuietMoves

\* What the steps start from.
LEMMA LagFacts ==
  ASSUME LagInv
  PROVE  /\ Inv /\ FieldTypes /\ CacheInv /\ LockInv /\ Control
         /\ eng \in [Thread -> Engineer] /\ sent \in [Thread -> Nat]
         /\ Buyer \subseteq Thread /\ \A e \in Thread : e \in Buyer <=> e \notin Reader
         /\ cache_list \in Seq(Item) /\ NumOrders \in Nat
         /\ \A b \in Buyer : OrderOK(eng[b], sent[b], LastTaken(b))
         /\ \A b : LastTaken(b) \in -1 .. NumOrders - 1
<1>1. Inv /\ FieldTypes /\ CacheInv /\ LockInv /\ Control
  BY InvParts DEF LagInv, RestType
<1>2. eng \in [Thread -> Engineer] /\ sent \in [Thread -> Nat] /\ cache_list \in Seq(Item)
  BY <1>1 DEF Inv, TypeOK, Item
<1>3. Buyer \subseteq Thread /\ (\A e \in Thread : e \in Buyer <=> e \notin Reader)
  BY LoadAssumption DEF Thread
<1>4. \A b \in Buyer : OrderOK(eng[b], sent[b], LastTaken(b))
  BY DEF LagInv, RequestsInOrder
<1>5. \A b : LastTaken(b) \in -1 .. NumOrders - 1
  BY <1>1, LastTakenType
<1> QED BY <1>1, <1>2, <1>3, <1>4, <1>5, LoadAssumption

LEMMA RequestOrderLag ==
  ASSUME LagInv, NEW b \in Buyer, NEW type \in RequestType, RequestOrder(b, type)
  PROVE  LagInv'
<1>0. Inv' /\ b \in Thread
  BY LagFacts, RequestOrderInv
<1>1. /\ UNCHANGED servers /\ cache_list' = cache_list
      /\ \A t \in Thread \ {b} : eng'[t] = eng[t] /\ sent'[t] = sent[t]
  BY LagFacts DEF RequestOrder, servers, cache
<1>2. eng[b].pc = "idle" /\ sent[b] < NumOrders /\ sent'[b] = sent[b] + 1
  BY <1>0, LagFacts DEF RequestOrder
<1>3. eng'[b].pc \in {"connect", "ignored"} /\ eng'[b].n = sent[b]
  <2> DEFINE p == IF type = 1 THEN "connect" ELSE "ignored"
  <2>1. p \in {"connect", "ignored"}
    OBVIOUS
  <2>2. eng'[b] = [Idle EXCEPT !.pc = p, !.id = b, !.n = sent[b]]
    BY <1>0, LagFacts DEF RequestOrder
  <2> HIDE DEF p
  <2>3. eng'[b].pc = p /\ eng'[b].n = sent[b]
    BY <2>2, IdleType DEF Engineer
  <2> QED BY <2>1, <2>3
<1>4. OrderOK(eng'[b], sent'[b], LastTaken(b))
  <2>1. sent[b] = LastTaken(b) + 1 \/ sent[b] >= NumOrders
    BY <1>2, LagFacts DEF OrderOK
  <2>2. sent[b] \in Nat /\ NumOrders \in Nat /\ LastTaken(b) \in Int
    BY <1>0, LagFacts
  <2>3. sent[b] = LastTaken(b) + 1 /\ sent'[b] = LastTaken(b) + 2
    BY <1>2, <2>1, <2>2
  <2> QED BY <1>3, <2>3 DEF OrderOK
<1>5. b \notin OnWay /\ ~InHand(b)
  <2>1. sent[b] \in Nat /\ NumOrders \in Nat
    BY <1>0, LagFacts
  <2> QED BY <1>2, <2>1 DEF OnWay, InHand
<1> QED BY <1>0, <1>1, <1>3, <1>4, <1>5, ThreadQuiet

\* A buyer's thread on its way to the server.
LEMMA ConnectLag ==
  ASSUME LagInv, NEW b \in Thread, ConnectPrimary(b) \/ Failover(b)
  PROVE  LagInv'
<1>0. Inv'
  BY LagFacts, ConnectPrimaryInv, FailoverInv
<1>1. /\ UNCHANGED servers /\ cache_list' = cache_list /\ sent' = sent
      /\ \A t \in Thread \ {b} : eng'[t] = eng[t]
  BY LagFacts DEF ConnectPrimary, Failover, servers, cache
<1>2. /\ eng[b].pc \in {"connect", "failover"} /\ eng'[b].pc = "failover"
      /\ eng'[b].n = eng[b].n
  BY LagFacts DEF ConnectPrimary, Failover, Engineer
<1>3. b \in Buyer => OrderOK(eng'[b], sent'[b], LastTaken(b))
  BY <1>1, <1>2, LagFacts DEF OrderOK
<1>4. b \notin OnWay /\ ~InHand(b)
  BY <1>2 DEF OnWay, InHand
<1> QED BY <1>0, <1>1, <1>2, <1>3, <1>4, ThreadQuiet

LEMMA DeliverLag ==
  ASSUME LagInv, NEW b \in Thread, Deliver(b) PROVE LagInv'
<1>0. Inv'
  BY LagFacts, DeliverInv
<1>1. /\ UNCHANGED servers /\ cache_list' = cache_list /\ sent' = sent
      /\ \A t \in Thread \ {b} : eng'[t] = eng[t]
      /\ eng'[b] = Idle /\ eng[b].pc = "executed"
  BY LagFacts DEF Deliver, servers, cache
<1>2. b \in Buyer => OrderOK(eng'[b], sent'[b], LastTaken(b))
  BY <1>1, LagFacts, IdleType DEF OrderOK
<1>3. b \notin OnWay /\ ~InHand(b)
  BY <1>1 DEF OnWay, InHand
<1> QED BY <1>0, <1>1, <1>2, <1>3, IdleType, ThreadQuiet

LEMMA DeliverInvalidLag ==
  ASSUME LagInv, NEW b \in Thread, DeliverInvalid(b) PROVE LagInv'
<1>0. Inv'
  BY LagFacts, DeliverInvalidInv
<1>1. /\ UNCHANGED servers /\ cache_list' = cache_list
      /\ \A t \in Thread \ {b} : eng'[t] = eng[t] /\ sent'[t] = sent[t]
      /\ eng'[b] = Idle /\ sent'[b] = NumOrders
  BY LagFacts DEF DeliverInvalid, servers, cache
<1>2. OrderOK(eng'[b], sent'[b], LastTaken(b))
  BY <1>1, LagFacts, IdleType DEF OrderOK
<1>3. b \notin OnWay /\ InHand(b)'
  <2>1. eng[b].stub \notin live /\ NumOrders \in Nat
    BY LagFacts DEF DeliverInvalid
  <2> QED BY <1>1, <2>1, IdleType DEF OnWay, InHand
<1> QED BY <1>0, <1>1, <1>2, <1>3, IdleType, ThreadQuiet

\* A reader's thread up to its lookup, and past it on a miss.
LEMMA ReadStartLag ==
  ASSUME LagInv, NEW e \in Thread,
         (\E id \in Buyer : e \in Reader /\ RequestRead(e, id))
           \/ Balance(e) \/ LookupMiss(e)
  PROVE  LagInv'
<1>0. Inv'
  BY LagFacts, RequestReadInv, BalanceInv, LookupMissInv
<1>1. /\ UNCHANGED servers /\ cache_list' = cache_list
      /\ \A t \in Thread \ {e} : eng'[t] = eng[t] /\ sent'[t] = sent[t]
  <2>0. eng \in [Thread -> Engineer] /\ sent \in [Thread -> Nat]
    BY LagFacts
  <2>1. CASE \E id \in Buyer : RequestRead(e, id)
    BY <2>0, <2>1 DEF RequestRead, servers, cache
  <2>2. CASE Balance(e)
    BY <2>0, <2>2 DEF Balance, servers, cache
  <2>3. CASE LookupMiss(e)
    BY <2>0, <2>3 DEF LookupMiss, Step, servers, cache
  <2> QED BY <2>1, <2>2, <2>3
<1>2. e \notin Buyer
  BY LagFacts DEF Balance, LookupMiss, Control, ThreadInv
<1>3. eng'[e].pc \in {"balance", "lookup", "read"}
  <2>1. ASSUME NEW id \in Buyer, RequestRead(e, id) PROVE eng'[e].pc = "balance"
    BY <2>1, LagFacts, IdleType DEF RequestRead, Engineer
  <2>2. Balance(e) => eng'[e].pc = "lookup"
    BY LagFacts DEF Balance, Engineer
  <2>3. LookupMiss(e) => eng'[e].pc = "read"
    BY LagFacts DEF LookupMiss, Step, Engineer
  <2> QED BY <2>1, <2>2, <2>3
<1> QED BY <1>0, <1>1, <1>2, <1>3, ThreadQuiet

\* No item is invented when one is taken out.
LEMMA OthersAreItems ==
  ASSUME CacheInv, NEW id \in Buyer
  PROVE  /\ Range(Others(id)) \subseteq Range(cache_list)
         /\ \A x \in Range(Others(id)) : x.id # id
<1>0. cache_list \in Seq(Item) /\ DOMAIN cache_list = 1 .. Len(cache_list)
      /\ Len(cache_list) \in Nat
  BY LenProperties DEF CacheInv, Aligned
<1>1. /\ Others(id) \in Seq(Item)
      /\ DOMAIN Others(id) = 1 .. Len(Others(id))
      /\ Len(Others(id)) \in Nat /\ Len(Forget(id)) \in Nat
      /\ Len(Others(id)) <= Len(Forget(id))
      /\ \A i \in 1 .. Len(Others(id)) : Others(id)[i].id = Forget(id)[i]
      /\ \A i \in 1 .. Len(Forget(id)) : Forget(id)[i] # id
  BY WithoutId, LenProperties DEF Aligned
<1>2. \A x \in Range(Others(id)) : x.id # id
  BY <1>1 DEF Range
<1>3. Range(Others(id)) \subseteq Range(cache_list)
  <2>1. CASE id \notin lru_map
    BY <2>1 DEF Others
  <2>2. CASE id \in lru_map
    <3> DEFINE k == Place(id)
    <3>1. k \in 1 .. Len(cache_list)
      <4>1. \E i \in DOMAIN cache_list : cache_list[i].id = id
        BY <2>2, <1>0 DEF CacheInv, Aligned
      <4> QED BY <4>1, <1>0 DEF Place
    <3>2. Others(id) = RemoveAt(cache_list, k)
      BY <2>2 DEF Others
    <3> HIDE DEF k
    <3>3. /\ Len(Others(id)) = Len(cache_list) - 1
          /\ \A i \in 1 .. Len(cache_list) - 1 :
               Others(id)[i] = IF i < k THEN cache_list[i] ELSE cache_list[i + 1]
      BY <3>1, <3>2, <1>0, RemoveAtProperties
    <3>4. \A i \in 1 .. Len(cache_list) - 1 :
            i \in 1 .. Len(cache_list) /\ i + 1 \in 1 .. Len(cache_list)
      BY <1>0
    <3>5. \A i \in 1 .. Len(Others(id)) : Others(id)[i] \in Range(cache_list)
      BY <3>3, <3>4, <1>0 DEF Range
    <3> QED BY <3>5, <1>1 DEF Range
  <2> QED BY <2>1, <2>2
<1> QED BY <1>2, <1>3

\* Neither is one when an item is put in front.
LEMMA PushedItems ==
  ASSUME NEW s \in Seq(Item), NEW x \in Item
  PROVE  Range(<<x>> \o s) \subseteq {x} \cup Range(s)
<1> DEFINE l == <<x>> \o s
<1>1. /\ l \in Seq(Item) /\ Len(l) = Len(s) + 1 /\ l[1] = x
      /\ \A i \in 1 .. Len(s) : l[i + 1] = s[i]
  BY PushFront
<1>2. DOMAIN l = 1 .. Len(l) /\ DOMAIN s = 1 .. Len(s) /\ Len(s) \in Nat
  BY <1>1, LenProperties
<1> HIDE DEF l
<1>3. ASSUME NEW i \in 1 .. Len(l) PROVE l[i] \in {x} \cup Range(s)
  <2>1. CASE i = 1
    BY <2>1, <1>1
  <2>2. CASE i # 1
    <3>1. i - 1 \in 1 .. Len(s) /\ (i - 1) + 1 = i
      BY <2>2, <1>1, <1>2
    <3>2. l[i] = s[i - 1]
      BY <3>1, <1>1
    <3> QED BY <3>1, <3>2, <1>2 DEF Range
  <2> QED BY <2>1, <2>2
<1> QED BY <1>2, <1>3 DEF Range, l

LEMMA LookupHitLag ==
  ASSUME LagInv, NEW e \in Thread, LookupHit(e) PROVE LagInv'
<1>0. Inv'
  BY LagFacts, LookupHitInv
<1>1. /\ UNCHANGED servers /\ sent' = sent
      /\ \A t \in Thread \ {e} : eng'[t] = eng[t]
      /\ eng'[e] = Idle /\ eng[e].pc = "lookup"
  BY LagFacts DEF LookupHit
<1>2. e \notin Buyer
  BY <1>1, LagFacts DEF Control, ThreadInv
<1>3. Range(cache_list') \subseteq Range(cache_list)
  <2> DEFINE id == eng[e].id
             x  == cache_list[Place(id)]
  <2>1. CacheInv /\ id \in lru_map /\ CacheHit(id)
    BY LagFacts DEF LookupHit
  <2>2. id \in Buyer
    BY <1>1, LagFacts DEF Control, ThreadInv
  <2>3. x \in Item /\ x \in Range(cache_list)
    <3>1. /\ cache_list \in Seq(Item) /\ DOMAIN cache_list = 1 .. Len(cache_list)
      BY <2>1, LenProperties DEF CacheInv, Aligned
    <3>2. \E i \in DOMAIN cache_list : cache_list[i].id = id
      BY <2>1, <3>1 DEF CacheInv, Aligned
    <3>3. Place(id) \in DOMAIN cache_list
      BY <3>2 DEF Place
    <3> QED BY <3>1, <3>3, LenProperties DEF Range
  <2>4. cache_list' = <<x>> \o Others(id)
    BY <2>1 DEF CacheHit
  <2>5. Others(id) \in Seq(Item) /\ Range(Others(id)) \subseteq Range(cache_list)
    BY <2>1, <2>2, WithoutId, OthersAreItems DEF Aligned
  <2> HIDE DEF x
  <2> QED BY <2>3, <2>4, <2>5, PushedItems
<1>4. \A y \in Range(cache_list)' : y \in Range(cache_list)
  BY <1>3
<1> QED BY <1>0, <1>1, <1>2, <1>4, IdleType, ThreadQuiet

\* What a server reports of id is recent enough: it lags by one order, or
\* by two of which the second is in hand and its owner does not wait.
LEMMA ReportedRecent ==
  ASSUME LagInv, cluster # "apart", NEW s \in live, NEW id \in Buyer
  PROVE  RecentEnough(id, RecordIn(history, applied[s], id))
<1> DEFINE n    == Len(history)
           k    == applied[s]
           R(j) == RecordIn(history, j, id)
<1>0. /\ history \in Seq(Item) /\ n \in Nat /\ k \in 0 .. n
      /\ LastTaken(id) = R(n) /\ OrdersInOrder /\ ServersLag
  BY LagFacts, LenProperties DEF FieldTypes, LagInv, ServersInv, LastTaken
<1>1. ASSUME NEW j \in 0 .. n PROVE R(j) \in Int
  <2>1. Record(j, id) \in -1 .. NumOrders - 1
    BY <1>0, RecordType
  <2> QED BY <2>1, LagFacts DEF Record, RecordIn
<1>2. ASSUME NEW j \in 1 .. n
      PROVE  R(j) = IF history[j].id = id THEN R(j - 1) + 1 ELSE R(j - 1)
  <2>1. R(j) = IF history[j].id = id THEN history[j].n ELSE R(j - 1)
    BY <1>0, <1>2, RecordOfLast
  <2>2. history[j].n = RecordIn(history, j - 1, history[j].id) + 1
    BY <1>0, <1>2 DEF OrdersInOrder
  <2> QED BY <2>1, <2>2
<1> HIDE DEF R
<1>3. CASE k = n
  BY <1>0, <1>1, <1>3 DEF RecentEnough, R
<1>4. CASE k = n - 1
  <2>1. n \in 1 .. n /\ n - 1 \in 0 .. n
    BY <1>0, <1>4
  <2>2. R(n) \in {R(n - 1), R(n - 1) + 1} /\ R(n - 1) \in Int
    BY <2>1, <1>1, <1>2
  <2> QED BY <2>2, <1>0, <1>4 DEF RecentEnough, R
<1>5. CASE k < n - 1
  <2>1. /\ k = n - 2 /\ n \in 1 .. n /\ n - 1 \in 1 .. n /\ n - 2 \in 0 .. n
        /\ InHand(history[n].id) /\ (n - 1) - 1 = n - 2
    BY <1>0, <1>5, LastOwner, LagFacts DEF ServersLag
  <2>2. /\ R(n) = IF history[n].id = id THEN R(n - 1) + 1 ELSE R(n - 1)
        /\ R(n - 1) \in {R(n - 2), R(n - 2) + 1} /\ R(n - 2) \in Int
    BY <2>1, <1>1, <1>2
  <2>3. CASE history[n].id = id
    <3>1. eng[id].pc # "order"
      BY <2>1, <2>3 DEF InHand
    <3> QED BY <3>1, <2>1, <2>2, <1>0 DEF RecentEnough, R
  <2>4. CASE history[n].id # id
    BY <2>1, <2>2, <2>4, <1>0 DEF RecentEnough, R
  <2> QED BY <2>3, <2>4
<1> QED BY <1>0, <1>3, <1>4, <1>5

LEMMA ReadRecordLag ==
  ASSUME LagInv, NEW e \in Thread, ReadRecord(e) PROVE LagInv'
<1> DEFINE id == eng[e].id
<1>0. Inv'
  BY LagFacts, ReadRecordInv
<1>1. /\ UNCHANGED servers /\ sent' = sent /\ cache_list' = cache_list
      /\ \A t \in Thread \ {e} : eng'[t] = eng[t]
      /\ eng[e].pc = "read"
  BY LagFacts DEF ReadRecord, cache
<1>2. /\ eng'[e].pc = "fill" /\ eng'[e].id = id
      /\ eng'[e].n \in Reported(eng[e].stub, id)
  BY LagFacts DEF ReadRecord, Engineer
<1>3. e \notin Buyer /\ id \in Buyer
  BY <1>1, LagFacts DEF Control, ThreadInv
<1>4. ASSUME cluster # "apart", eng'[e].n # -1 PROVE RecentEnough(id, eng'[e].n)
  <2>1. eng[e].stub \in live /\ eng'[e].n = RecordIn(history, applied[eng[e].stub], id)
    BY <1>2, <1>4 DEF Reported, Record, RecordIn
  <2> QED BY <2>1, <1>3, <1>4, ReportedRecent
<1> HIDE DEF id
<1>5. cluster # "apart" /\ eng'[e].n # -1 => RecentEnough(eng'[e].id, eng'[e].n)
  BY <1>2, <1>4
<1> QED BY <1>0, <1>1, <1>2, <1>3, <1>5, ThreadQuiet

LEMMA FillLag ==
  ASSUME LagInv, NEW e \in Thread, Fill(e) PROVE LagInv'
<1> DEFINE id == eng[e].id
           n  == eng[e].n
           x  == [id |-> id, n |-> n]
<1>0. Inv'
  BY LagFacts, FillInv
<1>1. /\ UNCHANGED servers /\ sent' = sent
      /\ \A t \in Thread \ {e} : eng'[t] = eng[t]
      /\ eng'[e] = Idle /\ eng[e].pc = "fill"
  BY LagFacts DEF Fill
<1>2. e \notin Buyer /\ id \in Buyer /\ n \in -1 .. NumOrders - 1
  BY <1>1, LagFacts DEF Control, ThreadInv
<1>3. ASSUME cluster # "apart", NEW y \in Range(cache_list)'
      PROVE  y \in Range(cache_list) \/ RecentEnough(y.id, y.n)
  <2>1. CASE n = -1
    BY <2>1, <1>3 DEF Fill, cache
  <2>2. CASE n # -1
    <3>1. n \in 0 .. NumOrders - 1
      BY <1>2, <2>2, LagFacts
    <3>2. RecentEnough(id, n)
      BY <1>1, <1>3, <2>2 DEF LagInv, Close, ReadRecentEnough
    <3>3. x \in Item /\ x.id = id /\ x.n = n
      BY <1>2, <3>1 DEF Item
    <3>4. CacheInv /\ CacheSet(id, n)
      BY <2>2, LagFacts DEF Fill
    <3> DEFINE l == <<x>> \o Others(id)
    <3>5. \/ cache_list' = l
          \/ cache_list' = Front(l)
      BY <3>4 DEF CacheSet
    <3>6. Others(id) \in Seq(Item) /\ Range(Others(id)) \subseteq Range(cache_list)
      BY <3>4, <1>2, WithoutId, OthersAreItems DEF Aligned
    <3> HIDE DEF id, n, x
    <3>7. /\ l \in Seq(Item) /\ Len(l) = Len(Others(id)) + 1
          /\ Range(l) \subseteq {x} \cup Range(Others(id))
      BY <3>3, <3>6, PushFront, PushedItems
    <3>8. l # <<>>
      BY <3>6, <3>7, LenProperties, EmptySeq
    <3> HIDE DEF l
    <3>9. Range(Front(l)) \subseteq Range(l)
      <4>1. /\ Len(l) \in Nat \ {0} /\ Front(l) \in Seq(Item)
            /\ Len(Front(l)) = Len(l) - 1
            /\ \A i \in 1 .. Len(l) - 1 : Front(l)[i] = l[i]
        BY <3>7, <3>8, FrontShape
      <4>2. DOMAIN Front(l) = 1 .. Len(l) - 1 /\ DOMAIN l = 1 .. Len(l)
        BY <3>7, <4>1, LenProperties
      <4>3. \A i \in 1 .. Len(l) - 1 : i \in 1 .. Len(l)
        BY <4>1
      <4> QED BY <4>1, <4>2, <4>3 DEF Range
    <3>10. Range(cache_list') \subseteq {x} \cup Range(cache_list)
      BY <3>5, <3>6, <3>7, <3>9
    <3>11. CASE y = x
      BY <3>2, <3>3, <3>11
    <3>12. CASE y \in Range(cache_list)
      BY <3>12
    <3> QED BY <3>10, <3>11, <3>12, <1>3
  <2> QED BY <2>1, <2>2
<1> HIDE DEF id, n
<1> QED BY <1>0, <1>1, <1>2, <1>3, IdleType, ThreadQuiet

\* A server dies: what was on its way to it is lost, and if the others had
\* orders on their way too, or it was not the one that executes, all is open.
LEMMA CrashLag ==
  ASSUME LagInv, NEW s \in Server, ServerCrash(s) PROVE LagInv'
<1>0. Inv'
  BY LagFacts, ServerCrashInv
<1>1. /\ UNCHANGED <<history, applied, producer, cache_list, eng, sent>>
      /\ live' = live \ {s} /\ NoThread \notin Thread /\ NoThread \notin Buyer
      /\ cluster' = IF OnWay = {} THEN cluster
                    ELSE IF cluster = "agreed" /\ \A b \in OnWay : eng[b].stub = s
                    THEN "split" ELSE "apart"
  BY LoadAssumption DEF ServerCrash, cache, Thread
<1>2. ASSUME cluster' # "apart" PROVE cluster # "apart" /\ ServersInv'
  <2>1. cluster # "apart"
    BY <1>1, <1>2
  <2>2. OneServerSent /\ ServersLag
    BY <2>1 DEF LagInv, ServersInv
  <2>3. OnWay' = {b \in OnWay : eng[b].stub # s}
    BY <1>1 DEF OnWay
  <2>4. (OnWay = {} /\ cluster' = cluster) \/ (OnWay' = {} /\ cluster' = "split")
    BY <1>1, <1>2, <2>3
  <2>5. OneServerSent'
    BY <1>1, <2>2, <2>3, <2>4 DEF OneServerSent
  <2>6. ServersLag'
    BY <1>1, <2>2, <2>3, <2>4 DEF ServersLag, InHand
  <2> QED BY <2>1, <2>5, <2>6 DEF ServersInv
<1> QED BY <1>0, <1>1, <1>2, QuietMoves

\* A record that comes up to the last order lags no more.
LEMMA ReplicateLag ==
  ASSUME LagInv, NEW s \in Server, Replicate(s) PROVE LagInv'
<1>0. Inv'
  BY LagFacts, ReplicateInv
<1>1. /\ UNCHANGED <<live, history, producer, cluster, cache_list, eng, sent>>
      /\ NoThread \notin Thread /\ NoThread \notin Buyer
  BY LoadAssumption DEF Replicate, cache, Thread
<1>2. ASSUME cluster # "apart" PROVE ServersInv'
  <2>1. ServersInv /\ FieldTypes
    BY <1>2, LagFacts DEF LagInv
  <2>2. OneServerSent'
    BY <1>1, <2>1 DEF ServersInv, OneServerSent, OnWay
  <2>3. ASSUME NEW r \in live, applied'[r] < Len(history) - 1
        PROVE  applied'[r] = applied[r]
    <3>1. applied \in [Server -> 0 .. Len(history)] /\ Len(history) \in Nat
      BY <2>1, LenProperties DEF FieldTypes
    <3>2. PICK k \in {Len(history) - 1, Len(history)} :
            applied' = [applied EXCEPT ![s] = k]
      BY DEF Replicate
    <3>3. CASE r = s
      <4>1. applied'[s] = k
        BY <3>1, <3>2
      <4> QED BY <4>1, <3>1, <3>2, <3>3, <2>3
    <3>4. CASE r # s
      BY <3>1, <3>2, <3>4, <2>1 DEF FieldTypes
    <3> QED BY <3>3, <3>4
  <2>4. ServersLag'
    BY <1>1, <2>1, <2>3 DEF ServersInv, ServersLag, OnWay, InHand
  <2> QED BY <2>2, <2>4 DEF ServersInv
<1> QED BY <1>0, <1>1, <1>2, QuietMoves

\* The order is executed: everybody has what came before it.
LEMMA ExecuteLag ==
  ASSUME LagInv, NEW b \in Thread, Execute(b) PROVE LagInv'
<1>0. Inv'
  BY LagFacts, ExecuteInv
<1>1. /\ UNCHANGED <<live, history, producer, cluster, cache_list, sent>>
      /\ \A t \in Thread \ {b} : eng'[t] = eng[t]
      /\ eng'[b].pc = "executed" /\ eng'[b].n = eng[b].n
      /\ eng'[b].stub = eng[b].stub /\ eng[b].pc = "taken" /\ eng[b].stub \in live
  BY LagFacts DEF Execute, Step, cache, Engineer
<1>2. b \in Buyer
  BY <1>1, LagFacts DEF Control, ThreadInv
<1>3. OrderOK(eng'[b], sent'[b], LastTaken(b))
  BY <1>1, <1>2, LagFacts DEF OrderOK
<1>4. ASSUME cluster # "apart" PROVE ServersInv'
  <2>1. OneServerSent /\ FieldTypes
    BY <1>4, LagFacts DEF LagInv, ServersInv
  <2>2. OnWay' = OnWay \ {b} /\ \A a \in OnWay \ {b} : eng'[a] = eng[a]
    BY <1>1, LagFacts DEF OnWay
  <2>3. OneServerSent'
    BY <1>1, <2>1, <2>2 DEF OneServerSent
  <2>4. ASSUME NEW s \in live PROVE ~ (applied'[s] < Len(history) - 1)
    <3>1. applied[s] \in Int /\ Len(history) \in Nat /\ s \in Server
      BY <2>1, LenProperties DEF FieldTypes
    <3>2. Max({applied[s], Len(history) - 1}) >= Len(history) - 1
      BY <3>1, MaxOfPair
    <3>3. applied'[s] \in {Len(history), Max({applied[s], Len(history) - 1})}
      BY <3>1 DEF Execute
    <3>4. PICK m : m = Max({applied[s], Len(history) - 1})
      OBVIOUS
    <3>5. m \in Int /\ m >= Len(history) - 1
      BY <3>1, <3>2, <3>4, MaxOfPair
    <3> QED BY <3>1, <3>3, <3>4, <3>5
  <2>5. ServersLag'
    BY <1>1, <2>4 DEF ServersLag
  <2> QED BY <2>3, <2>5 DEF ServersInv
<1> QED BY <1>0, <1>1, <1>3, <1>4, QuietMoves

LEMMA NullStubLag ==
  ASSUME LagInv, NEW e \in Thread, NullStub(e) PROVE LagInv'
<1>0. Inv'
  BY LagFacts, NullStubInv
<1>1. /\ UNCHANGED <<servers, cache_list, eng, sent>>
      /\ NoThread \notin Thread /\ NoThread \notin Buyer
  BY LoadAssumption DEF NullStub, cache, Thread
<1>2. ASSUME cluster # "apart" PROVE ServersInv'
  BY <1>1, <1>2, LagFacts, ServersStay DEF LagInv, OnWay, InHand, servers
<1>3. history' = history /\ cluster' = cluster
  BY <1>1 DEF servers
<1> QED BY <1>0, <1>1, <1>2, <1>3, QuietMoves

\* The entry of a buyer whose order waits is gone, and nobody is about to
\* put it back.
LEMMA RemoveFromCacheLag ==
  ASSUME LagInv, NEW b \in Thread, RemoveFromCache(b) PROVE LagInv'
<1>0. Inv'
  BY LagFacts, RemoveFromCacheInv
<1>1. /\ UNCHANGED <<live, history, applied, sent>>
      /\ \A t \in Thread \ {b} : eng'[t] = eng[t]
      /\ eng'[b].pc = "order" /\ eng'[b].n = eng[b].n /\ eng'[b].stub = eng[b].stub
      /\ eng[b].pc = "failover" /\ cr_lock = NoThread /\ SendOrder(eng[b].stub)
  BY LagFacts DEF RemoveFromCache, SendOrder, Step, Engineer
<1>2. b \in Buyer /\ eng[b].id = b
  BY <1>1, LagFacts DEF Control, ThreadInv
<1>3. /\ Range(cache_list') \subseteq Range(cache_list)
      /\ \A x \in Range(cache_list') : x.id # b
  BY <1>2, LagFacts, OthersAreItems DEF RemoveFromCache, CacheRemove
<1>4. \A a \in Buyer \ {b} : \A n : RecentEnough(a, n) => RecentEnough(a, n)'
  <2> SUFFICES ASSUME NEW a \in Buyer \ {b}, NEW n, RecentEnough(a, n)
               PROVE  RecentEnough(a, n)'
    OBVIOUS
  <2>1. eng'[a] = eng[a]
    BY <1>1, LagFacts
  <2> QED BY <1>1, <2>1 DEF RecentEnough, LastTaken
<1>5. RequestsInOrder'
  <2> SUFFICES ASSUME NEW a \in Buyer PROVE OrderOK(eng'[a], sent'[a], LastTaken(a)')
    BY DEF RequestsInOrder
  <2>1. OrderOK(eng[a], sent[a], LastTaken(a)) /\ LastTaken(a)' = LastTaken(a)
    BY <1>1, LagFacts DEF LastTaken
  <2>2. CASE a = b
    BY <2>1, <2>2, <1>1 DEF OrderOK
  <2>3. CASE a # b
    BY <2>1, <2>3, <1>1, LagFacts
  <2> QED BY <2>2, <2>3
<1>6. OrdersInOrder'
  BY <1>1 DEF LagInv, OrdersInOrder
<1>7. ASSUME cluster # "apart" PROVE CachedRecentEnough'
  <2> SUFFICES ASSUME NEW x \in Range(cache_list') PROVE RecentEnough(x.id, x.n)'
    BY DEF CachedRecentEnough
  <2>1. RecentEnough(x.id, x.n) /\ x.id # b
    BY <1>3, <1>7 DEF LagInv, Close, CachedRecentEnough
  <2>2. x.id \in Buyer
    <3>1. cache_list \in Seq(Item) /\ x \in Range(cache_list)
      BY <1>3, LagFacts
    <3>2. x \in Item
      BY <3>1, LenProperties DEF Range
    <3> QED BY <3>2 DEF Item
  <2> QED BY <2>1, <2>2, <1>4
<1>8. ReadRecentEnough'
  <2> SUFFICES ASSUME NEW t \in Thread, eng'[t].pc = "fill" PROVE FALSE
    BY DEF ReadRecentEnough
  <2>1. t # b /\ eng[t].pc = "fill"
    BY <1>1
  <2> QED BY <2>1, <1>1, LagFacts, FreeLock
<1>9. ASSUME cluster' # "apart" PROVE cluster # "apart" /\ ServersInv'
  <2> DEFINE s == eng[b].stub
  <2>1. cluster # "apart" /\ FieldTypes
    BY <1>1, <1>9, LagFacts DEF SendOrder
  <2>2. OneServerSent /\ ServersLag
    BY <2>1 DEF LagInv, ServersInv
  <2>3. \A a \in Buyer \ {b} : eng'[a] = eng[a]
    BY <1>1, LagFacts
  <2>4. ~InHand(b) /\ b \notin OnWay
    BY <1>1 DEF InHand, OnWay
  <2>5. OneServerSent'
    <3>1. CASE s \in live
      <4>1. producer' = s /\ cluster' = cluster /\ cluster # "split"
            /\ producer \notin live \ {s}
        BY <1>1, <1>9, <3>1 DEF SendOrder
      <4>2. \A a \in OnWay : eng[a].stub = s
        BY <2>2, <4>1 DEF OneServerSent, OnWay
      <4>3. OnWay' = OnWay \cup {b}
        BY <1>1, <1>2, <2>3, <3>1 DEF OnWay
      <4> QED BY <1>1, <2>2, <2>3, <4>1, <4>2, <4>3 DEF OneServerSent, OnWay
    <3>2. CASE s \notin live
      <4>1. producer' = producer /\ cluster' = cluster
        BY <1>1, <3>2 DEF SendOrder
      <4>2. OnWay' = OnWay
        BY <1>1, <2>3, <2>4, <3>2 DEF OnWay
      <4> QED BY <2>2, <2>3, <2>4, <4>1, <4>2 DEF OneServerSent, OnWay
    <3> QED BY <3>1, <3>2
  <2>6. cluster' = cluster /\ OnWay \subseteq OnWay'
    BY <1>1, <1>9, <2>3, <2>4 DEF SendOrder, OnWay
  <2>7. ServersLag'
    <3> SUFFICES ASSUME NEW r \in live, applied[r] < Len(history) - 1
                 PROVE  /\ applied[r] = Len(history) - 2
                        /\ InHand(history[Len(history)].id)'
                        /\ \/ cluster' = "split"
                           \/ history[Len(history)].id \in OnWay'
      BY <1>1 DEF ServersLag
    <3>1. PICK a \in Buyer : a = history[Len(history)].id
      BY <2>1, LastOwner
    <3>2. /\ InHand(a) /\ (cluster = "split" \/ a \in OnWay)
          /\ applied[r] = Len(history) - 2
      BY <3>1, <2>2 DEF ServersLag
    <3>3. InHand(a)'
      BY <3>2, <2>3, <2>4, <1>1 DEF InHand
    <3> QED BY <3>1, <3>2, <3>3, <2>6, <1>1 DEF InHand
  <2> QED BY <2>1, <2>5, <2>7 DEF ServersInv
<1> QED BY <1>0, <1>5, <1>6, <1>7, <1>8, <1>9 DEF LagInv, Close

\* One more order is taken: what was one behind is two behind.
LEMMA TakeLag ==
  ASSUME LagInv, NEW b \in Thread, Take(b) PROVE LagInv'
<1> DEFINE x == [id |-> b, n |-> eng[b].n]
           n == Len(history)
<1>0. Inv'
  BY LagFacts, TakeInv
<1>1. /\ UNCHANGED <<live, applied, producer, cluster, sent, cache_list>>
      /\ history' = Append(history, x)
      /\ \A t \in Thread \ {b} : eng'[t] = eng[t]
      /\ eng'[b].pc = "taken" /\ eng'[b].n = eng[b].n /\ eng'[b].stub = eng[b].stub
      /\ eng[b].pc = "order" /\ eng[b].stub \in live
  BY LagFacts DEF Take, Step, cache, Engineer
<1>2. b \in Buyer /\ eng[b].n \in 0 .. NumOrders - 1 /\ x \in Item
  BY <1>1, LagFacts DEF Control, ThreadInv, Item
<1>3. history \in Seq(Item) /\ n \in Nat
  BY LagFacts, LenProperties DEF FieldTypes
<1>4. eng[b].n = LastTaken(b) + 1 /\ sent[b] = LastTaken(b) + 2
  BY <1>1, <1>2, LagFacts DEF OrderOK
<1> HIDE DEF x
<1>5. /\ Len(history') = n + 1 /\ history'[n + 1] = x
      /\ \A i \in 1 .. n : history'[i] = history[i]
      /\ history' \in Seq(Item)
  BY <1>1, <1>2, <1>3, AppendProperties
<1>6. \A id : \A k \in 0 .. n : RecordIn(history', k, id) = RecordIn(history, k, id)
  BY <1>1, <1>2, <1>3, RecordOfPrefix
<1>7. x.id = b /\ x.n = LastTaken(b) + 1
  BY <1>4 DEF x
<1>8. \A a : LastTaken(a)' = IF a = b THEN LastTaken(b) + 1 ELSE LastTaken(a)
  <2> TAKE a
  <2>1. n + 1 \in 1 .. Len(history') /\ n \in 0 .. n /\ (n + 1) - 1 = n
    BY <1>3, <1>5
  <2>2. RecordIn(history', n + 1, a) =
          IF x.id = a THEN x.n ELSE RecordIn(history', n, a)
    BY <2>1, <1>5, RecordOfLast
  <2>3. RecordIn(history', n, a) = RecordIn(history, n, a)
    BY <2>1, <1>6
  <2> QED BY <2>2, <2>3, <1>5, <1>7 DEF LastTaken
<1>9. RequestsInOrder'
  <2> SUFFICES ASSUME NEW a \in Buyer PROVE OrderOK(eng'[a], sent'[a], LastTaken(a)')
    BY DEF RequestsInOrder
  <2>1. CASE a = b
    <3>1. LastTaken(b) \in Int
      BY LagFacts
    <3>2. LastTaken(a)' = LastTaken(b) + 1 /\ sent'[a] = (LastTaken(b) + 1) + 1
      BY <2>1, <3>1, <1>1, <1>4, <1>8
    <3> QED BY <2>1, <3>2, <1>1, <1>4 DEF OrderOK
  <2>2. CASE a # b
    BY <2>2, <1>1, <1>8, LagFacts
  <2> QED BY <2>1, <2>2
<1>10. OrdersInOrder'
  <2> SUFFICES ASSUME NEW i \in 1 .. Len(history')
               PROVE  history'[i].n = RecordIn(history', i - 1, history'[i].id) + 1
    BY DEF OrdersInOrder
  <2>1. CASE i \in 1 .. n
    <3>1. i - 1 \in 0 .. n /\ history'[i] = history[i]
      BY <2>1, <1>3, <1>5
    <3>2. history[i].n = RecordIn(history, i - 1, history[i].id) + 1
      BY <2>1 DEF LagInv, OrdersInOrder
    <3> QED BY <3>1, <3>2, <1>6
  <2>2. CASE i = n + 1
    <3>1. i - 1 = n /\ n \in 0 .. n /\ history'[i] = x
      BY <2>2, <1>3, <1>5
    <3> QED BY <3>1, <1>6, <1>7 DEF LastTaken
  <2>3. i \in 1 .. n \/ i = n + 1
    BY <1>3, <1>5
  <2> QED BY <2>1, <2>2, <2>3
<1>11. ASSUME cluster # "apart" PROVE ServersInv'
  <2>1. OneServerSent /\ ServersLag /\ FieldTypes
    BY <1>11, LagFacts DEF LagInv, ServersInv
  <2>2. \A a \in Buyer \ {b} : eng'[a] = eng[a]
    BY <1>1, LagFacts
  <2>3. b \in OnWay /\ OnWay' = OnWay
    BY <1>1, <1>2, <2>2 DEF OnWay
  <2>4. \A a \in OnWay : eng[a].pc # "taken"
    <3>1. \A a \in OnWay : eng[a].pc = "taken" => eng[a].stub # eng[b].stub
      BY DEF Take
    <3> QED BY <3>1, <2>1, <2>3 DEF OneServerSent
  <2>5. OneServerSent'
    BY <1>1, <2>1, <2>2, <2>3, <2>4 DEF OneServerSent, OnWay
  <2>6. ASSUME NEW s \in live PROVE applied[s] >= n - 1 /\ applied[s] \in Nat
    <3>1. applied[s] \in Nat
      BY <2>1 DEF FieldTypes
    <3> SUFFICES ASSUME applied[s] < n - 1 PROVE FALSE
      BY <3>1, <1>3
    <3>2. PICK a \in Buyer : a = history[n].id
      BY <2>1, LastOwner
    <3>3. InHand(a) /\ (cluster = "split" \/ a \in OnWay)
      BY <3>2, <2>1 DEF ServersLag
    <3>4. a \in OnWay
      BY <3>3, <2>1, <2>3 DEF OneServerSent
    <3> QED BY <3>3, <3>4, <2>4 DEF InHand, OnWay
  <2>7. ServersLag'
    <3> SUFFICES ASSUME NEW s \in live, applied[s] < Len(history') - 1
                 PROVE  /\ applied[s] = Len(history') - 2
                        /\ InHand(history[Len(history)].id)'
                        /\ history'[Len(history')].id \in OnWay'
      BY <1>1 DEF ServersLag
    <3>1. history'[Len(history')].id = b
      BY <1>5, <1>7
    <3>2. applied[s] = Len(history') - 2
      BY <2>6, <1>3, <1>5
    <3> QED BY <3>1, <3>2, <2>3, <1>1 DEF InHand
  <2> QED BY <2>5, <2>7 DEF ServersInv
<1>12. ASSUME NEW a \in Buyer, NEW k \in Int, RecentEnough(a, k) PROVE RecentEnough(a, k)'
  <2>0. LastTaken(a) \in Int
    BY LagFacts
  <2>1. CASE a = b
    <3>1. k >= LastTaken(b) - 1
      BY <2>1, <1>1, <1>12 DEF RecentEnough
    <3>2. LastTaken(a)' = LastTaken(b) + 1 /\ LastTaken(b) \in Int
      BY <2>0, <2>1, <1>8
    <3>3. k >= LastTaken(a)' - 2
      BY <3>1, <3>2
    <3> QED BY <2>1, <3>3, <1>1 DEF RecentEnough
  <2>2. CASE a # b
    <3>1. eng'[a] = eng[a] /\ LastTaken(a)' = LastTaken(a)
      BY <2>2, <1>1, <1>8, LagFacts
    <3> QED BY <3>1, <1>12 DEF RecentEnough
  <2> QED BY <2>1, <2>2
<1>13. ASSUME cluster # "apart" PROVE CachedRecentEnough'
  <2> SUFFICES ASSUME NEW y \in Range(cache_list) PROVE RecentEnough(y.id, y.n)'
    BY <1>1 DEF CachedRecentEnough
  <2>1. RecentEnough(y.id, y.n)
    BY <1>13 DEF LagInv, Close, CachedRecentEnough
  <2>2. y \in Item
    BY LagFacts, LenProperties DEF Range
  <2>3. y.id \in Buyer /\ y.n \in Int
    BY <2>2, LagFacts DEF Item
  <2> QED BY <2>1, <2>3, <1>12
<1>14. ASSUME cluster # "apart" PROVE ReadRecentEnough'
  <2> SUFFICES ASSUME NEW t \in Thread, eng'[t].pc = "fill", eng'[t].n # -1
               PROVE  RecentEnough(eng[t].id, eng[t].n)'
    BY DEF ReadRecentEnough
  <2>1. eng'[t] = eng[t]
    BY <1>1
  <2>2. RecentEnough(eng[t].id, eng[t].n)
    BY <1>14, <2>1 DEF LagInv, Close, ReadRecentEnough
  <2>3. PICK a \in Buyer, k \in Int : a = eng[t].id /\ k = eng[t].n
    BY <2>1, LagFacts DEF Control, ThreadInv, Engineer
  <2>4. RecentEnough(a, k)'
    BY <2>2, <2>3, <1>12
  <2> QED BY <2>1, <2>3, <2>4 DEF RecentEnough
<1> QED BY <1>0, <1>1, <1>9, <1>10, <1>11, <1>13, <1>14 DEF LagInv, Close

LEMMA InitLag == Init => LagInv
<1> SUFFICES ASSUME Init PROVE LagInv
  OBVIOUS
<1>1. Inv /\ Len(history) = 0 /\ Range(cache_list) = {}
  BY InitInv, EmptySeq DEF Init, Range
<1>2. \A b : LastTaken(b) = -1
  BY <1>1 DEF LastTaken, RecordIn
<1>3. RequestsInOrder
  BY <1>2, LoadAssumption, IdleType DEF Init, RequestsInOrder, OrderOK, Thread
<1>4. OrdersInOrder
  BY <1>1 DEF OrdersInOrder
<1>5. ServersInv
  <2>1. \A b \in Buyer : b \in Thread /\ eng[b].pc = "idle"
    BY IdleType DEF Init, Thread
  <2>2. OnWay = {}
    BY <2>1 DEF OnWay
  <2>3. \A s \in live : ~ (applied[s] < Len(history) - 1)
    BY <1>1 DEF Init
  <2> QED BY <2>2, <2>3 DEF ServersInv, OneServerSent, ServersLag
<1>6. Close
  BY <1>1, IdleType DEF Init, Close, CachedRecentEnough, ReadRecentEnough
<1> QED BY <1>1, <1>3, <1>4, <1>5, <1>6 DEF LagInv

LEMMA NextLag == LagInv /\ [Next]_vars => LagInv'
<1> SUFFICES ASSUME LagInv, [Next]_vars PROVE LagInv'
  OBVIOUS
<1>1. ASSUME NEW e \in Thread, EngineerThread(e) PROVE LagInv'
  BY <1>1, ConnectLag, RemoveFromCacheLag, TakeLag, ExecuteLag, DeliverLag,
     DeliverInvalidLag, ReadStartLag, LookupHitLag, ReadRecordLag, FillLag,
     NullStubLag
     DEF EngineerThread
<1>2. ASSUME NEW e \in Reader, NEW id \in Buyer, RequestRead(e, id) PROVE LagInv'
  BY <1>2, ReadStartLag DEF Thread
<1>3. CASE UNCHANGED vars
  <2>1. Inv'
    BY NextInv DEF LagInv
  <2>2. UNCHANGED <<servers, cache_list, eng, sent>>
    BY <1>3 DEF vars, cache
  <2>3. NoThread \notin Thread /\ NoThread \notin Buyer
    BY LoadAssumption DEF Thread
  <2>4. ASSUME cluster # "apart" PROVE ServersInv'
    BY <2>2, <2>4, LagFacts, ServersStay DEF LagInv, OnWay, InHand, servers
  <2>5. history' = history /\ cluster' = cluster
    BY <2>2 DEF servers
  <2> QED BY <2>1, <2>2, <2>3, <2>4, <2>5, QuietMoves
<1> QED BY <1>1, <1>2, <1>3, RequestOrderLag, ReplicateLag, CrashLag DEF Next

(* As long as the servers' logs are together, a cached record is at most   *)
(* two orders older than the last one a server has taken, for any number   *)
(* of clients that order and read, whatever the interleaving of orders,    *)
(* replication, reads, evictions and crashes.  The logs are together until *)
(* a server dies with an order on its way and another order is sent, a     *)
(* server dies while another has one on its way, or two live servers are   *)
(* sent orders; nothing is claimed after that.                             *)
THEOREM StalenessBounded == Spec => []CacheAtMostTwoBehind
<1>1. LagInv => CacheAtMostTwoBehind
  <2> SUFFICES ASSUME LagInv, cluster # "apart", NEW i \in DOMAIN cache_list
               PROVE  cache_list[i].n >= Record(Len(history), cache_list[i].id) - 2
    BY DEF CacheAtMostTwoBehind
  <2> DEFINE x == cache_list[i]
  <2>1. x \in Range(cache_list)
    BY DEF Range
  <2>2. x.n \in Int
    <3>1. cache_list \in Seq(Item) /\ NumOrders \in Nat
      BY LagFacts
    <3>2. x \in Item
      BY <2>1, <3>1, LenProperties DEF Range
    <3> HIDE DEF x
    <3> QED BY <3>1, <3>2 DEF Item
  <2>3. LastTaken(x.id) \in Int
    BY LagFacts
  <2>4. Record(Len(history), x.id) = LastTaken(x.id)
    BY DEF Record, LastTaken, RecordIn
  <2>5. RecentEnough(x.id, x.n)
    BY <2>1 DEF LagInv, Close, CachedRecentEnough
  <2> HIDE DEF x
  <2>6. x.n >= LastTaken(x.id) - 2
    BY <2>2, <2>3, <2>5 DEF RecentEnough
  <2> QED BY <2>4, <2>6 DEF x
<1> QED BY <1>1, InitLag, NextLag, PTL DEF Spec

-----------------------------------------------------------------------------
(* The search for a server.  A thread whose stub is null has asked the     *)
(* server at the shared index and, counting back from it, one more for     *)
(* each pass of its loop, and what it found down stays down: a server that *)
(* is up is at one of the indices its passes have still to come to.  This  *)
(* is true as long as nobody else moves the index meanwhile.               *)

\* How many steps on from the index `at' the index i is: its own is the last.
Ahead(i, at) == IF i > at THEN i - at ELSE i + total_servers - at

\* What a buyer's thread r knows of the servers that are up.
Searched(r, at, up) ==
  /\ r.pc = "connect" => r.attempts = 0
  /\ r.pc = "failover" /\ r.stub = NoServer =>
       \A i \in 0 .. total_servers - 1 :
         Replicas[i + 1] \in up => Ahead(i, at) < total_servers - r.attempts
  /\ r.pc = "order" /\ r.stub = NoServer => up = {}

OrdersSearched == \A b \in Buyer : Searched(eng[b], primary_server_index, live)

(* A reader with a null stub has tried every server.                       *)
ReadersSearched ==
  \A e \in Reader :
    eng[e].pc \in {"lookup", "read"} /\ eng[e].stub = NoServer => live = {}

\* Thread b is in the failover loop, which goes on.
Searching(b) ==
  /\ eng[b].pc = "failover" /\ eng[b].stub = NoServer
  /\ eng[b].attempts < total_servers

(* Nobody enters the failover loop while another thread is in it.          *)
OneSearch == \A a, b \in Buyer : Searching(a) /\ Searching(b) => a = b

\* The stub is null only if the server is down.
LEMMA NullMeansDown ==
  ASSUME live \subseteq Server, NEW i \in 0 .. total_servers - 1, Connect(i) = NoServer
  PROVE  Replicas[i + 1] \notin live
  BY LoadAssumption DEF Connect

\* Every server has an index.
LEMMA NoneIndexed ==
  ASSUME live \subseteq Server,
         \A i \in 0 .. total_servers - 1 : Replicas[i + 1] \notin live
  PROVE  live = {}
<1> SUFFICES ASSUME NEW s \in live PROVE FALSE
  OBVIOUS
<1>1. PICK k \in DOMAIN Replicas : Replicas[k] = s
  BY DEF Server, Range
<1>2. k \in 1 .. total_servers /\ total_servers \in Nat
  BY LoadAssumption, LenProperties DEF total_servers
<1>3. k - 1 \in 0 .. total_servers - 1 /\ (k - 1) + 1 = k
  BY <1>2
<1> QED BY <1>1, <1>3

\* The server at the index itself is the farthest.
LEMMA AheadRange ==
  ASSUME NEW at \in 0 .. total_servers - 1, NEW i \in 0 .. total_servers - 1
  PROVE  /\ Ahead(i, at) \in 1 .. total_servers
         /\ Ahead(i, at) = total_servers => i = at
  BY Servers DEF Ahead

\* From the next index a server is one step closer, the one there excepted.
LEMMA AheadMoves ==
  ASSUME NEW at \in 0 .. total_servers - 1, NEW i \in 0 .. total_servers - 1,
         i # (at + 1) % total_servers
  PROVE  Ahead(i, (at + 1) % total_servers) = Ahead(i, at) - 1
<1>0. total_servers \in Nat \ {0}
  BY Servers
<1>1. (at + 1) % total_servers = IF at + 1 = total_servers THEN 0 ELSE at + 1
  <2>1. PICK n \in Nat \ {0} : n = total_servers
    BY <1>0
  <2>2. PICK x \in 0 .. n - 1 : x = at
    BY <2>1
  <2> QED BY <2>1, <2>2, NextIndex
<1>2. PICK next : next = (at + 1) % total_servers
  OBVIOUS
<1>3. next = IF at + 1 = total_servers THEN 0 ELSE at + 1
  BY <1>1, <1>2
<1>4. Ahead(i, next) = Ahead(i, at) - 1
  BY <1>0, <1>2, <1>3 DEF Ahead
<1> QED BY <1>2, <1>4

\* What is down stays down.
LEMMA SearchedStays ==
  ASSUME NEW r, NEW at, NEW up, NEW left \in SUBSET up, Searched(r, at, up)
  PROVE  Searched(r, at, left)
  BY DEF Searched

\* Steps that do not move the index: who moves has to be as Searched says.
LEMMA OthersSearched ==
  ASSUME OrdersSearched, live' \subseteq live,
         primary_server_index' = primary_server_index, NEW e,
         \A t \in Thread \ {e} : eng'[t] = eng[t],
         e \in Buyer => Searched(eng'[e], primary_server_index, live)
  PROVE  OrdersSearched'
<1> SUFFICES ASSUME NEW b \in Buyer PROVE Searched(eng'[b], primary_server_index', live')
  BY DEF OrdersSearched
<1>1. Searched(eng'[b], primary_server_index, live)
  BY DEF OrdersSearched, Thread
<1> QED BY <1>1, SearchedStays

\* The same for readers.
LEMMA ReadersStay ==
  ASSUME ReadersSearched, live' \subseteq live, NEW e,
         \A t \in Thread \ {e} : eng'[t] = eng[t],
         e \in Reader /\ eng'[e].pc \in {"lookup", "read"} /\ eng'[e].stub = NoServer =>
           live = {}
  PROVE  ReadersSearched'
  BY DEF ReadersSearched, Thread

\* What a step of one thread leaves alone.
LEMMA OneThreadMoves ==
  ASSUME Inv, NEW e \in Thread, NEW r, eng' = [eng EXCEPT ![e] = r]
  PROVE  eng'[e] = r /\ \A t \in Thread \ {e} : eng'[t] = eng[t]
  BY InvParts DEF RestType

\* Steps after which a thread has nothing to search, or as much as before.
LEMMA PlainMoves ==
  ASSUME Inv, ReadersSearched, live' = live,
         primary_server_index' = primary_server_index, NEW e \in Thread, NEW r,
         eng' = [eng EXCEPT ![e] = r],
         \/ r.pc \in {"idle", "ignored", "taken", "executed", "balance", "fill"}
         \/ r.pc = "connect" /\ r.attempts = 0
         \/ r.pc = "read" /\ eng[e].pc = "lookup" /\ r.stub = eng[e].stub
  PROVE  ReadersSearched' /\ (OrdersSearched => OrdersSearched')
<1>1. eng'[e] = r /\ \A t \in Thread \ {e} : eng'[t] = eng[t]
  BY OneThreadMoves
<1>2. e \in Buyer => Searched(eng'[e], primary_server_index, live)
  BY <1>1 DEF Searched
<1>3. e \in Reader /\ eng'[e].pc \in {"lookup", "read"} /\ eng'[e].stub = NoServer =>
        live = {}
  BY <1>1 DEF ReadersSearched
<1>4. ASSUME OrdersSearched PROVE OrdersSearched'
  BY <1>1, <1>2, <1>4, OthersSearched
<1>5. ReadersSearched'
  BY <1>1, <1>3, ReadersStay
<1> QED BY <1>4, <1>5

\* A request starts with no attempts made.
LEMMA RequestOrderFinds ==
  ASSUME Inv, ReadersSearched, NEW b \in Buyer,
         NEW type \in RequestType, RequestOrder(b, type)
  PROVE  ReadersSearched' /\ (OrdersSearched => OrdersSearched')
<1>1. PICK r : r = [Idle EXCEPT !.pc = IF type = 1 THEN "connect" ELSE "ignored",
                                !.id = b, !.n = sent[b]]
  OBVIOUS
<1>2. eng' = [eng EXCEPT ![b] = r] /\ b \in Thread /\ live' = live
      /\ primary_server_index' = primary_server_index
  BY <1>1 DEF RequestOrder, Thread, servers
<1>3. r.pc \in {"connect", "ignored"} /\ r.attempts = 0
  BY <1>1 DEF Idle
<1> QED BY <1>2, <1>3, PlainMoves

\* The search begins: the server at the index is down.
LEMMA ConnectPrimaryFinds ==
  ASSUME Inv, ReadersSearched, NEW b \in Thread, ConnectPrimary(b)
  PROVE  ReadersSearched' /\ (OrdersSearched => OrdersSearched')
<1>0. /\ FieldTypes /\ eng[b] \in Engineer /\ ThreadInv(b, eng[b])
      /\ primary_server_index \in 0 .. total_servers - 1 /\ total_servers \in Nat
  BY InvFacts, Servers DEF FieldTypes
<1>1. PICK stub : stub = Connect(primary_server_index)
  OBVIOUS
<1>2. PICK r : r = [eng[b] EXCEPT !.pc = "failover", !.stub = stub]
  OBVIOUS
<1>3. eng[b].pc = "connect" /\ eng' = [eng EXCEPT ![b] = r] /\ live' = live
      /\ primary_server_index' = primary_server_index
  BY <1>1, <1>2 DEF ConnectPrimary, servers
<1>4. b \in Buyer /\ b \notin Reader
  BY <1>0, <1>3, LoadAssumption DEF ThreadInv
<1>5. r.pc = "failover" /\ r.stub = stub /\ r.attempts = eng[b].attempts
  BY <1>0, <1>2 DEF Engineer
<1>6. eng'[b] = r /\ \A t \in Thread \ {b} : eng'[t] = eng[t]
  BY <1>3, OneThreadMoves
<1>7. ASSUME OrdersSearched PROVE Searched(r, primary_server_index, live)
  <2>0. r.attempts = 0
    BY <1>3, <1>4, <1>5, <1>7 DEF OrdersSearched, Searched
  <2> SUFFICES ASSUME stub = NoServer, NEW i \in 0 .. total_servers - 1,
                      Replicas[i + 1] \in live
               PROVE  Ahead(i, primary_server_index) < total_servers - 0
    BY <2>0, <1>5 DEF Searched
  <2>1. i # primary_server_index
    BY <1>0, <1>1, NullMeansDown DEF FieldTypes
  <2>2. /\ Ahead(i, primary_server_index) \in 1 .. total_servers
        /\ Ahead(i, primary_server_index) = total_servers => i = primary_server_index
    BY <1>0, AheadRange
  <2> QED BY <2>1, <2>2, <1>0
<1>8. ASSUME OrdersSearched PROVE OrdersSearched'
  BY <1>3, <1>6, <1>7, <1>8, OthersSearched
<1>9. ReadersSearched'
  BY <1>3, <1>4, <1>6, ReadersStay
<1> QED BY <1>8, <1>9

\* The only step that moves the index, and the only one that needs that
\* nobody else is searching.
LEMMA FailoverFinds ==
  ASSUME Inv, ReadersSearched, NEW b \in Thread, Failover(b)
  PROVE  ReadersSearched' /\ (OrdersSearched /\ OneSearch => OrdersSearched')
<1>0. /\ FieldTypes /\ eng[b] \in Engineer /\ ThreadInv(b, eng[b])
      /\ primary_server_index \in 0 .. total_servers - 1 /\ total_servers \in Nat \ {0}
  BY InvFacts, Servers DEF FieldTypes
<1>1. PICK next : next = (primary_server_index + 1) % total_servers
  OBVIOUS
<1>2. PICK stub : stub = Connect(next)
  OBVIOUS
<1>3. PICK k \in Nat : k = eng[b].attempts
  BY <1>0 DEF Engineer
<1>4. PICK r : r = [eng[b] EXCEPT !.attempts = k + 1, !.stub = stub]
  OBVIOUS
<1>5. /\ eng[b].pc = "failover" /\ eng[b].stub = NoServer /\ k < total_servers
      /\ primary_server_index' = next /\ live' = live
      /\ eng' = [eng EXCEPT ![b] = r]
  <2>1. Connect(primary_server_index') = stub
    BY <1>1, <1>2 DEF Failover
  <2> QED BY <2>1, <1>1, <1>3, <1>4 DEF Failover, servers, MaxAttempts
<1>6. b \in Buyer /\ b \notin Reader
  BY <1>0, <1>5, LoadAssumption DEF ThreadInv
<1>7. r.pc = "failover" /\ r.stub = stub /\ r.attempts = k + 1
  BY <1>0, <1>4, <1>5 DEF Engineer
<1>8. eng'[b] = r /\ \A t \in Thread \ {b} : eng'[t] = eng[t]
  BY <1>5, OneThreadMoves
<1>9. next \in 0 .. total_servers - 1
  BY <1>0, <1>1, Servers
<1>10. ASSUME OrdersSearched PROVE Searched(r, next, live)
  <2> SUFFICES ASSUME stub = NoServer, NEW i \in 0 .. total_servers - 1,
                      Replicas[i + 1] \in live
               PROVE  Ahead(i, next) < total_servers - (k + 1)
    BY <1>7 DEF Searched
  <2>1. i # next
    BY <1>0, <1>2, <1>9, NullMeansDown DEF FieldTypes
  <2>2. Ahead(i, next) = Ahead(i, primary_server_index) - 1
    BY <2>1, <1>0, <1>1, AheadMoves
  <2>3. Ahead(i, primary_server_index) < total_servers - k
    BY <1>3, <1>5, <1>6, <1>10 DEF OrdersSearched, Searched
  <2>4. Ahead(i, primary_server_index) \in Int
    BY <1>0, AheadRange
  <2> QED BY <2>2, <2>3, <2>4, <1>0
<1>11. ASSUME OrdersSearched, OneSearch, NEW a \in Buyer, a # b
      PROVE  Searched(eng[a], next, live)
  <2>0. Searched(eng[a], primary_server_index, live) /\ a \in Thread
    BY <1>11 DEF OrdersSearched, Thread
  <2>1. SUFFICES ASSUME eng[a].pc = "failover", eng[a].stub = NoServer,
                        NEW i \in 0 .. total_servers - 1, Replicas[i + 1] \in live
                 PROVE  FALSE
    BY <2>0 DEF Searched
  <2>2. eng[a].attempts \in Nat
    BY <2>0, InvFacts DEF Engineer
  <2>3. ~ (eng[a].attempts < total_servers)
    BY <2>1, <1>3, <1>5, <1>6, <1>11 DEF OneSearch, Searching
  <2>4. Ahead(i, primary_server_index) < total_servers - eng[a].attempts
    BY <2>0, <2>1 DEF Searched
  <2>5. Ahead(i, primary_server_index) \in 1 .. total_servers
    BY <1>0, AheadRange
  <2> QED BY <2>2, <2>3, <2>4, <2>5, <1>0
<1>12. ASSUME OrdersSearched, OneSearch PROVE OrdersSearched'
  <2> SUFFICES ASSUME NEW a \in Buyer PROVE Searched(eng'[a], next, live)
    BY <1>5 DEF OrdersSearched
  <2>1. CASE a = b
    BY <2>1, <1>8, <1>10, <1>12
  <2>2. CASE a # b
    BY <2>2, <1>8, <1>11, <1>12 DEF Thread
  <2> QED BY <2>1, <2>2
<1>13. ReadersSearched'
  BY <1>5, <1>6, <1>8, ReadersStay
<1> QED BY <1>12, <1>13

\* The search ends: a null stub has been everywhere.
LEMMA RemoveFromCacheFinds ==
  ASSUME Inv, ReadersSearched, NEW b \in Thread, RemoveFromCache(b)
  PROVE  ReadersSearched' /\ (OrdersSearched => OrdersSearched')
<1>0. /\ FieldTypes /\ eng[b] \in Engineer /\ ThreadInv(b, eng[b])
      /\ primary_server_index \in 0 .. total_servers - 1 /\ total_servers \in Nat
  BY InvFacts, Servers DEF FieldTypes
<1>1. PICK r : r = [eng[b] EXCEPT !.pc = "order"]
  OBVIOUS
<1>2. /\ eng[b].pc = "failover" /\ live' = live
      /\ eng[b].stub # NoServer \/ eng[b].attempts >= total_servers
      /\ primary_server_index' = primary_server_index
      /\ eng' = [eng EXCEPT ![b] = r]
  BY <1>1 DEF RemoveFromCache, SendOrder, Step, MaxAttempts
<1>3. b \in Buyer /\ b \notin Reader
  BY <1>0, <1>2, LoadAssumption DEF ThreadInv
<1>4. r.pc = "order" /\ r.stub = eng[b].stub
  BY <1>0, <1>1 DEF Engineer
<1>5. eng'[b] = r /\ \A t \in Thread \ {b} : eng'[t] = eng[t]
  BY <1>2, OneThreadMoves
<1>6. ASSUME OrdersSearched, eng[b].stub = NoServer PROVE live = {}
  <2>1. ASSUME NEW i \in 0 .. total_servers - 1, Replicas[i + 1] \in live PROVE FALSE
    <3>1. Ahead(i, primary_server_index) < total_servers - eng[b].attempts
      BY <1>2, <1>3, <1>6, <2>1 DEF OrdersSearched, Searched
    <3>2. Ahead(i, primary_server_index) \in 1 .. total_servers
      BY <1>0, AheadRange
    <3>3. eng[b].attempts \in Nat /\ eng[b].attempts >= total_servers
      BY <1>0, <1>2, <1>6 DEF Engineer
    <3> QED BY <3>1, <3>2, <3>3, <1>0
  <2> QED BY <2>1, <1>0, NoneIndexed DEF FieldTypes
<1>7. ASSUME OrdersSearched PROVE Searched(r, primary_server_index, live)
  BY <1>4, <1>6, <1>7 DEF Searched
<1>8. ASSUME OrdersSearched PROVE OrdersSearched'
  BY <1>2, <1>5, <1>7, <1>8, OthersSearched
<1>9. ReadersSearched'
  BY <1>2, <1>3, <1>5, ReadersStay
<1> QED BY <1>8, <1>9

\* connect_round_robin_server tries every index.
LEMMA BalanceFinds ==
  ASSUME Inv, ReadersSearched, NEW e \in Thread, Balance(e)
  PROVE  ReadersSearched' /\ (OrdersSearched => OrdersSearched')
<1> DEFINE at(i)  == Connect((round_robin_counter + i) % total_servers)
           found  == {i \in 0 .. total_servers - 1 : at(i) # NoServer}
           passes == IF found = {} THEN total_servers ELSE Min(found) + 1
<1>0. /\ FieldTypes /\ eng[e] \in Engineer /\ ThreadInv(e, eng[e])
      /\ round_robin_counter \in Nat /\ total_servers \in Nat \ {0}
  BY InvFacts, Servers DEF FieldTypes
<1>1. PICK r : r = [eng[e] EXCEPT !.pc = "lookup", !.stub = at(passes - 1)]
  OBVIOUS
<1>2. /\ eng[e].pc = "balance" /\ live' = live
      /\ primary_server_index' = primary_server_index
      /\ eng' = [eng EXCEPT ![e] = r]
  BY <1>1 DEF Balance, servers
<1>3. e \in Reader /\ e \notin Buyer
  BY <1>0, <1>2, LoadAssumption DEF ThreadInv
<1>4. r.pc = "lookup" /\ r.stub = at(passes - 1)
  BY <1>0, <1>1 DEF Engineer
<1>5. eng'[e] = r /\ \A t \in Thread \ {e} : eng'[t] = eng[t]
  BY <1>2, OneThreadMoves
<1>6. ASSUME at(passes - 1) = NoServer PROVE live = {}
  <2>1. found = {}
    <3> SUFFICES ASSUME found # {} PROVE FALSE
      OBVIOUS
    <3>1. found \in SUBSET (0 .. total_servers - 1) /\ 0 \in Int
          /\ total_servers - 1 \in Int /\ passes = Min(found) + 1
      BY <1>0
    <3>2. Min(found) \in found
      <4> HIDE DEF found
      <4> QED BY <3>1, MinOfIndices
    <3>3. PICK m \in found : m = Min(found)
      BY <3>2
    <3>4. m \in Int /\ passes - 1 = m
      <4>1. m \in Int
        BY <1>0
      <4>2. passes = m + 1
        BY <3>1, <3>3
      <4> HIDE DEF passes
      <4> QED BY <4>1, <4>2
    <3>5. at(m) = NoServer
      BY <3>4, <1>6
    <3> QED BY <3>5
  <2>2. ASSUME NEW j \in 0 .. total_servers - 1 PROVE Replicas[j + 1] \notin live
    <3>1. PICK i \in 0 .. total_servers - 1 : (round_robin_counter + i) % total_servers = j
      <4>1. PICK n \in Nat \ {0} : n = total_servers
        BY <1>0
      <4>2. PICK x \in 0 .. n - 1 : x = j
        BY <4>1
      <4>3. \E i \in 0 .. n - 1 : (round_robin_counter + i) % n = x
        BY <1>0, AllIndices
      <4> QED BY <4>1, <4>2, <4>3
    <3>2. Connect(j) = NoServer
      BY <2>1, <3>1
    <3> QED BY <3>2, <1>0, NullMeansDown DEF FieldTypes
  <2> QED BY <2>2, <1>0, NoneIndexed DEF FieldTypes
<1> HIDE DEF at, found, passes
<1>7. ASSUME OrdersSearched PROVE OrdersSearched'
  BY <1>2, <1>3, <1>5, <1>7, OthersSearched
<1>8. ReadersSearched'
  BY <1>2, <1>4, <1>5, <1>6, ReadersStay
<1> QED BY <1>7, <1>8

\* The steps that search nothing and start no search.
LEMMA QuietFinds ==
  ASSUME Inv, ReadersSearched, NEW e \in Thread,
         \/ Take(e) \/ Execute(e) \/ Deliver(e) \/ DeliverInvalid(e)
         \/ LookupHit(e) \/ LookupMiss(e) \/ ReadRecord(e) \/ Fill(e)
  PROVE  ReadersSearched' /\ (OrdersSearched => OrdersSearched')
<1>0. eng[e] \in Engineer /\ live' = live /\ primary_server_index' = primary_server_index
  BY InvFacts DEF Take, Execute, Deliver, DeliverInvalid, LookupHit, LookupMiss,
                  ReadRecord, Fill, servers
<1>1. CASE Take(e) \/ Execute(e)
  <2>1. PICK pc \in {"taken", "executed"} : eng' = [eng EXCEPT ![e].pc = pc]
    BY <1>1 DEF Take, Execute, Step
  <2>2. PICK r : r = [eng[e] EXCEPT !.pc = pc]
    OBVIOUS
  <2>3. eng' = [eng EXCEPT ![e] = r] /\ r.pc \in {"taken", "executed"}
    BY <2>1, <2>2, <1>0 DEF Engineer
  <2> QED BY <2>3, <1>0, PlainMoves
<1>2. CASE Deliver(e) \/ DeliverInvalid(e) \/ LookupHit(e) \/ Fill(e)
  <2>1. eng' = [eng EXCEPT ![e] = Idle] /\ Idle.pc = "idle"
    BY <1>2, IdleType DEF Deliver, DeliverInvalid, LookupHit, Fill
  <2> QED BY <2>1, <1>0, PlainMoves
<1>3. CASE LookupMiss(e)
  <2>1. PICK r : r = [eng[e] EXCEPT !.pc = "read"]
    OBVIOUS
  <2>2. /\ eng' = [eng EXCEPT ![e] = r] /\ r.pc = "read"
        /\ eng[e].pc = "lookup" /\ r.stub = eng[e].stub
    BY <2>1, <1>0, <1>3 DEF LookupMiss, Step, Engineer
  <2> QED BY <2>2, <1>0, PlainMoves
<1>4. CASE ReadRecord(e)
  <2>1. PICK n \in Reported(eng[e].stub, eng[e].id) :
          eng' = [eng EXCEPT ![e].pc = "fill", ![e].n = n]
    BY <1>4 DEF ReadRecord
  <2>2. PICK r : r = [eng[e] EXCEPT !.pc = "fill", !.n = n]
    OBVIOUS
  <2>3. eng' = [eng EXCEPT ![e] = r]
    BY <2>1, <2>2
  <2>4. r.pc = "fill"
    BY <2>2, <1>0 DEF Engineer
  <2> QED BY <2>3, <2>4, <1>0, PlainMoves
<1> QED BY <1>1, <1>2, <1>3, <1>4

\* A read starts without a stub, and gets one before it looks.
LEMMA RequestReadFinds ==
  ASSUME Inv, ReadersSearched, NEW e \in Reader, NEW id \in Buyer,
         RequestRead(e, id)
  PROVE  ReadersSearched' /\ (OrdersSearched => OrdersSearched')
<1>1. PICK r : r = [Idle EXCEPT !.pc = "balance", !.id = id]
  OBVIOUS
<1>2. eng' = [eng EXCEPT ![e] = r] /\ e \in Thread /\ live' = live
      /\ primary_server_index' = primary_server_index
  BY <1>1 DEF RequestRead, Thread, servers
<1>3. r.pc = "balance"
  BY <1>1 DEF Idle
<1> QED BY <1>2, <1>3, PlainMoves

\* Servers only go down.
LEMMA CrashFinds ==
  ASSUME ReadersSearched, live' \subseteq live,
         UNCHANGED <<primary_server_index, eng>>
  PROVE  ReadersSearched' /\ (OrdersSearched => OrdersSearched')
<1>1. PICK e : e \notin Buyer \cup Reader
  <2>1. NoThread \notin Buyer \cup Reader
    BY LoadAssumption DEF Thread
  <2> QED BY <2>1
<1>2. ASSUME OrdersSearched PROVE OrdersSearched'
  BY <1>1, <1>2, OthersSearched
<1>3. ReadersSearched'
  BY <1>1, ReadersStay
<1> QED BY <1>2, <1>3

\* Every step.
LEMMA NextSearched ==
  ASSUME Inv, ReadersSearched, [Next]_vars
  PROVE  /\ live' \subseteq live /\ ReadersSearched'
         /\ OrdersSearched /\ OneSearch => OrdersSearched'
<1>1. live' \subseteq live
  BY DEF Next, EngineerThread, ConnectPrimary, Failover, RemoveFromCache, SendOrder,
         Take, Execute, Deliver, DeliverInvalid, Balance, LookupHit, LookupMiss, ReadRecord, Fill,
         NullStub, RequestOrder, RequestRead, Replicate, ServerCrash, vars, servers
<1> DEFINE Goal == ReadersSearched' /\ (OrdersSearched /\ OneSearch => OrdersSearched')
<1>2. UNCHANGED <<primary_server_index, eng>> => Goal
  BY <1>1, CrashFinds
<1>3. ASSUME NEW e \in Thread, EngineerThread(e) PROVE Goal
  <2>1. CASE NullStub(e)
    BY <2>1, <1>2 DEF NullStub
  <2>2. CASE Failover(e)
    BY <2>2, FailoverFinds
  <2>3. CASE ConnectPrimary(e) \/ RemoveFromCache(e) \/ Balance(e)
    BY <2>3, ConnectPrimaryFinds, RemoveFromCacheFinds, BalanceFinds
  <2>4. CASE \/ Take(e) \/ Execute(e) \/ Deliver(e) \/ DeliverInvalid(e)
             \/ LookupHit(e) \/ LookupMiss(e) \/ ReadRecord(e) \/ Fill(e)
    BY <2>4, QuietFinds
  <2> QED BY <1>3, <2>1, <2>2, <2>3, <2>4 DEF EngineerThread
<1>4. ASSUME NEW b \in Buyer, NEW type \in RequestType, RequestOrder(b, type) PROVE Goal
  BY <1>4, RequestOrderFinds
<1>5. ASSUME NEW e \in Reader, NEW id \in Buyer, RequestRead(e, id) PROVE Goal
  BY <1>5, RequestReadFinds
<1>6. (\E s \in Server : Replicate(s) \/ ServerCrash(s)) \/ UNCHANGED vars =>
        UNCHANGED <<primary_server_index, eng>>
  BY DEF Replicate, ServerCrash, vars
<1> QED BY <1>1, <1>2, <1>3, <1>4, <1>5, <1>6 DEF Next

\* Nobody searches at first.
LEMMA InitSearched == Init => Inv /\ ReadersSearched /\ OrdersSearched
<1> SUFFICES ASSUME Init PROVE Inv /\ ReadersSearched /\ OrdersSearched
  OBVIOUS
<1>1. \A e \in Thread : eng[e].pc = "idle"
  BY IdleType DEF Init
<1> QED BY <1>1, InitInv DEF OrdersSearched, ReadersSearched, Searched, Thread

(* A read meets a null stub only when no server is left, whatever the      *)
(* orders do to the shared index at the same time:                         *)
(* connect_round_robin_server counts its attempts under the lock.          *)
THEOREM ReadsFindServer == Spec => []ReadersSearched
<1>1. Init => Inv /\ ReadersSearched
  BY InitSearched
<1>2. Inv /\ ReadersSearched /\ [Next]_vars => (Inv /\ ReadersSearched)'
  BY NextInv, NextSearched
<1> QED BY <1>1, <1>2, PTL DEF Spec

\* With one search at a time, orders find a server too.
FindInv == Inv /\ ReadersSearched /\ OrdersSearched /\ FindsLiveServer

LEMMA NextFind == FindInv /\ OneSearch /\ [Next]_vars => FindInv'
<1> SUFFICES ASSUME FindInv, OneSearch, [Next]_vars PROVE FindInv'
  OBVIOUS
<1>1. /\ Inv /\ Inv' /\ live' \subseteq live /\ FindsLiveServer
      /\ ReadersSearched /\ ReadersSearched'
      /\ OrdersSearched /\ OrdersSearched'
  BY NextInv, NextSearched DEF FindInv
<1>2. ASSUME NEW e \in Thread, NullStub(e) PROVE live = {}
  <2>1. /\ eng[e].pc \in {"order", "read"} /\ eng[e].stub = NoServer
        /\ ThreadInv(e, eng[e])
    BY <1>1, <1>2, InvFacts DEF NullStub
  <2>2. CASE eng[e].pc = "order"
    BY <2>1, <2>2, <1>1 DEF ThreadInv, OrdersSearched, Searched
  <2>3. CASE eng[e].pc = "read"
    BY <2>1, <2>3, <1>1 DEF ThreadInv, ReadersSearched
  <2> QED BY <2>1, <2>2, <2>3
<1>3. crashed' = crashed \/ \E e \in Thread : NullStub(e)
  BY DEF Next, EngineerThread, ConnectPrimary, Failover, RemoveFromCache, SendOrder,
         Take, Execute, Deliver, DeliverInvalid, Balance, LookupHit, LookupMiss, ReadRecord, Fill,
         RequestOrder, RequestRead, Replicate, ServerCrash, vars
<1>4. FindsLiveServer'
  BY <1>1, <1>2, <1>3 DEF FindsLiveServer
<1> QED BY <1>1, <1>4 DEF FindInv

(* The balancer dereferences a null stub only when no server is left, as   *)
(* long as no two threads are in the failover loop at once.  That is all   *)
(* the loop lacks: it takes primary_server_lock anew for every pass, and   *)
(* two searches make each other skip servers (see the run failover_race).  *)
THEOREM LoneSearchFindsServer == Spec /\ []OneSearch => []FindsLiveServer
<1>1. Init => FindInv
  BY InitSearched DEF FindInv, FindsLiveServer, Init
<1>2. FindInv => FindsLiveServer
  BY DEF FindInv
<1> QED BY <1>1, <1>2, NextFind, PTL DEF Spec

(* One client that orders, beside any number of readers.                   *)
OneBuyer == \A a, b \in Buyer : a = b

(* With one client that orders, connect_server and the loop around it find *)
(* a live server if there is one, whatever crashes and when.               *)
THEOREM OneBuyerFindsServer == ASSUME OneBuyer PROVE Spec => []FindsLiveServer
<1>1. OneSearch
  BY DEF OneBuyer, OneSearch
<1> QED BY <1>1, LoneSearchFindsServer, PTL
=============================================================================
