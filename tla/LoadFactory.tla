----------------------------- MODULE LoadFactory -----------------------------
(***************************************************************************)
(* The load balancer (LoadFactory, LoadThread.cpp): one EngineerThread per *)
(* connection sends orders to the server it takes for the primary, spreads *)
(* reads over all servers, and keeps an LRU cache of the records read.     *)
(*                                                                         *)
(* The servers are what System shows of them to who reads a record (see    *)
(* ServerView, where TLC compares the two): the orders their experts have  *)
(* taken, and how many of these each server's record shows.  That holds    *)
(* until a server dies with an order on its way and the cluster goes on    *)
(* from there; after that a server may show anything.                      *)
(*                                                                         *)
(* connect_round_robin_server and each pass of the failover loop run under *)
(* a lock and are one action; cr_lock is held across a call to a server,   *)
(* so it is a variable.                                                    *)
(***************************************************************************)
EXTENDS Integers, SequencesExt

CONSTANTS
  Replicas,       \* command line: the servers, in AddReplica order
  NoServer,       \* a null stub
  Buyer, Reader,  \* connections: a buyer's is named by its customer id
  NoThread,       \* cr_lock is free
  NumOrders,      \* orders of one buyer (ClientThread's num_orders)
  NumReads,       \* reads of one reader
  RequestType,    \* request types a client orders with (0 regular, 1 custom)
  cache_capacity,
  MaxCrashes      \* bound on server crashes; a crashed server stays down

Server == Range(Replicas)
Thread == Buyer \cup Reader
total_servers == Len(Replicas)

ASSUME LoadAssumption ==
  /\ Replicas \in Seq(Server) /\ Replicas # <<>> /\ IsInjective(Replicas)
  /\ NoServer \notin Server
  /\ Buyer \subseteq Nat /\ Buyer \cap Reader = {} /\ NoThread \notin Thread
  /\ NumOrders \in Nat /\ NumReads \in Nat /\ cache_capacity \in Nat
  /\ RequestType \subseteq {0, 1} /\ MaxCrashes \in Nat

VARIABLES
  live,                  \* the servers that accept connections
  history,               \* the orders experts have taken, as in their logs
  applied,               \* how many of them a server's record shows
  producer,              \* the server the last order was sent to
  cluster,               \* what the logs have in common, see below
  crashed,               \* the balancer has dereferenced a null stub
  primary_server_index, round_robin_counter, cr_lock,
  cache_list,            \* most recently used first
  lru_map,               \* the ids with an iterator into cache_list
  eng,                   \* control and locals of the engineer threads
  sent,                  \* requests sent on a connection
  answered,              \* ghost: last order answered to a buyer
  recent                 \* ghost: ids by last use, forgotten ones left out

(* agreed: the logs of the live servers differ by the order in execution.  *)
(* split:  the server that executed the orders died with one on its way,   *)
(*         and which of the others have it is open.                        *)
(* apart:  the cluster went on from there, or a server died while another  *)
(*         had an order on its way, or two live servers were sent orders.  *)
Cluster == {"agreed", "split", "apart"}

servers == <<live, history, applied, producer, cluster>>
cache   == <<cache_list, lru_map, recent>>
vars == <<servers, crashed, primary_server_index, round_robin_counter, cr_lock,
          cache, eng, sent, answered>>

Pc == {"idle", "ignored", "connect", "failover", "order", "taken", "executed",
       "balance", "lookup", "read", "fill"}
\* id: customer asked about; n: order number, or the order read; stub: the
\* server client_stub is connected to.
Engineer == [pc : Pc, id : Buyer \cup {-1}, n : Int,
             stub : Server \cup {NoServer}, attempts : Nat]

Idle == [pc |-> "idle", id |-> -1, n |-> -1, stub |-> NoServer, attempts |-> 0]

Init ==
  /\ live = Server /\ history = <<>> /\ applied = [s \in Server |-> 0]
  /\ producer = NoServer /\ cluster = "agreed"
  /\ crashed = FALSE
  /\ primary_server_index = 0 /\ round_robin_counter = 0 /\ cr_lock = NoThread
  /\ cache_list = <<>> /\ lru_map = {} /\ recent = <<>>
  /\ eng = [e \in Thread |-> Idle]
  /\ sent = [e \in Thread |-> 0]
  /\ answered = [b \in Buyer |-> -1]

-----------------------------------------------------------------------------
(* Helpers. *)

\* connect_server: the stub, or null.
Connect(index) == LET s == Replicas[index + 1]
                  IN  IF s \in live THEN s ELSE NoServer

\* What a server that has applied the first k orders reports for id.
Record(k, id) ==
  LET writes == {i \in 1 .. k : history[i].id = id}
  IN  IF writes = {} THEN -1 ELSE history[Max(writes)].n

\* The orders that a live server has been sent and has not executed.
OnWay == {b \in Buyer : eng[b].pc \in {"order", "taken"} /\ eng[b].stub \in live}

\* What a server, or none, reports for id; one that is down the record that
\* CustomerRecord() makes, whose last_order is -1.
Reported(s, id) ==
  IF s \notin live THEN {-1}
  ELSE IF cluster = "apart" THEN -1 .. NumOrders - 1
  ELSE {Record(applied[s], id)}

(* The item lru_map's iterator for id points at, and the other items.      *)
Place(id) == CHOOSE i \in DOMAIN cache_list : cache_list[i].id = id
Others(id) ==
  IF id \in lru_map THEN RemoveAt(cache_list, Place(id)) ELSE cache_list

\* The other ids used, and id used last.
Forget(id) ==
  IF id \in Range(recent)
  THEN RemoveAt(recent, CHOOSE i \in DOMAIN recent : recent[i] = id) ELSE recent
Use(id) == <<id>> \o Forget(id)

(* get_from_cache on a hit: the item moves to the front.                   *)
CacheHitStays(id) ==            \* bug: a hit does not refresh the item
  UNCHANGED <<cache_list, lru_map>> /\ recent' = Use(id)
CacheHit(id) ==
  /\ cache_list' = <<cache_list[Place(id)]>> \o Others(id)
  /\ recent' = Use(id)
  /\ UNCHANGED lru_map

(* set_in_cache: the item goes to the front; the last one is evicted when  *)
(* the map has outgrown the capacity.                                      *)
CacheSetLate(id, n) ==          \* bug: lru_map is forgotten on an eviction
  LET list == <<[id |-> id, n |-> n]>> \o Others(id)
      full == Cardinality(lru_map \cup {id}) > cache_capacity
  IN /\ lru_map' = lru_map \cup {id}
     /\ cache_list' = IF full THEN Front(list) ELSE list
     /\ recent' = Use(id)
CacheSet(id, n) ==
  LET list == <<[id |-> id, n |-> n]>> \o Others(id)
      ids  == lru_map \cup {id}
      full == Cardinality(ids) > cache_capacity
  IN /\ lru_map' = IF full THEN ids \ {Last(list).id} ELSE ids
     /\ cache_list' = IF full THEN Front(list) ELSE list
     /\ recent' = Use(id)

(* remove_from_cache.                                                      *)
CacheKeep(id) == UNCHANGED cache    \* bug: nothing is removed
CacheRemove(id) ==
  /\ cache_list' = Others(id)
  /\ lru_map' = lru_map \ {id}
  /\ recent' = Forget(id)

TooFewAttempts == total_servers - 2     \* bug: the loop starts at 1 and ends early
MaxAttempts == total_servers

Step(e, pc) == eng' = [eng EXCEPT ![e].pc = pc]

-----------------------------------------------------------------------------
(* Orders: case 1 of EngineerThread.  Any other type but 2 is not answered *)
(* at all, and the client waits.                                           *)
RequestTooMany(b, type) ==      \* bug: the client's loop runs to num_orders
  /\ eng[b].pc = "idle" /\ sent[b] <= NumOrders
  /\ eng' = [eng EXCEPT ![b] =
       [Idle EXCEPT !.pc = IF type = 1 THEN "connect" ELSE "ignored",
                    !.id = b, !.n = sent[b]]]
  /\ sent' = [sent EXCEPT ![b] = @ + 1]
  /\ UNCHANGED <<servers, crashed, primary_server_index, round_robin_counter,
                 cr_lock, cache, answered>>
RequestOrder(b, type) ==
  /\ eng[b].pc = "idle" /\ sent[b] < NumOrders
  /\ eng' = [eng EXCEPT ![b] =
       [Idle EXCEPT !.pc = IF type = 1 THEN "connect" ELSE "ignored",
                    !.id = b, !.n = sent[b]]]
  /\ sent' = [sent EXCEPT ![b] = @ + 1]
  /\ UNCHANGED <<servers, crashed, primary_server_index, round_robin_counter,
                 cr_lock, cache, answered>>

\* primary_server_index is read without primary_server_lock.
ConnectPrimary(b) ==
  /\ eng[b].pc = "connect"
  /\ eng' = [eng EXCEPT ![b].pc = "failover",
                        ![b].stub = Connect(primary_server_index)]
  /\ UNCHANGED <<servers, crashed, primary_server_index, round_robin_counter,
                 cr_lock, cache, sent, answered>>

(* One pass of the loop, under primary_server_lock: on to the next server, *)
(* whatever another thread has made of the index meanwhile.                *)
Failover(b) ==
  /\ eng[b].pc = "failover" /\ eng[b].stub = NoServer
  /\ eng[b].attempts < MaxAttempts
  /\ primary_server_index' = (primary_server_index + 1) % total_servers
  /\ eng' = [eng EXCEPT ![b].attempts = @ + 1,
                        ![b].stub = Connect(primary_server_index')]
  /\ UNCHANGED <<servers, crashed, round_robin_counter, cr_lock, cache, sent,
                 answered>>

\* OrderLaptop(b) on its way to server s, or to one that has just died.
SendOrder(s) ==
  /\ IF s \in live
     THEN /\ producer' = s
          /\ cluster' = IF cluster = "split" \/ producer \in live \ {s}
                        THEN "apart" ELSE cluster
     ELSE UNCHANGED <<producer, cluster>>
  /\ UNCHANGED <<live, history, applied>>

\* The loop has ended: the buyer's cache entry goes, before the order does.
RemoveFromCache(b) ==
  /\ eng[b].pc = "failover" /\ cr_lock = NoThread
  /\ eng[b].stub # NoServer \/ eng[b].attempts >= MaxAttempts
  /\ CacheRemove(b)
  /\ SendOrder(eng[b].stub)
  /\ Step(b, "order")
  /\ UNCHANGED <<crashed, primary_server_index, round_robin_counter,
                 cr_lock, sent, answered>>

(* The server's expert takes the order, the only one it has in hand, and   *)
(* asks its backups to append it.                                          *)
Take(b) ==
  /\ eng[b].pc = "order" /\ eng[b].stub \in live
  /\ \A a \in OnWay : eng[a].pc = "taken" => eng[a].stub # eng[b].stub
  /\ history' = Append(history, [id |-> b, n |-> eng[b].n])
  /\ Step(b, "taken")
  /\ UNCHANGED <<live, applied, producer, cluster, crashed, primary_server_index,
                 round_robin_counter, cr_lock, cache, sent, answered>>

(* A server's record comes up to that order: a backup applies what came    *)
(* before it, and the order too if its primary was promoted for it.        *)
Replicate(s) ==
  /\ s \in live /\ cluster # "apart"
  /\ cluster = "split" \/ \E b \in OnWay : eng[b].pc = "taken"
  /\ \E k \in {Len(history) - 1, Len(history)} :
       k > applied[s] /\ applied' = [applied EXCEPT ![s] = k]
  /\ UNCHANGED <<live, history, producer, cluster, crashed, primary_server_index,
                 round_robin_counter, cr_lock, cache, eng, sent, answered>>

(* The server has applied the order, and the other live servers have at    *)
(* least what came before.                                                 *)
Execute(b) ==
  /\ eng[b].pc = "taken" /\ eng[b].stub \in live
  /\ applied' = [s \in Server |->
       IF s = eng[b].stub THEN Len(history)
       ELSE IF s \in live THEN Max({applied[s], Len(history) - 1})
       ELSE applied[s]]
  /\ Step(b, "executed")
  /\ UNCHANGED <<live, history, producer, cluster, crashed, primary_server_index,
                 round_robin_counter, cr_lock, cache, sent, answered>>

\* The laptop comes back and goes on to the client.
Deliver(b) ==
  /\ eng[b].pc = "executed"
  /\ answered' = [answered EXCEPT ![b] = eng[b].n]
  /\ eng' = [eng EXCEPT ![b] = Idle]
  /\ UNCHANGED <<servers, crashed, primary_server_index, round_robin_counter,
                 cr_lock, cache, sent>>

(* The server died: the client gets an invalid laptop and stops ordering.  *)
DeliverInvalid(b) ==
  /\ eng[b].pc \in {"order", "taken", "executed"}
  /\ eng[b].stub \in Server \ live
  /\ eng' = [eng EXCEPT ![b] = Idle]
  /\ sent' = [sent EXCEPT ![b] = NumOrders]
  /\ UNCHANGED <<servers, crashed, primary_server_index, round_robin_counter,
                 cr_lock, cache, answered>>

-----------------------------------------------------------------------------
(* Reads: case 2 of EngineerThread. *)

RequestRead(e, id) ==
  /\ eng[e].pc = "idle" /\ sent[e] < NumReads
  /\ eng' = [eng EXCEPT ![e] = [Idle EXCEPT !.pc = "balance", !.id = id]]
  /\ sent' = [sent EXCEPT ![e] = @ + 1]
  /\ UNCHANGED <<servers, crashed, primary_server_index, round_robin_counter,
                 cr_lock, cache, answered>>

(* connect_round_robin_server: the first of total_servers attempts that    *)
(* succeeds, counting on from the last one.                                *)
Balance(e) ==
  /\ eng[e].pc = "balance"
  /\ LET at(i)  == Connect((round_robin_counter + i) % total_servers)
         found  == {i \in 0 .. total_servers - 1 : at(i) # NoServer}
         passes == IF found = {} THEN total_servers ELSE Min(found) + 1
     IN /\ round_robin_counter' = round_robin_counter + passes
        /\ eng' = [eng EXCEPT ![e].pc = "lookup", ![e].stub = at(passes - 1)]
  /\ UNCHANGED <<servers, crashed, primary_server_index, cr_lock, cache, sent,
                 answered>>

(* Under cr_lock, which a miss keeps until the cache is filled.            *)
LookupHit(e) ==
  /\ eng[e].pc = "lookup" /\ cr_lock = NoThread
  /\ eng[e].id \in lru_map
  /\ CacheHit(eng[e].id)
  /\ eng' = [eng EXCEPT ![e] = Idle]
  /\ UNCHANGED <<servers, crashed, primary_server_index, round_robin_counter,
                 cr_lock, sent, answered>>

LookupUnlocks(e) ==             \* bug: cr_lock is not held during the read
  /\ eng[e].pc = "lookup" /\ cr_lock = NoThread
  /\ eng[e].id \notin lru_map
  /\ Step(e, "read")
  /\ UNCHANGED <<servers, crashed, primary_server_index, round_robin_counter,
                 cr_lock, cache, sent, answered>>
LookupMiss(e) ==
  /\ eng[e].pc = "lookup" /\ cr_lock = NoThread
  /\ eng[e].id \notin lru_map
  /\ cr_lock' = e
  /\ Step(e, "read")
  /\ UNCHANGED <<servers, crashed, primary_server_index, round_robin_counter,
                 cache, sent, answered>>

ReadRecord(e) ==
  /\ eng[e].pc = "read" /\ eng[e].stub # NoServer
  /\ \E n \in Reported(eng[e].stub, eng[e].id) :
       eng' = [eng EXCEPT ![e].pc = "fill", ![e].n = n]
  /\ UNCHANGED <<servers, crashed, primary_server_index, round_robin_counter,
                 cr_lock, cache, sent, answered>>

FillKeepsLock(e) ==             \* bug: no unlock when the server knew nothing
  /\ eng[e].pc = "fill"
  /\ IF eng[e].n = -1 THEN UNCHANGED cache ELSE CacheSet(eng[e].id, eng[e].n)
  /\ cr_lock' = IF eng[e].n = -1 THEN cr_lock ELSE NoThread
  /\ eng' = [eng EXCEPT ![e] = Idle]
  /\ UNCHANGED <<servers, crashed, primary_server_index, round_robin_counter,
                 sent, answered>>
Fill(e) ==
  /\ eng[e].pc = "fill"
  /\ IF eng[e].n = -1 THEN UNCHANGED cache ELSE CacheSet(eng[e].id, eng[e].n)
  /\ cr_lock' = NoThread
  /\ eng' = [eng EXCEPT ![e] = Idle]
  /\ UNCHANGED <<servers, crashed, primary_server_index, round_robin_counter,
                 sent, answered>>

-----------------------------------------------------------------------------
(* client_stub-> on a null stub: the balancer is gone.                     *)
NullStub(e) ==
  /\ eng[e].pc \in {"order", "read"} /\ eng[e].stub = NoServer
  /\ crashed' = TRUE
  /\ UNCHANGED <<servers, primary_server_index, round_robin_counter, cr_lock,
                 cache, eng, sent, answered>>

ServerCrash(s) ==
  /\ s \in live /\ Cardinality(Server \ live) < MaxCrashes
  /\ live' = live \ {s}
  /\ cluster' = IF OnWay = {} THEN cluster
                ELSE IF cluster = "agreed" /\ \A b \in OnWay : eng[b].stub = s
                THEN "split" ELSE "apart"
  /\ UNCHANGED <<history, applied, producer, crashed, primary_server_index,
                 round_robin_counter, cr_lock, cache, eng, sent, answered>>

EngineerThread(e) ==
  \/ ConnectPrimary(e) \/ Failover(e) \/ RemoveFromCache(e)
  \/ Take(e) \/ Execute(e) \/ Deliver(e) \/ DeliverInvalid(e)
  \/ Balance(e) \/ LookupHit(e) \/ LookupMiss(e) \/ ReadRecord(e) \/ Fill(e)
  \/ NullStub(e)

Next ==
  /\ ~crashed
  /\ \/ \E e \in Thread : EngineerThread(e)
     \/ \E b \in Buyer, type \in RequestType : RequestOrder(b, type)
     \/ \E e \in Reader, id \in Buyer : RequestRead(e, id)
     \/ \E s \in Server : Replicate(s) \/ ServerCrash(s)

(* The balancer's threads run, and a live server executes the orders it    *)
(* has been sent.  The latter is so as long as one server is sent orders:  *)
(* two of them may wait for each other (run two_primaries), which takes    *)
(* two buyers.  The runs that use this have one.                           *)
Fairness == \A e \in Thread : WF_vars(~crashed /\ EngineerThread(e))

Spec     == Init /\ [][Next]_vars
FairSpec == Spec /\ Fairness
-----------------------------------------------------------------------------
(* Properties. *)

(* Every variable has the type of the C++ field or local it stands for.    *)
TypeOK ==
  /\ live \subseteq Server
  /\ history \in Seq([id : Buyer, n : 0 .. NumOrders - 1])
  /\ applied \in [Server -> 0 .. Len(history)]
  /\ producer \in Server \cup {NoServer} /\ cluster \in Cluster
  /\ crashed \in BOOLEAN
  /\ primary_server_index \in 0 .. total_servers - 1
  /\ round_robin_counter \in Nat
  /\ cr_lock \in Reader \cup {NoThread}
  /\ cache_list \in Seq([id : Buyer, n : 0 .. NumOrders - 1])
  /\ lru_map \subseteq Buyer
  /\ eng \in [Thread -> Engineer]
  /\ sent \in [Thread -> Nat]
  /\ answered \in [Buyer -> -1 .. NumOrders - 1]
  /\ recent \in Seq(Buyer)

(* Every iterator of lru_map points at a node of cache_list and every node *)
(* is pointed at by one: no iterator is left dangling by an erase.         *)
MapMirrorsList ==
  LET ids == [i \in DOMAIN cache_list |-> cache_list[i].id]
  IN  Range(ids) = lru_map /\ IsInjective(ids)

(* The cache is LRU: within its capacity, it holds the ids used last,      *)
(* through hits, fills, evictions and removals.                            *)
CacheIsMostRecent ==
  /\ Len(cache_list) <= cache_capacity
  /\ \A i \in DOMAIN cache_list : cache_list[i].id = recent[i]

(* A thread about to fill the cache finds no entry for its id: the branch  *)
(* of set_in_cache that erases the map entry and then follows its iterator *)
(* (LoadThread.cpp:175-178) is never taken.                                *)
FillIsMiss == \A e \in Thread : eng[e].pc = "fill" => eng[e].id \notin lru_map

(* Stale the cache may be, but by two orders of the customer at most: one  *)
(* sent since the entry was filled, one the server read had not yet shown. *)
(* No longer so once the servers' logs have come apart.                    *)
CacheAtMostTwoBehind ==
  cluster # "apart" =>
    \A i \in DOMAIN cache_list :
      cache_list[i].n >= Record(Len(history), cache_list[i].id) - 2

(* The balancer runs into a null stub only when no server is left.         *)
FindsLiveServer == crashed => live = {}

(* "remove from the cache for this customer ID" (LoadThread.cpp:46), "set  *)
(* in cache and send back to client" (line 50): once an order is answered  *)
(* the cache does not show an older one.                                   *)
CacheFollowsOrders ==
  \A i \in DOMAIN cache_list :
    cache_list[i].n >= answered[cache_list[i].id]

(* Every request is answered, or the balancer is gone.                     *)
RequestAnswered ==
  \A e \in Thread : eng[e].pc # "idle" ~> eng[e].pc = "idle" \/ crashed
=============================================================================
