# A TLA+ model of the replicated laptop factory

The program is a key-value store in disguise: customers place orders, and the
store maps a customer id to its last order number. Servers (`ServerThread.cpp`)
replicate the log of orders from whichever server takes orders (the *production*
server, or primary) to the others (*backups*); an optional load balancer
(`LoadThread.cpp`) picks the primary, spreads reads and caches them; clients
(`ClientThread.cpp`) send one request at a time over TCP.

This directory holds TLA+ modules of that program, the configurations that check
them with TLC, and proofs checked by TLAPS. Source paths are relative to `src/`.

## Inventory

| Component | State | Operations | What is hard | What makes it correct |
|---|---|---|---|---|
| **LaptopFactory**, `ServerThread.cpp` | `smr_log`, the log file, `customer_record`, `last_index`, `committed_index`, `primary_id`, `erq`, `replica_stubs` | queue and execute an order, promotion, connect and register with backups, replicate, append as a backup, status and log fetch, recovery from file and from a peer | expert and engineer threads interleave; a backup tests before it locks; connections are dropped and remade per order; crashes mid-replication; recovery while orders go on; two servers executing at once | indices describe the log and the record; logs agree; an answered order is on disk and on every running server; no order is lost, run twice or left waiting |
| **Server process**, `ServerMain.cpp` | lifecycle, listening socket | recover from log if asked, recover from a peer, start the expert, listen, accept | the window between recovery and listening; an accept without a free descriptor | (with LaptopFactory); one engineer per connection |
| **LoadFactory**, `LoadThread.cpp` | `primary_server_index`, `round_robin_counter`, `cr_lock`, `cache_list`, `lru_map` | order with failover, read with round robin, LRU get/set/remove | an index advanced by racing threads; a cache filled while an order is under way; a lock held across a remote call | finds a live server if there is one; cache bounded, LRU, map and list in step; staleness bounded; every request answered |
| **Load balancer process**, `LoadBalancer.cpp` | none | accept loop | orders of several threads reach several servers | one server executes at a time |
| **Client threads**, `ClientThread.cpp`, `ClientMain.cpp` | position in the loop | order until an invalid laptop, or read ids | dies between a request and its answer | one outstanding request; an answer is to the request |
| **Messages**, `Messages.cpp` | | marshal and unmarshal 32-bit fields in network order, sentinel -1 | negative fields; a sentinel that is data | round trip; sizes agree at both ends |
| **Stubs**, `*Stub.cpp` | | send a request, receive the answer, default message on failure | a failure looks like an answer | answer belongs to the request |
| **Sockets**, `*Socket.cpp` | `fd_`, `is_initialized_`, the process's descriptor table | send and receive loops, close, connect, accept | a message in pieces, or cut off; a closed socket keeps its descriptor number; a failed connect leaks one | a message is whole or absent; a thread reads its own connection; descriptors are released |
| **ClientTimer** | | statistics | | not part of the protocol |
| `LoadServerStub.cpp`, `LoadServerClientStub.cpp`, LoadFactory's `ExpertThread` and `erq` | | | | dead code |

Interaction: a client (or the balancer on its behalf) calls a server over a
connection; the server's engineer thread queues the order and waits for a
promise; the expert thread logs it, opens a connection to every peer, registers
(request type 4), sends the replica request, waits for the response, applies,
and fulfils the promise. A starting server calls its peers with types 5 (status)
and 6 (one log entry). The hazards all this is exposed to are listed, each at
its line, under `hazards` in `PROJECT.json`.

## Modules

| Module | What it is |
|---|---|
| `LaptopFactory` | the cluster of servers: expert and engineer threads, replication, crash, restart, recovery |
| `ReplicatedLog` | what a cluster with one production server promises, without threads and messages; `LaptopFactory` implements it |
| `LoadFactory` | the load balancer over an abstract view of the servers |
| `System` | composition: the servers of `LaptopFactory` with the order threads of the balancer |
| `ServerView` | the servers of `System` as `LoadFactory` sees them: what it assumes, compared with what they do |
| `Messages` | the five messages and their bytes |
| `Sockets` | class `Socket` over the descriptor table of one process; extends `Messages` |
| `Connections` | the threads of one server process over `Sockets`, with the stubs, the clients and the peers at the far ends |
| `LaptopFactoryProofs`, `SteadyProofs`, `ReplicatedLogProofs`, `LoadFactoryProofs`, `MessagesProofs`, `ConnectionsProofs`, `SystemProofs` | theorems and their proofs; `SteadyProofs` is about clusters with one production server, `SystemProofs` mostly about two servers behind the balancer, `ConnectionsProofs` about any server process |
| `IndexLemmas` | what the proofs share: largest and smallest index of a set, removing, dropping and prepending items of a sequence, indices modulo a length |
| `MCLaptopFactory`, `MCLoadFactory`, `MCSystem`, `MCServerView`, `MCConnections` | constant values for TLC |

The three views of a server divide the work. `LaptopFactory` has what orders do to
logs and records, and a connection is there a place for one message.
`Connections` has every thread of one process, every word on every connection
and every descriptor number, and the logs and records are any values.
`System` puts the balancer's failover in front of `LaptopFactory`, and
`LoadFactory` has the balancer's reads and cache in front of an abstract view of
the servers, which `ServerView` compares with those of `System`.

Operators marked `bug:` are plausible faults of the operator that follows them.
No specification uses them: they are there to show that each checked property
fails when the fault is put in place of the code's behaviour.

### LaptopFactory

State. One function over `Server` per field of the class, with the code's name.
Logs are 1-based, so `smr_log[i]` of the code is `smr_log[s][i+1]`. A `MapOp` is
its two arguments (the opcode is always 1). `log_file` is the file
`<factory_id>.log` and is all that outlives a process. `customer_record` maps
every id to -1 when absent, which is what a read returns. `mode` is where `main`
is: recovering, status (connected to a peer), fetch, recovered, up; or down.
A connection is `<<owner, peer, slot>>`; `eng` is the engineer thread at its
accepting end, `wire` and `msg` what is in flight, `open` whether the owner has
not closed it. A stub closed by a failed receive is `ClosedStub`.

| Action | Code |
|---|---|
| `Order` | `CreateCustomLaptop` 18-40, from a client that has no order outstanding |
| `ExpertTake` | `ExpertThread` 186-219: queue, locks, log and file, `last_index`, promotion, and `replica_stubs.clear()` (248) |
| `ExpertConnect`, `ExpertRegistered`, `ExpertConnected` | `MakeReplicaConnections` 249-263 |
| `ExpertSend`, `ExpertAcked` | the loop 221-229 with `SendReplicaRequest` |
| `ExpertFinish` | 230-241: apply, commit, unlock, promise; the engineer answers the customer |
| `EngineerRegister` | case 4, 149-156 |
| `EngineerReceive`, `EngineerAppend` | the backup loop 58-110; the test (82) and the locked part (84-101) are two steps, because the test takes no lock |
| `EngineerEof` | 66-73, and the thread's end |
| `Crash` | the process dies, with its threads and sockets |
| `Start` | `main` up to `RecoverFromLogFile` |
| `RecoverConnect`, `RecoverNobody`, `RecoverStatus`, `RecoverFetch` | `RecoverReplica` 287-327 with cases 5 and 6 of the peer's engineer, one entry per step |
| `Listen` | `main` from the expert thread to the accept loop |

Atomicity. Steps end where another thread or process can see the difference: a
message sent or received, a lock taken or released, the log written. Both locks
are held across a step only by the expert, so they are one predicate, `Locked`.
`RecoverReplica` holds the locks of a server that has no other thread yet.
`smr_log.push_back` and the write to the file are one step: a crash in between
cannot be told from one before, since memory is lost with the process.

Undefined behaviour. An index past the end of `smr_log` (`Reads`) may yield
anything. A closed descriptor number (`Socket::Close` leaves `fd_`) may or may
not be the one the next `socket()` returns (`reused` in `ExpertConnect`).

Abstracted. Descriptor numbers: `reused` stands for them where a *stub* of a dead
peer is concerned, and `EngineerEof` ends the thread in the step that finds the
connection closed; what the closed number does to *accepted* connections
meanwhile is the subject of `Connections` and of run `reused_fd`. Request types 0
and 2 change no state here and are in `Connections`. A connection breaks only
with a process.

### ReplicatedLog

An order is accepted once all earlier ones are answered (`Accept`), copied to
each live server (`Copy`) and answered when all live servers have it
(`Answer`); a server fails for good (`Fail`). What a server has applied is all
of its log or all but the last entry. `LaptopFactory!ImplementsReplicatedLog`
maps `log` to the log *files* (they outlive a crash), `applied` to
`committed_index + 1` and `live` to the servers that are up; it holds with one
production server, all servers up at the start and no restarts. The run `gap`
shows what a late start does to it, and `two_primaries` and `stale_record` what
more than one production server does.

### LoadFactory

State. The fields of the class, and `eng` for control and locals of the engineer
threads (one per connection). `lru_map` is the set of ids that have an iterator,
an iterator being the list node of its id. `recent` is a ghost: the ids in order
of use. Of the servers the balancer sees the laptops and records they return, so
they are kept as

* `history`, the orders their experts have taken, in the order of the logs;
* `applied`, how many of these each server's record shows;
* `producer`, the server that was sent an order last;
* `cluster`, what is known of the logs. They are *agreed* while all live servers
  have the same entries, but for the order in execution. When the only server
  with orders on their way dies, it is open which of the others have the last one:
  *split*. If an order is sent after that, a server dies while another has an order
  on its way, or two live servers are sent orders, they are *apart* for good,
  and a read may yield any order number or none (`Reported`). The code
  has no mechanism that settles such a difference, so nothing less would do for
  several buyers: see `stale_record`.

Within these limits an execution is as it is in the code, in pieces: the order is
logged (`Take`), other servers come up to it one by one, in any order and while
the balancer reads from them (`Replicate`), and at the end the executing server shows the
order and the others what came before (`Execute`). A backup can show the order
before its primary has executed it: a promotion sets `committed_index` to the end of
the log with the new order in it (`ServerThread.cpp:209`-214), and the request carries
that index to the backups.

| Action | Code (`LoadThread.cpp`) |
|---|---|
| `RequestOrder`, `RequestRead` | the clients' loops, `ClientThread.cpp` |
| `ConnectPrimary`, `Failover` | 35; one pass of 36-44, under `primary_server_lock` |
| `RemoveFromCache`, with `SendOrder` | 47; 48 up to the send |
| `Take`, `Replicate`, `Execute` | the server's side of 48: `ServerThread.cpp` 186-208, a backup's 82-101, and 209-241; any server may die in between |
| `Deliver`, `DeliverInvalid` | 48-51 when the laptop comes, or the connection breaks |
| `Balance` | `connect_round_robin_server` 136-151; crashed servers stay down here, so a whole call under its lock can be one step |
| `LookupHit`, `LookupMiss`, `ReadRecord`, `Fill` | 59-78; a miss keeps `cr_lock` until `Fill` |
| `NullStub` | 48 or 64 on a null `client_stub`: the process is gone |

Abstracted. One buyer per customer id (two client processes would share ids);
what two primaries do to each other (`System`'s matter); everything about the logs
once they are apart; the width of `round_robin_counter`; a request type other than 1 and 2 is only "never
answered".

### System

`System` extends `LaptopFactory` with the balancer's `primary_server_index` and
one order thread per customer (`lb`). A server's step is `LaptopFactory`'s,
`Order` excepted: that one happens when a balancer's thread sends, on the
server its stub is connected to.

| Action | Code |
|---|---|
| `LbConnect` | the request arrives and the thread connects to the primary, `LoadThread.cpp` 25-36; the index is read without its lock |
| `LbFailover` | one pass of 36-44 |
| `LbSend` | 48, up to the server's `CreateCustomLaptop` |
| `LbBroken` | 48-51 when the server died between connect and send |
| `LbNullStub` | 48 on a null stub |
| `ServerStep` | everything `LaptopFactory` does; a server that dies breaks the stubs connected to it |

### ServerView

`ServerView` has the steps of `System` and keeps `history`, `producer` and `cluster` beside it,
each changing at the step of `System` that `LoadFactory` has as an action of its own: an
order is sent in `LbSend`, taken in `ExpertTake`, executed in `ExpertFinish`, and a
server dies in `Crash`. `RecordsAsAssumed` then compares `customer_record` with
what `LoadFactory` lets a read return: a server whose lock is free shows the
history, or all of it but the last order, and all but two only while an order is in
execution or its server has died over it. Nothing is assumed once the logs have
come apart, and `history` is given up there. This is checked by TLC and not proved.

The second reason for *apart*, the death of a backup while an order is on its way to it,
is needed: the closed stub's number may go to the next stub (`reused` in
`ExpertConnect`), whose peer is then sent the order twice and logs it twice, and
without it TLC finds `RecordsAsAssumed` violated.

### Messages, Sockets, Connections

`Messages` writes `htonl`/`memcpy` as arithmetic on four bytes, and names the
fields in `Marshal` and `Unmarshal` separately, as the code does. `Sockets` is the
kernel's table and the class above it: a `Socket` object keeps a number, `fd_`,
and a connection is *behind* it only as long as the table says so. `Close`
closes the number, whatever it stands for, and leaves `fd_`; `Install` takes the
lowest free number. A `Recv` is four actions: the number is looked up
(`RecvCall`), some words come (`RecvSome`), the stream ends (`RecvEnd`), the failure
closes the socket (`RecvFail`). Between them other threads close and accept.

`Connections` has `main`, the engineers, the expert, and their far ends: client
threads with every request type of `ClientThread.cpp`, a server that replicates
to this one, a server that recovers from it, and the peers this one
replicates to. `Scenarios` says who connects and who may die in an
execution.

| Action | Code |
|---|---|
| `Accept`, `AcceptFails` | `ServerMain.cpp` 66-74 with `ServerSocket::Accept`: without a descriptor the loop, and the process, end |
| `EngineerEnd` | `ServerThread.cpp` 112-117: an invalid request, the stub is destroyed |
| `CreateRegularLaptop` | case 0 |
| `CreateCustomLaptop`, `DeliverCustomLaptop` | case 1: queue and wait for the promise; answer |
| `ReadRecord` | case 2 |
| `Register`, `BackupAppend`, `BackupEnd` | case 4; the loop 58-110, and its end (66-73), after which the thread is an ordinary engineer *on the same socket* |
| `Status`, `LogEntry` | cases 5 and 6 |
| `Undefined` | `default`: no answer |
| `ExpertTake` ... `ExpertFinish` | `ExpertThread` and `MakeReplicaConnections`, with `ServerClientSocket::Init`, `ServerClientStub` and the destructors of the last order's stubs |
| `ExpertKilled` | a `send` on a socket whose `connect` failed may raise SIGPIPE, which nothing handles |
| `RemoteConnect`, `RemoteAsk`, `RemoteAnswered`, `RemoteClose` | `ClientThread`, `ClientStub`, `ClientSocket`; the other server's expert |
| `RemoteDie`, `PeerDie`, `PeerAnswer` | the far end dies, and any part of what it sent last arrives; a peer's engineer |

Abstracted. What orders do to the log: the payload of an answer is any value of
`Payload`. Engineer and expert ids are 0. A receive that ends inside a word, and
sends in several parts, which no buffer of this program can cause. Whether a
replica request needs the locks (`LaptopFactory!EngineerReceive`).

## Runs

| Run | Question | Instance | States |
|---|---|---|---|
| `steady` | Does replication with one primary keep logs, indices and records right, also when a server dies mid-order? Does it implement ReplicatedLog? | 3 servers, 2 customers of 2 orders, 1 crash of s1 or s3 | 774,000 |
| `restart` | What holds with two primaries, crashes, restarts and recovery? | 2 servers both taking orders, 2 customers of 1 order, 2 crashes, 2 starts | 287,000 |
| `failover` | Does the cluster survive its primary behind the balancer: one server executing, nothing answered forgotten, no record taken back, every order served? Do the servers show what `LoadFactory` assumes? (fair) | 2 servers that may both die, 2 customers of 2 orders | 95,000 |
| `engineers` | Do messages arrive whole, answers belong to requests, threads keep to their connections, descriptors get released? (fair) | 4 descriptors, 5 clients of types 1, 3, 0, 7 and 4, a replicating and a recovering server, peers p and q of which q may be down | 62,000 |
| `balancer` | When is a null stub used, is an entry filled twice, is every request answered? (fair) | 3 servers that may all crash, 1 buyer of 2 orders, 2 readers | 316,000 |
| `cache` | Is the cache LRU, are list and map in step, how stale is it while the logs are together? | 3 ids, capacity 2, 4 reads; 2 servers of which 1 may crash; one buyer of 4 orders, two of 1 | 4,603,000 |
| `gap` | *fails*: `committed_index` describes the record | 2 servers, 1 starts late | |
| `two_primaries` | *fails*: every order is answered (fair) | 3 servers behind the balancer, s1 dies, 2 customers of 1 order | |
| `stale_record` | *fails*: what a server has answered and committed is in its record | 2 servers behind the balancer, s1 dies, 3 customers of 3 orders | |
| `stale_cache` | *fails*: the cache follows the orders | 1 buyer, 1 reader, no crash | |
| `failover_race` | *fails*: a live server is found | 3 servers, 2 crashes, 2 buyers | |
| `reused_fd` | *fails*: an engineer receives on its own connection only | a replicating server and a client, nobody dies | |

Deadlock checking is off everywhere: the system stops when the customers are
done, when servers are down, or when the balancer is gone.

Why the bounds are enough.

* Three servers give a primary that dies between two backups; two orders per
  customer give an order whose predecessor is being applied, which is all a
  backup ever lags; a third order repeats the second. `Slot` = 2 lets the
  connection of the last order coexist with that of the next one, the one
  overlap `MakeReplicaConnections` can produce before it waits for the peer;
  `ExpertConnect` waits for a free slot, which costs no behaviour but a third
  draining connection.
* `steady` leaves s2 out of `MayCrash`: when s2 dies while s1 registers with it,
  the connection to s3 can get the closed stub's number (`reused`), s3 is
  sent each request twice and appends it twice. s2 is the only peer after which
  another connection is made.
* `failover` has two servers, because with three the two customers' threads can
  step the index apart: that is `two_primaries`. With two servers and one of them
  dead there is only one live server to step to. With three, moreover, logs
  differ for good when the primary dies between two backups, since a replica
  request carries one entry and nobody sends the missing one; so `LogsAgree`
  is claimed in `steady` only, where nobody takes over.
* `TakeoverKeepsAnswers` and `TakeoverKeepsRecords` are about servers whose
  `last_index` is the end of the log (`InStep`). Without that condition both hold
  in `failover`, and only because its bounds are small: with a third customer or
  two more orders the new primary can execute orders enough for `stale_record` to
  happen. With the condition they hold with four orders each (3 million
  states) too, and it is the condition that the failing runs show to be missing.
* `restart` has `LogAnswers` = {TRUE}: a restart that ignores its log file and then
  refetches the log from a peer leaves the file with every order twice, so
  `DiskMirrorsMemory` is claimed for the other case only; the other properties
  of the run do not depend on it, and their theorems do not assume it.
* `balancer` has one buyer, which its fairness needs (below); two orders let the buyer
  meet its own cached record, and three crashes leave nobody.
* `cache` needs three ids for a capacity of two, or evicting the least recently used
  could not be told from evicting the other, and four orders because the bound on
  staleness is two: it is reached, and with fewer orders the property could not
  fail. `FewOrders` keeps the instance small: customer 0 orders four times and customer 1
  once, in any interleaving, customer 2 once before them, and nothing is
  explored after the logs have come apart. Without it, two buyers of four
  orders each and one read (4,853,000 states) keep the bound as well.
* `RecordsAsAssumed` is checked in `failover`, with two servers. A promoted server
  that has a backup takes three: `server_view.cfg` (with `MCServerView`) is that
  instance, with two customers of two orders and one crash of any server, cut off
  where the logs come apart. It holds there, in 2,365,000 states and two
  minutes.
* `engineers`: four descriptors do not suffice for two clients and the stubs of two
  orders, one of which leaks each time, so connecting and accepting fail too. Messages are cut at every
  word. The six scenarios pair the far ends that share something: a client
  whose order waits for peers that die, readers beside a recovering server, two
  clients on the same descriptors. The replicating server is alone in its
  scenario; with a client beside it `EngineerPerConnection` fails, which is
  `reused_fd`.

Fairness. Threads of a running process are weakly fair everywhere, the
balancer's and the peers' included, and in `Connections` a client takes an answer
that is there and notices a connection that ended. The code's threads block
only in locks, `recv`, a condition variable and a future, and all are woken;
`std::mutex` is not fair, but with finitely many requests no thread is
overtaken for ever. `LoadFactory` also lets a live server execute what it was sent.
That is the expert's fairness as long as one server at a time is sent orders; two
of them may wait for each other (`two_primaries`), so the fair run of
`LoadFactory`, `balancer`, has one buyer. Connecting, placing the next order, crashes and the
operator's restarts owe nothing.

### What the failing runs show

* `gap` (`ServerThread.cpp:99`): the peer's `last_index` is read once, and a
  server replicates to nobody who is not listening. An order executed between
  a newcomer's recovery and its `listen` is lost on it; later entries sit one
  place too early and the record is built from the wrong ones.
* `reused_fd` (`Socket.cpp:101`): `Close` leaves `fd_`. An engineer whose primary has
  dropped its connection closes the socket (66-73) and goes on to receive on the
  same object (112); `main` has meanwhile accepted the next connection under that
  number. Two threads now take turns with its words, and the first to
  fail closes it for the other.
* `two_primaries` (`ServerThread.cpp:227`, with `LoadThread.cpp:40`): the primary of
  three dies under two orders; one thread of the balancer steps the index to the
  second server, the other to the third. Both locks are held while waiting for a
  backup that needs its own locks; the two servers wait for ever.
* `stale_record` (`ServerThread.cpp:82`): a backup tests `committed_index` before it
  takes the locks. If its primary dies just then, the balancer's next orders can
  promote it and run first; then it appends the dead primary's request behind its
  own orders and takes `last_index` and `committed_index` back (98-99). The end of
  the dead primary's connection clears `primary_id` (71) though the server has
  become the primary, so its next order promotes it once more: it applies its
  log again, from the old `committed_index` up to the old `last_index`, and an old
  entry overwrites the record of an order it has answered.
* `stale_cache` (`LoadThread.cpp:47`): removal comes before the order, and nothing
  after it, so a read in between restores the old record for good. One server is
  enough. `CacheAtMostTwoBehind` says how bad it gets while the servers' logs are together.
* `failover_race` (`LoadThread.cpp:40`): two failing threads advance the shared
  index past each other's live server; one ends up with a null stub.

Seen while modelling, and not given a run: after recovery `primary_id` is the
server's own id, because the status reply echoes it (`ServerThread.cpp:159`,
300); the end of a primary's old connection clears `primary_id` after its new
registration (71); a recovered server prints that it is up to date although
orders were answered meanwhile (323); answering 0 to "recover from log?" leaves
the file with every order twice; a backup that the dead primary had not reached
never gets the order (224), not even when the dead one recovers, since recovery
compares lengths only; a stub whose peer dies under the registration is kept
(`ServerThread.cpp:262`), closed and with its number, which may go to the next stub,
whose peer then gets the order twice, or to a customer, who takes the order for the
answer to its request (the scenario `[connects |-> {C(0), C(1)}, dies |-> {p}]` of
`reused_fd.cfg` with two orders violates `AnswersMatch`; in `engineers` a peer dies
with one customer connected, so that no other can get the number); a registration is
answered with whatever laptop the engineer made last (149-156); a balancer does not answer type 0 at all (`LoadThread.cpp:81`); "Insert it at the
back" (163) inserts at the front.

## Proofs

All theorems hold for any set of servers, any peer lists, any customers and any
number of crashes and restarts, and for `LoadFactory` any threads, any capacity
and any number of requests. They assume only what the modules state of their
constants: `ServerAssumption` (a server is not its own peer and has each peer
once), `CustomerAssumption` (ids and order counts are naturals),
`BoundAssumption`, `LoadAssumption`, `SocketAssumption`, `ConnectionsAssumption` (the
client's arguments are non-negative ints, the scenarios name connections and
peers). The initial predicates allow any servers to be
up and any of them to have been first. The theorems of `SteadyProofs` assume
`Steady` besides; of those of `SystemProofs`, `OneServerExecutes` assumes
`TwoServers`, the three about a takeover assume `Pair`, and
`LoneSearchOneProducer` that nobody is restarted and `[]OneSearch`; of those of
`LoadFactoryProofs`, `LoneSearchFindsServer` assumes `[]OneSearch` and
`OneBuyerFindsServer` assumes `OneBuyer`; the last four of `ConnectionsProofs`
assume `Undisturbed` and `[]PeersRegister`. See below.

| Theorem | Says | Argument |
|---|---|---|
| `LaptopFactoryProofs!TypeCorrect` | `TypeOK`, over the whole of `LaptopFactory` | `TypeInv` adds `OrderInHand`: an expert that holds the locks has an order in its hands. Without it `ExpertFinish` could answer the initial `LostRecord`, whose customer does not exist. `ApplyType` needs `MaxOfIndices`: a nonempty set of indices has a largest one, from well-foundedness of the subset order |
| `AnsweredOrdersOnDisk` | `AckedOnDisk` | `DiskInv` adds `InHandLogged`: the order in hand is already in the log file, because `ExpertTake` writes before anything else. `LogFileGrows`: no step takes anything out of a file. `ExpertSteps`: only `ExpertTake` changes the order in hand |
| `LogFileMirrorsMemory` | `DiskMirrorsMemory`, if `LogAnswers` is within `{TRUE}` | inductive as it stands: every `push_back` comes with its write, and `Start` reads the file. The hypothesis is needed: an operator who answers 0 empties the memory and not the file |
| `NoOrderLostOrDoubled` | `OrderTracked` | `TrackInv`: everything queued or in hand is what its customer waits for at that server (`Awaited`), nothing is there twice (`QueuedOnce`, `HeldOnce`), and a waiting customer's order is somewhere (`NoneLost`). `MovingSteps` reduces the step to `Order`, `ExpertTake`, `ExpertFinish` and `Crash` |
| `RequestsOneAtATime` | `OneRequestAtATime` | `ProtocolInv` adds that a server's stubs are its own open connections (`StubsOpen`), that the stub an expert waits on is there (`StubInUse`), and that nothing is on the wire while the engineer works (`AppendQuiet`). One lemma per thread; `Crash` and a reused descriptor number are the steps that need all of them |
| `SteadyProofs!IndexIsLogEnd`, `RecordIsCommittedLog`, `BackupReadsInBounds`, `LogsArePrefixes`, `AckedByAll`, `BackupsLagByOne` | `LastIndexIsLogEnd`, `CommittedIsApplied`, `ReadsInBounds`, `LogsAgree`, `AckedEverywhere`, `BackupLagsByOne` | each from the one inductive invariant `SteadyInv`, below |
| `RecordsOnlyAdvance` | `RecordNeverGoesBack` | a record is what `Apply` makes of a prefix of the log (`Applied`), and the orders of a customer ascend in the log (`Orders`), so applying more of it can only raise the record |
| `ClusterIsReplicatedLog` | `ImplementsReplicatedLog` | `InitRefines`; `StepRefines` takes `ExpertTake` to `Accept`, `EngineerAppend` to `Copy`, `ExpertFinish` to `Answer`, `Crash` to `Fail`, and everything else to a stutter |
| `ReplicatedLogSafe` | `Safety` of `ReplicatedLog`: agreement, durability, freshness; if `Producer` is a server | `Inv` adds `Settled`: once everything in the producer's log is answered nobody is behind. Agreement alone is not inductive: `Accept` lets the producer run one entry ahead, so a server that was already one behind would fall two behind |
| `LoadFactoryProofs!TypeCorrect` | `TypeOK` of `LoadFactory` | part of `Inv`, with `Control`: whose request a thread handles where |
| `IteratorsValid`, `CacheIsLRU` | `MapMirrorsList`, `CacheIsMostRecent` | `Aligned`: `cache_list` has the ids of a prefix of `recent`, in its order, nothing in `recent` is there twice, and `lru_map` is the set of the list's ids. Get, set and remove are made of three steps that keep it: an id is taken out (`AlignedRemove`), an item is put in front (`AlignedPush`), the last item is dropped (`AlignedFront`). `AlignedSize` counts: the map is as large as the list is long, which is what set tests before it evicts. Capacity 0 is included |
| `FillAfterMiss` | `FillIsMiss` | `LockInv`: between its lookup and its fill a thread holds `cr_lock`, and its id is still not in the map: others can only remove meanwhile |
| `StalenessBounded` | `CacheAtMostTwoBehind`: the bound while the servers' logs are together, for any buyers; nothing after | `LagInv`: a buyer's orders come and are taken in number order (`RequestsInOrder`, `OrdersInOrder`); while the logs are together one server has all the orders on their way and takes them one by one (`OneServerSent`), and a live server is at most one order behind, or two while the second is in hand (`ServersLag`). So a record in the cache or in a reader's hands is at most one order old while the buyer's next order has passed the removal and is not yet taken, two otherwise (`RecentEnough`). The bound alone is not inductive: taking an order would make two into three |
| `ReadsFindServer` | a read's stub is null only when no server is left | `connect_round_robin_server` tries every server under its lock: `AllIndices`, any n steps modulo n pass by every index |
| `LoneSearchFindsServer`, `OneBuyerFindsServer` | `FindsLiveServer`, while one thread at a time fails over; with one client that orders | `Searched`, below |
| `SystemProofs!SystemTypeCorrect` | `SystemTypeOK` | `TypeInv` with the types of the balancer's threads; one lemma per step of a thread, `ConnectShows` for the two that connect |
| `OneServerExecutes` | `OneProducer`, with two servers | `BalancerInv`: nobody turns to the second server before one of the two is dead, and only servers that run have orders |
| `LoneSearchOneProducer` | `OneProducer`, with any number of servers, while one thread at a time fails over | `PointedInv`, below |
| `TakeoverKeepsLog`, `TakeoverKnowsAnswers` | `AckedEverywhere`, with a primary and one backup; `TakeoverKeepsAnswers`, of a server between two orders that is `InStep` (`last_index` is the end of its log) | `TakeoverInv`, below; `ApplyCovers`: a record is at least any order applied for its customer, since orders ascend |
| `TakeoverRecordsAdvance` | `TakeoverKeepsRecords`, with a primary and one backup, of a server that is `InStep`: false once a late request has put it out of step (`stale_record`) | `BeforeAndAfter`: a step is one of the steady cluster's, the death of the primary, or one after it; the first by `RecordsAdvance`, the last by `TakeoverAdvances` |
| `ConnectionsProofs!TypeCorrect` | `TypeOK` of `Connections` | `TypeInv` and `ToAccept`, below |
| `DescriptorsOwned` | `OnlyFailedConnectsLeak` | `OwnerInv`, below |
| `OwnConnectionOnly`, `LiveConnectionsStayOpen`, `RequestsServedAsSent`, `AnswersAreToTheQuestion` | `EngineerPerConnection`, `LiveConnectionOpen`, `ServedAsSent`, `AnswersMatch`, while no registration with a peer fails and no server replicates to this one | each from the one inductive invariant `ServerInv`, below |
| `MessagesProofs!FieldRoundTrip` | `Ntohl(Htonl(x)) = x` for all of the 2^32 integers | division by 256 three times, and the sign from the first byte |
| `RequestRoundTrip`, `LaptopRoundTrip`, `RecordRoundTrip`, `ReplicaRequestRoundTrip`, `ReplicaResponseRoundTrip` | a message is unmarshalled as it was marshalled | field by field |
| `SizesAgree` | what `Marshal` writes is as long as what the reader waits for | |

### One production server

`Steady` says which clusters `SteadyProofs` is about: customers order from one
server only, `Primary`, every server runs from the start and none is restarted, the
primary's peers are all the other servers, and of these peers only the last one
may die; the primary may die too. All but the first part is `Arranged`; the
inductive invariant needs only that and steps that take orders to the primary
(`SteadyNext`), whatever `Contact` allows. The run `steady` has such a cluster
(s1 with the peers s2 and s3, of which s3 and s1 may die), so the hypothesis is
one that states satisfy; the theorems hold for any number of servers, slots,
customers and orders. Each part is needed: with two producers or a restart logs
part for good (`stale_record`, `gap`, and the hazard at `ServerThread.cpp:302`),
and when an earlier peer dies, the stub that was closed on it can get the
descriptor of the next connection, whose peer is then sent the order twice.

None of the properties is inductive. `SteadyInv` is `TypeInv`, `TrackInv`
and `ProtocolInv` with `ReplicationInv`, which is made of

* `Shape`: only the primary's threads and connections do anything, and a server
  that has died has nothing in its hands;
* `Copies`, `Applied`, `Orders`, `Answered`: each log is the primary's up to some
  point, at most one entry shorter while its server runs, each record is that of
  the committed entries, a customer's orders ascend, answered orders are
  everywhere. These imply the properties;
* `Requests`: what is in flight is the primary's last entry, on its way to a
  backup without it, and there is one such request at most. Without it an append
  could be anything;
* `StubsInv`, `Drained`, `Progress`: who has the last entry at each point of the
  expert's loop: everybody between two orders, nobody while it connects, then
  the backups whose turn has been. To know that nobody is left out, the stubs must
  cover every running peer, each once; to know that nobody is sent it twice,
  nothing may be left on a closed connection. These are why the next order finds
  nobody behind.

`NextSteady` has a lemma for each action and, under it, for the part of the
invariant that the action disturbs. What `Apply` does is needed only in steps:
applying a prefix and then the rest is applying all (`ApplyTwice`), one entry
more sets one customer's record (`ApplyLast`). Both follow from its definition by the largest
index of a set, without induction.

### The search for a server

The failover loop counts its attempts, but the index that it advances is shared,
and `ConnectPrimary` reads it without the lock. What one search needs is that the
index has not passed anybody: `Searched` says that every live server is fewer
steps ahead of the index (`Ahead`) than the searching thread has attempts left.
A step of the index brings each live server one step nearer or is one onto a
live server (`NextIndex`), so after the last attempt there is none. A thread
that is not in the loop leaves the index alone, and a server that dies only
removes a demand. Another thread in the loop is what breaks it, by stepping
past a server that the first has yet to reach, and `OneSearch` says just that
this does not happen: any number of threads may wait with a null stub or find a live
server meanwhile, and any number of servers may have died. Overlapping searches are
therefore all that `failover_race` is about. With one buyer there is one
search at a time, which is the instance of `balancer`, where TLC found the property to
hold; with two buyers it is an assumption about timing.

The same hypothesis is what separates `two_primaries` from a cluster that works.
`PointedInv` says that all orders, those on their way included, are at the
server that the index points at, and that a thread in the loop has found that
server dead. So the index leaves only a server that has no order and, without
restarts, never gets one again. A second search may have seen the server dead
that the index pointed at before, and leave one that runs and has orders.

### Two servers behind the balancer

`TwoServers`: the balancer has two replicas, and no server is restarted. `Pair`
adds that these are the whole cluster, and `Arranged`, with the first of the balancer's
replicas as the primary. The run `failover` has such a cluster, in which both may
die; the theorems hold for any number of customers, orders and slots. The
hypotheses are needed: with three servers `OneProducer` fails
(`two_primaries`), and a server that restarts is one whose log may differ for good.

`BalancerInv` says that both the shared index and every thread point at
the first server as long as both run: a connect fails, and the index moves, only
after a death. So until then customers order from one server, whatever `Contact`
allows, and the steps of the cluster are those of `SteadyNext`: `SteadyInv`
holds as it is, with `Unregistered`: the backup takes itself for the primary only
while it has nothing. If the backup dies first, nothing more happens.

When the first server dies, `FirstDies` hands over to `TakenOver`, an invariant about
the one server left. It has to say what is left on the way from the dead one
(`LastRequest`): one replica request at most, which is the entry that
the survivor lacks and can still come to it, but may also come after the
survivor has begun with orders of its own. Then `EngineerAppend` takes `last_index` back behind
the end of the log, and after that the record may lack orders until the
end (`stale_record`). `RecordKept` and the order of the entries are therefore
claimed only as long as `last_index` is the end of the log (`InStep`), while
the logged answers (`AnswersKept`) and the order of what is queued
(`OrdersKept`) hold throughout. `TakeoverInv` is a disjunction, before and
after the death, and each of the survivor's actions has a lemma (`TakeKeeps`, `FinishKeeps`,
`RegisterKeeps`, `ReceiveKeeps`, `AppendKeeps`, `WaitsKeeps`, `SentKeeps`).

### One server process

The types of `Connections` are not inductive by themselves. `TypeInv` adds what
each thread is at: `EngineerCalls` and `ExpertCalls` say which call a thread can
have open in each of its roles, so that a call returns to the code that made it;
`BufferFits`, that a receive never has more than was asked for, so that what it
returns is empty or whole; `Queued`, that the backlog and `erq` hold connections
and each once; `Asking`, that a far end which waits for an answer has made a
request. `ToAccept` says that what waits in the backlog has no engineer and no
descriptor yet. The lengths and the 32-bit range of whatever is sent come from the
lemmas about `Marshal` in `MessagesProofs`, so that no script of a client, of
a replicating server or of a recovering one sends a word that is not one.

`OnlyFailedConnectsLeak` relates the table to the objects, and needs an invariant
about numbers that are used again, `OwnerInv`: an open connection stands under
the number its own object holds, though closed objects may hold it too (`Held`);
an object that is still to be opened, an engineer's before `Accept` or a stub
before its connect, never held a number and is not in the table (`ToOpen`); what
is open and initialized is in the hands of an engineer that has not ended or
belongs to the expert's list or call (`Owned`). Steps come in two kinds: those
that open nothing (`Shrinks`: `CloseShrinks`, `SendShrinks`, `RecvShrinks`) keep
`Held` and `ToOpen` whatever they close, even a number that by now is another's,
and `Install` opens one fresh object (`InstallOpens`). What is left is
that whoever drops an object has closed it before (`EngineerOwns`, `ExpertOwns`).

What customers and recovering servers are served with depends on who else is
connected, as `reused_fd` and the remark on `ServerThread.cpp:262` above show: an
engineer that was a backup, or a stub whose peer died under the registration, goes on
using a number it has closed. The two hypotheses leave out exactly these:
`Undisturbed` says that no other server replicates to this one, `PeersRegister` that
the receive of a registration does not fail (`ServerThread.cpp:249`-263). Customers and
recovering servers still connect and die whenever they like, peers may be down from
the start and leak their descriptors, they may die at any other moment, before the
expert connects, between two orders, while an order is on its way to them or
awaited, and all threads open and close descriptors of one table. Without
`PeersRegister` TLC finds each of the four properties violated once two or three
customers connect, without `Undisturbed` it finds `EngineerPerConnection` violated.
`PeersRegister` is a condition on the behaviour and not on the constants;
`LivingPeersRegister` shows that it holds wherever no peer dies (`NoPeerDies`), so
those clusters are a special case.

`CalmInv` has two halves. The first is about numbers: an engineer that has not lost
its connection still has its number (`Own`), it loses it only when its far end is
closed and everything sent was received (`EngineerOpen`), and of the expert's stubs
those that the order is still to be sent on (`ToSend`) and the one its call is about
(`InUse`) have theirs (`StubsOpen`). A stub is in the list once (`StubsDiffer`), so
the one that is closed when its peer dies while the order is awaited is not
among those still to be used; after a failed registration it would be, for
it is pushed onto the list all the same. So whoever closes closes its own
(`CloseSpares`), the close after a failed receive included: the thread ends without
using the object again, and the destructor, which looks at `is_initialized_`, leaves
the number alone, which may by then be another's. The second half follows one
request (`Exchange`): what is in the engineer's buffer and still arriving is, in this order, the beginning of the
request asked last, and then nothing is on its way back; what is on its way back
is the answer to it, and then nothing is left of the request; an order that
waits for the expert is the one its customer waits for. There is one lemma about
`Exchange` for each thing that can happen to it (`ExchangeAsks`,
`ExchangeReceives`, `ExchangeReplies`, `ExchangeAnswered`, `ExchangeDrops`,
`ExchangeEnds`, `ExchangeRole`), stated of the two ends and the words between them
alone, and one lemma per action that says which of them it is. A recovering
server that asks for a log entry may get it under any payload, so `AnswersMatch`
is about customers only; a customer of type 6 waits for a laptop that
never becomes complete, and so never reads one.

### What is not proved

Liveness and anything with `ENABLED` is beyond the prover and stays with TLC:
`OrderServed`, the two `RequestAnswered`, `DescriptorReleased`. `FindsLiveServer` with
several servers and overlapping searches is false (see `failover_race`). Takeovers with
more than one backup and with restarts are only model-checked, as far as they
hold, and so is what `LoadFactory` assumes of the servers (`RecordsAsAssumed`). So is what a server is served with that replicates to this one, and that a
peer that dies under its registration does not disturb a server with one customer.

## Plan

1. (done) `LaptopFactory`, `ReplicatedLog`, `LoadFactory` with their runs and
   first theorems.
2. (done) `Messages`, `Sockets`, `Connections`: bytes, pieces, descriptors, all
   request types.
3. (done) `System`: the balancer's failover in front of the cluster.
4. (done) The cache and the staleness bound of `LoadFactory` proved; the round
   trips of `Messages` proved.
5. (done) Proofs: the invariants of `steady` and the refinement of
   `ReplicatedLog` for one production server; types, one producer and the
   takeover for two servers behind the balancer.
6. (done) Proofs: types and descriptors of `Connections`.
7. (done) Proofs: what is received and answered over `Connections`
   (`EngineerPerConnection`, `LiveConnectionOpen`, `ServedAsSent`,
   `AnswersMatch`), undisturbed, with peers that die.
8. (done) Proofs: the failover loop for any number of servers, one search at
   a time (`FindsLiveServer`, `OneProducer`).
9. Proofs: the connection of a server that replicates to this one, as long as
   it is the only one; takeovers with more than one backup; what `LoadFactory`
   assumes of the servers (`RecordsAsAssumed`) for any number of them.

## Not modelled

`ClientTimer`, the Makefile and the compiled binaries, `LoadServerStub`,
`LoadServerClientStub`, and LoadFactory's `ExpertThread` and `erq`: no effect on the
protocol, or never called. Sends in several parts (messages are shorter than any
send buffer), Nagle's option, the place inside a word where a receive breaks
off; connections lost without the death of a process at either end; the width
of `round_robin_counter`, which takes 2^31 reads to matter. Two clients that use
the same customer ids.
