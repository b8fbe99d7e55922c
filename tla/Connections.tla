----------------------------- MODULE Connections -----------------------------
(***************************************************************************)
(* The connections of one server process: main accepts them, an engineer   *)
(* thread serves each, and the expert thread opens connections of its own  *)
(* to the peers for every order, all from one table of descriptors.        *)
(*                                                                         *)
(* The far ends are the threads of a client process (ClientThread.cpp),    *)
(* another server that replicates its orders to this one, and the peers    *)
(* this server replicates to.  Any of them may die at any moment, with     *)
(* part of what it sent never arriving.                                    *)
(*                                                                         *)
(* What orders do to logs and records is LaptopFactory's subject: here an  *)
(* answer's payload is any value of Payload.                               *)
(***************************************************************************)
EXTENDS Sockets

CONSTANTS
  num_customers, num_orders,  \* the client's arguments
  request_type,               \* the request type each thread was started with
  NumReplications,            \* orders the other server replicates to this one
  NumEntries,                 \* log entries a recovering server finds to fetch
  Peers,                      \* this server's replicas, in AddReplica order
  DownPeers,                  \* the peers that are not running
  Scenarios,                  \* bound: who connects, and who may die
  Payload,                    \* what a record or a log entry may hold
  Backlog,                    \* connections that may wait for accept (8)
  MaxOrders                   \* bound on the orders the expert executes

\* A thread of a client, the other server's connection for its k-th order, a
\* recovering server, and this server's stub for a peer in its k-th order.
Customer    == {<<"customer", i>> : i \in 0 .. num_customers - 1}
Replication == {<<"replication", k>> : k \in 0 .. NumReplications - 1}
Recovery    == <<"recovery">>
Conn        == Customer \cup Replication \cup {Recovery}
Stub        == {<<"stub", p, k>> : p \in Range(Peers), k \in 1 .. MaxOrders}
Expert      == <<"expert">>

ASSUME ConnectionsAssumption ==
  /\ {num_customers, num_orders, NumReplications, NumEntries} \subseteq 0 .. INT_MAX
  /\ request_type \in [0 .. num_customers - 1 -> 0 .. INT_MAX]
  /\ Peers \in Seq(Range(Peers)) /\ IsInjective(Peers)
  /\ DownPeers \subseteq Range(Peers)
  /\ \A sc \in Scenarios : /\ sc.connects \subseteq Conn
                           /\ sc.dies \subseteq Conn \cup Range(Peers)
  /\ Payload \subseteq Int32 /\ Payload # {} /\ Backlog \in Nat /\ MaxOrders \in Nat
  /\ Socket = Conn \cup Stub /\ Thread = Conn \cup {Expert}

VARIABLES
  running,      \* this process: main has not returned
  backlog,      \* connections made and not yet accepted
  eng,          \* role of each engineer thread, and its local laptop
  erq,          \* engineers whose order waits for the expert
  expert,       \* control of the expert thread, its order, how many so far
  replica_stubs,
  alive,        \* the peers that are running
  registered,   \* the stubs whose peer has become a backup
  remote,       \* the far end of each accepted connection
  mortal        \* the far ends that may die

servervars == <<running, backlog, eng, erq, expert, replica_stubs>>
vars == <<sockvars, servervars, alive, registered, remote, mortal>>

Engineer == [role : {"none", "order", "backup", "waiting", "deliver", "ended"},
             laptop : LaptopInfo]
ExpertState == [pc : {"idle", "connect", "register", "send", "await"},
                i : Nat, order : Conn \cup {NoSocket}, k : Nat]
\* n: how many requests it made; answer: to the last of them, once it is there.
Remote == [pc : {"new", "ask", "await", "done", "closed"}, n : Nat,
           answer : Seq(Word)]

Init ==
  /\ SocketInit
  /\ running = TRUE /\ backlog = <<>>
  /\ eng = [c \in Conn |-> [role |-> "none", laptop |-> NoLaptopInfo]]
  /\ erq = <<>>
  /\ expert = [pc |-> "idle", i |-> 1, order |-> NoSocket, k |-> 0]
  /\ replica_stubs = <<>>
  /\ alive = Range(Peers) \ DownPeers /\ registered = {}
  /\ \E sc \in Scenarios :
       /\ remote = [c \in Conn |-> [pc |-> IF c \in sc.connects THEN "new" ELSE "closed",
                                   n |-> 0, answer |-> <<>>]]
       /\ mortal = sc.dies

-----------------------------------------------------------------------------
(* What the far ends ask for. *)

Request(id, number, type, size) ==
  [words |-> MarshalRequest([customer_id |-> id, order_number |-> number,
                             request_type |-> type]),
   answer |-> size]

(* ClientThread's requests by type: 2 asks for one customer (num_orders is *)
(* its id), 3 for the thread's share of them, 4 for all upwards and down   *)
(* again; any other type orders.                                           *)
CustomerRequests(id) ==
  LET type == request_type[id]
      Read(i) == Request(i, 0, 2, RecordSize)
      \* the i below num_orders with i % num_customers = id
      share == [i \in 1 .. (num_orders - id + num_customers - 1) \div num_customers |->
                  id + (i - 1) * num_customers]
      upward == [i \in 1 .. num_orders + 1 |-> i - 1]
      asked == CASE type = 2 -> <<num_orders>>
                 [] type = 3 -> share
                 [] type = 4 -> upward \o Reverse(upward)
                 [] OTHER -> <<>>
  IN IF type \in {2, 3, 4} THEN [i \in DOMAIN asked |-> Read(asked[i])]
     ELSE [i \in 1 .. num_orders |-> Request(id, i - 1, type, LaptopSize)]

\* The words of a replica request; a peer's id and index are all that varies.
Replicate(id, k) ==
  MarshalReplicaRequest([factory_id |-> id, committed_index |-> k - 1,
                         last_index |-> k, opcode |-> 1, arg1 |-> 0, arg2 |-> k])

\* The other server's id is 1, this one's 2.  For each order: a registration
\* and the order.  On recovery: the status, and the entries one by one.
ReplicationRequests(k) ==
  <<Request(1, 0, 4, LaptopSize),
    [words |-> Replicate(1, k), answer |-> ReplicaResponseSize]>>
RecoveryRequests ==
  <<Request(1, -1, 5, LaptopSize)>>
    \o [i \in 1 .. NumEntries |-> Request(1, i - 1, 6, RecordSize)]

Script == [c \in Conn |-> CASE c \in Customer    -> CustomerRequests(c[2])
                           [] c \in Replication -> ReplicationRequests(c[2])
                           [] c = Recovery      -> RecoveryRequests]

\* The answer the far end waits for now.
Wanted(c) == Script[c][remote[c].n].answer

-----------------------------------------------------------------------------
(* The far ends of accepted connections: ClientThread with ClientStub and  *)
(* ClientSocket, and the other server's expert with ServerClientStub.  One *)
(* request, one answer; whatever goes wrong closes the socket.  The other  *)
(* server drops an order's connection before it makes the next one.        *)
Turn(c) == c \in Replication /\ c[2] > 0 =>
             remote[<<"replication", c[2] - 1>>].pc = "closed"

RemoteConnect(c) ==
  /\ remote[c].pc = "new" /\ Turn(c)
  /\ running /\ Len(backlog) < Backlog
  /\ backlog' = Append(backlog, c)
  /\ remote' = [remote EXCEPT ![c].pc = "ask"]
  /\ UNCHANGED <<sockvars, running, eng, erq, expert, replica_stubs,
                 alive, registered, mortal>>

RemoteAsk(c) ==
  /\ remote[c].pc = "ask" /\ remote[c].n < Len(Script[c])
  /\ arriving' = IF shut[c] \/ ~running THEN arriving
                 ELSE [arriving EXCEPT ![c] = @ \o Script[c][remote[c].n + 1].words]
  /\ remote' = [remote EXCEPT ![c] = [pc |-> "await", n |-> @.n + 1, answer |-> <<>>]]
  /\ UNCHANGED <<table, fd_, is_initialized_, leaving, over, shut, call,
                 servervars, alive, registered, mortal>>

(* The whole answer is there.  ClientThread stops ordering at an invalid   *)
(* laptop.                                                                 *)
RemoteAnswered(c) ==
  /\ remote[c].pc = "await" /\ Len(leaving[c]) >= Wanted(c)
  /\ LET answer == SubSeq(leaving[c], 1, Wanted(c))
         stop   == /\ Wanted(c) = LaptopSize /\ c \in Customer
                   /\ ~LaptopIsValid(UnmarshalLaptop(answer))
     IN remote' = [remote EXCEPT ![c].pc = IF stop THEN "done" ELSE "ask",
                                 ![c].answer = answer]
  /\ leaving' = [leaving EXCEPT ![c] = SubSeq(@, Wanted(c) + 1, Len(@))]
  /\ UNCHANGED <<table, fd_, is_initialized_, arriving, over, shut, call,
                 servervars, alive, registered, mortal>>

(* Closed by this end before the answer was complete; or all is done.  A   *)
(* reader of ClientThread goes on asking over the socket that its failed   *)
(* Recv closed.  That is left out: the connection is gone, and only a      *)
(* thread of the client's own process can have got its number.             *)
RemoteClose(c) ==
  /\ \/ /\ remote[c].pc = "await" /\ Len(leaving[c]) < Wanted(c)
        /\ shut[c] \/ ~running
     \/ remote[c].pc = "ask" /\ remote[c].n = Len(Script[c])
     \/ remote[c].pc = "done"
  /\ remote' = [remote EXCEPT ![c].pc = "closed"]
  /\ over' = [over EXCEPT ![c] = TRUE]
  /\ UNCHANGED <<table, fd_, is_initialized_, arriving, leaving, shut, call,
                 servervars, alive, registered, mortal>>

\* What it sent last may arrive in part or not at all.
RemoteDie(c) ==
  /\ remote[c].pc \in {"ask", "await"} /\ c \in mortal
  /\ remote' = [remote EXCEPT ![c].pc = "closed"]
  /\ over' = [over EXCEPT ![c] = TRUE]
  /\ \E n \in 0 .. Len(arriving[c]) :
       arriving' = [arriving EXCEPT ![c] = SubSeq(@, 1, n)]
  /\ UNCHANGED <<table, fd_, is_initialized_, leaving, shut, call, servervars,
                 alive, registered, mortal>>

-----------------------------------------------------------------------------
(* A peer: its engineer answers the registration, then replica requests.   *)
PeerAnswer(s) ==
  /\ s[2] \in alive /\ ~over[s]
  /\ LET size   == IF s \in registered THEN ReplicaRequestSize ELSE RequestSize
         answer == IF s \in registered THEN MarshalReplicaResponse([status |-> 1])
                   ELSE MarshalLaptop(NoLaptopInfo)
     IN /\ Len(leaving[s]) >= size
        /\ leaving' = [leaving EXCEPT ![s] = SubSeq(@, size + 1, Len(@))]
        /\ arriving' = [arriving EXCEPT ![s] = @ \o answer]
  /\ registered' = registered \cup {s}
  /\ UNCHANGED <<table, fd_, is_initialized_, over, shut, call, servervars,
                 alive, remote, mortal>>

PeerDie(p) ==
  /\ p \in alive \cap mortal
  /\ alive' = alive \ {p}
  /\ over' = [s \in Socket |-> over[s] \/ (s \in Stub /\ s[2] = p)]
  /\ UNCHANGED <<table, fd_, is_initialized_, arriving, leaving, shut, call,
                 servervars, registered, remote, mortal>>

-----------------------------------------------------------------------------
(* main.  An accept that finds no descriptor ends the loop and with it the *)
(* process.                                                                *)
Accept ==
  /\ running /\ backlog # <<>> /\ FreeFds # {}
  /\ LET c == Head(backlog)
     IN /\ Install(c, TRUE)
        /\ eng' = [eng EXCEPT ![c].role = "order"]
        /\ call' = Receive(c, c, RequestSize)
  /\ backlog' = Tail(backlog)
  /\ UNCHANGED <<arriving, leaving, over, shut, running, erq, expert,
                 replica_stubs, alive, registered, remote, mortal>>

AcceptFails ==
  /\ running /\ backlog # <<>> /\ FreeFds = {}
  /\ running' = FALSE
  /\ UNCHANGED <<sockvars, backlog, eng, erq, expert, replica_stubs, alive,
                 registered, remote, mortal>>

-----------------------------------------------------------------------------
(* EngineerThread: what ReceiveRequest and ReceiveReplicaRequest return.   *)
Has(c, role) == running /\ eng[c].role = role /\ call[c].pc = "returned"
Got(c) == IF call[c].buffer = <<>> THEN NoCustomerRequest
          ELSE UnmarshalRequest(call[c].buffer)
GotReplica(c) == IF call[c].buffer = <<>> THEN NoReplicaRequest
                 ELSE UnmarshalReplicaRequest(call[c].buffer)

\* Whoever holds cr_lock across calls is the expert.
LocksFree == expert.pc = "idle"

\* What an engineer's action leaves alone, whatever it answers.
EngineerRest == <<fd_, arriving, over, running, backlog, expert, replica_stubs,
                  alive, registered, remote, mortal>>

(* Answers, and goes back to receiving.                                    *)
Reply(c, words, role, laptop) ==
  /\ Send(c, words)
  /\ call' = Receive(c, c, IF role = "backup" THEN ReplicaRequestSize ELSE RequestSize)
  /\ eng' = [eng EXCEPT ![c] = [role |-> role, laptop |-> laptop]]

\* The answer to a request, from the engineer and an expert (or -1).
Laptop(c, request, expert_id) ==
  [customer_id |-> request.customer_id, order_number |-> request.order_number,
   request_type |-> request.request_type, engineer_id |-> 0,
   admin_id |-> expert_id]

EngineerGoesOn(c) ==            \* bug: continue for break
  /\ Has(c, "order") /\ ~RequestIsValid(Got(c))
  /\ call' = Receive(c, c, RequestSize)
  /\ UNCHANGED <<EngineerRest, table, is_initialized_, leaving, shut, eng, erq>>
(* The connection is broken: the thread ends and destroys its stub.        *)
EngineerEnd(c) ==
  /\ Has(c, "order") /\ ~RequestIsValid(Got(c))
  /\ Destroy({c})
  /\ call' = Returned(c)
  /\ eng' = [eng EXCEPT ![c].role = "ended"]
  /\ UNCHANGED <<EngineerRest, leaving, erq>>

CreateRegularLaptop(c) ==
  /\ Has(c, "order") /\ RequestIsValid(Got(c)) /\ Got(c).request_type = 0
  /\ LET laptop == Laptop(c, Got(c), -1)
     IN Reply(c, MarshalLaptop(laptop), "order", laptop)
  /\ UNCHANGED <<EngineerRest, erq>>

(* The order is queued; the engineer waits for the promise.                *)
CreateCustomLaptop(c) ==
  /\ Has(c, "order") /\ RequestIsValid(Got(c)) /\ Got(c).request_type = 1
  /\ erq' = Append(erq, c)
  /\ eng' = [eng EXCEPT ![c] = [role |-> "waiting", laptop |-> Laptop(c, Got(c), 0)]]
  /\ call' = Returned(c)
  /\ UNCHANGED <<EngineerRest, table, is_initialized_, leaving, shut>>

DeliverCustomLaptop(c) ==
  /\ running /\ eng[c].role = "deliver"
  /\ Reply(c, MarshalLaptop(eng[c].laptop), "order", eng[c].laptop)
  /\ UNCHANGED <<EngineerRest, erq>>

ReadOther(c) ==                 \* bug: the record of the last customer asked for
  /\ Has(c, "order") /\ RequestIsValid(Got(c)) /\ Got(c).request_type = 2
  /\ LocksFree
  /\ \E n \in Payload :
       Reply(c, MarshalRecord([customer_id |-> eng[c].laptop.customer_id,
                               last_order |-> n]),
             "order", eng[c].laptop)
  /\ UNCHANGED <<EngineerRest, erq>>
(* The last order in the customer's record, or -1.                         *)
ReadRecord(c) ==
  /\ Has(c, "order") /\ RequestIsValid(Got(c)) /\ Got(c).request_type = 2
  /\ LocksFree
  /\ \E n \in Payload :
       Reply(c, MarshalRecord([customer_id |-> Got(c).customer_id, last_order |-> n]),
             "order", eng[c].laptop)
  /\ UNCHANGED <<EngineerRest, erq>>

(* From now on a backup of the sender; answered with whatever laptop the   *)
(* thread made last.                                                       *)
Register(c) ==
  /\ Has(c, "order") /\ RequestIsValid(Got(c)) /\ Got(c).request_type = 4
  /\ Reply(c, MarshalLaptop(eng[c].laptop), "backup", eng[c].laptop)
  /\ UNCHANGED <<EngineerRest, erq>>

(* Any other type is not answered.                                         *)
Undefined(c) ==
  /\ Has(c, "order") /\ RequestIsValid(Got(c))
  /\ Got(c).request_type \notin {0, 1, 2, 4, 5, 6}
  /\ call' = Receive(c, c, RequestSize)
  /\ UNCHANGED <<EngineerRest, table, is_initialized_, leaving, shut, eng, erq>>

(* What a recovering server asks: the last index and the primary's id, in  *)
(* a laptop, and one entry of the log.                                     *)
Status(c) ==
  /\ Has(c, "order") /\ RequestIsValid(Got(c)) /\ Got(c).request_type = 5
  /\ \E last_index, primary_id \in Payload :
       LET laptop == [customer_id |-> Got(c).customer_id, order_number |-> last_index,
                      request_type |-> primary_id, engineer_id |-> 0, admin_id |-> 0]
       IN Reply(c, MarshalLaptop(laptop), "order", laptop)
  /\ UNCHANGED <<EngineerRest, erq>>

LogEntry(c) ==
  /\ Has(c, "order") /\ RequestIsValid(Got(c)) /\ Got(c).request_type = 6
  /\ LocksFree
  /\ \E arg1, arg2 \in Payload :
       Reply(c, MarshalRecord([customer_id |-> arg1, last_order |-> arg2]),
             "order", eng[c].laptop)
  /\ UNCHANGED <<EngineerRest, erq>>

(* A replica request.  Whether it is ahead of the log, and so needs the    *)
(* locks, is LaptopFactory's subject.                                      *)
BackupAppend(c) ==
  /\ Has(c, "backup") /\ ReplicaRequestIsValid(GotReplica(c))
  /\ Reply(c, MarshalReplicaResponse([status |-> 1]), "backup", eng[c].laptop)
  /\ UNCHANGED <<EngineerRest, erq>>

(* The primary is gone: an ordinary engineer again, on the same socket.    *)
BackupEnd(c) ==
  /\ Has(c, "backup") /\ ~ReplicaRequestIsValid(GotReplica(c))
  /\ eng' = [eng EXCEPT ![c].role = "order"]
  /\ call' = Receive(c, c, RequestSize)
  /\ UNCHANGED <<EngineerRest, table, is_initialized_, leaving, shut, erq>>

EngineerThread(c) ==
  \/ EngineerEnd(c) \/ CreateRegularLaptop(c) \/ CreateCustomLaptop(c)
  \/ DeliverCustomLaptop(c) \/ ReadRecord(c) \/ Register(c) \/ Status(c)
  \/ LogEntry(c) \/ Undefined(c) \/ BackupAppend(c) \/ BackupEnd(c)
  \/ running /\ Recv(c) /\ UNCHANGED <<servervars, alive, registered, remote, mortal>>

-----------------------------------------------------------------------------
(* ExpertThread with MakeReplicaConnections: the last order's stubs go,    *)
(* each peer is connected and registered with, each stub kept gets the     *)
(* order.                                                                  *)
ExpertRest == <<arriving, over, running, backlog, alive, registered, remote, mortal>>

ExpertTake ==
  /\ running /\ expert.pc = "idle" /\ erq # <<>> /\ expert.k < MaxOrders
  /\ Destroy(Range(replica_stubs))
  /\ replica_stubs' = <<>> /\ erq' = Tail(erq)
  /\ expert' = [pc |-> "connect", i |-> 1, order |-> Head(erq), k |-> expert.k + 1]
  /\ UNCHANGED <<ExpertRest, fd_, leaving, call, eng>>

\* ServerClientSocket::Init, and if it succeeds the registration.  Where
\* connect fails the descriptor stays open.
ExpertConnect ==
  /\ running /\ expert.pc = "connect" /\ expert.i <= Len(Peers)
  /\ LET s == <<"stub", Peers[expert.i], expert.k>>
     IN \/ /\ FreeFds = {}
           /\ expert' = [expert EXCEPT !.i = @ + 1]
           /\ UNCHANGED <<table, fd_, is_initialized_, leaving, call>>
        \/ /\ FreeFds # {} /\ Peers[expert.i] \notin alive
           /\ Install(s, FALSE)
           /\ expert' = [expert EXCEPT !.i = @ + 1]
           /\ UNCHANGED <<leaving, call>>
        \/ /\ FreeFds # {} /\ Peers[expert.i] \in alive
           /\ Install(s, TRUE)
           /\ leaving' = [leaving EXCEPT ![s] = Request(2, 0, 4, LaptopSize).words]
           /\ call' = Receive(Expert, s, LaptopSize)
           /\ expert' = [expert EXCEPT !.pc = "register"]
  /\ UNCHANGED <<ExpertRest, shut, eng, erq, replica_stubs>>

\* Answered or not, the stub is kept.
ExpertRegistered ==
  /\ running /\ expert.pc = "register" /\ call[Expert].pc = "returned"
  /\ replica_stubs' = Append(replica_stubs, call[Expert].on)
  /\ call' = Returned(Expert)
  /\ expert' = [expert EXCEPT !.pc = "connect", !.i = @ + 1]
  /\ UNCHANGED <<ExpertRest, table, fd_, is_initialized_, leaving, shut, eng, erq>>

ExpertConnected ==
  /\ running /\ expert.pc = "connect" /\ expert.i > Len(Peers)
  /\ expert' = [expert EXCEPT !.pc = "send", !.i = 1]
  /\ UNCHANGED <<sockvars, ExpertRest, eng, erq, replica_stubs>>

\* SendReplicaRequest: no answer is awaited where the send failed.
ExpertSend ==
  /\ running /\ expert.pc = "send" /\ expert.i <= Len(replica_stubs)
  /\ LET s == replica_stubs[expert.i]
     IN /\ Send(s, Replicate(2, expert.k))
        /\ IF ~Reaches(s)
           THEN /\ expert' = [expert EXCEPT !.i = @ + 1]
                /\ UNCHANGED call
           ELSE /\ expert' = [expert EXCEPT !.pc = "await"]
                /\ call' = Receive(Expert, s, ReplicaResponseSize)
  /\ UNCHANGED <<ExpertRest, fd_, eng, erq, replica_stubs>>

\* Nothing handles SIGPIPE: the process ends.
ExpertKilled ==
  /\ running /\ expert.pc = "send" /\ expert.i <= Len(replica_stubs)
  /\ BrokenPipe(replica_stubs[expert.i])
  /\ running' = FALSE
  /\ UNCHANGED <<sockvars, backlog, eng, erq, expert, replica_stubs, alive,
                 registered, remote, mortal>>

ExpertAcked ==
  /\ running /\ expert.pc = "await" /\ call[Expert].pc = "returned"
  /\ call' = Returned(Expert)
  /\ expert' = [expert EXCEPT !.pc = "send", !.i = @ + 1]
  /\ UNCHANGED <<ExpertRest, table, fd_, is_initialized_, leaving, shut, eng, erq,
                 replica_stubs>>

ExpertNeedsBackup ==            \* bug: no answer without a backup
  /\ running /\ expert.pc = "send" /\ expert.i > Len(replica_stubs)
  /\ replica_stubs # <<>>
  /\ eng' = [eng EXCEPT ![expert.order].role = "deliver"]
  /\ expert' = [expert EXCEPT !.pc = "idle", !.order = NoSocket]
  /\ UNCHANGED <<sockvars, ExpertRest, erq, replica_stubs>>
\* The promise is kept and the engineer goes on.
ExpertFinish ==
  /\ running /\ expert.pc = "send" /\ expert.i > Len(replica_stubs)
  /\ eng' = [eng EXCEPT ![expert.order].role = "deliver"]
  /\ expert' = [expert EXCEPT !.pc = "idle", !.order = NoSocket]
  /\ UNCHANGED <<sockvars, ExpertRest, erq, replica_stubs>>

ExpertThread ==
  \/ ExpertTake \/ ExpertConnect \/ ExpertRegistered \/ ExpertConnected
  \/ ExpertSend \/ ExpertKilled \/ ExpertAcked \/ ExpertFinish
  \/ running /\ Recv(Expert) /\ UNCHANGED <<servervars, alive, registered, remote, mortal>>

-----------------------------------------------------------------------------
Main == Accept \/ AcceptFails

Next ==
  \/ Main \/ ExpertThread
  \/ \E c \in Conn : \/ EngineerThread(c) \/ RemoteConnect(c) \/ RemoteAsk(c)
                     \/ RemoteAnswered(c) \/ RemoteClose(c) \/ RemoteDie(c)
  \/ \E s \in Stub : PeerAnswer(s)
  \/ \E p \in Range(Peers) : PeerDie(p)

Spec == Init /\ [][Next]_vars

(* Threads that can go on do so, here, in the peers and in a client that   *)
(* has its answer or lost its connection.  Nobody need connect, ask for    *)
(* more, or die.                                                           *)
Fairness ==
  /\ WF_vars(Main) /\ WF_vars(ExpertThread)
  /\ \A c \in Conn : /\ WF_vars(EngineerThread(c))
                     /\ WF_vars(RemoteAnswered(c) \/ RemoteClose(c))
  /\ \A s \in Stub : WF_vars(PeerAnswer(s))

FairSpec == Spec /\ Fairness

-----------------------------------------------------------------------------
TypeOK ==
  /\ SocketTypeOK
  /\ running \in BOOLEAN /\ backlog \in Seq(Conn)
  /\ eng \in [Conn -> Engineer] /\ erq \in Seq(Conn) /\ expert \in ExpertState
  /\ replica_stubs \in Seq(Stub) /\ registered \subseteq Stub
  /\ alive \subseteq Range(Peers) /\ remote \in [Conn -> Remote]

(* An engineer waits for messages on the connection it was started for and *)
(* on no other, whatever has been closed and opened under its descriptor   *)
(* number.                                                                 *)
EngineerPerConnection ==
  \A c \in Conn : call[c].pc = "blocked" => call[c].at = c

(* Recv delivers the request the far end made last, whole, or nothing,     *)
(* however it was cut up, wherever it broke off and whatever other threads *)
(* received meanwhile.                                                     *)
ServedAsSent ==
  \A c \in Conn : call[c].pc = "returned" /\ call[c].buffer # <<>> =>
                    call[c].buffer = Script[c][remote[c].n].words

(* What a customer gets is about the customer and the order it asked for,  *)
(* with an expert's id where the order needs one.                          *)
AnswersMatch ==
  \A c \in Customer : remote[c].answer # <<>> =>
    LET asked == UnmarshalRequest(Script[c][remote[c].n].words)
    IN IF Wanted(c) = RecordSize
       THEN UnmarshalRecord(remote[c].answer).customer_id = asked.customer_id
       ELSE LET laptop == UnmarshalLaptop(remote[c].answer)
            IN /\ laptop.customer_id = asked.customer_id
               /\ asked.request_type \in {0, 1} =>
                    /\ laptop.order_number = asked.order_number
                    /\ laptop.request_type = asked.request_type
                    /\ (laptop.admin_id = -1) <=> (asked.request_type = 0)

(* No thread closes the connection of another: as long as the far end and  *)
(* the engineer are there, so is the connection between them.              *)
LiveConnectionOpen ==
  \A c \in Conn :
    running /\ eng[c].role \notin {"none", "ended"} /\ ~over[c] => Behind(c) = c

(* Every open descriptor belongs to a Socket object that will close it: an *)
(* engineer's that has not ended, or a stub of the order in execution or   *)
(* the last one; except those of connects that failed.                     *)
OnlyFailedConnectsLeak ==
  \A f \in Fd : table[f] # NoSocket =>
    LET s == table[f]
    IN \/ /\ fd_[s] = f /\ is_initialized_[s]
          /\ IF s \in Conn THEN eng[s].role # "ended"
             ELSE s \in Range(replica_stubs) \/ s = call[Expert].on
       \/ s \in Stub /\ ~is_initialized_[s] /\ ~shut[s]

(* A customer that made a request is answered or sees the connection end,  *)
(* whoever else connects, dies or keeps a thread waiting.                  *)
RequestAnswered ==
  \A c \in Customer : request_type[c[2]] <= 5 =>
    (remote[c].pc = "await" ~> remote[c].pc # "await")

(* In the end no connection whose far end is gone holds a descriptor.  (It *)
(* stays gone, so this is to say that each of them is released.)           *)
DescriptorReleased ==
  <>[](running => \A c \in Conn : over[c] => c \notin Range(table))
=============================================================================
