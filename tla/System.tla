------------------------------- MODULE System --------------------------------
(***************************************************************************)
(* The cluster behind the load balancer: LaptopFactory's servers, with the *)
(* orders that the balancer's engineer threads (LoadThread.cpp, case 1)    *)
(* bring them.  There is one such thread for each customer, and they share *)
(* the index of the server they take for the primary.                      *)
(*                                                                         *)
(* Reads and the cache leave the servers as they are and are LoadFactory's *)
(* subject, which has an abstract view of the servers; ServerView compares *)
(* it with the servers here.                                               *)
(***************************************************************************)
EXTENDS LaptopFactory

CONSTANT
  Servers      \* the balancer's replicas, in AddReplica order

ASSUME SystemAssumption ==
  Servers \in Seq(Server) /\ Servers # <<>> /\ Range(Servers) \subseteq Contact

VARIABLES
  primary_server_index,
  lb,          \* the thread of each customer, its stub and its attempts
  balancer     \* the balancer's process is running

lbvars  == <<primary_server_index, lb, balancer>>
allvars == <<vars, lbvars>>

total_servers == Len(Servers)
LbIdle == [pc |-> "idle", stub |-> NoServer, attempts |-> 0]
LbType == [pc : {"idle", "failover", "send", "broken"},
           stub : Server \cup {NoServer}, attempts : 0 .. total_servers]

\* connect_server: nobody where the server is not listening.
Connect(ind) == LET s == Servers[ind + 1] IN IF Up(s) THEN s ELSE NoServer

\* What the thread has after a connect: a stub to send on, or nothing.
Connected(c, stub, attempts) ==
  lb' = [lb EXCEPT ![c] = [pc |-> IF stub = NoServer THEN "failover" ELSE "send",
                           stub |-> stub, attempts |-> attempts]]

SystemInit ==
  /\ Init
  /\ primary_server_index = 0 /\ lb = [c \in Customer |-> LbIdle]
  /\ balancer = TRUE

-----------------------------------------------------------------------------
LbConnectNext(c) ==             \* bug: round robin for orders too
  /\ balancer /\ lb[c].pc = "idle"
  /\ at[c] = NoServer /\ sent[c] < NumOrders
  /\ primary_server_index' = (primary_server_index + 1) % total_servers
  /\ Connected(c, Connect(primary_server_index), 0)
  /\ UNCHANGED <<vars, balancer>>
\* An order arrives; primary_server_index is read without its lock.
LbConnect(c) ==
  /\ balancer /\ lb[c].pc = "idle"
  /\ at[c] = NoServer /\ sent[c] < NumOrders
  /\ Connected(c, Connect(primary_server_index), 0)
  /\ UNCHANGED <<vars, primary_server_index, balancer>>

LbFailoverOnceMore(c) ==        \* bug: <= for <
  /\ balancer /\ lb[c].pc = "failover" /\ lb[c].attempts <= total_servers
  /\ primary_server_index' = (primary_server_index + 1) % total_servers
  /\ Connected(c, Connect(primary_server_index'), lb[c].attempts + 1)
  /\ UNCHANGED <<vars, balancer>>
\* One pass of the loop, under primary_server_lock.
LbFailover(c) ==
  /\ balancer /\ lb[c].pc = "failover" /\ lb[c].attempts < total_servers
  /\ primary_server_index' = (primary_server_index + 1) % total_servers
  /\ Connected(c, Connect(primary_server_index'), lb[c].attempts + 1)
  /\ UNCHANGED <<vars, balancer>>

\* OrderLaptop on the stub: the server's engineer thread has the order.
LbSend(c) ==
  /\ balancer /\ lb[c].pc = "send"
  /\ Order(c, lb[c].stub)
  /\ lb' = [lb EXCEPT ![c] = LbIdle]
  /\ UNCHANGED <<primary_server_index, balancer>>

\* The server died after the connect: an invalid laptop, and the customer
\* stops ordering.
LbBroken(c) ==
  /\ balancer /\ lb[c].pc = "broken"
  /\ sent' = [sent EXCEPT ![c] = NumOrders]
  /\ lb' = [lb EXCEPT ![c] = LbIdle]
  /\ UNCHANGED <<mode, erq, expert, logvars, primary_id, replica_stubs, recovery,
                 connvars, at, acked, bounds, primary_server_index, balancer>>

\* The attempts have run out and the null stub is used.
LbNullStub(c) ==
  /\ balancer /\ lb[c].pc = "failover" /\ lb[c].attempts = total_servers
  /\ balancer' = FALSE
  /\ UNCHANGED <<vars, primary_server_index, lb>>

LbThread(c) == LbFailover(c) \/ LbSend(c) \/ LbBroken(c) \/ LbNullStub(c)

\* A step of a server; a connection ends with the server's process.
ServerStep ==
  /\ ServerNext
  /\ lb' = [c \in Customer |->
       IF lb[c].stub # NoServer /\ mode'[lb[c].stub] = "down"
       THEN [lb[c] EXCEPT !.pc = "broken"] ELSE lb[c]]
  /\ UNCHANGED <<primary_server_index, balancer>>

SystemNext == ServerStep \/ \E c \in Customer : LbConnect(c) \/ LbThread(c)

SystemSpec == SystemInit /\ [][SystemNext]_allvars

(* The balancer's threads are scheduled like the servers'.                 *)
SystemFairness == Fairness /\ \A c \in Customer : WF_allvars(LbThread(c))
FairSystem == SystemSpec /\ SystemFairness

-----------------------------------------------------------------------------
SystemTypeOK ==
  /\ TypeOK
  /\ primary_server_index \in 0 .. total_servers - 1
  /\ lb \in [Customer -> LbType] /\ balancer \in BOOLEAN

(* At any time one server at most executes orders, before, during and      *)
(* after a failover: the cluster has one log.                              *)
OneProducer == \A s, r \in Server : Locked(s) /\ Locked(r) => s = r

(* A server that has taken over knows, whenever no order is in execution,  *)
(* every order answered so far by anybody: the record it would read out    *)
(* for a customer is at least the last order the customer was answered.    *)
(* This and the next property are about servers whose last_index is the    *)
(* end of the log: behind whose own orders no late request of the dead     *)
(* primary has been appended (run stale_record shows what that does).      *)
InStep(s) == last_index[s] = Len(smr_log[s]) - 1

TakeoverKeepsAnswers ==
  \A s \in Server :
    Up(s) /\ primary_id[s] = s /\ ~Locked(s) /\ InStep(s) =>
      \A e \in acked : customer_record[s][e[2].arg1] >= e[2].arg2

(* No record goes back, through replication, promotion and takeover.       *)
TakeoverKeepsRecords ==
  [][\A s \in Server : Up(s) /\ InStep(s) =>
       \A k \in Key : customer_record'[s][k] >= customer_record[s][k]]_allvars

(* "the last index ... where the MapOp of the log entry is committed and   *)
(* applied to the customer_record" (ServerThread.h:41), of orders a server *)
(* has answered itself: those up to committed_index are in its record.     *)
AnsweredIsApplied ==
  \A s \in Server : Up(s) /\ ~Locked(s) =>
    \A i \in 1 .. committed_index[s] + 1 :
      LET op == smr_log[s][i]
      IN <<s, op>> \in acked => customer_record[s][op.arg1] >= op.arg2

(* An order that reaches the balancer is answered, possibly with an        *)
(* invalid laptop, as long as the balancer runs.                           *)
OrderServed ==
  \A c \in Customer :
    (lb[c].pc # "idle" \/ at[c] # NoServer)
      ~> ((lb[c].pc = "idle" /\ at[c] = NoServer) \/ ~balancer)
=============================================================================
