----------------------------- MODULE SystemProofs -----------------------------
(* The cluster behind the load balancer: types for any cluster; that one   *)
(* server executes orders at a time, of two, or of any number as long as   *)
(* one thread at a time fails over; of two, what a takeover keeps.         *)
EXTENDS SteadyProofs, System

-----------------------------------------------------------------------------
(* Type correctness, for any cluster and any number of replicas.           *)

(* There is a server to connect to at every index.                         *)
LEMMA ServersTypes ==
  /\ total_servers \in Nat \ {0}
  /\ \A i \in 0 .. total_servers - 1 : Servers[i + 1] \in Server
<1>1. Servers \in Seq(Server) /\ Servers # <<>>
  BY SystemAssumption
<1>2. Len(Servers) \in Nat /\ Len(Servers) # 0
  BY <1>1, LenProperties, EmptySeq
<1> QED BY <1>1, <1>2, ElementOfSeq DEF total_servers

(* What a thread has after it has tried to connect.                        *)
LEMMA ConnectShows ==
  ASSUME SystemTypeOK, NEW c \in Customer, NEW i \in 0 .. total_servers - 1,
         NEW n \in 0 .. total_servers, Connected(c, Connect(i), n)
  PROVE  /\ lb' \in [Customer -> LbType]
         /\ \A d \in Customer \ {c} : lb'[d] = lb[d]
         /\ IF Up(Servers[i + 1])
            THEN lb'[c].pc = "send" /\ lb'[c].stub = Servers[i + 1]
            ELSE lb'[c].pc = "failover" /\ lb'[c].stub = NoServer
<1> PICK s, v : /\ s = Servers[i + 1]
                /\ v = [pc |-> IF Connect(i) = NoServer THEN "failover" ELSE "send",
                        stub |-> Connect(i), attempts |-> n]
  OBVIOUS
<1>1. s \in Server /\ s # NoServer /\ Connect(i) = IF Up(s) THEN s ELSE NoServer
  BY ServersTypes, ServerAssumption DEF Connect
<1>2. v \in LbType
  BY <1>1 DEF LbType
<1>3. lb \in [Customer -> LbType] /\ lb' = [lb EXCEPT ![c] = v]
  BY DEF Connected, SystemTypeOK
<1> QED BY <1>1, <1>2, <1>3

(* The index stays an index.                                               *)
LEMMA IndexSteps ==
  ASSUME NEW i \in 0 .. total_servers - 1
  PROVE  (i + 1) % total_servers \in 0 .. total_servers - 1
  BY ServersTypes

\* The types, with what a server has in hand.
SystemTypeInv == TypeInv /\ SystemTypeOK

(* Every step keeps the types.                                             *)
LEMMA NextSystemType == SystemTypeInv /\ [SystemNext]_allvars => SystemTypeInv'
<1> SUFFICES ASSUME SystemTypeInv, [SystemNext]_allvars PROVE SystemTypeInv'
  OBVIOUS
<1>0. /\ TypeInv /\ SystemTypeOK /\ lb \in [Customer -> LbType]
      /\ balancer \in BOOLEAN /\ primary_server_index \in 0 .. total_servers - 1
  BY DEF SystemTypeInv, SystemTypeOK
<1>1. LbIdle \in LbType
  BY ServersTypes DEF LbIdle, LbType
<1>2. ASSUME TypeInv', lb' \in [Customer -> LbType],
             primary_server_index' \in 0 .. total_servers - 1, balancer' \in BOOLEAN
      PROVE  SystemTypeInv'
  BY <1>2 DEF SystemTypeInv, SystemTypeOK, TypeInv
<1>3. CASE UNCHANGED allvars
  BY <1>0, <1>2, <1>3, NextType DEF allvars, lbvars
<1>4. ASSUME NEW c \in Customer, LbConnect(c) PROVE SystemTypeInv'
  <2>1. UNCHANGED <<vars, primary_server_index, balancer>>
        /\ Connected(c, Connect(primary_server_index), 0)
    BY <1>4 DEF LbConnect
  <2>2. lb' \in [Customer -> LbType]
    BY <1>0, <2>1, ServersTypes, ConnectShows
  <2> QED BY <1>0, <1>2, <2>1, <2>2, NextType
<1>5. ASSUME NEW c \in Customer, LbFailover(c) PROVE SystemTypeInv'
  <2> PICK j : j = (primary_server_index + 1) % total_servers
    OBVIOUS
  <2>1. /\ UNCHANGED <<vars, balancer>> /\ primary_server_index' = j
        /\ Connected(c, Connect(j), lb[c].attempts + 1)
        /\ lb[c].attempts < total_servers
    BY <1>5 DEF LbFailover
  <2>2. j \in 0 .. total_servers - 1
    BY <1>0, IndexSteps
  <2>3. lb[c].attempts + 1 \in 0 .. total_servers
    BY <1>0, <2>1, ServersTypes DEF LbType
  <2>4. lb' \in [Customer -> LbType]
    BY <1>0, <2>1, <2>2, <2>3, ConnectShows
  <2> QED BY <1>0, <1>2, <2>1, <2>2, <2>4, NextType
<1>6. ASSUME NEW c \in Customer, LbSend(c) PROVE SystemTypeInv'
  <2>1. lb[c].stub \in Server /\ Order(c, lb[c].stub)
    BY <1>0, <1>6, ServerAssumption DEF LbSend, Order
  <2>2. TypeInv'
    BY <1>0, <2>1, OrderType
  <2> QED BY <1>0, <1>1, <1>2, <1>6, <2>2 DEF LbSend
<1>7. ASSUME NEW c \in Customer, LbBroken(c) PROVE SystemTypeInv'
  <2>1. /\ sent' = [sent EXCEPT ![c] = NumOrders]
        /\ UNCHANGED <<mode, erq, expert, logvars, primary_id, replica_stubs, recovery,
                       connvars, at, acked, bounds, primary_server_index, balancer>>
        /\ lb' = [lb EXCEPT ![c] = LbIdle]
    BY <1>7 DEF LbBroken
  <2>2. sent' \in [Customer -> 0 .. NumOrders]
    BY <1>0, <2>1, CustomerAssumption DEF TypeInv, TypeOK
  <2>3. TypeInv'
    BY <1>0, <2>1, <2>2
       DEF TypeInv, TypeOK, OrderInHand, Locked, logvars, connvars, bounds
  <2> QED BY <1>0, <1>1, <1>2, <2>1, <2>3
<1>8. ASSUME NEW c \in Customer, LbNullStub(c) PROVE SystemTypeInv'
  BY <1>0, <1>2, <1>8, NextType DEF LbNullStub
<1>9. CASE ServerStep
  <2>1. TypeInv'
    BY <1>0, <1>9, NextType DEF ServerStep, Next
  <2>2. lb' \in [Customer -> LbType]
    <3>1. ASSUME NEW c \in Customer PROVE lb'[c] \in LbType
      <4>1. lb'[c] = lb[c] \/ lb'[c] = [lb[c] EXCEPT !.pc = "broken"]
        BY <1>9 DEF ServerStep
      <4> QED BY <1>0, <4>1 DEF LbType
    <3>2. lb' = [c \in Customer |-> lb'[c]]
      BY <1>9 DEF ServerStep
    <3> QED BY <3>1, <3>2
  <2> QED BY <1>0, <1>2, <1>9, <2>1, <2>2 DEF ServerStep
<1> QED BY <1>3, <1>4, <1>5, <1>6, <1>7, <1>8, <1>9 DEF SystemNext, LbThread

(* The system starts well typed.                                           *)
LEMMA InitSystemType == SystemInit => SystemTypeInv
<1> SUFFICES ASSUME SystemInit PROVE SystemTypeInv
  OBVIOUS
<1>1. LbIdle \in LbType
  BY ServersTypes DEF LbIdle, LbType
<1>2. TypeInv
  BY InitType DEF SystemInit
<1> QED BY <1>1, <1>2, ServersTypes DEF SystemInit, SystemTypeInv, SystemTypeOK, TypeInv

(* Every field and local of the servers and of the balancer has its type,  *)
(* whoever dies or restarts: in particular the shared index always names a *)
(* replica, and a thread never counts more attempts than there are.        *)
THEOREM SystemTypeCorrect == SystemSpec => []SystemTypeOK
<1>1. SystemTypeInv => SystemTypeOK
  BY DEF SystemTypeInv
<1> QED BY <1>1, InitSystemType, NextSystemType, PTL DEF SystemSpec

-----------------------------------------------------------------------------
(* One producer. *)

First  == Servers[1]
Second == Servers[2]

(* The balancer has two servers, and no server is restarted.               *)
TwoServers == total_servers = 2 /\ First # Second /\ MaxStarts = 0

\* s has orders to execute, or someone has a stub of it to send one on.
Loaded(s) == Locked(s) \/ erq[s] # <<>>
Reaching(s) == \E c \in Customer : lb[c].pc = "send" /\ lb[c].stub = s
Busy(s) == Loaded(s) \/ Reaching(s)

NeverStarts == \A s \in Server : mode[s] \in {"up", "down"}

(* Only live servers that the balancer knows are busy.                     *)
OnlyLive == \A s \in Server : Busy(s) => Up(s) /\ s \in {First, Second}

\* One of the two servers is dead.
OneDead == ~Up(First) \/ ~Up(Second)

(* Nobody turns to the second server while both run: the connect to the    *)
(* first server fails, and the index moves, only after a death.            *)
TurnsAfterDeath ==
  Busy(Second) \/ primary_server_index = 1 \/ (\E c \in Customer : lb[c].pc = "failover")
    => OneDead

(* The balancer holds a customer's request or a server does, not both, and *)
(* a thread has a stub only while it needs one.                            *)
InOnePlace ==
  \A c \in Customer : /\ lb[c].pc # "idle" => at[c] = NoServer
                      /\ lb[c].pc \in {"idle", "failover"} => lb[c].stub = NoServer

BalancerInv == NeverStarts /\ OnlyLive /\ TurnsAfterDeath /\ InOnePlace

(* Without restarts the servers' steps are those of running threads, and   *)
(* deaths.                                                                 *)
LEMMA RunningSteps ==
  ASSUME TypeInv, NeverStarts, MaxStarts = 0, ServerNext
  PROVE  \/ \E s \in Server : ExpertThread(s) \/ (Up(s) /\ Crash(s))
         \/ \E c \in Conn : EngineerThread(c)
<1>1. ASSUME NEW s \in Server, Recover(s) PROVE FALSE
  BY <1>1 DEF NeverStarts, Recover, RecoverConnect, RecoverNobody, RecoverStatus,
     RecoverFetch, Listen
<1>2. ASSUME NEW s \in Server, NEW fromLog, Start(s, fromLog) PROVE FALSE
  BY <1>2 DEF TypeInv, TypeOK, Start
<1>3. ASSUME NEW s \in Server, Crash(s) PROVE Up(s)
  BY <1>3 DEF NeverStarts, Crash, Up
<1> QED BY <1>1, <1>2, <1>3 DEF ServerNext

(* No step of the servers brings one back or gives it orders.              *)
LEMMA ServersOnlyFinish ==
  ASSUME TypeInv, NeverStarts, MaxStarts = 0, ServerNext
  PROVE  /\ NeverStarts'
         /\ \A s \in Server : Up(s)' => Up(s)
         /\ \A s \in Server : Loaded(s)' /\ Up(s) => Loaded(s) /\ Up(s)'
         /\ \A s \in Server : Loaded(s)' => Loaded(s)
         /\ \A c \in Customer : at[c] = NoServer => at'[c] = NoServer
<1>0. /\ mode \in [Server -> {"down", "recovering", "status", "fetch", "recovered", "up"}]
      /\ erq \in [Server -> Seq(OrderOp)] /\ expert \in [Server -> ExpertState]
      /\ at \in [Customer -> Server \cup {NoServer}] /\ Idle.pc = "idle"
      /\ sent \in [Customer -> 0 .. NumOrders] /\ NumOrders \in Nat
  BY CustomerAssumption DEF TypeInv, TypeOK, Idle
<1>1. ASSUME NEW r \in Server, Up(r), Crash(r)
      PROVE  /\ mode' = [mode EXCEPT ![r] = "down"]
             /\ erq' = [erq EXCEPT ![r] = <<>>] /\ expert' = [expert EXCEPT ![r] = Idle]
             /\ at' = [c \in Customer |-> IF at[c] = r THEN NoServer ELSE at[c]]
  BY <1>1 DEF Crash
<1>2. ASSUME NEW r \in Server, Up(r), Crash(r)
      PROVE  /\ NeverStarts' /\ ~Loaded(r)'
             /\ \A s \in Server \ {r} : (Up(s)' <=> Up(s)) /\ (Loaded(s)' <=> Loaded(s))
             /\ \A c \in Customer : at[c] = NoServer => at'[c] = NoServer
  BY <1>0, <1>1, <1>2 DEF NeverStarts, Up, Loaded, Locked
<1>3. CASE \E r \in Server : Up(r) /\ Crash(r)
  BY <1>2, <1>3
<1>4. ASSUME NEW r \in Server, ExpertTake(r)
      PROVE  /\ UNCHANGED <<mode, at>> /\ Loaded(r)
             /\ \A s \in Server \ {r} : Loaded(s)' <=> Loaded(s)
  BY <1>0, <1>4 DEF ExpertTake, clientvars, Loaded, Locked
<1>5. ASSUME NEW r \in Server, ExpertFinish(r)
      PROVE  /\ UNCHANGED <<mode, erq>> /\ Locked(r)
             /\ \A s \in Server \ {r} : Locked(s)' <=> Locked(s)
             /\ \A c \in Customer : at[c] = NoServer => at'[c] = NoServer
  <2>1. /\ UNCHANGED <<mode, erq>> /\ expert[r].pc = "send"
        /\ expert' = [expert EXCEPT ![r] = Idle]
        /\ at' = [at EXCEPT ![expert[r].op.arg1] = NoServer]
    BY <1>5 DEF ExpertFinish
  <2>2. /\ Locked(r)
        /\ \A s \in Server \ {r} : Locked(s)' <=> Locked(s)
    BY <1>0, <2>1 DEF Locked
  <2>3. \A c \in Customer : at[c] = NoServer => at'[c] = NoServer
    BY <1>0, <2>1
  <2> QED BY <2>1, <2>2, <2>3
<1>6. ASSUME ~ \E r \in Server : ExpertTake(r) \/ ExpertFinish(r) \/ Crash(r)
      PROVE  UNCHANGED <<mode, erq, at>> /\ \A s \in Server : Locked(s)' = Locked(s)
  <2>1. (\E r \in Server : ExpertThread(r)) \/ (\E c \in Conn : EngineerThread(c))
    BY <1>6, RunningSteps
  <2>2. UNCHANGED <<mode, at, sent>>
    BY <1>6, <2>1 DEF ExpertThread, ExpertConnect, ExpertRegistered, ExpertConnected,
       ExpertSend, ExpertAcked, EngineerThread, EngineerRegister, EngineerReceive,
       EngineerAppend, EngineerEof, clientvars
  <2>3. ASSUME NEW c \in Customer, NEW s \in Server, Order(c, s) PROVE FALSE
    <3>1. sent' = [sent EXCEPT ![c] = @ + 1] /\ sent' = sent
      BY <2>2, <2>3 DEF Order
    <3>2. sent[c] \in Nat
      BY <1>0
    <3> QED BY <1>0, <3>1, <3>2
  <2>4. /\ UNCHANGED <<erq, sent, at>>
        /\ \A s \in Server : Locked(s)' = Locked(s) /\ expert'[s].op = expert[s].op
    <3>1. [Next]_vars
      BY DEF Next
    <3> QED BY <1>6, <2>3, <3>1, MovingSteps
  <2> QED BY <2>2, <2>4
<1>7. CASE \E r \in Server : ExpertTake(r)
  <2>1. PICK r \in Server : ExpertTake(r)
    BY <1>7
  <2>2. UNCHANGED mode /\ \A s \in Server : Loaded(s)' => Loaded(s)
    BY <1>4, <2>1
  <2> QED BY <1>4, <2>1, <2>2 DEF NeverStarts, Up
<1>8. CASE \E r \in Server : ExpertFinish(r)
  <2>1. PICK r \in Server : ExpertFinish(r)
    BY <1>8
  <2>2. UNCHANGED mode /\ \A s \in Server : Loaded(s)' => Loaded(s)
    BY <1>5, <2>1 DEF Loaded
  <2> QED BY <1>5, <2>1, <2>2 DEF NeverStarts, Up
<1>9. CASE ~ \E r \in Server : ExpertTake(r) \/ ExpertFinish(r) \/ Crash(r)
  BY <1>6, <1>9 DEF NeverStarts, Up, Loaded
<1>10. \A r \in Server : Crash(r) => Up(r)
  BY DEF NeverStarts, Crash, Up
<1> QED BY <1>3, <1>7, <1>8, <1>9, <1>10

(* A thread that connects has a stub of a live server, or one is dead.     *)
LEMMA ConnectsAfterDeath ==
  ASSUME TwoServers, SystemTypeInv, BalancerInv, UNCHANGED vars,
         NEW c \in Customer, NEW i \in 0 .. total_servers - 1,
         NEW n \in 0 .. total_servers, Connected(c, Connect(i), n),
         i = 1 => OneDead, at[c] = NoServer, primary_server_index' = 1 => OneDead
  PROVE  BalancerInv'
<1>0. SystemTypeOK /\ Servers[i + 1] \in {First, Second}
  <2>1. i = 0 \/ i = 1
    BY DEF TwoServers
  <2> QED BY <2>1 DEF SystemTypeInv, First, Second
<1>1. /\ UNCHANGED <<mode, erq, expert, at>> /\ OneDead' = OneDead
      /\ First' = First /\ Second' = Second
  BY DEF vars, clientvars, OneDead, Up, First, Second
<1>2. /\ \A d \in Customer \ {c} : lb'[d] = lb[d]
      /\ IF Up(Servers[i + 1])
         THEN lb'[c].pc = "send" /\ lb'[c].stub = Servers[i + 1]
         ELSE lb'[c].pc = "failover" /\ lb'[c].stub = NoServer
  BY <1>0, ConnectShows
<1>3. NeverStarts' /\ \A s \in Server : (Up(s)' <=> Up(s)) /\ (Loaded(s)' <=> Loaded(s))
  BY <1>1 DEF BalancerInv, NeverStarts, Up, Loaded, Locked
<1>4. InOnePlace'
  BY <1>1, <1>2 DEF BalancerInv, InOnePlace
<1>5. \A s \in Server : Busy(s)' => Busy(s) \/ (Up(s) /\ s = Servers[i + 1])
  BY <1>2, <1>3 DEF Busy, Reaching
<1>6. OnlyLive'
  BY <1>0, <1>1, <1>3, <1>5 DEF BalancerInv, OnlyLive
<1>7. TurnsAfterDeath'
  <2>1. First \in Server /\ Second \in Server /\ First # Second
    BY ServersTypes DEF TwoServers, First, Second
  <2>2. Up(Second) /\ Second = Servers[i + 1] => OneDead
    BY <2>1 DEF TwoServers, First, Second
  <2>3. ASSUME ~Up(Servers[i + 1]) PROVE OneDead
    BY <1>0, <2>3 DEF OneDead
  <2>4. (\E d \in Customer : lb'[d].pc = "failover") =>
          (\E d \in Customer : lb[d].pc = "failover") \/ ~Up(Servers[i + 1])
    BY <1>2
  <2>5. Busy(Second)' => OneDead
    BY <1>5, <2>1, <2>2 DEF BalancerInv, TurnsAfterDeath
  <2>6. (\E d \in Customer : lb'[d].pc = "failover") => OneDead
    BY <2>3, <2>4 DEF BalancerInv, TurnsAfterDeath
  <2> QED BY <1>1, <2>5, <2>6 DEF TurnsAfterDeath
<1> QED BY <1>3, <1>4, <1>6, <1>7 DEF BalancerInv

(* Every step keeps the balancer's invariant.                              *)
LEMMA NextBalancer ==
  ASSUME TwoServers
  PROVE  SystemTypeInv /\ BalancerInv /\ [SystemNext]_allvars => BalancerInv'
<1> SUFFICES ASSUME SystemTypeInv, BalancerInv, [SystemNext]_allvars PROVE BalancerInv'
  OBVIOUS
<1>0. /\ TypeInv /\ SystemTypeOK /\ lb \in [Customer -> LbType]
      /\ primary_server_index \in 0 .. total_servers - 1
      /\ erq \in [Server -> Seq(OrderOp)] /\ at \in [Customer -> Server \cup {NoServer}]
      /\ First \in Server /\ Second \in Server
  <2>1. First \in Server /\ Second \in Server
    BY ServersTypes DEF TwoServers, First, Second
  <2> QED BY <2>1 DEF SystemTypeInv, SystemTypeOK, TypeInv, TypeOK
<1>1. CASE UNCHANGED <<mode, erq, expert, at, lb, primary_server_index>>
  BY <1>1 DEF BalancerInv, NeverStarts, OnlyLive, TurnsAfterDeath, InOnePlace, OneDead,
     Busy, Reaching, Loaded, Locked, Up, First, Second
<1>2. ASSUME NEW c \in Customer, LbConnect(c) PROVE BalancerInv'
  BY <1>0, <1>2, ServersTypes, ConnectsAfterDeath
     DEF LbConnect, BalancerInv, TurnsAfterDeath
<1>3. ASSUME NEW c \in Customer, LbFailover(c) PROVE BalancerInv'
  <2> PICK j : j = (primary_server_index + 1) % total_servers
    OBVIOUS
  <2>1. /\ UNCHANGED vars /\ primary_server_index' = j
        /\ Connected(c, Connect(j), lb[c].attempts + 1)
        /\ lb[c].attempts < total_servers /\ lb[c].pc = "failover"
    BY <1>3 DEF LbFailover
  <2>2. j \in 0 .. total_servers - 1
    BY <1>0, IndexSteps
  <2>3. lb[c].attempts + 1 \in 0 .. total_servers
    BY <1>0, <2>1, ServersTypes DEF LbType
  <2>4. at[c] = NoServer /\ OneDead
    BY <2>1 DEF BalancerInv, InOnePlace, TurnsAfterDeath
  <2> QED BY <2>1, <2>2, <2>3, <2>4, ConnectsAfterDeath
<1>4. ASSUME NEW c \in Customer, LbSend(c) PROVE BalancerInv'
  <2> PICK s : s = lb[c].stub
    OBVIOUS
  <2>1. /\ UNCHANGED <<mode, expert, primary_server_index>>
        /\ erq' = [erq EXCEPT ![s] = Append(@, [arg1 |-> c, arg2 |-> sent[c]])]
        /\ at' = [at EXCEPT ![c] = s] /\ lb' = [lb EXCEPT ![c] = LbIdle]
        /\ Up(s) /\ lb[c].pc = "send"
    BY <1>4 DEF LbSend, Order
  <2>2. s \in Server
    BY <1>0, <1>4, <2>1, ServerAssumption DEF LbType, LbSend, Order
  <2>3. /\ lb'[c].pc = "idle" /\ lb'[c].stub = NoServer
        /\ \A d \in Customer \ {c} : lb'[d] = lb[d] /\ at'[d] = at[d]
    BY <1>0, <2>1 DEF LbIdle
  <2>4. Busy(s) /\ \A t \in Server : Busy(t)' => Busy(t)
    <3>1. Reaching(s)
      BY <2>1 DEF Reaching
    <3>2. \A t \in Server : Reaching(t)' => Reaching(t)
      BY <2>3 DEF Reaching
    <3>3. \A t \in Server \ {s} : Loaded(t)' => Loaded(t)
      BY <1>0, <2>1 DEF Loaded, Locked
    <3> QED BY <3>1, <3>2, <3>3 DEF Busy
  <2>5. NeverStarts' /\ \A t \in Server : Up(t)' <=> Up(t)
    BY <2>1 DEF BalancerInv, NeverStarts, Up
  <2>6. First' = First /\ Second' = Second
    BY DEF First, Second
  <2>7. OnlyLive' /\ InOnePlace'
    BY <2>3, <2>4, <2>5, <2>6 DEF BalancerInv, OnlyLive, InOnePlace
  <2>8. TurnsAfterDeath'
    BY <1>0, <2>1, <2>3, <2>4, <2>5, <2>6 DEF BalancerInv, TurnsAfterDeath, OneDead
  <2> QED BY <2>5, <2>7, <2>8 DEF BalancerInv
<1>5. ASSUME NEW c \in Customer, LbBroken(c) PROVE BalancerInv'
  <2>1. /\ UNCHANGED <<mode, erq, expert, at, primary_server_index>>
        /\ lb' = [lb EXCEPT ![c] = LbIdle]
    BY <1>5 DEF LbBroken
  <2>2. /\ lb'[c].pc = "idle" /\ lb'[c].stub = NoServer
        /\ \A d \in Customer \ {c} : lb'[d] = lb[d]
    BY <1>0, <2>1 DEF LbIdle
  <2>3. \A t \in Server : (Busy(t)' => Busy(t)) /\ (Up(t)' <=> Up(t))
    BY <2>1, <2>2 DEF Busy, Reaching, Loaded, Locked, Up
  <2>4. First' = First /\ Second' = Second
    BY DEF First, Second
  <2>5. NeverStarts' /\ OnlyLive' /\ InOnePlace'
    BY <2>1, <2>2, <2>3, <2>4 DEF BalancerInv, NeverStarts, OnlyLive, InOnePlace
  <2>6. TurnsAfterDeath'
    BY <1>0, <2>1, <2>2, <2>3, <2>4 DEF BalancerInv, TurnsAfterDeath, OneDead
  <2> QED BY <2>5, <2>6 DEF BalancerInv
<1>6. CASE ServerStep
  <2>1. /\ NeverStarts'
        /\ \A s \in Server : Up(s)' => Up(s)
        /\ \A s \in Server : Loaded(s)' /\ Up(s) => Loaded(s) /\ Up(s)'
        /\ \A s \in Server : Loaded(s)' => Loaded(s)
        /\ \A c \in Customer : at[c] = NoServer => at'[c] = NoServer
    BY <1>0, <1>6, ServersOnlyFinish DEF ServerStep, BalancerInv, TwoServers
  <2>2. \A c \in Customer :
          \/ lb'[c] = lb[c] /\ (lb[c].stub # NoServer => mode'[lb[c].stub] # "down")
          \/ lb'[c].pc = "broken" /\ lb[c].stub # NoServer
    <3>1. ASSUME NEW c \in Customer
          PROVE  lb'[c] = IF lb[c].stub # NoServer /\ mode'[lb[c].stub] = "down"
                          THEN [lb[c] EXCEPT !.pc = "broken"] ELSE lb[c]
      BY <1>6 DEF ServerStep
    <3>2. ASSUME NEW c \in Customer PROVE [lb[c] EXCEPT !.pc = "broken"].pc = "broken"
      BY <1>0 DEF LbType
    <3> QED BY <3>1, <3>2
  <2>3. \A s \in Server : Reaching(s)' => Reaching(s) /\ Up(s)'
    BY <2>1, <2>2, ServerAssumption DEF Reaching, NeverStarts, Up
  <2>4. \A s \in Server : Busy(s)' => Busy(s) /\ Up(s)'
    BY <2>1, <2>3 DEF Busy, BalancerInv, OnlyLive
  <2>5. First' = First /\ Second' = Second
    BY DEF First, Second
  <2>6. OnlyLive'
    BY <2>4, <2>5 DEF BalancerInv, OnlyLive
  <2>7. InOnePlace'
    BY <2>1, <2>2 DEF BalancerInv, InOnePlace
  <2>8. TurnsAfterDeath'
    <3>1. OneDead => OneDead'
      BY <1>0, <2>1, <2>5 DEF OneDead
    <3>2. (\E c \in Customer : lb'[c].pc = "failover") =>
            \E c \in Customer : lb[c].pc = "failover"
      BY <2>2
    <3>3. primary_server_index' = primary_server_index
      BY <1>6 DEF ServerStep
    <3> QED BY <1>0, <2>4, <2>5, <3>1, <3>2, <3>3 DEF BalancerInv, TurnsAfterDeath
  <2> QED BY <2>1, <2>6, <2>7, <2>8 DEF BalancerInv
<1>7. ASSUME NEW c \in Customer, LbNullStub(c) PROVE BalancerInv'
  BY <1>1, <1>7 DEF LbNullStub, vars, clientvars
<1>8. CASE UNCHANGED allvars
  BY <1>1, <1>8 DEF allvars, lbvars, vars, clientvars
<1> QED BY <1>2, <1>3, <1>4, <1>5, <1>6, <1>7, <1>8 DEF SystemNext, LbThread

(* Nobody has failed over when the system starts.                          *)
LEMMA InitBalancer == ASSUME TwoServers PROVE SystemInit => BalancerInv
<1> SUFFICES ASSUME SystemInit PROVE BalancerInv
  OBVIOUS
<1>1. First \in Server /\ Second \in Server
  BY ServersTypes DEF TwoServers, First, Second
<1>2. /\ NeverStarts /\ InOnePlace /\ \A s \in Server : ~Busy(s)
      /\ \A c \in Customer : lb[c].pc = "idle"
  BY DEF SystemInit, Init, NeverStarts, InOnePlace, Busy, Loaded, Locked, Reaching,
         Idle, LbIdle
<1>3. primary_server_index = 0
  BY DEF SystemInit
<1> QED BY <1>1, <1>2, <1>3 DEF BalancerInv, OnlyLive, TurnsAfterDeath

(* With two servers behind the balancer, and none restarted, one at most   *)
(* executes orders at any time, through any deaths and failovers: no       *)
(* thread turns to the second server before the first is gone.  With three *)
(* servers this fails, see the run two_primaries.                          *)
THEOREM OneServerExecutes == ASSUME TwoServers PROVE SystemSpec => []OneProducer
<1>1. BalancerInv => OneProducer
  <2> SUFFICES ASSUME BalancerInv, NEW s \in Server, NEW r \in Server,
                      Locked(s), Locked(r), s # r
               PROVE  FALSE
    BY DEF OneProducer
  <2>1. Busy(s) /\ Busy(r)
    BY DEF Busy, Loaded
  <2>2. /\ Up(s) /\ s \in {First, Second}
        /\ Up(r) /\ r \in {First, Second}
    BY <2>1 DEF BalancerInv, OnlyLive
  <2>3. Up(First) /\ Up(Second) /\ Busy(Second)
    BY <2>1, <2>2
  <2> QED BY <2>3 DEF BalancerInv, TurnsAfterDeath, OneDead
<1> QED BY <1>1, InitSystemType, NextSystemType, InitBalancer, NextBalancer, PTL
        DEF SystemSpec

-----------------------------------------------------------------------------
(* Any number of servers, one search at a time. *)

\* The thread of customer c goes on with the failover loop.
Searching(c) == lb[c].pc = "failover" /\ lb[c].attempts < total_servers

(* Nobody enters the failover loop while another thread is in it.          *)
OneSearch == \A c, d \in Customer : Searching(c) /\ Searching(d) => c = d

\* The server that the balancer takes for the primary.
Pointed == Servers[primary_server_index + 1]

(* All orders go to the server pointed at, and whoever searches has found  *)
(* it dead: the index moves on from dead servers only.                     *)
BusyIsPointed == \A s \in Server : Busy(s) => Up(s) /\ s = Pointed
SearchedIsDead == \A c \in Customer : Searching(c) => ~Up(Pointed)
PointedInv == NeverStarts /\ BusyIsPointed /\ SearchedIsDead

(* A thread connects to the server pointed at, which may have changed if   *)
(* the last one is dead.                                                   *)
LEMMA ConnectsToPointed ==
  ASSUME SystemTypeInv, PointedInv, UNCHANGED vars, NEW c \in Customer,
         NEW i \in 0 .. total_servers - 1, NEW n \in 0 .. total_servers,
         Connected(c, Connect(i), n), primary_server_index' = i,
         i = primary_server_index \/ (Searching(c) /\ OneSearch)
  PROVE  PointedInv'
<1>0. SystemTypeOK /\ lb \in [Customer -> LbType]
  BY DEF SystemTypeInv, SystemTypeOK
<1>1. UNCHANGED <<mode, erq, expert>> /\ Pointed' = Servers[i + 1]
  BY DEF vars, Pointed
<1>2. /\ \A d \in Customer \ {c} : lb'[d] = lb[d]
      /\ IF Up(Servers[i + 1])
         THEN lb'[c].pc = "send" /\ lb'[c].stub = Servers[i + 1]
         ELSE lb'[c].pc = "failover" /\ lb'[c].stub = NoServer
  BY <1>0, ConnectShows
<1>3. NeverStarts' /\ \A s \in Server : (Up(s)' <=> Up(s)) /\ (Loaded(s)' <=> Loaded(s))
  BY <1>1 DEF PointedInv, NeverStarts, Up, Loaded, Locked
<1>4. \A s \in Server : Busy(s)' => Busy(s) \/ (Up(s) /\ s = Servers[i + 1])
  BY <1>2, <1>3 DEF Busy, Reaching
<1>5. Servers[i + 1] \in Server /\ total_servers' = total_servers
  BY ServersTypes DEF total_servers
<1>6. BusyIsPointed'
  <2> SUFFICES ASSUME NEW s \in Server, Busy(s) PROVE Up(s) /\ s = Servers[i + 1]
    BY <1>1, <1>3, <1>4 DEF BusyIsPointed
  <2>1. Up(s) /\ s = Pointed
    BY DEF PointedInv, BusyIsPointed
  <2>2. ~Searching(c)
    BY <2>1 DEF PointedInv, SearchedIsDead
  <2> QED BY <2>1, <2>2 DEF Pointed
<1>7. SearchedIsDead'
  <2> SUFFICES ASSUME NEW d \in Customer, Searching(d)' PROVE ~Up(Servers[i + 1])
    BY <1>1, <1>3, <1>5 DEF SearchedIsDead
  <2>1. CASE d = c
    BY <2>1, <1>2 DEF Searching
  <2>2. CASE d # c
    <3>1. Searching(d)
      BY <2>2, <1>2, <1>5 DEF Searching
    <3>2. i = primary_server_index
      BY <2>2, <3>1 DEF OneSearch
    <3> QED BY <3>1, <3>2 DEF PointedInv, SearchedIsDead, Pointed
  <2> QED BY <2>1, <2>2
<1> QED BY <1>3, <1>6, <1>7 DEF PointedInv

(* Steps after which nobody is busy or searches who was not before.        *)
LEMMA PointedStays ==
  ASSUME PointedInv, NeverStarts', primary_server_index' = primary_server_index,
         \A s \in Server : Busy(s)' => Busy(s) /\ Up(s)',
         \A s \in Server : Up(s)' => Up(s),
         \A c \in Customer : Searching(c)' => Searching(c),
         Pointed \in Server
  PROVE  PointedInv'
<1>1. Pointed' = Pointed
  BY DEF Pointed
<1> QED BY <1>1 DEF PointedInv, BusyIsPointed, SearchedIsDead

(* Every step of the cluster and of the balancer's threads, one search at  *)
(* a time.                                                                 *)
LEMMA NextPointed ==
  ASSUME MaxStarts = 0
  PROVE  SystemTypeInv /\ PointedInv /\ OneSearch /\ [SystemNext]_allvars => PointedInv'
<1> SUFFICES ASSUME SystemTypeInv, PointedInv, OneSearch, [SystemNext]_allvars
             PROVE  PointedInv'
  OBVIOUS
<1>0. /\ TypeInv /\ SystemTypeOK /\ lb \in [Customer -> LbType]
      /\ primary_server_index \in 0 .. total_servers - 1 /\ Pointed \in Server
      /\ erq \in [Server -> Seq(OrderOp)] /\ total_servers' = total_servers
  <2>1. primary_server_index \in 0 .. total_servers - 1
    BY DEF SystemTypeInv, SystemTypeOK
  <2> QED BY <2>1, ServersTypes
          DEF SystemTypeInv, SystemTypeOK, TypeInv, TypeOK, Pointed, total_servers
<1>1. CASE UNCHANGED <<mode, erq, expert, lb, primary_server_index>>
  <2>1. NeverStarts' /\ \A s \in Server : (Busy(s)' <=> Busy(s)) /\ (Up(s)' <=> Up(s))
    BY <1>1 DEF PointedInv, NeverStarts, Busy, Reaching, Loaded, Locked, Up
  <2>2. \A c \in Customer : Searching(c)' <=> Searching(c)
    BY <1>0, <1>1 DEF Searching
  <2>3. \A s \in Server : Busy(s) => Up(s)
    BY DEF PointedInv, BusyIsPointed
  <2> QED BY <1>0, <1>1, <2>1, <2>2, <2>3, PointedStays
<1>2. ASSUME NEW c \in Customer, LbConnect(c) PROVE PointedInv'
  <2>1. /\ UNCHANGED vars /\ primary_server_index' = primary_server_index
        /\ Connected(c, Connect(primary_server_index), 0)
    BY <1>2 DEF LbConnect
  <2> QED BY <1>0, <2>1, ServersTypes, ConnectsToPointed
<1>3. ASSUME NEW c \in Customer, LbFailover(c) PROVE PointedInv'
  <2> PICK j : j = (primary_server_index + 1) % total_servers
    OBVIOUS
  <2>1. /\ UNCHANGED vars /\ primary_server_index' = j
        /\ Connected(c, Connect(j), lb[c].attempts + 1)
        /\ lb[c].attempts < total_servers /\ Searching(c)
    BY <1>3 DEF LbFailover, Searching
  <2>2. j \in 0 .. total_servers - 1
    BY <1>0, IndexSteps
  <2>3. lb[c].attempts + 1 \in 0 .. total_servers
    BY <1>0, <2>1, ServersTypes DEF LbType
  <2> QED BY <2>1, <2>2, <2>3, ConnectsToPointed
<1>4. ASSUME NEW c \in Customer, LbSend(c) PROVE PointedInv'
  <2> PICK s : s = lb[c].stub
    OBVIOUS
  <2>1. /\ UNCHANGED <<mode, expert, primary_server_index>>
        /\ erq' = [erq EXCEPT ![s] = Append(@, [arg1 |-> c, arg2 |-> sent[c]])]
        /\ lb' = [lb EXCEPT ![c] = LbIdle] /\ Up(s) /\ lb[c].pc = "send"
    BY <1>4 DEF LbSend, Order
  <2>2. s \in Server
    BY <1>0, <1>4, <2>1, ServerAssumption DEF LbType, LbSend, Order
  <2>3. lb'[c].pc = "idle" /\ \A d \in Customer \ {c} : lb'[d] = lb[d]
    BY <1>0, <2>1 DEF LbIdle
  <2>4. Busy(s) /\ \A t \in Server : Busy(t)' => Busy(t)
    <3>1. Reaching(s)
      BY <2>1 DEF Reaching
    <3>2. \A t \in Server : Reaching(t)' => Reaching(t)
      BY <2>3 DEF Reaching
    <3>3. \A t \in Server \ {s} : Loaded(t)' => Loaded(t)
      BY <1>0, <2>1 DEF Loaded, Locked
    <3> QED BY <3>1, <3>2, <3>3 DEF Busy
  <2>5. NeverStarts' /\ \A t \in Server : Up(t)' <=> Up(t)
    BY <2>1 DEF PointedInv, NeverStarts, Up
  <2>6. \A d \in Customer : Searching(d)' => Searching(d)
    BY <1>0, <2>3 DEF Searching
  <2>7. \A t \in Server : Busy(t) => Up(t)
    BY DEF PointedInv, BusyIsPointed
  <2> QED BY <1>0, <2>1, <2>4, <2>5, <2>6, <2>7, PointedStays
<1>5. ASSUME NEW c \in Customer, LbBroken(c) PROVE PointedInv'
  <2>1. /\ UNCHANGED <<mode, erq, expert, primary_server_index>>
        /\ lb' = [lb EXCEPT ![c] = LbIdle]
    BY <1>5 DEF LbBroken
  <2>2. lb'[c].pc = "idle" /\ \A d \in Customer \ {c} : lb'[d] = lb[d]
    BY <1>0, <2>1 DEF LbIdle
  <2>3. NeverStarts' /\ \A t \in Server : (Busy(t)' => Busy(t)) /\ (Up(t)' <=> Up(t))
    BY <2>1, <2>2 DEF PointedInv, NeverStarts, Busy, Reaching, Loaded, Locked, Up
  <2>4. \A d \in Customer : Searching(d)' => Searching(d)
    BY <1>0, <2>2 DEF Searching
  <2>5. \A t \in Server : Busy(t) => Up(t)
    BY DEF PointedInv, BusyIsPointed
  <2> QED BY <1>0, <2>1, <2>3, <2>4, <2>5, PointedStays
<1>6. CASE ServerStep
  <2>1. /\ NeverStarts'
        /\ \A s \in Server : Up(s)' => Up(s)
        /\ \A s \in Server : Loaded(s)' /\ Up(s) => Loaded(s) /\ Up(s)'
        /\ \A s \in Server : Loaded(s)' => Loaded(s)
    BY <1>0, <1>6, ServersOnlyFinish DEF ServerStep, PointedInv
  <2>2. \A c \in Customer :
          \/ lb'[c] = lb[c] /\ (lb[c].stub # NoServer => mode'[lb[c].stub] # "down")
          \/ lb'[c].pc = "broken" /\ lb[c].stub # NoServer
    <3>1. ASSUME NEW c \in Customer
          PROVE  lb'[c] = IF lb[c].stub # NoServer /\ mode'[lb[c].stub] = "down"
                          THEN [lb[c] EXCEPT !.pc = "broken"] ELSE lb[c]
      BY <1>6 DEF ServerStep
    <3>2. ASSUME NEW c \in Customer PROVE [lb[c] EXCEPT !.pc = "broken"].pc = "broken"
      BY <1>0 DEF LbType
    <3> QED BY <3>1, <3>2
  <2>3. \A s \in Server : Reaching(s)' => Reaching(s) /\ Up(s)'
    BY <2>1, <2>2, ServerAssumption DEF Reaching, NeverStarts, Up
  <2>4. \A s \in Server : Busy(s)' => Busy(s) /\ Up(s)'
    BY <2>1, <2>3 DEF Busy, PointedInv, BusyIsPointed
  <2>5. \A c \in Customer : Searching(c)' => Searching(c)
    BY <1>0, <2>2 DEF Searching
  <2>6. primary_server_index' = primary_server_index
    BY <1>6 DEF ServerStep
  <2> QED BY <1>0, <2>1, <2>4, <2>5, <2>6, PointedStays
<1>7. ASSUME NEW c \in Customer, LbNullStub(c) PROVE PointedInv'
  BY <1>1, <1>7 DEF LbNullStub, vars, clientvars
<1>8. CASE UNCHANGED allvars
  BY <1>1, <1>8 DEF allvars, lbvars, vars, clientvars
<1> QED BY <1>2, <1>3, <1>4, <1>5, <1>6, <1>7, <1>8 DEF SystemNext, LbThread

(* Nobody has an order, and no thread is at work.                          *)
LEMMA InitPointed == SystemInit => PointedInv
<1> SUFFICES ASSUME SystemInit PROVE PointedInv
  OBVIOUS
<1>1. /\ NeverStarts /\ \A s \in Server : ~Busy(s)
      /\ \A c \in Customer : lb[c].pc = "idle"
  BY DEF SystemInit, Init, NeverStarts, Busy, Loaded, Locked, Reaching, Idle, LbIdle
<1> QED BY <1>1 DEF PointedInv, BusyIsPointed, SearchedIsDead, Searching

(* Behind a balancer of any number of servers that are not restarted, one  *)
(* server at most executes orders (ExpertThread, lines 186-241), as long   *)
(* as no two threads are in the failover loop (LoadThread.cpp, lines       *)
(* 36-44) at the same time: the index that they share leaves dead servers  *)
(* only. Two searches, and the second one leaves a server that the first   *)
(* has just found (run two_primaries).                                     *)
THEOREM LoneSearchOneProducer ==
  ASSUME MaxStarts = 0 PROVE SystemSpec /\ []OneSearch => []OneProducer
<1>1. PointedInv => OneProducer
  BY DEF PointedInv, BusyIsPointed, Busy, Loaded, OneProducer
<1> QED BY <1>1, InitSystemType, NextSystemType, InitPointed, NextPointed, PTL
        DEF SystemSpec

-----------------------------------------------------------------------------
(* Takeover. *)

(* The two servers are all there are, and the first is the primary.        *)
Pair ==
  Arranged /\ TwoServers /\ Primary = First /\ Server = {First, Second}

\* The log of the second server.
Copy == smr_log[Second]

(* While the first server runs, the second takes itself for the primary    *)
(* only as long as it has nothing.                                         *)
Unregistered ==
  primary_id[Second] = Second =>
    /\ Copy = <<>>
    /\ \A c \in Conn : c[2] = Second => eng[c] \in {"none", "order"}

(* The rest is about the time after the death of the first server, while   *)
(* the second runs.  It replicates to nobody.                              *)
Alone ==
  /\ ~Locked(First) /\ replica_stubs[Second] = <<>>
  /\ expert[Second].pc \in {"idle", "connect", "send"}
  /\ Locked(Second) => Copy # <<>> /\ expert[Second].op = Copy[Len(Copy)]
  /\ \A c \in Conn : c[2] # Second => eng[c] = "none"

(* What is left of the first server's last request: it can only become the *)
(* entry that the log lacks, or, behind own orders, one out of place.      *)
LastRequest ==
  /\ \A c \in Conn : InFlight(c) =>
       /\ Log # <<>> /\ Len(Copy) >= Len(Log) - 1
       /\ \A i \in 1 .. Len(Log) - 1 : Copy[i] = Log[i]
       /\ msg[c].op = Log[Len(Log)] /\ msg[c].last_index = Len(Log) - 1
       /\ msg[c].committed_index \in {Len(Log) - 2, Len(Log) - 1}
       /\ InStep(Second)
       /\ IF Len(Copy) < Len(Log) THEN primary_id[Second] # Second
          ELSE ~Locked(Second) => committed_index[Second] = Len(Copy) - 1
  /\ \A c, d \in Conn : InFlight(c) /\ InFlight(d) => c = d

(* No entry is as late as what its customer sends next, and, as long as    *)
(* last_index is the end of the log, the entries of a customer ascend.     *)
OrdersKept ==
  /\ \A i \in 1 .. Len(Log)  : Log[i] \in OrderOp /\ Log[i].arg2 < sent[Log[i].arg1]
  /\ \A i \in 1 .. Len(Copy) : Copy[i] \in OrderOp /\ Copy[i].arg2 < sent[Copy[i].arg1]
  /\ \A i, j \in 1 .. Len(Log) :
       i < j /\ Log[i].arg1 = Log[j].arg1 => Log[i].arg2 < Log[j].arg2
  /\ InStep(Second) => \A i, j \in 1 .. Len(Copy) :
       i < j /\ Copy[i].arg1 = Copy[j].arg1 => Copy[i].arg2 < Copy[j].arg2
  /\ \A j \in 1 .. Len(erq[Second]) :
       /\ \A i \in 1 .. Len(Log) :
            Log[i].arg1 = erq[Second][j].arg1 => Log[i].arg2 < erq[Second][j].arg2
       /\ \A i \in 1 .. Len(Copy) :
            Copy[i].arg1 = erq[Second][j].arg1 => Copy[i].arg2 < erq[Second][j].arg2

(* The record is what the committed entries give, as long as last_index is *)
(* the end of the log; last_index is never past it.                        *)
RecordKept ==
  /\ last_index[Second] < Len(Copy)
  /\ InStep(Second) =>
       /\ committed_index[Second] >= -1
       /\ committed_index[Second] \in {Len(Copy) - 2, Len(Copy) - 1}
       /\ customer_record[Second] = Apply(Empty, Copy, 1, committed_index[Second] + 1)
       /\ primary_id[Second] = Second /\ ~Locked(Second) =>
            committed_index[Second] = Len(Copy) - 1

AnswersKept == \A e \in acked : \E i \in 1 .. Len(Copy) : Copy[i] = e[2]

TakenOver == Alone /\ LastRequest /\ OrdersKept /\ RecordKept /\ AnswersKept

\* Until the first server is dead, and from then on.
TakeoverInv ==
  \/ SteadyInv /\ Unregistered
  \/ ~Up(First) /\ (Up(Second) => TakenOver)

PairInv == SystemTypeInv /\ TrackInv /\ BalancerInv /\ TakeoverInv

(* Who the two servers are.                                                *)
LEMMA PairTypes ==
  ASSUME Pair
  PROVE  /\ First \in Server /\ Second \in Server /\ First # Second
         /\ Primary = First /\ Server = {First, Second}
         /\ \A c \in Conn : c[1] \in Server /\ c[2] \in Server /\ c[1] # c[2]
         /\ First' = First /\ Second' = Second
<1>1. First \in Server /\ Second \in Server /\ First # Second
  BY DEF Pair, TwoServers
<1>2. First' = First /\ Second' = Second
  BY DEF First, Second
<1> QED BY <1>1, <1>2, ClosedNotConn DEF Pair

-----------------------------------------------------------------------------
(* While the first server runs.                                            *)

(* A customer that stops ordering disturbs nothing.                        *)
LEMMA BrokenTrack ==
  ASSUME TypeInv, TrackInv, NEW c \in Customer, at[c] = NoServer, LbBroken(c)
  PROVE  TrackInv'
<1>1. /\ sent' = [sent EXCEPT ![c] = NumOrders]
      /\ UNCHANGED <<mode, erq, expert, at>>
  BY DEF LbBroken
<1>2. \A d \in Customer \ {c} : sent'[d] = sent[d]
  BY <1>1 DEF TypeInv, TypeOK
<1>3. /\ erq \in [Server -> Seq(OrderOp)] /\ OrderInHand
      /\ \A o \in OrderOp : o.arg1 \in Customer
  BY DEF TypeInv, TypeOK, OrderOp
<1>4. \A s \in Server : \A o \in OrderOp : Awaited(o, s) => Awaited(o, s)'
  BY <1>1, <1>2, <1>3, ServerAssumption DEF Awaited
<1>5. \A s \in Server : \A i \in DOMAIN erq[s] : erq[s][i] \in OrderOp
  BY <1>3, ElementOfSeq, LenProperties
<1>6. QueuedOnce'
  BY <1>1, <1>4, <1>5 DEF TrackInv, QueuedOnce
<1>7. HeldOnce'
  BY <1>1, <1>3, <1>4 DEF TrackInv, HeldOnce, OrderInHand, Locked, Queued
<1>8. NoneLost'
  BY <1>1 DEF TrackInv, NoneLost, InHand, Queued, Locked
<1> QED BY <1>6, <1>7, <1>8 DEF TrackInv

(* Nor does it disturb replication.                                        *)
LEMMA BrokenSteady ==
  ASSUME Arranged, SteadyInv, TypeInv', NEW c \in Customer, at[c] = NoServer, LbBroken(c)
  PROVE  SteadyInv'
<1>0. TypeInv /\ TrackInv /\ ProtocolInv /\ ReplicationInv
  BY DEF SteadyInv
<1>1. /\ sent' = [sent EXCEPT ![c] = NumOrders]
      /\ UNCHANGED <<mode, erq, expert, replica_stubs, smr_log, log_file, customer_record,
             last_index, committed_index, eng, wire, msg, open, at, acked>>
      /\ Log' = Log /\ Stubs' = Stubs /\ Phase' = Phase /\ Turn' = Turn
  BY DEF LbBroken, logvars, connvars, Log, Stubs, Phase, Turn
<1>2. TrackInv'
  BY <1>0, BrokenTrack
<1>3. ProtocolInv'
  BY <1>0, <1>1 DEF ProtocolInv, StubsOpen, AppendQuiet, StubInUse, OneRequestAtATime
<1>4. Shape' /\ Requests'
  BY <1>0, <1>1 DEF ReplicationInv, Shape, Requests, InFlight, Lacks, Up
<1>5. Copies' /\ Applied' /\ Answered'
  BY <1>0, <1>1 DEF ReplicationInv, LogInv, Copies, Applied, Answered, Holds, Lacks, Log, Up
<1>6. \A d \in Customer : sent[d] \in Int /\ sent'[d] \in Int /\ sent[d] <= sent'[d]
  BY <1>0, <1>1, CustomerAssumption DEF TypeInv, TypeOK
<1>7. Orders'
  <2>1. \A o \in OrderOp : o.arg1 \in Customer /\ o.arg2 \in Int
    BY DEF OrderOp
  <2>2. \A i \in 1 .. Len(Log) : Log[i] \in OrderOp /\ Log[i].arg2 < sent'[Log[i].arg1]
    BY <1>0, <1>6, <2>1 DEF ReplicationInv, LogInv, Orders
  <2> QED BY <1>0, <1>1, <2>2 DEF ReplicationInv, LogInv, Orders
<1>8. StubsInv'
  BY <1>0, <1>1 DEF ReplicationInv, StubsInv, StubsDistinct, StubsServed, StubsTried,
                    StubsCover, Tried, Reached, NoneClosed, Up
<1>9. Drained' /\ Progress'
  BY <1>0, <1>1 DEF ReplicationInv, Drained, Progress, Between, HandIsLast, Ahead,
                    TurnByTurn, InFlight, Holds, Lacks, Up
<1> QED BY <1>2, <1>3, <1>4, <1>5, <1>7, <1>8, <1>9 DEF SteadyInv, ReplicationInv, LogInv

(* While the first server runs every order goes to it.                     *)
LEMMA FirstRunsSteps ==
  ASSUME Pair, SystemTypeInv, BalancerInv, Up(First), [SystemNext]_allvars
  PROVE  \/ [SteadyNext]_vars
         \/ \E c \in Customer : LbBroken(c) /\ at[c] = NoServer
<1>1. ASSUME NEW c \in Customer, LbSend(c) PROVE Order(c, Primary)
  <2> PICK s : s = lb[c].stub
    OBVIOUS
  <2>1. Order(c, s) /\ Up(s) /\ lb[c].pc = "send"
    BY <1>1 DEF LbSend, Order
  <2>2. s \in Server
    BY <2>1, ServerAssumption DEF Order
  <2>3. Busy(s)
    BY <2>1 DEF Busy, Reaching
  <2>4. s # Second
    BY <2>1, <2>3 DEF BalancerInv, TurnsAfterDeath, OneDead
  <2> QED BY <2>1, <2>2, <2>4, PairTypes
<1>2. ASSUME NEW c \in Customer, LbBroken(c) PROVE at[c] = NoServer
  BY <1>2 DEF LbBroken, BalancerInv, InOnePlace
<1>3. ASSUME NEW c \in Customer, LbConnect(c) \/ LbFailover(c) \/ LbNullStub(c)
      PROVE  UNCHANGED vars
  BY <1>3 DEF LbConnect, LbFailover, LbNullStub
<1> QED BY <1>1, <1>2, <1>3
        DEF SystemNext, LbThread, ServerStep, SteadyNext, allvars

(* The first registration makes the second server a backup, which it stays *)
(* while the first server runs.                                            *)
LEMMA RegisteredOnce ==
  ASSUME Pair, SteadyInv, Up(First), Unregistered, [SteadyNext]_vars
  PROVE  Unregistered'
<1>0. /\ Arranged /\ TypeInv /\ Shape /\ ReplicationInv
      /\ primary_id \in [Server -> Server \cup {NoServer}]
      /\ eng \in [Conn -> {"none", "order", "backup", "append"}]
      /\ smr_log \in [Server -> Seq(Op)]
  BY DEF Pair, SteadyInv, ReplicationInv, TypeInv, TypeOK
<1>1. CASE UNCHANGED <<primary_id, eng, smr_log>>
  BY <1>1, PairTypes DEF Unregistered, Copy
<1>2. CASE Up(Primary) /\ ExpertThread(Primary)
  <2>1. CASE ExpertTake(Primary)
    <3>1. primary_id'[Second] = primary_id[Second] /\ eng' = eng
      BY <1>0, <2>1, PairTypes DEF ExpertTake
    <3>2. smr_log'[Second] = smr_log[Second]
      BY <1>0, <2>1, TakeShape, PairTypes
    <3> QED BY <3>1, <3>2, PairTypes DEF Unregistered, Copy
  <2>2. CASE ExpertConnect(Primary)
    <3>1. UNCHANGED <<primary_id, smr_log>>
      BY <2>2 DEF ExpertConnect, logvars
    <3>2. \A c \in Conn : eng'[c] = eng[c] \/ eng'[c] = "order"
      BY <1>0, <2>2 DEF ExpertConnect, connvars
    <3> QED BY <3>1, <3>2, PairTypes DEF Unregistered, Copy
  <2>3. CASE \/ ExpertRegistered(Primary) \/ ExpertConnected(Primary)
             \/ ExpertSend(Primary) \/ ExpertAcked(Primary) \/ ExpertFinish(Primary)
    BY <1>1, <2>3 DEF ExpertRegistered, ExpertConnected, ExpertSend, ExpertAcked,
       ExpertFinish, logvars, connvars
  <2> QED BY <1>2, <2>1, <2>2, <2>3 DEF ExpertThread
<1>3. ASSUME NEW c \in Conn, c[1] = Primary, EngineerThread(c) PROVE Unregistered'
  <2>0. c[2] = Second
    BY <1>3, PairTypes
  <2>1. CASE EngineerRegister(c) \/ EngineerEof(c)
    <3>1. primary_id' = [primary_id EXCEPT ![Second] = Primary] \/
          primary_id' = [primary_id EXCEPT ![Second] = NoServer]
      BY <1>3, <2>0, <2>1 DEF EngineerRegister, EngineerEof
    <3>2. primary_id'[Second] # Second
      BY <1>0, <3>1, PairTypes, ServerAssumption
    <3> QED BY <3>2, PairTypes DEF Unregistered
  <2>2. CASE EngineerReceive(c) \/ EngineerAppend(c)
    <3>1. primary_id' = primary_id /\ eng[c] \in {"backup", "append"}
      BY <2>2 DEF EngineerReceive, EngineerAppend
    <3>2. primary_id[Second] # Second
      BY <2>0, <3>1 DEF Unregistered
    <3> QED BY <3>1, <3>2, PairTypes DEF Unregistered
  <2> QED BY <1>3, <2>1, <2>2 DEF EngineerThread
<1>4. ASSUME NEW s \in Server, Crash(s) PROVE Unregistered'
  <2>1. /\ UNCHANGED <<primary_id, smr_log>>
        /\ eng' = [c \in Conn |-> IF c[2] = s THEN "none" ELSE eng[c]]
    BY <1>4 DEF Crash, logvars
  <2> QED BY <1>0, <2>1, PairTypes DEF Unregistered, Copy
<1>5. CASE UNCHANGED vars
  BY <1>1, <1>5 DEF vars, logvars, connvars
<1>6. CASE \E c \in Customer : Order(c, Primary)
  BY <1>1, <1>6 DEF Order, logvars, connvars
<1> QED BY <1>0, <1>2, <1>3, <1>4, <1>5, <1>6, SteadySteps

(* What the first server leaves behind when it dies.                       *)
LEMMA FirstDies ==
  ASSUME Pair, SteadyInv, Unregistered, ~Up(First), Up(Second)
  PROVE  TakenOver
<1>0. /\ TypeInv /\ Shape /\ LogInv /\ Requests /\ Arranged
      /\ eng \in [Conn -> {"none", "order", "backup", "append"}]
      /\ Len(Log) \in Nat /\ Len(Copy) \in Nat
      /\ last_index[Second] \in Int /\ committed_index[Second] \in Int
  <2>1. Arranged /\ TypeInv
    BY DEF Pair, SteadyInv
  <2> QED BY <2>1, SteadyTypes, PairTypes
          DEF SteadyInv, ReplicationInv, TypeInv, TypeOK, Copy
<1>1. Alone
  BY <1>0, PairTypes DEF Shape, Alone, Locked, Up
<1>2. /\ InStep(Second) /\ Len(Copy) <= Len(Log)
      /\ \A i \in 1 .. Len(Copy) : Copy[i] = Log[i]
      /\ committed_index[Second] >= -1
      /\ committed_index[Second] \in {Len(Copy) - 2, Len(Copy) - 1}
      /\ customer_record[Second] = Apply(Empty, Copy, 1, committed_index[Second] + 1)
  BY <1>0, PairTypes DEF LogInv, Copies, Applied, InStep, Copy
<1>3. LastRequest
  <2>1. ASSUME NEW c \in Conn, InFlight(c)
        PROVE  /\ Log # <<>> /\ Len(Copy) = Len(Log) - 1
               /\ msg[c].op = Log[Len(Log)] /\ msg[c].last_index = Len(Log) - 1
               /\ msg[c].committed_index \in {Len(Log) - 2, Len(Log) - 1}
               /\ eng[c] \in {"backup", "append"} /\ c[2] = Second
    <3>1. eng[c] \in {"backup", "append"}
      BY <1>0, <2>1 DEF Requests, InFlight
    <3>2. c[2] = Second
      BY <1>0, <3>1, PairTypes DEF Shape
    <3> QED BY <1>0, <2>1, <3>1, <3>2 DEF Requests, Lacks, Copy
  <2>2. ASSUME NEW c \in Conn, InFlight(c) PROVE primary_id[Second] # Second
    BY <2>1, <2>2 DEF Unregistered
  <2>3. \A c, d \in Conn : InFlight(c) /\ InFlight(d) => c = d
    BY <1>0 DEF Requests
  <2> QED BY <1>0, <1>2, <2>1, <2>2, <2>3 DEF LastRequest
<1>4. OrdersKept
  <2>1. erq[Second] = <<>>
    BY <1>0, PairTypes DEF Shape
  <2>2. \A i \in 1 .. Len(Copy) : i \in 1 .. Len(Log) /\ Copy[i] = Log[i]
    BY <1>0, <1>2
  <2>3. /\ \A i \in 1 .. Len(Log) : Log[i] \in OrderOp /\ Log[i].arg2 < sent[Log[i].arg1]
        /\ \A i, j \in 1 .. Len(Log) :
             i < j /\ Log[i].arg1 = Log[j].arg1 => Log[i].arg2 < Log[j].arg2
    BY <1>0 DEF LogInv, Orders
  <2>4. /\ \A i \in 1 .. Len(Copy) : Copy[i] \in OrderOp /\ Copy[i].arg2 < sent[Copy[i].arg1]
        /\ \A i, j \in 1 .. Len(Copy) :
             i < j /\ Copy[i].arg1 = Copy[j].arg1 => Copy[i].arg2 < Copy[j].arg2
    BY <2>2, <2>3
  <2>5. \A j \in 1 .. Len(erq[Second]) : FALSE
    BY <2>1
  <2> QED BY <2>3, <2>4, <2>5 DEF OrdersKept
<1>5. RecordKept
  <2>1. last_index[Second] = Len(Copy) - 1
    BY <1>2 DEF InStep, Copy
  <2>2. primary_id[Second] = Second => committed_index[Second] = Len(Copy) - 1
    <3> SUFFICES ASSUME Copy = <<>> PROVE committed_index[Second] = Len(Copy) - 1
      BY DEF Unregistered
    <3>1. Len(Copy) = 0
      OBVIOUS
    <3> QED BY <1>0, <1>2, <3>1
  <2> QED BY <1>0, <1>2, <2>1, <2>2 DEF RecordKept
<1>6. AnswersKept
  BY <1>0, PairTypes DEF LogInv, Answered, AnswersKept, Copy
<1> QED BY <1>1, <1>3, <1>4, <1>5, <1>6 DEF TakenOver
-----------------------------------------------------------------------------
(* While the second server runs alone. *)

(* What the steps below read and write has its type.                       *)
LEMMA TakeoverTypes ==
  ASSUME Pair, TypeInv
  PROVE  /\ expert \in [Server -> ExpertState]
         /\ erq \in [Server -> Seq(OrderOp)]
         /\ eng \in [Conn -> {"none", "order", "backup", "append"}]
         /\ wire \in [Conn -> {"empty", "register", "request", "ack"}]
         /\ smr_log \in [Server -> Seq(Op)]
         /\ Copy \in Seq(Op) /\ Len(Copy) \in Nat /\ Log \in Seq(Op) /\ Len(Log) \in Nat
         /\ last_index \in [Server -> Int] /\ committed_index \in [Server -> Int]
         /\ customer_record \in [Server -> [Key -> Int]]
         /\ primary_id \in [Server -> Server \cup {NoServer}]
         /\ replica_stubs \in [Server -> Seq(Conn \cup {ClosedStub})]
         /\ sent \in [Customer -> 0 .. NumOrders] /\ NumOrders \in Nat
         /\ acked \subseteq Server \X OrderOp
         /\ \A o \in OrderOp : o.arg1 \in Customer /\ o.arg2 \in Int /\ o.arg2 >= 0
<1>1. Copy \in Seq(Op) /\ Log \in Seq(Op)
  BY PairTypes DEF TypeInv, TypeOK, Copy, Log
<1>2. NumOrders \in Nat /\ \A o \in OrderOp : o.arg1 \in Customer /\ o.arg2 \in Int /\ o.arg2 >= 0
  BY CustomerAssumption DEF OrderOp
<1>3. Len(Copy) \in Nat /\ Len(Log) \in Nat
  BY <1>1, LenProperties
<1> QED BY <1>1, <1>2, <1>3 DEF TypeInv, TypeOK

\* The expert goes on with its order without sending it to anybody.
Waits ==
  /\ Locked(Second) /\ expert'[Second].pc \in {"connect", "send"}
  /\ expert'[Second].op = expert[Second].op /\ expert'[First] = expert[First]
  /\ UNCHANGED <<mode, erq, logvars, primary_id, replica_stubs, connvars, clientvars>>

(* Only its own threads do anything.                                       *)
LEMMA TakeoverSteps ==
  ASSUME Pair, TypeInv, NeverStarts, Alone, ~Up(First), Up(Second), ServerNext, Up(Second)'
  PROVE  \/ ExpertTake(Second) \/ Waits \/ ExpertFinish(Second)
         \/ \E c \in Conn : c[2] = Second /\ EngineerThread(c)
<1>0. /\ First \in Server /\ Second \in Server /\ First # Second
      /\ Server = {First, Second} /\ MaxStarts = 0
  BY PairTypes DEF Pair, TwoServers
<1>1. (\E s \in Server : ExpertThread(s) \/ (Up(s) /\ Crash(s)))
        \/ \E c \in Conn : EngineerThread(c)
  BY <1>0, RunningSteps
<1>2. ~ExpertThread(First)
  BY DEF Alone, Locked, ExpertThread, ExpertTake, ExpertConnect, ExpertRegistered,
     ExpertConnected, ExpertSend, ExpertAcked, ExpertFinish
<1>3. ASSUME Crash(Second) PROVE FALSE
  <2>1. mode' = [mode EXCEPT ![Second] = "down"]
    BY <1>3 DEF Crash
  <2> QED BY <1>0, <2>1 DEF TypeInv, TypeOK, Up
<1>4. ASSUME NEW c \in Conn, EngineerThread(c) PROVE c[2] = Second
  BY <1>4 DEF Alone, EngineerThread, EngineerRegister, EngineerReceive, EngineerAppend,
     EngineerEof
<1>5. ASSUME NEW p \in {"connect", "send"}, NEW i, Locked(Second), expert' = Goto(Second, p, i),
             UNCHANGED <<mode, erq, logvars, primary_id, replica_stubs, connvars, clientvars>>
      PROVE  Waits
  <2>1. /\ expert'[Second].pc = p /\ expert'[Second].op = expert[Second].op
        /\ \A t \in Server \ {Second} : expert'[t] = expert[t]
    BY <1>0, <1>5, GotoShape
  <2> QED BY <1>0, <1>5, <2>1 DEF Waits
<1>6. ASSUME ExpertConnect(Second) PROVE Waits
  <2> PICK r : r = Replicas[Second][expert[Second].i]
    OBVIOUS
  <2>1. r \in Server \ {Second}
    BY <1>0, <1>6, ConnectShape
  <2>2. ~Up(r)
    BY <1>0, <2>1
  <2>3. expert' = Goto(Second, "connect", expert[Second].i + 1) /\ UNCHANGED <<replica_stubs, connvars>>
    BY <1>6, <2>2 DEF ExpertConnect
  <2>4. Locked(Second) /\ UNCHANGED <<mode, erq, logvars, primary_id, clientvars>>
    BY <1>6 DEF ExpertConnect, Locked
  <2> QED BY <1>5, <2>3, <2>4
<1>7. ASSUME ExpertConnected(Second) PROVE Waits
  <2>1. /\ Locked(Second) /\ expert' = Goto(Second, "send", 1)
        /\ UNCHANGED <<mode, erq, logvars, primary_id, replica_stubs, connvars, clientvars>>
    BY <1>7 DEF ExpertConnected, Locked
  <2> QED BY <1>5, <2>1
<1>8. ASSUME ExpertSend(Second) PROVE FALSE
  <2>1. expert[Second].i <= Len(replica_stubs[Second]) /\ replica_stubs[Second] = <<>>
    BY <1>8 DEF ExpertSend, Alone
  <2>2. expert[Second].i \in Nat \ {0} /\ Len(<<>>) = 0
    BY <1>0, ProtocolTypes
  <2> QED BY <2>1, <2>2
<1>9. ~ExpertRegistered(Second) /\ ~ExpertAcked(Second)
  BY DEF Alone, ExpertRegistered, ExpertAcked
<1> QED BY <1>0, <1>1, <1>2, <1>3, <1>4, <1>6, <1>7, <1>8, <1>9 DEF ExpertThread

(* Waiting changes none of it.                                             *)
LEMMA WaitsKeeps ==
  ASSUME Pair, TypeInv, TakenOver, Waits
  PROVE  TakenOver'
<1>0. First' = First /\ Second' = Second
  BY PairTypes
<1>1. /\ UNCHANGED <<erq, smr_log, customer_record, last_index, committed_index, primary_id,
                     replica_stubs, eng, wire, msg, sent, acked>>
      /\ Locked(Second) /\ Locked(Second)' /\ expert'[First] = expert[First]
      /\ expert'[Second].pc \in {"connect", "send"} /\ expert'[Second].op = expert[Second].op
  BY DEF Waits, logvars, connvars, clientvars, Locked
<1>2. Copy' = Copy /\ Log' = Log
  BY <1>0, <1>1 DEF Copy, Log
<1>3. InStep(Second)' = InStep(Second)
  BY <1>0, <1>1 DEF InStep
<1>4. Alone'
  BY <1>0, <1>1, <1>2 DEF TakenOver, Alone, Locked
<1>5. LastRequest'
  BY <1>0, <1>1, <1>2, <1>3 DEF TakenOver, LastRequest, InFlight
<1>6. OrdersKept' /\ AnswersKept'
  BY <1>0, <1>1, <1>2, <1>3 DEF TakenOver, OrdersKept, AnswersKept
<1>7. RecordKept'
  BY <1>0, <1>1, <1>2, <1>3 DEF TakenOver, RecordKept
<1> QED BY <1>4, <1>5, <1>6, <1>7 DEF TakenOver

-----------------------------------------------------------------------------
(* The second server takes an order. *)

(* What it does to the logs.                                               *)
LEMMA TakesShape ==
  ASSUME Pair, TypeInv, TakenOver, ExpertTake(Second)
  PROVE  /\ ~Locked(Second) /\ Len(erq[Second]) \in Nat \ {0}
         /\ erq[Second][1] \in OrderOp /\ Log' = Log
         /\ Copy' = Append(Copy, erq[Second][1]) /\ Copy' \in Seq(Op)
         /\ Len(Copy') = Len(Copy) + 1 /\ Copy'[Len(Copy) + 1] = erq[Second][1]
         /\ \A i \in 1 .. Len(Copy) : Copy'[i] = Copy[i]
         /\ last_index'[Second] = last_index[Second] + 1
         /\ InStep(Second)' <=> InStep(Second)
         /\ expert'[Second].pc = "connect" /\ expert'[Second].op = erq[Second][1]
         /\ expert'[First] = expert[First] /\ replica_stubs'[Second] = <<>>
         /\ Len(erq'[Second]) = Len(erq[Second]) - 1
         /\ \A j \in 1 .. Len(erq[Second]) - 1 : erq'[Second][j] = erq[Second][j + 1]
         /\ UNCHANGED <<eng, wire, msg, sent, acked>>
<1> PICK q, op, n : q = erq[Second] /\ op = Head(q) /\ n = Len(Copy)
  OBVIOUS
<1>0. /\ First \in Server /\ Second \in Server /\ First # Second
      /\ q \in Seq(OrderOp) /\ Copy \in Seq(Op) /\ n \in Nat
      /\ erq \in [Server -> Seq(OrderOp)] /\ smr_log \in [Server -> Seq(Op)]
      /\ last_index \in [Server -> Int] /\ expert \in [Server -> ExpertState]
      /\ replica_stubs \in [Server -> Seq(Conn \cup {ClosedStub})]
      /\ First' = First /\ Second' = Second /\ Primary = First
  BY PairTypes, TakeoverTypes
<1>1. /\ expert[Second].pc = "idle" /\ q # <<>>
      /\ erq' = [erq EXCEPT ![Second] = Tail(q)]
      /\ smr_log' = [smr_log EXCEPT ![Second] = Append(Copy, op)]
      /\ last_index' = [last_index EXCEPT ![Second] = last_index[Second] + 1]
      /\ expert' = [expert EXCEPT ![Second] = [pc |-> "connect", i |-> 1, op |-> op]]
      /\ replica_stubs' = [replica_stubs EXCEPT ![Second] = <<>>]
      /\ UNCHANGED <<eng, wire, msg, sent, acked>>
  BY DEF ExpertTake, LogAppend, ClearStubs, Copy, clientvars
<1>2. /\ Len(q) \in Nat \ {0} /\ q[1] = op /\ op \in OrderOp /\ op \in Op
      /\ Tail(q) \in Seq(OrderOp) /\ Len(Tail(q)) = Len(q) - 1
      /\ \A j \in 1 .. Len(q) - 1 : Tail(q)[j] = q[j + 1]
  BY <1>0, <1>1, HeadTailProperties, LenProperties, EmptySeq, OrderIsOp
<1>3. /\ Append(Copy, op) \in Seq(Op)
      /\ Len(Append(Copy, op)) = n + 1 /\ Append(Copy, op)[n + 1] = op
      /\ \A i \in 1 .. n : Append(Copy, op)[i] = Copy[i]
  BY <1>0, <1>2, AppendProperties
<1>4. Copy' = Append(Copy, op) /\ Log' = Log
  BY <1>0, <1>1 DEF Copy, Log
<1>5. /\ last_index'[Second] = last_index[Second] + 1 /\ last_index[Second] \in Int
      /\ expert'[Second].pc = "connect" /\ expert'[Second].op = op
      /\ expert'[First] = expert[First] /\ replica_stubs'[Second] = <<>>
      /\ erq'[Second] = Tail(q)
  BY <1>0, <1>1
<1>6. InStep(Second)' <=> InStep(Second)
  <2>1. InStep(Second)' <=> last_index'[Second] = Len(Copy') - 1
    BY <1>0 DEF InStep, Copy
  <2>2. InStep(Second) <=> last_index[Second] = n - 1
    BY DEF InStep, Copy
  <2>3. Len(Copy') = n + 1
    BY <1>3, <1>4
  <2> QED BY <1>0, <1>5, <2>1, <2>2, <2>3
<1> QED BY <1>1, <1>2, <1>3, <1>4, <1>5, <1>6 DEF Locked

(* Promotion applies what the server lacks, the new order included if it   *)
(* has just become the primary.                                            *)
LEMMA TakesRecord ==
  ASSUME Pair, TypeInv, TakenOver, ExpertTake(Second)
  PROVE  RecordKept' /\ (InStep(Second) => committed_index[Second] <= committed_index'[Second])
<1> PICK n, l, a, b, new : /\ n = Len(Copy) /\ new = Copy'
                           /\ l = last_index[Second] /\ a = committed_index[Second] /\ b = l + 1
  OBVIOUS
<1> PICK hi : hi = Promoted(Second, b)
  OBVIOUS
<1>0. /\ Second \in Server /\ n \in Nat /\ l \in Int /\ a \in Int /\ b \in Int
      /\ committed_index \in [Server -> Int]
      /\ customer_record \in [Server -> [Key -> Int]]
      /\ Second' = Second /\ RecordKept
  BY PairTypes, TakeoverTypes DEF TakenOver
<1>1. /\ ~Locked(Second) /\ new = Append(Copy, erq[Second][1]) /\ Len(new) = n + 1
      /\ new \in Seq(Op) /\ \A i \in 1 .. n : new[i] = Copy[i]
      /\ last_index'[Second] = b /\ (InStep(Second)' <=> InStep(Second))
      /\ expert'[Second].pc = "connect"
  BY TakesShape
<1>2. b < Len(new)
  BY <1>0, <1>1 DEF RecordKept
<1>3. Locked(Second)'
  BY <1>0, <1>1 DEF Locked
<1>4. /\ CatchUp(Second, new, hi)
      /\ committed_index' = [committed_index EXCEPT ![Second] = hi]
  <2>1. erq[Second][1] = Head(erq[Second])
    OBVIOUS
  <2> QED BY <1>1, <2>1 DEF ExpertTake, Copy
<1>5. committed_index'[Second] = hi
  BY <1>0, <1>4
<1>6. ASSUME InStep(Second)
      PROVE  /\ hi \in {n - 1, n} /\ a <= hi
             /\ customer_record'[Second] = Apply(Empty, new, 1, hi + 1)
  <2>1. /\ l = n - 1 /\ a >= -1 /\ a \in {n - 2, n - 1}
        /\ customer_record[Second] = Apply(Empty, Copy, 1, a + 1)
        /\ primary_id[Second] = Second => a = n - 1
    BY <1>0, <1>1, <1>6 DEF RecordKept, InStep, Copy
  <2>2. Max({a, b}) = IF a >= b THEN a ELSE b
    BY <1>0, MaxOfTwo
  <2>3. hi = IF primary_id[Second] = Second THEN a ELSE Max({a, b})
    BY DEF Promoted
  <2>4. hi \in {n - 1, n} /\ a <= hi
    BY <1>0, <2>1, <2>2, <2>3
  <2>5. /\ hi \in Int /\ hi < Len(new) /\ a >= -1 /\ new \in Seq(Op)
        /\ customer_record[Second] =
             Apply(Empty, smr_log[Second], 1, committed_index[Second] + 1)
    BY <1>0, <1>1, <2>1, <2>4 DEF Copy
  <2>6. Same(smr_log[Second], new, 1, committed_index[Second] + 1)
    BY <1>0, <1>1, <2>1 DEF Same, Copy
  <2>7. customer_record' = [customer_record EXCEPT ![Second] = Apply(Empty, new, 1, hi + 1)]
    BY <1>0, <1>4, <2>4, <2>5, <2>6, CatchUpAll
  <2> QED BY <1>0, <2>4, <2>7
<1>7. RecordKept'
  <2>1. last_index'[Second] < Len(Copy')
    BY <1>1, <1>2
  <2>2. InStep(Second)' =>
          /\ hi >= -1 /\ hi \in {Len(new) - 2, Len(new) - 1}
          /\ customer_record'[Second] = Apply(Empty, new, 1, hi + 1)
    BY <1>0, <1>1, <1>6
  <2> QED BY <1>0, <1>3, <1>5, <2>1, <2>2 DEF RecordKept
<1> QED BY <1>5, <1>6, <1>7

(* A queued order is later than what the log has of its customer, and the  *)
(* only one of its customer.                                               *)
LEMMA TakesOrders ==
  ASSUME Pair, TypeInv, TrackInv, TakenOver, ExpertTake(Second)
  PROVE  OrdersKept'
<1> PICK n, q, op : n = Len(Copy) /\ q = erq[Second] /\ op = q[1]
  OBVIOUS
<1>0. /\ Second \in Server /\ n \in Nat /\ Len(q) \in Nat \ {0} /\ Second' = Second
      /\ sent \in [Customer -> 0 .. NumOrders] /\ op \in OrderOp
      /\ DOMAIN q = 1 .. Len(q)
      /\ \A o \in OrderOp : o.arg1 \in Customer /\ o.arg2 \in Int
      /\ OrdersKept
  <2>1. /\ q \in Seq(OrderOp) /\ Second \in Server /\ n \in Nat /\ Second' = Second
        /\ sent \in [Customer -> 0 .. NumOrders]
        /\ \A o \in OrderOp : o.arg1 \in Customer /\ o.arg2 \in Int
    BY PairTypes, TakeoverTypes
  <2>2. Len(q) \in Nat \ {0} /\ op \in OrderOp
    BY TakesShape
  <2> QED BY <2>1, <2>2, LenProperties DEF TakenOver
<1>1. /\ Len(Copy') = n + 1 /\ Copy'[n + 1] = op /\ Log' = Log
      /\ \A i \in 1 .. n : Copy'[i] = Copy[i]
      /\ Len(erq'[Second]) = Len(q) - 1
      /\ \A j \in 1 .. Len(q) - 1 : erq'[Second][j] = q[j + 1]
      /\ UNCHANGED sent /\ (InStep(Second)' <=> InStep(Second))
  BY TakesShape
<1>2. /\ op.arg2 < sent[op.arg1]
      /\ \A j \in 2 .. Len(q) : q[j].arg1 # op.arg1
  <2>1. op.arg2 = sent[op.arg1] - 1 /\ \A j \in 1 .. Len(q) : q[j].arg1 = op.arg1 => j = 1
    BY <1>0 DEF TrackInv, QueuedOnce, Awaited
  <2>2. op.arg1 \in Customer /\ op.arg2 \in Int
    BY <1>0
  <2>3. sent[op.arg1] \in Int
    BY <1>0, <2>2
  <2>4. op.arg2 < sent[op.arg1]
    BY <2>1, <2>2, <2>3
  <2>5. \A j \in 2 .. Len(q) : j \in 1 .. Len(q) /\ j # 1
    BY <1>0
  <2> QED BY <2>1, <2>4, <2>5
<1>3. /\ \A i \in 1 .. n : Copy[i] \in OrderOp /\ Copy[i].arg2 < sent[Copy[i].arg1]
      /\ InStep(Second) => \A i, j \in 1 .. n :
           i < j /\ Copy[i].arg1 = Copy[j].arg1 => Copy[i].arg2 < Copy[j].arg2
      /\ \A j \in 1 .. Len(q) : \A i \in 1 .. n :
           Copy[i].arg1 = q[j].arg1 => Copy[i].arg2 < q[j].arg2
      /\ \A j \in 1 .. Len(q) : \A i \in 1 .. Len(Log) :
           Log[i].arg1 = q[j].arg1 => Log[i].arg2 < q[j].arg2
  BY <1>0 DEF OrdersKept
<1>4. \A i \in 1 .. n + 1 : Copy'[i] \in OrderOp /\ Copy'[i].arg2 < sent[Copy'[i].arg1]
  BY <1>0, <1>1, <1>2, <1>3
<1>5. ASSUME InStep(Second)', NEW i \in 1 .. n + 1, NEW j \in 1 .. n + 1, i < j,
             Copy'[i].arg1 = Copy'[j].arg1
      PROVE  Copy'[i].arg2 < Copy'[j].arg2
  <2>1. i \in 1 .. n /\ Copy'[i] = Copy[i] /\ InStep(Second)
    BY <1>0, <1>1, <1>5
  <2>2. CASE j \in 1 .. n
    BY <1>1, <1>3, <1>5, <2>1, <2>2
  <2>3. CASE j = n + 1
    <3>1. Copy[i].arg1 = q[1].arg1 /\ 1 \in 1 .. Len(q)
      BY <1>0, <1>1, <1>5, <2>1, <2>3
    <3>2. Copy[i].arg2 < q[1].arg2
      BY <1>3, <2>1, <3>1
    <3> QED BY <1>1, <2>1, <2>3, <3>2
  <2>4. n \in Nat
    BY <1>0
  <2> QED BY <2>2, <2>3, <2>4
<1>6. \A j \in 1 .. Len(q) - 1 :
        j + 1 \in 2 .. Len(q) /\ j + 1 \in 1 .. Len(q) /\ erq'[Second][j] = q[j + 1]
  <2>1. Len(q) \in Nat
    BY <1>0
  <2>2. \A j \in 1 .. Len(q) - 1 : j + 1 \in 2 .. Len(q) /\ j + 1 \in 1 .. Len(q)
    BY <2>1
  <2> QED BY <1>1, <2>2
<1>7. ASSUME NEW j \in 1 .. Len(q) - 1, NEW i \in 1 .. n + 1,
             Copy'[i].arg1 = erq'[Second][j].arg1
      PROVE  Copy'[i].arg2 < erq'[Second][j].arg2
  <2>1. j + 1 \in 2 .. Len(q) /\ j + 1 \in 1 .. Len(q) /\ erq'[Second][j] = q[j + 1]
    BY <1>6
  <2>2. i # n + 1
    BY <1>1, <1>2, <1>7, <2>1
  <2>3. i \in 1 .. n /\ Copy'[i] = Copy[i]
    BY <1>0, <1>1, <2>2
  <2> QED BY <1>3, <1>7, <2>1, <2>3
<1>8. ASSUME NEW j \in 1 .. Len(q) - 1, NEW i \in 1 .. Len(Log),
             Log[i].arg1 = erq'[Second][j].arg1
      PROVE  Log[i].arg2 < erq'[Second][j].arg2
  BY <1>3, <1>6, <1>8
<1>9. /\ \A i \in 1 .. Len(Log) : Log[i] \in OrderOp /\ Log[i].arg2 < sent[Log[i].arg1]
      /\ \A i, j \in 1 .. Len(Log) :
           i < j /\ Log[i].arg1 = Log[j].arg1 => Log[i].arg2 < Log[j].arg2
  BY <1>0 DEF OrdersKept
<1> QED BY <1>0, <1>1, <1>4, <1>5, <1>7, <1>8, <1>9 DEF OrdersKept

(* The rest of what a takeover keeps.                                      *)
LEMMA TakeKeeps ==
  ASSUME Pair, TypeInv, TrackInv, TakenOver, ExpertTake(Second)
  PROVE  TakenOver'
<1> PICK n, m : n = Len(Copy) /\ m = Len(Log)
  OBVIOUS
<1>0. /\ First' = First /\ Second' = Second /\ n \in Nat /\ m \in Nat
      /\ RecordKept' /\ OrdersKept' /\ Alone /\ LastRequest /\ AnswersKept
      /\ Copy \in Seq(Op)
  BY PairTypes, TakeoverTypes, TakesRecord, TakesOrders DEF TakenOver
<1>1. /\ Log' = Log /\ Copy' \in Seq(Op) /\ Len(Copy') = n + 1
      /\ Copy'[n + 1] = erq[Second][1] /\ \A i \in 1 .. n : Copy'[i] = Copy[i]
      /\ InStep(Second)' <=> InStep(Second)
      /\ expert'[Second].pc = "connect" /\ expert'[Second].op = erq[Second][1]
      /\ expert'[First] = expert[First] /\ replica_stubs'[Second] = <<>>
      /\ UNCHANGED <<eng, wire, msg, acked>>
  BY TakesShape
<1>2. Alone'
  <2>1. Copy' # <<>> /\ expert'[Second].op = Copy'[Len(Copy')]
    BY <1>0, <1>1, EmptySeq
  <2> QED BY <1>0, <1>1, <2>1 DEF Alone, Locked
<1>3. LastRequest'
  <2>1. ASSUME NEW c \in Conn, InFlight(c)
        PROVE  /\ Log # <<>> /\ n + 1 >= m - 1 /\ ~(n + 1 < m)
               /\ \A i \in 1 .. m - 1 : Copy'[i] = Log[i]
               /\ msg[c].op = Log[m] /\ msg[c].last_index = m - 1
               /\ msg[c].committed_index \in {m - 2, m - 1}
               /\ InStep(Second)
    <3>1. /\ Log # <<>> /\ n >= m - 1 /\ \A i \in 1 .. m - 1 : Copy[i] = Log[i]
          /\ msg[c].op = Log[m] /\ msg[c].last_index = m - 1
          /\ msg[c].committed_index \in {m - 2, m - 1} /\ InStep(Second)
      BY <1>0, <2>1 DEF LastRequest
    <3>2. \A i \in 1 .. m - 1 : i \in 1 .. n
      BY <1>0, <3>1
    <3> QED BY <1>0, <1>1, <3>1, <3>2
  <2>2. \A c \in Conn : InFlight(c)' <=> InFlight(c)
    BY <1>1 DEF InFlight
  <2>3. Locked(Second)'
    BY <1>0, <1>1 DEF Locked
  <2>4. \A c, d \in Conn : InFlight(c) /\ InFlight(d) => c = d
    BY <1>0 DEF LastRequest
  <2>5. Len(Copy') = n + 1 /\ Len(Log') = m
    BY <1>1
  <2> QED BY <1>0, <1>1, <2>1, <2>2, <2>3, <2>4, <2>5 DEF LastRequest
<1>4. AnswersKept'
  <2>1. ASSUME NEW e \in acked PROVE \E i \in 1 .. n + 1 : Copy'[i] = e[2]
    <3>1. PICK i \in 1 .. n : Copy[i] = e[2]
      BY <1>0 DEF AnswersKept
    <3> QED BY <1>0, <1>1, <3>1
  <2> QED BY <1>1, <2>1 DEF AnswersKept
<1> QED BY <1>0, <1>2, <1>3, <1>4 DEF TakenOver

(* The second server finishes an order: the last of its log.               *)
LEMMA FinishKeeps ==
  ASSUME Pair, TypeInv, TakenOver, ExpertFinish(Second)
  PROVE  /\ TakenOver' /\ InStep(Second)' = InStep(Second) /\ Copy' = Copy
         /\ committed_index[Second] < Len(Copy) => committed_index[Second] <= committed_index'[Second]
<1> PICK n, a, op : n = Len(Copy) /\ a = committed_index[Second] /\ op = expert[Second].op
  OBVIOUS
<1>0. /\ First \in Server /\ Second \in Server /\ First # Second
      /\ First' = First /\ Second' = Second /\ Primary = First
      /\ n \in Nat /\ a \in Int /\ Copy \in Seq(Op)
      /\ committed_index \in [Server -> Int] /\ expert \in [Server -> ExpertState]
      /\ customer_record \in [Server -> [Key -> Int]]
      /\ Alone /\ LastRequest /\ OrdersKept /\ RecordKept /\ AnswersKept
  BY PairTypes, TakeoverTypes DEF TakenOver
<1>1. /\ customer_record' = [customer_record EXCEPT ![Second][op.arg1] = op.arg2]
      /\ acked' = acked \cup {<<Second, op>>}
      /\ committed_index' = [committed_index EXCEPT ![Second] = n - 1]
      /\ expert' = [expert EXCEPT ![Second] = Idle]
      /\ UNCHANGED <<erq, smr_log, last_index, primary_id, replica_stubs, eng, wire, msg, sent>>
      /\ Locked(Second)
  BY DEF ExpertFinish, Locked, Copy, connvars
<1>2. /\ Copy' = Copy /\ Log' = Log /\ InStep(Second)' = InStep(Second)
      /\ committed_index'[Second] = n - 1
      /\ expert'[Second].pc = "idle" /\ expert'[First] = expert[First]
      /\ customer_record'[Second] = [customer_record[Second] EXCEPT ![op.arg1] = op.arg2]
  BY <1>0, <1>1 DEF Copy, Log, InStep, Idle
<1>3. n \in Nat \ {0} /\ op = Copy[n]
  <2>1. Copy # <<>> /\ op = Copy[n]
    BY <1>0, <1>1 DEF Alone
  <2> QED BY <1>0, <2>1, EmptySeq
<1>4. Alone'
  BY <1>0, <1>1, <1>2 DEF Alone, Locked
<1>5. LastRequest'
  <2>1. \A c \in Conn : InFlight(c)' <=> InFlight(c)
    BY <1>1 DEF InFlight
  <2>2. committed_index'[Second] = Len(Copy) - 1
    BY <1>2
  <2> QED BY <1>0, <1>1, <1>2, <2>1, <2>2 DEF LastRequest
<1>6. OrdersKept'
  BY <1>0, <1>1, <1>2 DEF OrdersKept
<1>7. RecordKept'
  <2>1. ASSUME InStep(Second) PROVE customer_record'[Second] = Apply(Empty, Copy, 1, n)
    <3> PICK k : k = a + 1
      OBVIOUS
    <3>1. k \in {n - 1, n} /\ customer_record[Second] = Apply(Empty, Copy, 1, k)
      BY <1>0, <2>1 DEF RecordKept
    <3>2. [Apply(Empty, Copy, 1, k) EXCEPT ![Copy[n].arg1] = Copy[n].arg2] =
            Apply(Empty, Copy, 1, n)
      BY <1>3, <3>1, ApplyLast
    <3> QED BY <1>2, <1>3, <3>1, <3>2
  <2>2. n - 1 >= -1 /\ n - 1 + 1 = n
    BY <1>0
  <2>3. last_index'[Second] < Len(Copy')
    BY <1>0, <1>1, <1>2 DEF RecordKept
  <2> QED BY <1>0, <1>2, <2>1, <2>2, <2>3 DEF RecordKept
<1>8. AnswersKept'
  BY <1>0, <1>1, <1>2, <1>3 DEF AnswersKept
<1>9. a < n => a <= n - 1
  BY <1>0
<1> QED BY <1>2, <1>4, <1>5, <1>6, <1>7, <1>8, <1>9 DEF TakenOver

-----------------------------------------------------------------------------
(* The second server's engineers, at connections of the dead server. *)

(* Registering makes it a backup of the dead server, and the end of the    *)
(* connection one of nobody: it promotes itself again at its next order.   *)
LEMMA RegisterKeeps ==
  ASSUME Pair, TypeInv, TakenOver, NEW c \in Conn, c[2] = Second,
         EngineerRegister(c) \/ EngineerEof(c)
  PROVE  TakenOver'
<1>0. /\ First \in Server /\ Second \in Server /\ First # Second
      /\ First' = First /\ Second' = Second /\ Primary = First
      /\ c[1] \in Server /\ c[1] # c[2]
      /\ eng \in [Conn -> {"none", "order", "backup", "append"}]
      /\ wire \in [Conn -> {"empty", "register", "request", "ack"}]
      /\ primary_id \in [Server -> Server \cup {NoServer}]
      /\ Alone /\ LastRequest /\ OrdersKept /\ RecordKept /\ AnswersKept
  BY PairTypes, TakeoverTypes DEF TakenOver
<1>1. /\ primary_id' = [primary_id EXCEPT ![Second] = First] \/
         primary_id' = [primary_id EXCEPT ![Second] = NoServer]
      /\ eng[c] # "append" /\ eng'[c] # "append" /\ wire'[c] # "request"
      /\ \A d \in Conn \ {c} : eng'[d] = eng[d] /\ wire'[d] = wire[d]
      /\ UNCHANGED <<erq, expert, smr_log, customer_record, last_index, committed_index,
                     replica_stubs, msg, sent, acked>>
  <2>1. CASE EngineerRegister(c)
    <3>1. c[1] = First
      BY <1>0, PairTypes
    <3>2. /\ eng' = [eng EXCEPT ![c] = "backup"] /\ eng[c] = "order"
          /\ wire' = [wire EXCEPT ![c] = IF open[c] THEN "ack" ELSE "empty"]
          /\ primary_id' = [primary_id EXCEPT ![c[2]] = c[1]]
          /\ UNCHANGED <<erq, expert, smr_log, customer_record, last_index, committed_index,
                         replica_stubs, msg, sent, acked>>
      BY <2>1 DEF EngineerRegister, Answer, logvars, clientvars
    <3>3. eng'[c] = "backup" /\ wire'[c] \in {"ack", "empty"}
      BY <1>0, <3>2
    <3>4. \A d \in Conn \ {c} : eng'[d] = eng[d] /\ wire'[d] = wire[d]
      BY <1>0, <3>2
    <3> QED BY <3>1, <3>2, <3>3, <3>4
  <2>2. CASE EngineerEof(c)
    <3>1. /\ eng' = [eng EXCEPT ![c] = "none"] /\ eng[c] = "backup" /\ wire[c] = "empty"
          /\ primary_id' = [primary_id EXCEPT ![c[2]] = NoServer]
          /\ UNCHANGED <<erq, expert, smr_log, customer_record, last_index, committed_index,
                         replica_stubs, wire, msg, sent, acked>>
      BY <2>2 DEF EngineerEof, logvars, clientvars
    <3> QED BY <1>0, <3>1
  <2> QED BY <2>1, <2>2
<1>2. Copy' = Copy /\ Log' = Log /\ InStep(Second)' = InStep(Second)
  BY <1>0, <1>1 DEF Copy, Log, InStep
<1>3. primary_id'[Second] # Second
  BY <1>0, <1>1, ServerAssumption
<1>4. \A d \in Conn : InFlight(d)' => InFlight(d)
  BY <1>1 DEF InFlight
<1>5. Alone'
  BY <1>0, <1>1, <1>2 DEF Alone, Locked
<1>6. LastRequest'
  <2>1. Locked(Second)' = Locked(Second)
    BY <1>0, <1>1 DEF Locked
  <2> QED BY <1>0, <1>1, <1>2, <1>3, <1>4, <2>1 DEF LastRequest
<1>7. OrdersKept' /\ AnswersKept'
  BY <1>0, <1>1, <1>2 DEF OrdersKept, AnswersKept
<1>8. RecordKept'
  BY <1>0, <1>1, <1>2, <1>3 DEF RecordKept
<1> QED BY <1>5, <1>6, <1>7, <1>8 DEF TakenOver

(* A request is dropped, or goes from the connection to the engineer.      *)
LEMMA ReceiveKeeps ==
  ASSUME Pair, TypeInv, TakenOver, NEW c \in Conn, c[2] = Second, EngineerReceive(c)
  PROVE  TakenOver'
<1>0. /\ First \in Server /\ Second \in Server /\ First # Second
      /\ First' = First /\ Second' = Second /\ Primary = First
      /\ eng \in [Conn -> {"none", "order", "backup", "append"}]
      /\ wire \in [Conn -> {"empty", "register", "request", "ack"}]
      /\ Alone /\ LastRequest /\ OrdersKept /\ RecordKept /\ AnswersKept
  BY PairTypes, TakeoverTypes DEF TakenOver
<1>1. /\ wire[c] = "request"
      /\ \A d \in Conn \ {c} : eng'[d] = eng[d] /\ wire'[d] = wire[d]
      /\ UNCHANGED <<erq, expert, smr_log, customer_record, last_index, committed_index,
                     primary_id, replica_stubs, msg, sent, acked>>
  BY <1>0 DEF EngineerReceive, Answer, logvars, clientvars
<1>2. Copy' = Copy /\ Log' = Log /\ InStep(Second)' = InStep(Second)
  BY <1>0, <1>1 DEF Copy, Log, InStep
<1>3. \A d \in Conn : InFlight(d)' => InFlight(d)
  BY <1>1 DEF InFlight
<1>4. Alone'
  BY <1>0, <1>1, <1>2 DEF Alone, Locked
<1>5. LastRequest'
  <2>1. Locked(Second)' = Locked(Second)
    BY <1>0, <1>1 DEF Locked
  <2> QED BY <1>0, <1>1, <1>2, <1>3, <2>1 DEF LastRequest
<1>6. OrdersKept' /\ AnswersKept'
  BY <1>0, <1>1, <1>2 DEF OrdersKept, AnswersKept
<1>7. RecordKept'
  <2>1. Locked(Second)' = Locked(Second)
    BY <1>0, <1>1 DEF Locked
  <2> QED BY <1>0, <1>1, <1>2, <2>1 DEF RecordKept
<1> QED BY <1>4, <1>5, <1>6, <1>7 DEF TakenOver

(* The last request of the dead server is appended.  It is the entry that  *)
(* was missing, or it comes behind own orders and takes last_index back.   *)
LEMMA LastAppend ==
  ASSUME Pair, TypeInv, TakenOver, NEW c \in Conn, c[2] = Second, EngineerAppend(c)
  PROVE  /\ ~Locked(Second) /\ Len(Log) \in Nat \ {0} /\ Len(Copy) >= Len(Log) - 1
         /\ InStep(Second) /\ Log' = Log
         /\ Copy' \in Seq(Op) /\ Len(Copy') = Len(Copy) + 1
         /\ Copy'[Len(Copy) + 1] = Log[Len(Log)]
         /\ \A i \in 1 .. Len(Copy) : Copy'[i] = Copy[i]
         /\ last_index'[Second] = Len(Log) - 1
         /\ committed_index'[Second] \in {Len(Log) - 2, Len(Log) - 1}
         /\ Len(Copy) < Len(Log) =>
              /\ \A i \in 1 .. Len(Log) : Copy'[i] = Log[i]
              /\ customer_record'[Second] =
                   Apply(Empty, Copy', 1, committed_index'[Second] + 1)
              /\ committed_index[Second] <= committed_index'[Second]
              /\ primary_id[Second] # Second
         /\ Len(Copy) >= Len(Log) => customer_record'[Second] = customer_record[Second]
         /\ \A d \in Conn : ~InFlight(d)' /\ (d[2] # Second => eng'[d] = "none")
         /\ UNCHANGED <<erq, expert, primary_id, replica_stubs, sent, acked>>
<1> PICK n, l, a, k, op, new :
      /\ n = Len(Copy) /\ l = Len(Log) /\ a = committed_index[Second]
      /\ k = msg[c].committed_index /\ op = msg[c].op /\ new = Append(Copy, op)
  OBVIOUS
<1>0. /\ First \in Server /\ Second \in Server /\ First # Second
      /\ First' = First /\ Second' = Second /\ Primary = First
      /\ n \in Nat /\ l \in Nat /\ a \in Int /\ Copy \in Seq(Op) /\ Log \in Seq(Op)
      /\ smr_log \in [Server -> Seq(Op)]
      /\ last_index \in [Server -> Int] /\ committed_index \in [Server -> Int]
      /\ customer_record \in [Server -> [Key -> Int]]
      /\ eng \in [Conn -> {"none", "order", "backup", "append"}]
      /\ wire \in [Conn -> {"empty", "register", "request", "ack"}]
      /\ Alone /\ LastRequest /\ RecordKept
  BY PairTypes, TakeoverTypes DEF TakenOver
<1>1. /\ eng[c] = "append" /\ ~Locked(Second)
      /\ smr_log' = [smr_log EXCEPT ![Second] = new]
      /\ CatchUp(Second, new, k)
      /\ last_index' = [last_index EXCEPT ![Second] = msg[c].last_index]
      /\ committed_index' = [committed_index EXCEPT ![Second] = k]
      /\ eng' = [eng EXCEPT ![c] = "backup"]
      /\ wire' = [wire EXCEPT ![c] = IF open[c] THEN "ack" ELSE "empty"]
      /\ UNCHANGED <<erq, expert, primary_id, replica_stubs, sent, acked>>
  BY DEF EngineerAppend, LogAppend, Answer, Copy, clientvars
<1>2. /\ Log # <<>> /\ n >= l - 1 /\ \A i \in 1 .. l - 1 : Copy[i] = Log[i]
      /\ op = Log[l] /\ msg[c].last_index = l - 1 /\ k \in {l - 2, l - 1}
      /\ InStep(Second)
      /\ IF n < l THEN primary_id[Second] # Second ELSE a = n - 1
      /\ \A d \in Conn : InFlight(d) => d = c
  <2>1. InFlight(c)
    BY <1>1 DEF InFlight
  <2> QED BY <1>0, <1>1, <2>1 DEF LastRequest
<1>3. l \in Nat \ {0} /\ op \in Op
  <2>1. l \in Nat \ {0}
    BY <1>0, <1>2, EmptySeq
  <2> QED BY <1>0, <1>2, <2>1, ElementOfSeq
<1>4. /\ new \in Seq(Op) /\ Len(new) = n + 1 /\ new[n + 1] = op
      /\ \A i \in 1 .. n : new[i] = Copy[i]
  BY <1>0, <1>3, AppendProperties
<1>5. /\ Copy' = new /\ Log' = Log
      /\ last_index'[Second] = l - 1 /\ committed_index'[Second] = k
  BY <1>0, <1>1, <1>2 DEF Copy, Log
<1>6. /\ a >= -1 /\ a \in {n - 2, n - 1}
      /\ customer_record[Second] = Apply(Empty, Copy, 1, a + 1)
  BY <1>2 DEF RecordKept, TakenOver
<1>7. ASSUME n < l
      PROVE  /\ \A i \in 1 .. l : new[i] = Log[i]
             /\ customer_record'[Second] = Apply(Empty, new, 1, k + 1)
             /\ a <= k
  <2>1. n = l - 1 /\ k \in Int /\ k < Len(new) /\ a <= k
    <3>1. n \in Nat /\ l \in Nat \ {0} /\ n >= l - 1 /\ k \in {l - 2, l - 1} /\ Len(new) = n + 1
      BY <1>0, <1>2, <1>3, <1>4
    <3>2. a \in Int /\ a \in {n - 2, n - 1}
      BY <1>0, <1>6
    <3> QED BY <1>7, <3>1, <3>2
  <2>2. \A i \in 1 .. l : new[i] = Log[i]
    BY <1>0, <1>2, <1>4, <2>1
  <2>3. Same(smr_log[Second], new, 1, committed_index[Second] + 1)
    BY <1>0, <1>4, <1>6 DEF Same, Copy
  <2>4. customer_record[Second] =
          Apply(Empty, smr_log[Second], 1, committed_index[Second] + 1)
    BY <1>6 DEF Copy
  <2>5. /\ Second \in Server /\ new \in Seq(Op) /\ k \in Int /\ k < Len(new)
        /\ committed_index[Second] >= -1 /\ committed_index[Second] <= k
        /\ CatchUp(Second, new, k)
    BY <1>0, <1>1, <1>4, <1>6, <2>1
  <2>6. customer_record' = [customer_record EXCEPT ![Second] = Apply(Empty, new, 1, k + 1)]
    BY <2>3, <2>4, <2>5, CatchUpAll
  <2> QED BY <1>0, <2>1, <2>2, <2>6
<1>8. ASSUME n >= l PROVE customer_record'[Second] = customer_record[Second]
  <2> PICK rec, lo, hi : rec = customer_record[Second] /\ lo = n + 1 /\ hi = k + 1
    OBVIOUS
  <2>1. committed_index[Second] + 2 = lo /\ hi < lo /\ lo \in Int /\ hi \in Int
    <3>1. n \in Nat /\ l \in Nat /\ k \in {l - 2, l - 1} /\ a = n - 1
      BY <1>0, <1>2, <1>8
    <3> QED BY <1>8, <3>1
  <2>2. PICK f \in Reads(new, lo, hi) :
          customer_record' = [customer_record EXCEPT ![Second] = Apply(@, f, lo, hi)]
    <3>1. CatchUp(Second, new, k) /\ committed_index[Second] + 2 = lo /\ k + 1 = hi
      BY <1>1, <2>1
    <3> QED BY <3>1 DEF CatchUp
  <2>3. lo .. hi = {}
    BY <2>1
  <2>4. Apply(rec, f, lo, hi) = [x \in Key |-> rec[x]]
    BY <2>3 DEF Apply
  <2>5. rec \in [Key -> Int]
    BY <1>0
  <2>6. Apply(rec, f, lo, hi) = rec
    BY <2>4, <2>5
  <2> QED BY <1>0, <2>2, <2>6
<1>9. \A d \in Conn : ~InFlight(d)' /\ (d[2] # Second => eng'[d] = "none")
  <2>1. eng'[c] = "backup" /\ wire'[c] # "request"
    BY <1>0, <1>1
  <2>2. \A d \in Conn \ {c} : eng'[d] = eng[d] /\ wire'[d] = wire[d]
    BY <1>0, <1>1
  <2>3. \A d \in Conn : d[2] # Second => eng[d] = "none"
    BY <1>0 DEF Alone
  <2> QED BY <1>2, <2>1, <2>2, <2>3 DEF InFlight
<1> QED BY <1>1, <1>2, <1>3, <1>4, <1>5, <1>7, <1>8, <1>9

(* In either case no answered order is lost, and the record only grows.    *)
LEMMA AppendKeeps ==
  ASSUME Pair, TypeInv, TakenOver, NEW c \in Conn, c[2] = Second, EngineerAppend(c)
  PROVE  TakenOver'
<1> PICK n, l, new, k : /\ n = Len(Copy) /\ l = Len(Log) /\ new = Copy'
                        /\ k = committed_index'[Second]
  OBVIOUS
<1>0. /\ First' = First /\ Second' = Second /\ n \in Nat /\ l \in Nat
      /\ Alone /\ OrdersKept /\ AnswersKept
  BY PairTypes, TakeoverTypes DEF TakenOver
<1>1. /\ ~Locked(Second) /\ l \in Nat \ {0} /\ n >= l - 1
      /\ InStep(Second) /\ Log' = Log
      /\ Len(new) = n + 1 /\ new[n + 1] = Log[l] /\ \A i \in 1 .. n : new[i] = Copy[i]
      /\ last_index'[Second] = l - 1 /\ k \in {l - 2, l - 1}
      /\ n < l => /\ \A i \in 1 .. l : new[i] = Log[i]
                  /\ customer_record'[Second] = Apply(Empty, new, 1, k + 1)
                  /\ primary_id[Second] # Second
      /\ \A d \in Conn : ~InFlight(d)' /\ (d[2] # Second => eng'[d] = "none")
      /\ UNCHANGED <<erq, expert, primary_id, replica_stubs, sent, acked>>
  BY LastAppend
<1>2. Alone'
  BY <1>0, <1>1 DEF Alone, Locked
<1>3. LastRequest'
  BY <1>1 DEF LastRequest
<1>4. InStep(Second)' => n = l - 1
  <2>1. InStep(Second)' <=> last_index'[Second] = Len(new) - 1
    BY <1>0 DEF InStep, Copy
  <2> QED BY <1>0, <1>1, <2>1
<1>5. OrdersKept'
  <2>1. \A i \in 1 .. n + 1 : (i \in 1 .. n /\ new[i] = Copy[i]) \/ new[i] = Log[l]
    BY <1>0, <1>1
  <2>2. l \in 1 .. l
    BY <1>1
  <2>3. /\ \A i \in 1 .. l : Log[i] \in OrderOp /\ Log[i].arg2 < sent[Log[i].arg1]
        /\ \A i \in 1 .. n : Copy[i] \in OrderOp /\ Copy[i].arg2 < sent[Copy[i].arg1]
    BY <1>0 DEF OrdersKept
  <2>4. \A i \in 1 .. n + 1 : new[i] \in OrderOp /\ new[i].arg2 < sent[new[i].arg1]
    BY <2>1, <2>2, <2>3
  <2>5. \A j \in 1 .. Len(erq[Second]) :
          /\ \A i \in 1 .. l :
               Log[i].arg1 = erq[Second][j].arg1 => Log[i].arg2 < erq[Second][j].arg2
          /\ \A i \in 1 .. n :
               Copy[i].arg1 = erq[Second][j].arg1 => Copy[i].arg2 < erq[Second][j].arg2
    BY <1>0 DEF OrdersKept
  <2>6. \A j \in 1 .. Len(erq[Second]) : \A i \in 1 .. n + 1 :
          new[i].arg1 = erq[Second][j].arg1 => new[i].arg2 < erq[Second][j].arg2
    <3> SUFFICES ASSUME NEW j \in 1 .. Len(erq[Second]), NEW i \in 1 .. n + 1,
                        new[i].arg1 = erq[Second][j].arg1
                 PROVE  new[i].arg2 < erq[Second][j].arg2
      OBVIOUS
    <3>1. CASE i \in 1 .. n /\ new[i] = Copy[i]
      BY <2>5, <3>1
    <3>2. CASE new[i] = Log[l]
      BY <2>2, <2>5, <3>2
    <3> QED BY <2>1, <3>1, <3>2
  <2>7. \A i, j \in 1 .. l :
          i < j /\ Log[i].arg1 = Log[j].arg1 => Log[i].arg2 < Log[j].arg2
    BY <1>0 DEF OrdersKept
  <2>8. InStep(Second)' => \A i, j \in 1 .. n + 1 :
          i < j /\ new[i].arg1 = new[j].arg1 => new[i].arg2 < new[j].arg2
    <3> SUFFICES ASSUME n = l - 1, NEW i \in 1 .. n + 1, NEW j \in 1 .. n + 1, i < j,
                        new[i].arg1 = new[j].arg1
                 PROVE  new[i].arg2 < new[j].arg2
      BY <1>4
    <3>1. i \in 1 .. l /\ j \in 1 .. l /\ new[i] = Log[i] /\ new[j] = Log[j]
      BY <1>0, <1>1
    <3> QED BY <2>7, <3>1
  <2> QED BY <1>0, <1>1, <2>3, <2>4, <2>5, <2>6, <2>7, <2>8 DEF OrdersKept
<1>6. RecordKept'
  <2>1. last_index'[Second] < Len(new)
    BY <1>0, <1>1
  <2>2. n = l - 1 => /\ k >= -1 /\ k \in {Len(new) - 2, Len(new) - 1}
                     /\ customer_record'[Second] = Apply(Empty, new, 1, k + 1)
                     /\ primary_id'[Second] # Second
    BY <1>0, <1>1
  <2> QED BY <1>0, <1>4, <2>1, <2>2 DEF RecordKept
<1>7. AnswersKept'
  <2>1. ASSUME NEW e \in acked PROVE \E i \in 1 .. n + 1 : new[i] = e[2]
    <3>1. PICK i \in 1 .. n : Copy[i] = e[2]
      BY <1>0 DEF AnswersKept
    <3> QED BY <1>0, <1>1, <3>1
  <2> QED BY <1>1, <2>1 DEF AnswersKept
<1> QED BY <1>2, <1>3, <1>5, <1>6, <1>7 DEF TakenOver

-----------------------------------------------------------------------------
(* Customers, while the second server runs alone. *)

(* More is sent, and queued behind everything logged.                      *)
LEMMA SentKeeps ==
  ASSUME Pair, TypeInv, TakenOver,
         UNCHANGED <<expert, smr_log, customer_record, last_index, committed_index,
                     primary_id, replica_stubs, eng, wire, msg, acked>>,
         \A d \in Customer : sent'[d] \in Int /\ sent[d] <= sent'[d],
         \A j \in 1 .. Len(erq'[Second]) :
           \/ j \in 1 .. Len(erq[Second]) /\ erq'[Second][j] = erq[Second][j]
           \/ erq'[Second][j].arg2 = sent[erq'[Second][j].arg1]
  PROVE  TakenOver'
<1>0. /\ First' = First /\ Second' = Second
      /\ sent \in [Customer -> 0 .. NumOrders] /\ NumOrders \in Nat
      /\ \A o \in OrderOp : o.arg1 \in Customer /\ o.arg2 \in Int
      /\ Alone /\ LastRequest /\ OrdersKept /\ RecordKept /\ AnswersKept
  BY PairTypes, TakeoverTypes DEF TakenOver
<1>1. Copy' = Copy /\ Log' = Log /\ InStep(Second)' = InStep(Second)
      /\ Locked(Second)' = Locked(Second)
  BY <1>0 DEF Copy, Log, InStep, Locked
<1>2. Alone' /\ LastRequest' /\ RecordKept' /\ AnswersKept'
  BY <1>0, <1>1 DEF Alone, LastRequest, RecordKept, AnswersKept, InFlight, Locked
<1>3. ASSUME NEW o \in OrderOp, o.arg2 < sent[o.arg1] PROVE o.arg2 < sent'[o.arg1]
  <2>1. /\ o.arg1 \in Customer /\ o.arg2 \in Int /\ sent[o.arg1] \in Int
        /\ sent'[o.arg1] \in Int /\ sent[o.arg1] <= sent'[o.arg1]
    BY <1>0
  <2> QED BY <1>3, <2>1
<1>4. /\ \A i \in 1 .. Len(Log)  : Log[i] \in OrderOp /\ Log[i].arg2 < sent[Log[i].arg1]
      /\ \A i \in 1 .. Len(Copy) : Copy[i] \in OrderOp /\ Copy[i].arg2 < sent[Copy[i].arg1]
  BY <1>0 DEF OrdersKept
<1>5. /\ \A i \in 1 .. Len(Log)  : Log[i].arg2 < sent'[Log[i].arg1]
      /\ \A i \in 1 .. Len(Copy) : Copy[i].arg2 < sent'[Copy[i].arg1]
  BY <1>3, <1>4
<1>6. ASSUME NEW j \in 1 .. Len(erq'[Second])
      PROVE  /\ \A i \in 1 .. Len(Log) :
                  Log[i].arg1 = erq'[Second][j].arg1 => Log[i].arg2 < erq'[Second][j].arg2
             /\ \A i \in 1 .. Len(Copy) :
                  Copy[i].arg1 = erq'[Second][j].arg1 => Copy[i].arg2 < erq'[Second][j].arg2
  <2>1. CASE j \in 1 .. Len(erq[Second]) /\ erq'[Second][j] = erq[Second][j]
    BY <1>0, <2>1 DEF OrdersKept
  <2>2. CASE erq'[Second][j].arg2 = sent[erq'[Second][j].arg1]
    BY <1>4, <2>2
  <2> QED BY <2>1, <2>2
<1>7. OrdersKept'
  BY <1>0, <1>1, <1>4, <1>5, <1>6 DEF OrdersKept
<1> QED BY <1>2, <1>7 DEF TakenOver

(* The balancer brings an order, or tells a customer that its server died. *)
LEMMA CustomersKeep ==
  ASSUME Pair, TypeInv, TakenOver, ~Up(First), NEW c \in Customer,
         LbSend(c) \/ LbBroken(c)
  PROVE  TakenOver'
<1>0. /\ First \in Server /\ Second \in Server /\ First # Second /\ Server = {First, Second}
      /\ sent \in [Customer -> 0 .. NumOrders] /\ NumOrders \in Nat
      /\ erq \in [Server -> Seq(OrderOp)] /\ erq[Second] \in Seq(OrderOp)
      /\ \A d \in Customer : sent[d] \in Int
  BY PairTypes, TakeoverTypes
<1>1. CASE LbBroken(c)
  <2>1. /\ UNCHANGED <<erq, expert, smr_log, customer_record, last_index, committed_index,
                       primary_id, replica_stubs, eng, wire, msg, acked>>
        /\ sent' = [sent EXCEPT ![c] = NumOrders]
    BY <1>1 DEF LbBroken, logvars, connvars
  <2>2. \A d \in Customer : sent'[d] \in Int /\ sent[d] <= sent'[d]
    BY <1>0, <2>1
  <2> QED BY <2>1, <2>2, SentKeeps
<1>2. CASE LbSend(c)
  <2> PICK s, q, op : s = lb[c].stub /\ q = erq[Second] /\ op = [arg1 |-> c, arg2 |-> sent[c]]
    OBVIOUS
  <2>1. /\ Up(s) /\ s \in Contact /\ sent[c] < NumOrders
        /\ erq' = [erq EXCEPT ![s] = Append(erq[s], op)]
        /\ sent' = [sent EXCEPT ![c] = sent[c] + 1]
        /\ UNCHANGED <<expert, smr_log, customer_record, last_index, committed_index,
                       primary_id, replica_stubs, eng, wire, msg, acked>>
    BY <1>2 DEF LbSend, Order, logvars, connvars
  <2>2. s = Second
    BY <1>0, <2>1, ServerAssumption
  <2>3. \A d \in Customer : sent'[d] \in Int /\ sent[d] <= sent'[d]
    BY <1>0, <2>1
  <2>4. op \in OrderOp
    BY <1>0, <2>1 DEF OrderOp
  <2>5. /\ Len(q) \in Nat /\ Len(Append(q, op)) = Len(q) + 1 /\ Append(q, op)[Len(q) + 1] = op
        /\ \A j \in 1 .. Len(q) : Append(q, op)[j] = q[j]
    BY <1>0, <2>4, AppendProperties, LenProperties
  <2>6. erq'[Second] = Append(q, op)
    BY <1>0, <2>1, <2>2
  <2>7. \A j \in 1 .. Len(q) + 1 : j \in 1 .. Len(q) \/ j = Len(q) + 1
    BY <2>5
  <2>8. \A j \in 1 .. Len(erq'[Second]) :
          \/ j \in 1 .. Len(erq[Second]) /\ erq'[Second][j] = erq[Second][j]
          \/ erq'[Second][j].arg2 = sent[erq'[Second][j].arg1]
    BY <2>5, <2>6, <2>7
  <2> QED BY <2>1, <2>3, <2>8, SentKeeps
<1> QED BY <1>1, <1>2

-----------------------------------------------------------------------------
(* The whole. *)

(* What holds before and after the death of the first server.              *)
LEMMA BeforeAndAfter ==
  ASSUME Pair, TakeoverInv
  PROVE  /\ Up(First) => SteadyInv /\ Unregistered
         /\ ~Up(First) /\ Up(Second) => TakenOver
  BY FirstDies DEF TakeoverInv

(* Every step of the second server, and of the balancer, keeps it all.     *)
LEMMA TakenOverSteps ==
  ASSUME Pair, SystemTypeInv, TrackInv, BalancerInv, TakenOver, ~Up(First), Up(Second),
         [SystemNext]_allvars, Up(Second)'
  PROVE  TakenOver'
<1>0. TypeInv /\ NeverStarts /\ Alone
  BY DEF SystemTypeInv, BalancerInv, TakenOver
<1>1. CASE UNCHANGED vars
  <2>1. /\ UNCHANGED <<erq, sent, expert, smr_log, customer_record, last_index, committed_index,
                       primary_id, replica_stubs, eng, wire, msg, acked>>
    BY <1>1 DEF vars, logvars, connvars, clientvars
  <2>2. \A d \in Customer : sent'[d] \in Int /\ sent[d] <= sent'[d]
    BY <1>0, <2>1, TakeoverTypes
  <2> QED BY <1>0, <2>1, <2>2, SentKeeps
<1>2. CASE ServerNext
  BY <1>0, <1>2, TakeoverSteps, WaitsKeeps, TakeKeeps, FinishKeeps, RegisterKeeps,
     ReceiveKeeps, AppendKeeps DEF EngineerThread
<1>3. ASSUME NEW c \in Customer, LbConnect(c) \/ LbFailover(c) \/ LbNullStub(c)
      PROVE  UNCHANGED vars
  BY <1>3 DEF LbConnect, LbFailover, LbNullStub
<1> QED BY <1>0, <1>1, <1>2, <1>3, CustomersKeep
        DEF SystemNext, LbThread, ServerStep, allvars

(* Every step keeps the two servers in order.                              *)
LEMMA NextPair == ASSUME Pair PROVE PairInv /\ [SystemNext]_allvars => PairInv'
<1> SUFFICES ASSUME PairInv, [SystemNext]_allvars PROVE PairInv'
  OBVIOUS
<1>0. /\ Arranged /\ TwoServers /\ First' = First /\ Second' = Second
      /\ First \in Server /\ Second \in Server
      /\ SystemTypeInv /\ TypeInv /\ TrackInv /\ BalancerInv /\ TakeoverInv
  BY PairTypes DEF Pair, PairInv, SystemTypeInv
<1>1. SystemTypeInv' /\ BalancerInv'
  BY <1>0, NextSystemType, NextBalancer
<1>2. \/ [Next]_vars
      \/ \E c \in Customer : LbBroken(c) /\ at[c] = NoServer
  <2>1. ASSUME NEW c \in Customer, LbBroken(c) PROVE at[c] = NoServer
    BY <1>0, <2>1 DEF LbBroken, BalancerInv, InOnePlace
  <2>2. ASSUME NEW c \in Customer, LbSend(c) PROVE Next
    <3>1. Order(c, lb[c].stub) /\ lb[c].stub \in Server
      BY <2>2, ServerAssumption DEF LbSend, Order
    <3> QED BY <3>1 DEF Next
  <2>3. ASSUME NEW c \in Customer, LbConnect(c) \/ LbFailover(c) \/ LbNullStub(c)
        PROVE  UNCHANGED vars
    BY <2>3 DEF LbConnect, LbFailover, LbNullStub
  <2> QED BY <2>1, <2>2, <2>3 DEF SystemNext, LbThread, ServerStep, Next, allvars
<1>3. TrackInv'
  BY <1>0, <1>2, NextTrack, BrokenTrack
<1>4. /\ Up(First)' => Up(First)
      /\ Up(Second)' => Up(Second)
  <2>1. CASE ServerNext
    BY <1>0, <2>1, ServersOnlyFinish DEF BalancerInv, TwoServers
  <2>2. CASE ~ServerNext
    <3>1. UNCHANGED mode
      BY <2>2 DEF SystemNext, LbThread, ServerStep, LbConnect, LbFailover, LbSend, LbBroken,
         LbNullStub, Order, vars, allvars
    <3> QED BY <1>0, <3>1 DEF Up
  <2> QED BY <2>1, <2>2
<1>5. ASSUME Up(First)
      PROVE  /\ SteadyInv' /\ Unregistered'
  <2>1. SteadyInv /\ Unregistered
    BY <1>0, <1>5, BeforeAndAfter
  <2>2. CASE [SteadyNext]_vars
    BY <1>0, <1>5, <2>1, <2>2, NextSteady, RegisteredOnce
  <2>3. ASSUME NEW c \in Customer, LbBroken(c), at[c] = NoServer
        PROVE  SteadyInv' /\ Unregistered'
    <3>1. SteadyInv'
      BY <1>0, <1>1, <2>1, <2>3, BrokenSteady DEF SystemTypeInv
    <3>2. UNCHANGED <<primary_id, smr_log, eng>>
      BY <2>3 DEF LbBroken, logvars, connvars
    <3> QED BY <1>0, <2>1, <3>1, <3>2 DEF Unregistered, Copy
  <2> QED BY <1>0, <1>5, <2>2, <2>3, FirstRunsSteps
<1>6. ASSUME ~Up(First), Up(Second)' PROVE TakenOver'
  <2>1. TakenOver /\ Up(Second)
    BY <1>0, <1>4, <1>6, BeforeAndAfter
  <2> QED BY <1>0, <1>6, <2>1, TakenOverSteps
<1>7. TakeoverInv'
  BY <1>0, <1>4, <1>5, <1>6 DEF TakeoverInv
<1> QED BY <1>1, <1>3, <1>7 DEF PairInv

(* The first server is the primary of an empty cluster.                    *)
LEMMA InitPair == ASSUME Pair PROVE SystemInit => PairInv
<1> SUFFICES ASSUME SystemInit PROVE PairInv
  OBVIOUS
<1>1. Init /\ Arranged /\ TwoServers
  BY DEF SystemInit, Pair
<1>2. Second \in Server
  BY PairTypes
<1>3. Unregistered
  BY <1>1, <1>2 DEF Init, Unregistered, Copy
<1> QED BY <1>1, <1>3, InitSystemType, InitTrack, InitBalancer, InitSteady
        DEF PairInv, TakeoverInv

(* It holds throughout.                                                    *)
LEMMA PairAlways == ASSUME Pair PROVE SystemSpec => []PairInv /\ [][SystemNext]_allvars
  BY InitPair, NextPair, PTL DEF SystemSpec

-----------------------------------------------------------------------------
(* What a takeover keeps. *)

(* An order answered to a customer is in the log of whichever server runs, *)
(* the one that answered it or the one that took over.                     *)
THEOREM TakeoverKeepsLog == ASSUME Pair PROVE SystemSpec => []AckedEverywhere
<1>1. PairInv => AckedEverywhere
  <2> SUFFICES ASSUME PairInv PROVE AckedEverywhere
    OBVIOUS
  <2>0. TypeInv /\ TakeoverInv
    BY DEF PairInv, SystemTypeInv
  <2>1. CASE Up(First)
    BY <2>0, <2>1, BeforeAndAfter, AckedLogged
  <2>2. CASE ~Up(First)
    <3> SUFFICES ASSUME NEW e \in acked, NEW s \in Server, Up(s)
                 PROVE  e[2] \in Range(smr_log[s])
      BY DEF AckedEverywhere
    <3>1. s = Second
      BY <2>2, PairTypes
    <3>2. PICK i \in 1 .. Len(Copy) : Copy[i] = e[2]
      BY <2>0, <2>2, <3>1, BeforeAndAfter DEF TakenOver, AnswersKept
    <3>3. DOMAIN Copy = 1 .. Len(Copy)
      BY <2>0, TakeoverTypes, LenProperties
    <3> QED BY <3>1, <3>2, <3>3 DEF Range, Copy
  <2> QED BY <2>1, <2>2
<1> QED BY <1>1, PairAlways, PTL

(* A log in which each customer's orders ascend leaves at least each of    *)
(* them in the record.                                                     *)
LEMMA ApplyCovers ==
  ASSUME NEW f, NEW n \in Nat, NEW i \in 1 .. n, f[i].arg1 \in Key,
         \A j \in 1 .. n : f[j].arg2 \in Int,
         \A j, k \in 1 .. n : j < k /\ f[j].arg1 = f[k].arg1 => f[j].arg2 < f[k].arg2
  PROVE  Apply(Empty, f, 1, n)[f[i].arg1] >= f[i].arg2
<1> PICK x, F : x = f[i].arg1 /\ F = {j \in 1 .. n : f[j].arg1 = x}
  OBVIOUS
<1>1. F \in SUBSET (1 .. n) /\ i \in F /\ 1 \in Int /\ n \in Int
  BY DEF Key
<1>2. PICK m : m = Max(F)
  OBVIOUS
<1>3. m \in F /\ m >= i
  BY <1>1, <1>2, MaxOfIndices
<1>4. f[m].arg2 >= f[i].arg2
  BY <1>1, <1>3
<1>5. Apply(Empty, f, 1, n)[x] = f[m].arg2
  BY <1>1, <1>2 DEF Apply
<1> QED BY <1>4, <1>5

(* What a server with all its log applied knows of what it has logged.     *)
LEMMA RecordCovers ==
  ASSUME Pair, TypeInv, NEW log \in Seq(Op), NEW e \in acked,
         \A i \in 1 .. Len(log) : log[i] \in OrderOp,
         \A i, j \in 1 .. Len(log) :
           i < j /\ log[i].arg1 = log[j].arg1 => log[i].arg2 < log[j].arg2,
         \E i \in 1 .. Len(log) : log[i] = e[2]
  PROVE  Apply(Empty, log, 1, Len(log))[e[2].arg1] >= e[2].arg2
<1>1. PICK i \in 1 .. Len(log) : log[i] = e[2]
  OBVIOUS
<1>2. Len(log) \in Nat
  BY LenProperties
<1>3. \A j \in 1 .. Len(log) : log[j].arg1 \in Key /\ log[j].arg2 \in Int
  BY TakeoverTypes DEF Key
<1> QED BY <1>1, <1>2, <1>3, ApplyCovers

(* A server that takes itself for the primary, has no order in execution,  *)
(* and whose last_index is the end of its log (InStep), reads out, for any *)
(* customer, at least the last order that the customer was answered, by it *)
(* or by the server it took over from. InStep leaves out the server that   *)
(* has appended a late request of the dead one behind its own orders; its  *)
(* record may lack an answered order (run stale_record).                   *)
THEOREM TakeoverKnowsAnswers == ASSUME Pair PROVE SystemSpec => []TakeoverKeepsAnswers
<1>1. PairInv => TakeoverKeepsAnswers
  <2> SUFFICES ASSUME PairInv, NEW s \in Server, Up(s), primary_id[s] = s, ~Locked(s),
                      InStep(s), NEW e \in acked
               PROVE  customer_record[s][e[2].arg1] >= e[2].arg2
    BY DEF TakeoverKeepsAnswers
  <2>0. /\ TypeInv /\ TakeoverInv /\ First # Second /\ Server = {First, Second}
        /\ Primary = First
        /\ smr_log[s] \in Seq(Op) /\ Len(smr_log[s]) \in Nat /\ Arranged
    <3>1. TypeInv
      BY DEF PairInv, SystemTypeInv
    <3> QED BY <3>1, PairTypes, TakeoverTypes, LenProperties DEF PairInv, Pair
  <2>1. ASSUME committed_index[s] = Len(smr_log[s]) - 1,
               customer_record[s] = Apply(Empty, smr_log[s], 1, committed_index[s] + 1),
               \A i \in 1 .. Len(smr_log[s]) : smr_log[s][i] \in OrderOp,
               \A i, j \in 1 .. Len(smr_log[s]) :
                 i < j /\ smr_log[s][i].arg1 = smr_log[s][j].arg1 =>
                   smr_log[s][i].arg2 < smr_log[s][j].arg2,
               \E i \in 1 .. Len(smr_log[s]) : smr_log[s][i] = e[2]
        PROVE  customer_record[s][e[2].arg1] >= e[2].arg2
    <3>1. committed_index[s] + 1 = Len(smr_log[s])
      BY <2>0, <2>1
    <3> QED BY <2>0, <2>1, <3>1, RecordCovers
  <2>2. CASE Up(First) /\ s = First
    <3>1. SteadyInv
      BY <2>0, <2>2, BeforeAndAfter
    <3>2. committed_index[s] = Len(smr_log[s]) - 1
      BY <2>0, <2>2, <3>1
         DEF Locked, SteadyInv, ReplicationInv, Progress, Between, Phase, Log
    <3>3. customer_record[s] = Apply(Empty, smr_log[s], 1, committed_index[s] + 1)
      BY <3>1 DEF SteadyInv, ReplicationInv, LogInv, Applied
    <3>4. /\ \A i \in 1 .. Len(smr_log[s]) : smr_log[s][i] \in OrderOp
          /\ \A i, j \in 1 .. Len(smr_log[s]) :
               i < j /\ smr_log[s][i].arg1 = smr_log[s][j].arg1 =>
                 smr_log[s][i].arg2 < smr_log[s][j].arg2
      BY <2>0, <2>2, <3>1 DEF SteadyInv, ReplicationInv, LogInv, Orders, Log
    <3>5. \E i \in 1 .. Len(smr_log[s]) : smr_log[s][i] = e[2]
      BY <3>1 DEF SteadyInv, ReplicationInv, LogInv, Answered
    <3> QED BY <2>1, <3>2, <3>3, <3>4, <3>5
  <2>3. CASE Up(First) /\ s = Second
    <3>1. SteadyInv /\ Copy = <<>>
      BY <2>0, <2>3, BeforeAndAfter DEF Unregistered
    <3>2. PICK i \in 1 .. Len(Copy) : Copy[i] = e[2]
      BY <2>3, <3>1 DEF SteadyInv, ReplicationInv, LogInv, Answered, Copy
    <3> QED BY <3>1, <3>2
  <2>4. CASE ~Up(First)
    <3>1. s = Second /\ TakenOver
      BY <2>0, <2>4, BeforeAndAfter
    <3>2. /\ committed_index[s] = Len(smr_log[s]) - 1
          /\ customer_record[s] = Apply(Empty, smr_log[s], 1, committed_index[s] + 1)
      BY <3>1 DEF TakenOver, RecordKept, Copy
    <3>3. /\ \A i \in 1 .. Len(smr_log[s]) : smr_log[s][i] \in OrderOp
          /\ \A i, j \in 1 .. Len(smr_log[s]) :
               i < j /\ smr_log[s][i].arg1 = smr_log[s][j].arg1 =>
                 smr_log[s][i].arg2 < smr_log[s][j].arg2
      BY <3>1 DEF TakenOver, OrdersKept, Copy
    <3>4. \E i \in 1 .. Len(smr_log[s]) : smr_log[s][i] = e[2]
      BY <3>1 DEF TakenOver, AnswersKept, Copy
    <3> QED BY <2>1, <3>2, <3>3, <3>4
  <2> QED BY <2>0, <2>2, <2>3, <2>4
<1> QED BY <1>1, PairAlways, PTL

(* Committing more of a log in step only adds to the record.               *)
LEMMA CommitsMore ==
  ASSUME Pair, TypeInv, TypeInv', TakenOver, TakenOver', InStep(Second), InStep(Second)',
         committed_index[Second] <= committed_index'[Second],
         Len(Copy) <= Len(Copy'), \A i \in 1 .. Len(Copy) : Copy'[i] = Copy[i],
         NEW k \in Key
  PROVE  customer_record'[Second][k] >= customer_record[Second][k]
<1> PICK f, g, a, b : /\ f = Copy /\ g = Copy' /\ a = committed_index[Second] + 1
                      /\ b = committed_index'[Second] + 1
  OBVIOUS
<1>0. /\ Second \in Server /\ Second' = Second /\ Len(f) \in Nat /\ Len(g) \in Nat
      /\ committed_index[Second] \in Int /\ committed_index'[Second] \in Int
      /\ \A o \in OrderOp : o.arg2 \in Int /\ o.arg2 >= 0
  <2>1. /\ Second \in Server /\ Second' = Second
        /\ \A o \in OrderOp : o.arg2 \in Int /\ o.arg2 >= 0
    BY PairTypes, TakeoverTypes
  <2>2. f \in Seq(Op) /\ g \in Seq(Op)
    BY <2>1 DEF TypeInv, TypeOK, Copy
  <2> QED BY <2>1, <2>2, LenProperties DEF TypeInv, TypeOK
<1>1. /\ committed_index[Second] \in {Len(f) - 2, Len(f) - 1}
      /\ customer_record[Second] = Apply(Empty, f, 1, a)
  BY DEF TakenOver, RecordKept
<1>2. /\ committed_index'[Second] \in {Len(g) - 2, Len(g) - 1}
      /\ customer_record'[Second] = Apply(Empty, g, 1, b)
  BY <1>0 DEF TakenOver, RecordKept
<1>3. /\ a \in Int /\ b \in Int /\ a <= b /\ b <= Len(g)
      /\ Same(f, g, 1, a)
  BY <1>0, <1>1, <1>2 DEF Same
<1>4. /\ \A i \in 1 .. Len(g) : g[i] \in OrderOp
      /\ \A i, j \in 1 .. Len(g) : i < j /\ g[i].arg1 = g[j].arg1 => g[i].arg2 < g[j].arg2
  BY <1>0 DEF TakenOver, OrdersKept
<1>5. \A i \in 1 .. b : i \in 1 .. Len(g)
  BY <1>0, <1>3
<1>6. /\ \A i \in 1 .. b : g[i].arg2 \in Int /\ g[i].arg2 >= -1
      /\ \A i, j \in 1 .. b : i < j /\ g[i].arg1 = g[j].arg1 => g[i].arg2 < g[j].arg2
  BY <1>0, <1>4, <1>5
<1>7. Apply(Empty, g, 1, b)[k] >= Apply(Empty, f, 1, a)[k]
  BY <1>3, <1>6, ApplyGrows
<1> QED BY <1>1, <1>2, <1>7

(* No step of the second server, once it is alone, takes a record back.    *)
LEMMA TakeoverAdvances ==
  ASSUME Pair, PairInv, ~Up(First), Up(Second), InStep(Second), [SystemNext]_allvars,
         NEW k \in Key
  PROVE  customer_record'[Second][k] >= customer_record[Second][k]
<1>0. /\ Second \in Server /\ SystemTypeInv /\ TypeInv /\ TrackInv /\ BalancerInv /\ NeverStarts
      /\ TakenOver /\ Alone /\ MaxStarts = 0 /\ PairInv' /\ TypeInv'
      /\ customer_record[Second][k] \in Int /\ committed_index[Second] \in Int
      /\ Len(Copy) \in Nat /\ First' = First /\ Second' = Second
  <2>1. SystemTypeInv /\ TypeInv /\ TrackInv /\ BalancerInv /\ NeverStarts /\ MaxStarts = 0
    BY DEF PairInv, SystemTypeInv, BalancerInv, Pair, TwoServers
  <2>2. TakenOver /\ Alone
    BY BeforeAndAfter DEF PairInv, TakenOver
  <2>3. PairInv' /\ TypeInv'
    BY NextPair DEF PairInv, SystemTypeInv
  <2> QED BY <2>1, <2>2, <2>3, PairTypes, TakeoverTypes
<1>1. CASE UNCHANGED customer_record
  BY <1>0, <1>1
<1>2. CASE Up(Second)' /\ ServerNext
  <2>0. TakenOver'
    BY <1>0, <1>2, TakenOverSteps
  <2>1. CASE Waits
    BY <1>1, <2>1 DEF Waits, logvars
  <2>2. CASE ExpertTake(Second)
    <3>1. /\ Len(Copy') = Len(Copy) + 1 /\ \A i \in 1 .. Len(Copy) : Copy'[i] = Copy[i]
          /\ InStep(Second)'
      BY <1>0, <2>2, TakesShape
    <3>2. committed_index[Second] <= committed_index'[Second]
      BY <1>0, <2>2, TakesRecord
    <3>3. Len(Copy) <= Len(Copy')
      BY <1>0, <3>1
    <3> QED BY <1>0, <2>0, <3>1, <3>2, <3>3, CommitsMore
  <2>3. CASE ExpertFinish(Second)
    <3>1. Copy' = Copy /\ InStep(Second)'
      BY <1>0, <2>3, FinishKeeps
    <3>2. committed_index[Second] < Len(Copy)
      BY <1>0 DEF TakenOver, RecordKept
    <3>3. committed_index[Second] <= committed_index'[Second]
      BY <1>0, <2>3, <3>2, FinishKeeps
    <3>4. Len(Copy) <= Len(Copy')
      BY <1>0, <3>1
    <3> QED BY <1>0, <2>0, <3>1, <3>3, <3>4, CommitsMore
  <2>4. ASSUME NEW c \in Conn, c[2] = Second, EngineerAppend(c)
        PROVE  customer_record'[Second][k] >= customer_record[Second][k]
    <3> PICK n, l : n = Len(Copy) /\ l = Len(Log)
      OBVIOUS
    <3>1. /\ l \in Nat /\ n >= l - 1 /\ Len(Copy') = n + 1
          /\ \A i \in 1 .. n : Copy'[i] = Copy[i]
          /\ last_index'[Second] = l - 1
          /\ n < l => committed_index[Second] <= committed_index'[Second]
          /\ n >= l => customer_record'[Second] = customer_record[Second]
      BY <1>0, <2>4, LastAppend
    <3>2. CASE n >= l
      BY <1>0, <3>1, <3>2
    <3>3. CASE n < l
      <4>1. last_index'[Second] = Len(Copy') - 1 /\ Len(Copy) <= Len(Copy')
        BY <1>0, <3>1, <3>3
      <4>2. InStep(Second)'
        BY <1>0, <4>1 DEF InStep, Copy
      <4> QED BY <1>0, <2>0, <3>1, <3>3, <4>1, <4>2, CommitsMore
    <3>4. n \in Nat
      BY <1>0
    <3> QED BY <3>1, <3>2, <3>3, <3>4
  <2>5. ASSUME NEW c \in Conn, EngineerThread(c), ~EngineerAppend(c)
        PROVE  UNCHANGED customer_record
    BY <2>5 DEF EngineerThread, EngineerRegister, EngineerReceive, EngineerEof, logvars
  <2> QED BY <1>0, <1>1, <1>2, <2>1, <2>2, <2>3, <2>4, <2>5, TakeoverSteps DEF EngineerThread
<1>3. CASE ~Up(Second)' /\ ServerNext
  <2>1. mode' # mode
    BY <1>0, <1>3 DEF Up
  <2>2. ASSUME NEW r \in Server, ExpertThread(r) PROVE UNCHANGED mode
    BY <2>2 DEF ExpertThread, ExpertTake, ExpertConnect, ExpertRegistered, ExpertConnected,
       ExpertSend, ExpertAcked, ExpertFinish
  <2>3. ASSUME NEW c \in Conn, EngineerThread(c) PROVE UNCHANGED mode
    BY <2>3 DEF EngineerThread, EngineerRegister, EngineerReceive, EngineerAppend, EngineerEof
  <2>4. \/ \E r \in Server : ExpertThread(r) \/ (Up(r) /\ Crash(r))
        \/ \E c \in Conn : EngineerThread(c)
    BY <1>0, <1>3, RunningSteps
  <2>5. PICK r \in Server : Crash(r)
    BY <2>1, <2>2, <2>3, <2>4
  <2> QED BY <1>1, <2>5 DEF Crash, logvars
<1>4. CASE ~ServerNext
  <2>1. UNCHANGED customer_record
    BY <1>4 DEF SystemNext, LbThread, ServerStep, LbConnect, LbFailover, LbSend, LbBroken,
       LbNullStub, Order, vars, allvars, logvars
  <2> QED BY <1>1, <2>1
<1> QED BY <1>2, <1>3, <1>4

(* As long as a server's last_index is the end of its log (InStep), no     *)
(* step takes back the last order it reports for a customer, neither while *)
(* it is a backup, nor in the takeover, nor as the new primary. Once it    *)
(* has appended a late request of the dead server behind its own orders    *)
(* that is no longer so (run stale_record).                                *)
THEOREM TakeoverRecordsAdvance == ASSUME Pair PROVE SystemSpec => TakeoverKeepsRecords
<1>1. PairInv /\ [SystemNext]_allvars =>
        [\A s \in Server : Up(s) /\ InStep(s) =>
           \A k \in Key : customer_record'[s][k] >= customer_record[s][k]]_allvars
  <2> SUFFICES ASSUME PairInv, [SystemNext]_allvars, NEW s \in Server, Up(s), InStep(s),
                      NEW k \in Key
               PROVE  customer_record'[s][k] >= customer_record[s][k]
    OBVIOUS
  <2>0. /\ SystemTypeInv /\ TypeInv /\ BalancerInv /\ TakeoverInv /\ Arranged
        /\ customer_record[s][k] \in Int
    <3>1. SystemTypeInv /\ TypeInv /\ BalancerInv /\ TakeoverInv /\ Arranged
      BY DEF PairInv, SystemTypeInv, Pair
    <3> QED BY <3>1, TakeoverTypes
  <2>1. CASE ~Up(First)
    <3>1. s = Second
      BY <2>1, PairTypes
    <3> QED BY <2>1, <3>1, TakeoverAdvances
  <2>2. CASE Up(First) /\ [SteadyNext]_vars
    <3>1. SteadyInv
      BY <2>0, <2>2, BeforeAndAfter
    <3> QED BY <2>0, <2>2, <3>1, RecordsAdvance
  <2>3. ASSUME NEW c \in Customer, LbBroken(c)
        PROVE  customer_record'[s][k] >= customer_record[s][k]
    <3>1. UNCHANGED customer_record
      BY <2>3 DEF LbBroken, logvars
    <3> QED BY <2>0, <3>1
  <2> QED BY <2>0, <2>1, <2>2, <2>3, FirstRunsSteps
<1> QED BY <1>1, PairAlways, PTL DEF TakeoverKeepsRecords
=============================================================================
