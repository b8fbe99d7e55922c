----------------------------- MODULE SteadyProofs -----------------------------
(* Replication by one production server: what the runs steady and restart  *)
(* check on three servers, for any cluster.                                *)
EXTENDS LaptopFactoryProofs

-----------------------------------------------------------------------------
(* The clusters meant.                                                     *)

CONSTANT Primary   \* the server that takes the orders

Peers == Replicas[Primary]

(* All servers are there from the start and none is restarted.  Of the     *)
(* primary's peers only the last may die: a closed stub is then never      *)
(* followed by a new connection, which could get its descriptor number.    *)
Arranged ==
  /\ Primary \in Server /\ StartUp = Server /\ MaxStarts = 0
  /\ Range(Peers) = Server \ {Primary}
  /\ \A i \in 1 .. Len(Peers) - 1 : Peers[i] \notin MayCrash

(* Customers order from the primary only: in a cluster of its own, or as   *)
(* long as whoever stands before the cluster sends them there.             *)
SteadyNext == ServerNext \/ \E c \in Customer : Order(c, Primary)

Steady == Arranged /\ Contact = {Primary}

-----------------------------------------------------------------------------
(* The inductive invariant. *)

Log   == smr_log[Primary]
Stubs == replica_stubs[Primary]
Phase == expert[Primary].pc
Turn  == expert[Primary].i

Holds(s) == Len(smr_log[s]) = Len(Log)
Lacks(s) == Len(smr_log[s]) = Len(Log) - 1

\* The order is on its way to the backup c[2], or in its engineer's hands.
InFlight(c) == wire[c] = "request" \/ eng[c] = "append"

(* Nobody restarts, and only the primary replicates, to running peers.     *)
Shape ==
  /\ \A s \in Server : \/ mode[s] = "up"
                       \/ mode[s] = "down" /\ s \in MayCrash
  /\ \A s \in Server : s # Primary \/ ~Up(s) =>
       expert[s].pc = "idle" /\ erq[s] = <<>> /\ replica_stubs[s] = <<>>
  /\ \A c \in Conn : c[1] # Primary \/ ~Up(c[2]) =>
       eng[c] = "none" /\ wire[c] = "empty"

(* Every log is the primary's up to some point, and a running server's is  *)
(* at most one entry shorter.                                              *)
Copies ==
  \A s \in Server :
    /\ log_file[s] = smr_log[s] /\ last_index[s] = Len(smr_log[s]) - 1
    /\ Len(smr_log[s]) <= Len(Log)
    /\ \A i \in 1 .. Len(smr_log[s]) : smr_log[s][i] = Log[i]
    /\ Up(s) => Holds(s) \/ Lacks(s)

(* The record is what the committed entries give, all but at most the last.*)
Applied ==
  \A s \in Server :
    /\ committed_index[s] >= -1
    /\ committed_index[s] \in {Len(smr_log[s]) - 2, Len(smr_log[s]) - 1}
    /\ customer_record[s] = Apply(Empty, smr_log[s], 1, committed_index[s] + 1)

(* Requests are for the primary's last order, go to a backup without it,   *)
(* and are sent one at a time.                                             *)
Requests ==
  /\ \A c \in Conn : InFlight(c) =>
       /\ Log # <<>> /\ Lacks(c[2])
       /\ msg[c].op = Log[Len(Log)] /\ msg[c].last_index = Len(Log) - 1
       /\ msg[c].committed_index \in {Len(Log) - 2, Len(Log) - 1}
  /\ \A c, d \in Conn : InFlight(c) /\ InFlight(d) => c = d
  /\ \A c \in Conn : /\ wire[c] = "register" <=> eng[c] = "order"
                     /\ wire[c] = "request" => eng[c] = "backup"

(* Stubs lead to different peers.  Each stub of a running peer is served,  *)
(* once it is registered.                                                  *)
StubsDistinct ==
  \A j, k \in 1 .. Len(Stubs) :
    Stubs[j] \in Conn /\ Stubs[k] \in Conn /\ Stubs[j][2] = Stubs[k][2] => j = k
StubsServed ==
  \A j \in 1 .. Len(Stubs) : Stubs[j] \in Conn /\ Up(Stubs[j][2]) =>
    \/ eng[Stubs[j]] \in {"backup", "append"}
    \/ eng[Stubs[j]] = "order" /\ Phase = "register" /\ j = Len(Stubs)

(* The peers tried so far: the stubs lead to these, and to all of them     *)
(* that run.                                                               *)
Reached == IF Phase = "connect" THEN Turn - 1 ELSE Turn
Tried(b) ==
  \/ Phase \in {"send", "await"}
  \/ Phase \in {"connect", "register"} /\ \E m \in 1 .. Reached : b = Peers[m]
StubsTried ==
  /\ Phase \in {"connect", "register"} =>
       \A j \in 1 .. Len(Stubs) : Stubs[j] \in Conn => Tried(Stubs[j][2])
  /\ Phase = "register" => Turn <= Len(Peers) /\ Stubs[Len(Stubs)][2] = Peers[Turn]
StubsCover ==
  \A b \in Server \ {Primary} : Up(b) /\ Tried(b) =>
    \E j \in 1 .. Len(Stubs) : Stubs[j] \in Conn /\ Stubs[j][2] = b
NoneClosed ==
  Phase = "register" \/ (Phase = "connect" /\ Turn <= Len(Peers)) =>
    \A j \in 1 .. Len(Stubs) : Stubs[j] \in Conn

StubsInv == StubsDistinct /\ StubsServed /\ StubsTried /\ StubsCover /\ NoneClosed

(* While the primary runs, nothing is left on a connection it has closed,  *)
(* and it waits for the request it has sent.                               *)
Drained ==
  Up(Primary) => \A c \in Conn :
    /\ ~open[c] => wire[c] = "empty" /\ eng[c] \in {"none", "backup"}
    /\ InFlight(c) => Phase = "await" /\ c = Stubs[Turn]

(* Who has the last order: everybody between orders, nobody else while the *)
(* primary connects, then those whose turn has been.                       *)
Between ==
  Up(Primary) /\ Phase = "idle" =>
    /\ committed_index[Primary] = Len(Log) - 1
    /\ \A b \in Server : Up(b) => Holds(b)
HandIsLast == Phase # "idle" => Log # <<>> /\ expert[Primary].op = Log[Len(Log)]
Ahead ==
  Phase \in {"connect", "register"} =>
    \A b \in Server \ {Primary} : Up(b) => Lacks(b)
TurnByTurn ==
  Phase \in {"send", "await"} =>
    \A j \in 1 .. Len(Stubs) : Stubs[j] \in Conn /\ Up(Stubs[j][2]) =>
      /\ j < Turn => Holds(Stubs[j][2])
      /\ j > Turn \/ (j = Turn /\ Phase = "send") => Lacks(Stubs[j][2])
      /\ j = Turn /\ Phase = "await" =>
           IF wire[Stubs[j]] = "ack" THEN Holds(Stubs[j][2]) ELSE InFlight(Stubs[j])

Progress == Between /\ HandIsLast /\ Ahead /\ TurnByTurn

(* The log holds orders that were sent; those of a customer ascend, and    *)
(* what it has queued comes after them.                                    *)
Orders ==
  /\ \A i \in 1 .. Len(Log) : Log[i] \in OrderOp /\ Log[i].arg2 < sent[Log[i].arg1]
  /\ \A i, j \in 1 .. Len(Log) :
       i < j /\ Log[i].arg1 = Log[j].arg1 => Log[i].arg2 < Log[j].arg2
  /\ \A j \in 1 .. Len(erq[Primary]) : \A i \in 1 .. Len(Log) :
       Log[i].arg1 = erq[Primary][j].arg1 => Log[i].arg2 < erq[Primary][j].arg2

(* Answered orders are the primary's, in the log of every running server,  *)
(* and only the last order of a running primary may be unanswered.         *)
Answered ==
  /\ \A e \in acked :
       /\ e[1] = Primary
       /\ \A s \in Server : s = Primary \/ Up(s) =>
            \E i \in 1 .. Len(smr_log[s]) : smr_log[s][i] = e[2]
  /\ Up(Primary) => \A i \in 1 .. Len(Log) :
       i < Len(Log) \/ Phase = "idle" => <<Primary, Log[i]>> \in acked

LogInv   == Copies /\ Applied /\ Orders /\ Answered
ReplicationInv == Shape /\ LogInv /\ Requests /\ StubsInv /\ Drained /\ Progress

SteadyInv == TypeInv /\ TrackInv /\ ProtocolInv /\ ReplicationInv

-----------------------------------------------------------------------------
\* f and g have the same entries from lo to hi.
Same(f, g, lo, hi) == \A i \in lo .. hi : f[i] = g[i]

(* Applying part of a log and then the next part applies both.             *)
LEMMA ApplyTwice ==
  ASSUME NEW rec, NEW f, NEW g, NEW h, NEW k \in Nat, NEW n \in Int, NEW m \in Int,
         k <= m, n = k + 1,
         Same(f, h, 1, k), Same(g, h, n, m)
  PROVE  Apply(Apply(rec, f, 1, k), g, n, m) = Apply(rec, h, 1, m)
<1> SUFFICES ASSUME NEW x \in Key
             PROVE  Apply(Apply(rec, f, 1, k), g, n, m)[x] = Apply(rec, h, 1, m)[x]
  BY DEF Apply
<1> PICK F, G, H : /\ F = {i \in 1 .. k : f[i].arg1 = x}
                   /\ G = {i \in n .. m : g[i].arg1 = x}
                   /\ H = {i \in 1 .. m : h[i].arg1 = x}
  OBVIOUS
<1>1. /\ Apply(rec, f, 1, k)[x] = IF F = {} THEN rec[x] ELSE f[Max(F)].arg2
      /\ Apply(Apply(rec, f, 1, k), g, n, m)[x] =
           IF G = {} THEN Apply(rec, f, 1, k)[x] ELSE g[Max(G)].arg2
      /\ Apply(rec, h, 1, m)[x] = IF H = {} THEN rec[x] ELSE h[Max(H)].arg2
  BY DEF Apply
<1>2. /\ F \in SUBSET (1 .. k) /\ G \in SUBSET (n .. m)
      /\ H \in SUBSET (1 .. m) /\ 1 \in Int /\ k \in Int /\ n \in Int
  OBVIOUS
<1>3. H = F \cup G
  BY DEF Same
<1>4. CASE G # {}
  <2>1. Max(G) \in G /\ \A y \in G : Max(G) >= y
    BY <1>2, <1>4, MaxOfIndices
  <2>2. H # {}
    BY <1>3, <1>4
  <2>3. Max(H) \in H /\ \A y \in H : Max(H) >= y
    BY <1>2, <2>2, MaxOfIndices
  <2>4. Max(G) = Max(H)
    BY <1>2, <1>3, <2>1, <2>3
  <2>5. Max(G) \in n .. m
    BY <1>2, <2>1
  <2> QED BY <1>1, <1>4, <2>2, <2>4, <2>5 DEF Same
<1>5. CASE G = {} /\ F # {}
  <2>1. Max(F) \in F
    BY <1>2, <1>5, MaxOfIndices
  <2>2. H = F /\ Max(F) \in 1 .. k
    BY <1>2, <1>3, <1>5, <2>1
  <2> QED BY <1>1, <1>5, <2>2 DEF Same
<1>6. CASE G = {} /\ F = {}
  BY <1>1, <1>3, <1>6
<1> QED BY <1>4, <1>5, <1>6

(* Catching up with a log that has all the entries applied so far.         *)
LEMMA CatchUpAll ==
  ASSUME TypeInv, NEW s \in Server, NEW l \in Seq(Op), NEW hi \in Int, hi < Len(l),
         committed_index[s] >= -1, committed_index[s] <= hi,
         customer_record[s] = Apply(Empty, smr_log[s], 1, committed_index[s] + 1),
         Same(smr_log[s], l, 1, committed_index[s] + 1),
         CatchUp(s, l, hi)
  PROVE  customer_record' = [customer_record EXCEPT ![s] = Apply(Empty, l, 1, hi + 1)]
<1> PICK k, n, m : k = committed_index[s] + 1 /\ n = k + 1 /\ m = hi + 1
  OBVIOUS
<1>0. /\ committed_index[s] \in Int /\ Len(l) \in Nat /\ DOMAIN l = 1 .. Len(l)
      /\ customer_record \in [Server -> [Key -> Int]]
      /\ customer_record[s] = Apply(Empty, smr_log[s], 1, k)
  BY LenProperties DEF TypeInv, TypeOK
<1>1. /\ k \in Nat /\ m \in Int /\ k <= m /\ m <= Len(l)
      /\ committed_index[s] + 2 = n /\ n \in Int
      /\ Same(smr_log[s], l, 1, k)
  BY <1>0
<1>2. PICK f \in Reads(l, n, m) :
        customer_record' = [customer_record EXCEPT ![s] = Apply(@, f, n, m)]
  BY <1>1 DEF CatchUp
<1>3. Same(f, l, n, m)
  BY <1>0, <1>1, <1>2 DEF Reads, Same
<1>4. Apply(Apply(Empty, smr_log[s], 1, k), f, n, m) = Apply(Empty, l, 1, m)
  BY <1>1, <1>3, ApplyTwice
<1> QED BY <1>0, <1>2, <1>4

-----------------------------------------------------------------------------
(* The steps of a steady cluster.                                          *)

LEMMA SteadyTypes ==
  ASSUME Arranged, TypeInv
  PROVE  /\ Primary \in Server /\ Peers \in Seq(Server) /\ Len(Peers) \in Nat
         /\ \A i \in 1 .. Len(Peers) : Peers[i] \in Server \ {Primary}
         /\ \A i, j \in 1 .. Len(Peers) : Peers[i] = Peers[j] => i = j
         /\ \A b \in Server \ {Primary} : \E i \in 1 .. Len(Peers) : b = Peers[i]
         /\ smr_log \in [Server -> Seq(Op)] /\ Len(Log) \in Nat
         /\ \A s \in Server : Len(smr_log[s]) \in Nat
         /\ last_index \in [Server -> Int] /\ committed_index \in [Server -> Int]
         /\ Turn \in Nat \ {0} /\ Len(Stubs) \in Nat
         /\ \A j \in 1 .. Len(Stubs) : Stubs[j] \in Conn \cup {ClosedStub}
<1>1. Primary \in Server
  BY ServerAssumption DEF Arranged
<1>2. /\ Peers \in Seq(Server) /\ Primary \notin Range(Peers)
      /\ IsInjective(Peers)
  BY <1>1, ServerAssumption DEF Peers
<1>3. Len(Peers) \in Nat /\ DOMAIN Peers = 1 .. Len(Peers)
  BY <1>2, LenProperties
<1>4. /\ \A i \in 1 .. Len(Peers) : Peers[i] \in Server \ {Primary}
      /\ \A i, j \in 1 .. Len(Peers) : Peers[i] = Peers[j] => i = j
  BY <1>2, <1>3, ElementOfSeq DEF Range, IsInjective
<1>5. \A b \in Server \ {Primary} : \E i \in 1 .. Len(Peers) : b = Peers[i]
  BY <1>3 DEF Arranged, Range
<1>6. /\ smr_log \in [Server -> Seq(Op)]
      /\ last_index \in [Server -> Int] /\ committed_index \in [Server -> Int]
  BY DEF TypeInv, TypeOK
<1>7. \A s \in Server : Len(smr_log[s]) \in Nat
  BY <1>6, LenProperties
<1>8. /\ Turn \in Nat \ {0} /\ Len(Stubs) \in Nat
      /\ \A j \in 1 .. Len(Stubs) : Stubs[j] \in Conn \cup {ClosedStub}
  BY <1>1, ProtocolTypes DEF Turn, Stubs
<1> QED BY <1>1, <1>2, <1>3, <1>4, <1>5, <1>6, <1>7, <1>8 DEF Log

(* Only the primary's expert and the engineers at the other end of its     *)
(* connections do anything.                                                *)
LEMMA SteadySteps ==
  ASSUME Arranged, TypeInv, Shape, [SteadyNext]_vars
  PROVE  \/ UNCHANGED vars
         \/ \E c \in Customer : Order(c, Primary)
         \/ Up(Primary) /\ ExpertThread(Primary)
         \/ \E c \in Conn : c[1] = Primary /\ Up(c[2]) /\ EngineerThread(c)
         \/ \E s \in Server : Up(s) /\ Crash(s)
<1>1. ASSUME NEW s \in Server, ExpertThread(s) PROVE s = Primary /\ Up(s)
  BY <1>1 DEF Shape, ExpertThread, ExpertTake, ExpertConnect, ExpertRegistered,
     ExpertConnected, ExpertSend, ExpertAcked, ExpertFinish
<1>2. ASSUME NEW s \in Server, Recover(s) PROVE FALSE
  BY <1>2 DEF Shape, Recover, RecoverConnect, RecoverNobody, RecoverStatus,
     RecoverFetch, Listen
<1>3. ASSUME NEW s \in Server, NEW fromLog, Start(s, fromLog) PROVE FALSE
  BY <1>3 DEF Arranged, TypeInv, TypeOK, Start
<1>4. ASSUME NEW c \in Conn, EngineerThread(c) PROVE c[1] = Primary /\ Up(c[2])
  BY <1>4 DEF Shape, EngineerThread, EngineerRegister, EngineerReceive,
     EngineerAppend, EngineerEof
<1>5. ASSUME NEW s \in Server, Crash(s) PROVE Up(s)
  BY <1>5 DEF Shape, Crash, Up
<1> QED BY <1>1, <1>2, <1>3, <1>4, <1>5 DEF SteadyNext, ServerNext

(* A step that only moves messages leaves the logs as they are.            *)
LEMMA QuietLogs ==
  ASSUME LogInv, UNCHANGED <<mode, erq, logvars, sent, acked>>,
         Phase' = "idle" => Phase = "idle"
  PROVE  LogInv'
<1>1. UNCHANGED <<mode, erq, smr_log, log_file, customer_record, last_index,
                  committed_index, sent, acked>>
  BY DEF logvars
<1>2. Copies' /\ Applied'
  BY <1>1 DEF LogInv, Copies, Applied, Holds, Lacks, Log, Up
<1>3. Orders'
  BY <1>1 DEF LogInv, Orders, Log
<1>4. Answered'
  BY <1>1 DEF LogInv, Answered, Log, Up
<1> QED BY <1>2, <1>3, <1>4 DEF LogInv

-----------------------------------------------------------------------------
(* Customers.                                                              *)

(* A new order comes after all its customer's orders in the log.           *)
LEMMA OrderSteady ==
  ASSUME Arranged, TypeInv, ReplicationInv, NEW c \in Customer, Order(c, Primary)
  PROVE  ReplicationInv'
<1> PICK op, q : op = [arg1 |-> c, arg2 |-> sent[c]] /\ q = erq[Primary]
  OBVIOUS
<1>0. /\ Primary \in Server /\ erq \in [Server -> Seq(OrderOp)]
      /\ sent \in [Customer -> 0 .. NumOrders]
  BY SteadyTypes DEF TypeInv, TypeOK
<1>1. /\ Up(Primary) /\ op \in OrderOp
      /\ erq' = [erq EXCEPT ![Primary] = Append(q, op)]
      /\ sent' = [sent EXCEPT ![c] = sent[c] + 1]
      /\ UNCHANGED <<mode, expert, smr_log, log_file, customer_record, last_index,
           committed_index, replica_stubs, eng, wire, msg, open, acked>>
  BY <1>0, CustomerAssumption DEF Order, OrderOp, logvars, connvars
<1>2. Shape'
  BY <1>0, <1>1 DEF ReplicationInv, Shape, Up
<1>3. Requests' /\ Drained'
  BY <1>1 DEF ReplicationInv, Requests, Drained, InFlight, Lacks, Log, Up, Phase,
              Turn, Stubs
<1>4. StubsInv'
  BY <1>1 DEF ReplicationInv, StubsInv, StubsDistinct, StubsServed, StubsTried,
              StubsCover, NoneClosed, Tried, Reached, Up, Phase, Turn, Stubs
<1>5. Progress'
  BY <1>1 DEF ReplicationInv, Progress, Between, HandIsLast, Ahead, TurnByTurn,
              InFlight, Holds, Lacks, Log, Up, Phase, Turn, Stubs
<1>6. Copies' /\ Applied' /\ Answered'
  BY <1>1 DEF ReplicationInv, LogInv, Copies, Applied, Answered, Holds, Lacks, Log,
              Up, Phase
<1>7. Orders'
  <2>0. /\ Log' = Log /\ erq'[Primary] = Append(q, op)
        /\ \A i \in 1 .. Len(Log) : Log[i] \in OrderOp /\ Log[i].arg2 < sent[Log[i].arg1]
        /\ \A o \in OrderOp : o.arg1 \in Customer /\ o.arg2 \in Int
    BY <1>0, <1>1 DEF Log, ReplicationInv, LogInv, Orders, OrderOp
  <2>1. \A d \in Customer : sent[d] \in Int /\ sent'[d] \in Int /\ sent[d] <= sent'[d]
    BY <1>0, <1>1
  <2>2. \A i \in 1 .. Len(Log) : Log'[i] \in OrderOp /\ Log'[i].arg2 < sent'[Log'[i].arg1]
    BY <2>0, <2>1
  <2>3. /\ Len(Append(q, op)) = Len(q) + 1 /\ Append(q, op)[Len(q) + 1] = op
        /\ Len(q) \in Nat /\ \A j \in 1 .. Len(q) : Append(q, op)[j] = q[j]
    BY <1>0, <1>1, AppendProperties, LenProperties
  <2>4. ASSUME NEW j \in 1 .. Len(q) + 1, NEW i \in 1 .. Len(Log),
               Log[i].arg1 = Append(q, op)[j].arg1
        PROVE  Log[i].arg2 < Append(q, op)[j].arg2
    <3>1. CASE j = Len(q) + 1
      BY <2>0, <2>3, <2>4, <3>1
    <3>2. CASE j # Len(q) + 1
      <4>1. j \in 1 .. Len(q) /\ Append(q, op)[j] = q[j]
        BY <2>3, <3>2
      <4> QED BY <2>4, <4>1 DEF ReplicationInv, LogInv, Orders
    <3> QED BY <3>1, <3>2
  <2> QED BY <2>0, <2>2, <2>3, <2>4 DEF ReplicationInv, LogInv, Orders
<1> QED BY <1>2, <1>3, <1>4, <1>5, <1>6, <1>7 DEF ReplicationInv, LogInv

-----------------------------------------------------------------------------
(* The primary takes an order. *)

(* What it does to the logs.                                               *)
LEMMA TakeShape ==
  ASSUME Arranged, TypeInv, ReplicationInv, ExpertTake(Primary)
  PROVE  /\ Up(Primary) /\ Phase = "idle" /\ Len(erq[Primary]) \in Nat \ {0}
         /\ erq[Primary][1] \in OrderOp
         /\ \A s \in Server \ {Primary} : smr_log'[s] = smr_log[s]
         /\ Log' = Append(Log, erq[Primary][1])
         /\ Len(Log') = Len(Log) + 1 /\ Log'[Len(Log) + 1] = erq[Primary][1]
         /\ \A i \in 1 .. Len(Log) : Log'[i] = Log[i]
         /\ log_file'[Primary] = Log'
         /\ \A s \in Server \ {Primary} : log_file'[s] = log_file[s]
         /\ \A s \in Server : last_index'[s] = IF s = Primary THEN Len(Log) ELSE last_index[s]
         /\ Phase' = "connect" /\ Turn' = 1 /\ expert'[Primary].op = erq[Primary][1]
         /\ \A s \in Server \ {Primary} : expert'[s] = expert[s]
         /\ Stubs' = <<>>
         /\ \A s \in Server \ {Primary} : replica_stubs'[s] = replica_stubs[s]
         /\ Len(erq'[Primary]) = Len(erq[Primary]) - 1
         /\ \A j \in 1 .. Len(erq[Primary]) - 1 : erq'[Primary][j] = erq[Primary][j + 1]
         /\ \A s \in Server \ {Primary} : erq'[s] = erq[s]
         /\ open' = [c \in Conn |-> open[c] /\ c \notin Range(Stubs)]
         /\ UNCHANGED <<mode, eng, wire, msg, sent, acked>>
<1> PICK q, op : q = erq[Primary] /\ op = Head(q)
  OBVIOUS
<1>0. /\ Primary \in Server /\ q \in Seq(OrderOp)
      /\ erq \in [Server -> Seq(OrderOp)]
      /\ smr_log \in [Server -> Seq(Op)] /\ log_file \in [Server -> Seq(Op)]
      /\ last_index \in [Server -> Int] /\ expert \in [Server -> ExpertState]
      /\ replica_stubs \in [Server -> Seq(Conn \cup {ClosedStub})]
      /\ Log \in Seq(Op)
  BY SteadyTypes DEF TypeInv, TypeOK, Log
<1>1. /\ Up(Primary) /\ Phase = "idle" /\ q # <<>>
      /\ erq' = [erq EXCEPT ![Primary] = Tail(q)]
      /\ smr_log' = [smr_log EXCEPT ![Primary] = Append(Log, op)]
      /\ log_file' = [log_file EXCEPT ![Primary] = Append(log_file[Primary], op)]
      /\ last_index' = [last_index EXCEPT ![Primary] = last_index[Primary] + 1]
      /\ expert' = [expert EXCEPT ![Primary] = [pc |-> "connect", i |-> 1, op |-> op]]
      /\ replica_stubs' = [replica_stubs EXCEPT ![Primary] = <<>>]
      /\ open' = [c \in Conn |-> open[c] /\ c \notin Range(Stubs)]
      /\ UNCHANGED <<mode, eng, wire, msg, sent, acked>>
  BY DEF ExpertTake, LogAppend, ClearStubs, Phase, Log, Stubs, clientvars
<1>2. /\ Len(q) \in Nat \ {0} /\ q[1] = op /\ op \in OrderOp /\ op \in Op
      /\ Tail(q) \in Seq(OrderOp) /\ Len(Tail(q)) = Len(q) - 1
      /\ \A j \in 1 .. Len(q) - 1 : Tail(q)[j] = q[j + 1]
  BY <1>0, <1>1, HeadTailProperties, LenProperties, EmptySeq, OrderIsOp
<1>3. /\ Len(Append(Log, op)) = Len(Log) + 1 /\ Append(Log, op)[Len(Log) + 1] = op
      /\ \A i \in 1 .. Len(Log) : Append(Log, op)[i] = Log[i]
  BY <1>0, <1>2, AppendProperties
<1>4. /\ Log' = Append(Log, op) /\ \A s \in Server \ {Primary} : smr_log'[s] = smr_log[s]
  BY <1>0, <1>1 DEF Log
<1>5. /\ log_file[Primary] = Log /\ last_index[Primary] = Len(Log) - 1
      /\ Len(Log) \in Nat
  BY <1>0, LenProperties DEF ReplicationInv, LogInv, Copies, Log
<1>6. /\ log_file'[Primary] = Log'
      /\ \A s \in Server \ {Primary} : log_file'[s] = log_file[s]
      /\ \A s \in Server : last_index'[s] = IF s = Primary THEN Len(Log) ELSE last_index[s]
  BY <1>0, <1>1, <1>4, <1>5
<1>7. /\ Phase' = "connect" /\ Turn' = 1 /\ expert'[Primary].op = op
      /\ \A s \in Server \ {Primary} : expert'[s] = expert[s]
      /\ Stubs' = <<>>
      /\ \A s \in Server \ {Primary} : replica_stubs'[s] = replica_stubs[s]
      /\ erq'[Primary] = Tail(q)
      /\ \A s \in Server \ {Primary} : erq'[s] = erq[s]
  BY <1>0, <1>1 DEF Phase, Turn, Stubs
<1> QED BY <1>1, <1>2, <1>3, <1>4, <1>6, <1>7

(* The record after taking: the earlier entries, and the new one if the    *)
(* server has just become the primary.                                     *)
LEMMA TakeApplied ==
  ASSUME Arranged, TypeInv, ReplicationInv, ExpertTake(Primary)
  PROVE  Applied'
<1> PICK n, hi, new : /\ n = Len(Log) /\ new = Log'
                      /\ hi = Promoted(Primary, last_index[Primary] + 1)
  OBVIOUS
<1>0. /\ Primary \in Server /\ n \in Nat
      /\ Log \in Seq(Op) /\ erq[Primary][1] \in OrderOp
      /\ committed_index \in [Server -> Int]
      /\ customer_record \in [Server -> [Key -> Int]]
      /\ Phase = "idle" /\ Up(Primary)
  BY SteadyTypes, TakeShape DEF TypeInv, TypeOK, Log
<1>1. /\ new = Append(Log, erq[Primary][1]) /\ Len(new) = n + 1 /\ new \in Seq(Op)
      /\ \A i \in 1 .. n : new[i] = Log[i]
      /\ \A s \in Server \ {Primary} : smr_log'[s] = smr_log[s]
  <2>1. erq[Primary][1] \in Op
    BY <1>0, OrderIsOp
  <2>2. new = Append(Log, erq[Primary][1])
    BY TakeShape
  <2>3. new \in Seq(Op)
    BY <1>0, <2>1, <2>2, AppendProperties
  <2> QED BY <2>2, <2>3, TakeShape
<1>2. committed_index[Primary] = n - 1 /\ last_index[Primary] = n - 1
  BY <1>0 DEF ReplicationInv, Progress, Between, LogInv, Copies, Log
<1>3. hi \in {n - 1, n}
  <2> PICK a, b : a = committed_index[Primary] /\ b = last_index[Primary] + 1
    OBVIOUS
  <2>1. a \in Int /\ b \in Int /\ a = n - 1 /\ b = n
    BY <1>0, <1>2
  <2>2. Max({a, b}) = IF a >= b THEN a ELSE b
    BY <2>1, MaxOfTwo
  <2>3. hi = IF primary_id[Primary] = Primary THEN a ELSE Max({a, b})
    BY DEF Promoted
  <2> QED BY <1>0, <2>1, <2>2, <2>3
<1>4. erq[Primary][1] = Head(erq[Primary])
  OBVIOUS
<1>5. /\ CatchUp(Primary, new, hi)
      /\ committed_index' = [committed_index EXCEPT ![Primary] = hi]
  BY <1>1, <1>4 DEF ExpertTake, Log
<1>6. customer_record' = [customer_record EXCEPT ![Primary] = Apply(Empty, new, 1, hi + 1)]
  <2>1. customer_record[Primary] =
          Apply(Empty, smr_log[Primary], 1, committed_index[Primary] + 1)
    BY <1>0 DEF ReplicationInv, LogInv, Applied
  <2>2. Same(smr_log[Primary], new, 1, committed_index[Primary] + 1)
    BY <1>0, <1>1, <1>2 DEF Same, Log
  <2>3. /\ hi \in Int /\ hi < Len(new) /\ committed_index[Primary] >= -1
        /\ committed_index[Primary] <= hi
    BY <1>0, <1>1, <1>2, <1>3
  <2>4. Primary \in Server /\ new \in Seq(Op) /\ CatchUp(Primary, new, hi)
    BY <1>0, <1>1, <1>5
  <2> QED BY <2>1, <2>2, <2>3, <2>4, CatchUpAll
<1>7. /\ committed_index'[Primary] = hi /\ smr_log'[Primary] = new
      /\ customer_record'[Primary] = Apply(Empty, new, 1, hi + 1)
      /\ \A s \in Server \ {Primary} : /\ committed_index'[s] = committed_index[s]
                                       /\ customer_record'[s] = customer_record[s]
  BY <1>0, <1>5, <1>6 DEF Log
<1> SUFFICES ASSUME NEW s \in Server
             PROVE  /\ committed_index'[s] >= -1
                    /\ committed_index'[s] \in {Len(smr_log'[s]) - 2, Len(smr_log'[s]) - 1}
                    /\ customer_record'[s] =
                         Apply(Empty, smr_log'[s], 1, committed_index'[s] + 1)
  BY DEF Applied
<1>8. CASE s = Primary
  <2>1. hi >= -1 /\ hi \in {Len(new) - 2, Len(new) - 1}
    BY <1>0, <1>1, <1>3
  <2> QED BY <1>7, <1>8, <2>1
<1>9. CASE s # Primary
  <2>1. /\ committed_index'[s] = committed_index[s] /\ smr_log'[s] = smr_log[s]
        /\ customer_record'[s] = customer_record[s]
    BY <1>1, <1>7, <1>9
  <2> QED BY <2>1 DEF ReplicationInv, LogInv, Applied
<1> QED BY <1>8, <1>9

(* The new entry was not logged before, and its customer has nothing else  *)
(* in the queue.                                                           *)
LEMMA TakeOrders ==
  ASSUME Arranged, TypeInv, TrackInv, ReplicationInv, ExpertTake(Primary)
  PROVE  Orders'
<1> PICK n, q, op : n = Len(Log) /\ q = erq[Primary] /\ op = q[1]
  OBVIOUS
<1>0. /\ Primary \in Server /\ n \in Nat /\ Len(q) \in Nat \ {0}
      /\ sent \in [Customer -> 0 .. NumOrders] /\ op \in OrderOp
      /\ \A j \in 1 .. Len(q) : q[j] \in OrderOp
      /\ DOMAIN q = 1 .. Len(q)
      /\ \A o \in OrderOp : o.arg1 \in Customer /\ o.arg2 \in Int
  <2>1. /\ q \in Seq(OrderOp) /\ Primary \in Server /\ n \in Nat
        /\ sent \in [Customer -> 0 .. NumOrders]
    BY SteadyTypes DEF TypeInv, TypeOK
  <2>2. Len(q) \in Nat \ {0} /\ op \in OrderOp
    BY TakeShape
  <2>3. DOMAIN q = 1 .. Len(q) /\ \A j \in 1 .. Len(q) : q[j] \in OrderOp
    BY <2>1, ElementOfSeq, LenProperties
  <2>4. \A o \in OrderOp : o.arg1 \in Customer /\ o.arg2 \in Int
    BY DEF OrderOp
  <2> QED BY <2>1, <2>2, <2>3, <2>4
<1>1. /\ Len(Log') = n + 1 /\ Log'[n + 1] = op
      /\ \A i \in 1 .. n : Log'[i] = Log[i]
      /\ Len(erq'[Primary]) = Len(q) - 1
      /\ \A j \in 1 .. Len(q) - 1 : erq'[Primary][j] = q[j + 1]
      /\ UNCHANGED sent
  BY TakeShape
<1>2. /\ op.arg2 < sent[op.arg1]
      /\ \A j \in 2 .. Len(q) : q[j].arg1 # op.arg1
  <2>1. op.arg2 = sent[op.arg1] - 1 /\ \A j \in 1 .. Len(q) : q[j].arg1 = op.arg1 => j = 1
    BY <1>0 DEF TrackInv, QueuedOnce, Awaited
  <2>2. op.arg1 \in Customer /\ op.arg2 \in Int
    BY <1>0
  <2>3. sent[op.arg1] \in Int
    BY <1>0, <2>2
  <2>4. op.arg2 < sent[op.arg1]
    BY <2>1, <2>2, <2>3
  <2>5. \A j \in 2 .. Len(q) : j \in 1 .. Len(q) /\ j # 1
    BY <1>0
  <2> QED BY <2>1, <2>4, <2>5
<1>3. /\ \A i \in 1 .. n : Log[i] \in OrderOp /\ Log[i].arg2 < sent[Log[i].arg1]
      /\ \A i, j \in 1 .. n : i < j /\ Log[i].arg1 = Log[j].arg1 => Log[i].arg2 < Log[j].arg2
      /\ \A j \in 1 .. Len(q) : \A i \in 1 .. n :
           Log[i].arg1 = q[j].arg1 => Log[i].arg2 < q[j].arg2
  BY DEF ReplicationInv, LogInv, Orders
<1>4. \A i \in 1 .. n + 1 : Log'[i] \in OrderOp /\ Log'[i].arg2 < sent[Log'[i].arg1]
  BY <1>0, <1>1, <1>2, <1>3
<1>5. ASSUME NEW i \in 1 .. n + 1, NEW j \in 1 .. n + 1, i < j,
             Log'[i].arg1 = Log'[j].arg1
      PROVE  Log'[i].arg2 < Log'[j].arg2
  <2>1. i \in 1 .. n /\ Log'[i] = Log[i]
    BY <1>0, <1>1, <1>5
  <2>2. CASE j \in 1 .. n
    BY <1>1, <1>3, <1>5, <2>1, <2>2
  <2>3. CASE j = n + 1
    <3>1. Log[i].arg1 = q[1].arg1 /\ 1 \in 1 .. Len(q)
      BY <1>0, <1>1, <1>5, <2>1, <2>3
    <3>2. Log[i].arg2 < q[1].arg2
      BY <1>3, <2>1, <3>1
    <3> QED BY <1>1, <2>1, <2>3, <3>2
  <2>4. n \in Nat
    BY <1>0
  <2> QED BY <2>2, <2>3, <2>4
<1>6. ASSUME NEW j \in 1 .. Len(q) - 1, NEW i \in 1 .. n + 1,
             Log'[i].arg1 = erq'[Primary][j].arg1
      PROVE  Log'[i].arg2 < erq'[Primary][j].arg2
  <2>1. j + 1 \in 2 .. Len(q) /\ j + 1 \in 1 .. Len(q) /\ erq'[Primary][j] = q[j + 1]
    <3>1. Len(q) \in Nat
      BY <1>0
    <3>2. j + 1 \in 2 .. Len(q) /\ j + 1 \in 1 .. Len(q)
      BY <3>1
    <3>3. erq'[Primary][j] = q[j + 1]
      BY <1>1
    <3> QED BY <3>2, <3>3
  <2>2. i # n + 1
    BY <1>1, <1>2, <1>6, <2>1
  <2>3. i \in 1 .. n /\ Log'[i] = Log[i]
    BY <1>0, <1>1, <2>2
  <2> QED BY <1>3, <1>6, <2>1, <2>3
<1> QED BY <1>1, <1>4, <1>5, <1>6 DEF Orders

(* Nothing is in flight when an order is taken, and everybody has all that *)
(* was logged before.                                                      *)
LEMMA TakeSteady ==
  ASSUME Arranged, TypeInv, TrackInv, ProtocolInv, ReplicationInv, ExpertTake(Primary)
  PROVE  ReplicationInv'
<1> PICK n : n = Len(Log)
  OBVIOUS
<1>0. /\ Primary \in Server /\ n \in Nat
      /\ Phase = "idle" /\ Up(Primary)
      /\ eng \in [Conn -> {"none", "order", "backup", "append"}]
      /\ wire \in [Conn -> {"empty", "register", "request", "ack"}]
      /\ open \in [Conn -> BOOLEAN]
      /\ \A s \in Server : Len(smr_log[s]) \in Nat
  BY SteadyTypes, TakeShape, ProtocolTypes
<1>1. /\ Len(Log') = n + 1
      /\ \A i \in 1 .. n : Log'[i] = Log[i]
      /\ \A s \in Server \ {Primary} :
           /\ smr_log'[s] = smr_log[s] /\ log_file'[s] = log_file[s]
           /\ expert'[s] = expert[s] /\ erq'[s] = erq[s]
           /\ replica_stubs'[s] = replica_stubs[s]
      /\ smr_log'[Primary] = Log' /\ log_file'[Primary] = Log'
      /\ \A s \in Server : last_index'[s] = IF s = Primary THEN n ELSE last_index[s]
      /\ Phase' = "connect" /\ Turn' = 1 /\ Stubs' = <<>>
      /\ expert'[Primary].op = Log'[n + 1]
      /\ open' = [c \in Conn |-> open[c] /\ c \notin Range(Stubs)]
      /\ UNCHANGED <<mode, eng, wire, msg, sent, acked>>
  BY TakeShape DEF Log
<1>2. \A c \in Conn : ~InFlight(c)
  BY <1>0 DEF ReplicationInv, Drained
<1>3. \A s \in Server : Up(s) => Len(smr_log[s]) = n
  BY <1>0 DEF ReplicationInv, Progress, Between, Holds
<1>4. Shape'
  BY <1>0, <1>1 DEF ReplicationInv, Shape, Up
<1>5. Copies'
  <2> SUFFICES ASSUME NEW s \in Server
               PROVE  /\ log_file'[s] = smr_log'[s]
                      /\ last_index'[s] = Len(smr_log'[s]) - 1
                      /\ Len(smr_log'[s]) <= Len(Log')
                      /\ \A i \in 1 .. Len(smr_log'[s]) : smr_log'[s][i] = Log'[i]
                      /\ mode[s] = "up" => \/ Len(smr_log'[s]) = Len(Log')
                                           \/ Len(smr_log'[s]) = Len(Log') - 1
    BY <1>1 DEF Copies, Holds, Lacks, Up
  <2>1. CASE s = Primary
    BY <1>0, <1>1, <2>1
  <2>2. CASE s # Primary
    <3>1. /\ smr_log'[s] = smr_log[s] /\ log_file[s] = smr_log[s]
          /\ last_index[s] = Len(smr_log[s]) - 1 /\ Len(smr_log[s]) <= n
          /\ \A i \in 1 .. Len(smr_log[s]) : smr_log[s][i] = Log[i]
      BY <1>1, <2>2 DEF ReplicationInv, LogInv, Copies
    <3> QED BY <1>0, <1>1, <1>3, <2>2, <3>1 DEF Up
  <2> QED BY <2>1, <2>2
<1>6. Answered'
  <2>1. ASSUME NEW e \in acked
        PROVE  /\ e[1] = Primary
               /\ \A s \in Server : s = Primary \/ mode[s] = "up" =>
                    \E i \in 1 .. Len(smr_log'[s]) : smr_log'[s][i] = e[2]
    <3> SUFFICES ASSUME NEW s \in Server, s = Primary \/ Up(s)
                 PROVE  \E i \in 1 .. Len(smr_log'[s]) : smr_log'[s][i] = e[2]
      BY DEF ReplicationInv, LogInv, Answered, Up
    <3>1. PICK i \in 1 .. Len(smr_log[s]) : smr_log[s][i] = e[2]
      BY DEF ReplicationInv, LogInv, Answered
    <3>2. CASE s = Primary
      BY <1>0, <1>1, <3>1, <3>2 DEF Log
    <3>3. CASE s # Primary
      BY <1>1, <3>1, <3>3
    <3> QED BY <3>2, <3>3
  <2>2. \A i \in 1 .. n + 1 : i < n + 1 => <<Primary, Log'[i]>> \in acked
    BY <1>0, <1>1 DEF ReplicationInv, LogInv, Answered
  <2> QED BY <1>1, <2>1, <2>2 DEF Answered, Up
<1>7. Requests'
  BY <1>1, <1>2 DEF ReplicationInv, Requests, InFlight
<1>8. StubsInv'
  BY <1>1 DEF StubsInv, StubsDistinct, StubsServed, StubsTried, StubsCover,
              NoneClosed, Tried, Reached
<1>9. Drained'
  <2> SUFFICES ASSUME NEW c \in Conn, ~open'[c]
               PROVE  wire[c] = "empty" /\ eng[c] \in {"none", "backup"}
    BY <1>1, <1>2 DEF Drained, InFlight
  <2>1. CASE ~open[c]
    BY <1>0, <2>1 DEF ReplicationInv, Drained
  <2>2. CASE open[c] /\ c \in Range(Stubs)
    <3>1. PICK j \in 1 .. Len(Stubs) : Stubs[j] = c
      <4>1. Stubs \in Seq(Conn \cup {ClosedStub})
        BY <1>0 DEF Stubs, TypeInv, TypeOK
      <4>2. DOMAIN Stubs = 1 .. Len(Stubs)
        BY <4>1, LenProperties
      <4> QED BY <2>2, <4>2 DEF Range
    <3>2. c[1] = Primary
      BY <1>0, <3>1 DEF ProtocolInv, StubsOpen, Stubs
    <3>3. wire[c] = "empty" /\ eng[c] # "append"
      BY <1>0, <2>2, <3>2 DEF ProtocolInv, OneRequestAtATime, Phase
    <3>4. eng[c] # "order"
      BY <3>3 DEF ReplicationInv, Requests
    <3> QED BY <1>0, <3>3, <3>4
  <2> QED BY <1>0, <1>1, <2>1, <2>2
<1>10. Progress'
  <2>1. Ahead'
    BY <1>0, <1>1, <1>3 DEF Ahead, Lacks, Up
  <2>2. HandIsLast'
    BY <1>0, <1>1 DEF HandIsLast
  <2> QED BY <1>1, <2>1, <2>2 DEF Progress, Between, TurnByTurn
<1> QED BY <1>4, <1>5, <1>6, <1>7, <1>8, <1>9, <1>10, TakeApplied, TakeOrders
        DEF ReplicationInv, LogInv

-----------------------------------------------------------------------------
(* The primary connects to its peers. *)

(* What was tried is tried again, one peer further.                        *)
LEMMA ConnectTried ==
  ASSUME Arranged, TypeInv, Phase = "connect",
         \/ Phase' = "connect" /\ Turn' = Turn + 1
         \/ Phase' = "register" /\ Turn' = Turn
  PROVE  \A b : Tried(b)' <=> Tried(b) \/ b = Peers[Turn]
<1> PICK t : t = Turn
  OBVIOUS
<1>1. t \in Nat \ {0} /\ Reached = t - 1 /\ Reached' = t
  <2>1. t \in Nat \ {0}
    BY SteadyTypes
  <2>2. Reached = t - 1
    BY DEF Reached
  <2>3. Reached' = IF Phase' = "connect" THEN Turn' - 1 ELSE Turn'
    BY DEF Reached
  <2> QED BY <2>1, <2>2, <2>3
<1>2. \A b : Tried(b) <=> \E m \in 1 .. t - 1 : b = Peers[m]
  BY <1>1 DEF Tried
<1>3. \A b : Tried(b)' <=> \E m \in 1 .. t : b = Peers[m]
  BY <1>1 DEF Tried, Peers
<1> QED BY <1>1, <1>2, <1>3

(* A peer that does not listen is skipped: there is no stub for it.        *)
LEMMA SkipSteady ==
  ASSUME Arranged, TypeInv, ReplicationInv, Phase = "connect",
         ~Up(Peers[Turn]), Turn \in 1 .. Len(Peers),
         expert' = Goto(Primary, "connect", Turn + 1),
         UNCHANGED <<mode, erq, logvars, replica_stubs, connvars, sent, acked>>
  PROVE  ReplicationInv'
<1>0. /\ Primary \in Server /\ Turn \in Nat \ {0} /\ Len(Peers) \in Nat
  BY SteadyTypes
<1>1. /\ Phase' = "connect" /\ Turn' = Turn + 1
      /\ expert'[Primary].op = expert[Primary].op
      /\ \A s \in Server \ {Primary} : expert'[s] = expert[s]
  BY <1>0, GotoShape DEF Phase, Turn
<1>2. /\ UNCHANGED <<mode, erq, smr_log, committed_index, replica_stubs, eng, wire, msg, open>>
      /\ Stubs' = Stubs /\ Log' = Log
  BY DEF logvars, connvars, Stubs, Log
<1>3. Shape'
  BY <1>0, <1>1, <1>2 DEF ReplicationInv, Shape, Up, Phase
<1>4. LogInv'
  BY <1>1, QuietLogs DEF ReplicationInv
<1>5. Requests'
  BY <1>2 DEF ReplicationInv, Requests, InFlight, Lacks
<1>6. \A b : Tried(b)' <=> Tried(b) \/ b = Peers[Turn]
  BY <1>1, ConnectTried
<1>7. StubsInv'
  <2>1. StubsDistinct'
    BY <1>2 DEF ReplicationInv, StubsInv, StubsDistinct
  <2>2. StubsServed'
    BY <1>1, <1>2 DEF ReplicationInv, StubsInv, StubsServed, Up
  <2>3. StubsTried'
    BY <1>1, <1>2, <1>6 DEF ReplicationInv, StubsInv, StubsTried
  <2>4. StubsCover'
    BY <1>2, <1>6 DEF ReplicationInv, StubsInv, StubsCover, Up
  <2>5. NoneClosed'
    BY <1>0, <1>1, <1>2 DEF ReplicationInv, StubsInv, NoneClosed
  <2> QED BY <2>1, <2>2, <2>3, <2>4, <2>5 DEF StubsInv
<1>8. Drained'
  BY <1>1, <1>2 DEF ReplicationInv, Drained, InFlight, Up
<1>9. Progress'
  BY <1>1, <1>2 DEF ReplicationInv, Progress, Between, HandIsLast, Ahead, TurnByTurn,
                    Lacks, Up
<1> QED BY <1>3, <1>4, <1>5, <1>7, <1>8, <1>9 DEF ReplicationInv

(* A peer that listens gets a stub of its own.                             *)
LEMMA ConnectSteady ==
  ASSUME Arranged, TypeInv, ReplicationInv, Up(Primary), ExpertConnect(Primary)
  PROVE  ReplicationInv'
<1> PICK r, t, n, q : r = Peers[Turn] /\ t = Turn /\ n = Len(Stubs) /\ q = Stubs
  OBVIOUS
<1>0. /\ Primary \in Server /\ t \in Nat \ {0} /\ Len(Peers) \in Nat /\ n \in Nat
      /\ \A j \in 1 .. n : q[j] \in Conn \cup {ClosedStub}
  BY SteadyTypes
<1>1. /\ Phase = "connect"
      /\ UNCHANGED <<mode, erq, logvars, sent, acked>>
  BY DEF ExpertConnect, Phase, clientvars
<1>2. /\ r \in Server \ {Primary} /\ t \in 1 .. Len(Peers)
      /\ \/ /\ ~Up(r) /\ expert' = Goto(Primary, "connect", t + 1)
            /\ UNCHANGED <<replica_stubs, connvars>>
         \/ /\ Up(r) /\ expert' = Goto(Primary, "register", t)
            /\ \E c \in Conn :
                 /\ c[1] = Primary /\ c[2] = r /\ eng[c] = "none"
                 /\ eng' = [eng EXCEPT ![c] = "order"]
                 /\ wire' = [wire EXCEPT ![c] = "register"]
                 /\ open' = [open EXCEPT ![c] = TRUE]
                 /\ Len(Stubs') = n + 1
                 /\ Stubs'[n + 1] = c
                 /\ \A j \in 1 .. n : \/ Stubs'[j] = q[j]
                                      \/ q[j] = ClosedStub /\ Stubs'[j] = c
            /\ \A s \in Server \ {Primary} : replica_stubs'[s] = replica_stubs[s]
            /\ UNCHANGED msg
  <2>1. Primary \in Server
    BY SteadyTypes
  <2> QED BY <2>1, ConnectShape DEF Peers, Turn, Stubs
<1>3. CASE /\ ~Up(r) /\ expert' = Goto(Primary, "connect", t + 1)
           /\ UNCHANGED <<replica_stubs, connvars>>
  BY <1>1, <1>2, <1>3, SkipSteady
<1>4. ASSUME Up(r), expert' = Goto(Primary, "register", t), NEW c \in Conn,
             c[1] = Primary, c[2] = r, eng[c] = "none",
             eng' = [eng EXCEPT ![c] = "order"],
             wire' = [wire EXCEPT ![c] = "register"],
             open' = [open EXCEPT ![c] = TRUE],
             Len(Stubs') = n + 1, Stubs'[n + 1] = c,
             \A j \in 1 .. n : \/ Stubs'[j] = q[j]
                               \/ q[j] = ClosedStub /\ Stubs'[j] = c,
             \A s \in Server \ {Primary} : replica_stubs'[s] = replica_stubs[s],
             UNCHANGED msg
      PROVE  ReplicationInv'
  <2>0. /\ eng \in [Conn -> {"none", "order", "backup", "append"}]
        /\ wire \in [Conn -> {"empty", "register", "request", "ack"}]
        /\ open \in [Conn -> BOOLEAN]
    BY ProtocolTypes
  <2>1. /\ Phase' = "register" /\ Turn' = t
        /\ expert'[Primary].op = expert[Primary].op
        /\ \A s \in Server \ {Primary} : expert'[s] = expert[s]
    BY <1>0, <1>4, GotoShape DEF Phase, Turn
  <2>2. /\ UNCHANGED <<mode, erq, smr_log, committed_index>> /\ Log' = Log
    BY <1>1 DEF logvars, Log
  <2>3. /\ eng'[c] = "order" /\ wire'[c] = "register" /\ open'[c] = TRUE
        /\ \A d \in Conn : d # c => /\ eng'[d] = eng[d] /\ wire'[d] = wire[d]
                                    /\ open'[d] = open[d]
    BY <1>4, <2>0
  <2>4. \A j \in 1 .. n : q[j] \in Conn /\ Stubs'[j] = q[j] /\ Tried(q[j][2])
    <3>1. \A j \in 1 .. n : q[j] \in Conn
      BY <1>0, <1>1, <1>2 DEF ReplicationInv, StubsInv, NoneClosed
    <3>2. \A j \in 1 .. n : Tried(q[j][2])
      BY <1>1, <3>1 DEF ReplicationInv, StubsInv, StubsTried
    <3> QED BY <1>4, <3>1, <3>2, ClosedNotConn
  <2>5. \A b : Tried(b)' <=> Tried(b) \/ b = r
    BY <1>1, <2>1, ConnectTried
  <2>6. ~Tried(r)
    <3>1. Reached = t - 1
      BY <1>1 DEF Reached
    <3> QED BY <1>0, <1>1, <1>2, <3>1, SteadyTypes DEF Tried
  <2>7. \A d \in Conn : ~InFlight(d)
    BY <1>1 DEF ReplicationInv, Drained
  <2>8. \A d \in Conn : ~InFlight(d)'
    BY <2>3, <2>7 DEF InFlight
  <2>9. Shape'
    BY <1>0, <1>4, <2>1, <2>2, <2>3 DEF ReplicationInv, Shape, Up
  <2>10. LogInv'
    BY <1>1, <2>1, QuietLogs DEF ReplicationInv
  <2>11. Requests'
    BY <2>3, <2>8 DEF ReplicationInv, Requests
  <2>12. StubsDistinct'
    <3> SUFFICES ASSUME NEW j \in 1 .. n + 1, NEW k \in 1 .. n + 1,
                        Stubs'[j][2] = Stubs'[k][2]
                 PROVE  j = k
      BY <1>4 DEF StubsDistinct
    <3>1. CASE j = n + 1 \/ k = n + 1
      <4>1. \A m \in 1 .. n : Stubs'[m][2] # r
        BY <2>4, <2>6
      <4> QED BY <1>0, <1>4, <3>1, <4>1
    <3>2. CASE j # n + 1 /\ k # n + 1
      <4>1. j \in 1 .. n /\ k \in 1 .. n
        BY <1>0, <3>2
      <4> QED BY <2>4, <4>1 DEF ReplicationInv, StubsInv, StubsDistinct
    <3> QED BY <3>1, <3>2
  <2>13. StubsServed'
    <3> SUFFICES ASSUME NEW j \in 1 .. n + 1, Up(Stubs'[j][2])
                 PROVE  \/ eng'[Stubs'[j]] \in {"backup", "append"}
                        \/ eng'[Stubs'[j]] = "order" /\ j = n + 1
      BY <1>4, <2>1, <2>2 DEF StubsServed, Up
    <3>1. CASE j = n + 1
      BY <1>4, <2>3, <3>1
    <3>2. CASE j # n + 1
      <4>1. j \in 1 .. n /\ q[j] \in Conn /\ Stubs'[j] = q[j]
        BY <1>0, <2>4, <3>2
      <4>2. eng[q[j]] \in {"backup", "append"}
        BY <1>1, <4>1 DEF ReplicationInv, StubsInv, StubsServed
      <4> QED BY <1>4, <2>3, <4>1, <4>2
    <3> QED BY <3>1, <3>2
  <2>14. StubsTried'
    <3>1. ASSUME NEW j \in 1 .. n + 1
          PROVE  \E b : b = Stubs'[j][2] /\ Tried(b)'
      <4>1. Tried(Stubs'[j][2]) \/ Stubs'[j][2] = r
        BY <1>0, <1>4, <2>4
      <4> QED BY <2>5, <4>1
    <3>2. t <= Len(Peers) /\ Stubs'[n + 1][2] = Peers[t]
      BY <1>2, <1>4
    <3>3. \A j \in 1 .. n + 1 : Tried(Stubs[j][2])'
      BY <3>1
    <3> QED BY <1>4, <2>1, <3>2, <3>3 DEF StubsTried, Peers
  <2>15. StubsCover'
    <3> SUFFICES ASSUME NEW b \in Server \ {Primary}, Up(b), Tried(b)'
                 PROVE  \E j \in 1 .. n + 1 : Stubs'[j] \in Conn /\ Stubs'[j][2] = b
      BY <1>4, <2>2 DEF StubsCover, Up
    <3>1. CASE b = r
      BY <1>0, <1>4, <3>1
    <3>2. CASE Tried(b)
      <4>1. PICK j \in 1 .. n : q[j] \in Conn /\ q[j][2] = b
        BY <3>2 DEF ReplicationInv, StubsInv, StubsCover
      <4> QED BY <1>0, <2>4, <4>1
    <3> QED BY <2>5, <3>1, <3>2
  <2>16. NoneClosed'
    <3>1. \A j \in 1 .. n + 1 : Stubs'[j] \in Conn
      BY <1>0, <1>4, <2>4
    <3> QED BY <1>4, <3>1 DEF NoneClosed
  <2>17. Drained'
    BY <2>2, <2>3, <2>8 DEF ReplicationInv, Drained, Up
  <2>18. Progress'
    BY <1>1, <2>1, <2>2 DEF ReplicationInv, Progress, Between, HandIsLast, Ahead, TurnByTurn,
                      Lacks, Up
  <2> QED BY <2>9, <2>10, <2>11, <2>12, <2>13, <2>14, <2>15, <2>16, <2>17, <2>18
          DEF ReplicationInv, StubsInv
<1> QED BY <1>2, <1>3, <1>4

(* A peer has answered its registration, or died: then it was the last     *)
(* one, and no connection is made after its stub is closed.                *)
LEMMA RegisteredSteady ==
  ASSUME Arranged, TypeInv, ProtocolInv, ReplicationInv, Up(Primary),
         ExpertRegistered(Primary)
  PROVE  ReplicationInv'
<1> PICK t, n, q, c : t = Turn /\ n = Len(Stubs) /\ q = Stubs /\ c = q[n]
  OBVIOUS
<1>0. /\ Primary \in Server /\ t \in Nat \ {0} /\ Len(Peers) \in Nat /\ n \in Nat
      /\ \A j \in 1 .. n : q[j] \in Conn \cup {ClosedStub}
      /\ eng \in [Conn -> {"none", "order", "backup", "append"}]
      /\ wire \in [Conn -> {"empty", "register", "request", "ack"}]
      /\ open \in [Conn -> BOOLEAN]
  BY SteadyTypes, ProtocolTypes
<1>1. UNCHANGED <<mode, erq, logvars, sent, acked>>
  BY DEF ExpertRegistered, clientvars
<1>2. /\ Phase = "register" /\ n \in 1 .. n /\ c \in Conn
      /\ expert' = Goto(Primary, "connect", t + 1)
      /\ UNCHANGED <<eng, msg>>
      /\ \/ /\ wire[c] = "ack" /\ wire' = [wire EXCEPT ![c] = "empty"]
            /\ UNCHANGED <<open, replica_stubs>>
         \/ /\ eng[c] = "none" /\ open' = [open EXCEPT ![c] = FALSE]
            /\ Len(Stubs') = n
            /\ \A j \in 1 .. n : Stubs'[j] = IF q[j] = c THEN ClosedStub ELSE q[j]
            /\ \A s \in Server \ {Primary} : replica_stubs'[s] = replica_stubs[s]
            /\ UNCHANGED wire
  BY <1>0, RegisteredShape DEF Phase, Turn, Stubs
<1>3. /\ Phase' = "connect" /\ Turn' = t + 1
      /\ expert'[Primary].op = expert[Primary].op
      /\ \A s \in Server \ {Primary} : expert'[s] = expert[s]
  BY <1>0, <1>2, GotoShape DEF Phase, Turn
<1>4. /\ UNCHANGED <<mode, erq, smr_log, committed_index>> /\ Log' = Log
  BY <1>1 DEF logvars, Log
<1>5. \A b : Tried(b)' <=> Tried(b)
  <2>1. Reached = t /\ Reached' = t
    <3>1. Reached' = IF Phase' = "connect" THEN Turn' - 1 ELSE Turn'
      BY DEF Reached
    <3>2. Reached = t
      BY <1>2 DEF Reached
    <3> QED BY <1>0, <1>3, <3>1, <3>2
  <2>2. \A b : Tried(b)' <=> \E m \in 1 .. t : b = Peers[m]
    BY <1>3, <2>1 DEF Tried, Peers
  <2>3. \A b : Tried(b) <=> \E m \in 1 .. t : b = Peers[m]
    BY <1>2, <2>1 DEF Tried
  <2> QED BY <2>2, <2>3
<1>6. \A d \in Conn : ~InFlight(d)
  BY <1>2 DEF ReplicationInv, Drained
<1>7. LogInv'
  BY <1>1, <1>3, QuietLogs DEF ReplicationInv
<1>8. Progress'
  BY <1>2, <1>3, <1>4 DEF ReplicationInv, Progress, Between, HandIsLast, Ahead,
                          TurnByTurn, Lacks, Up
<1>9. CASE /\ wire[c] = "ack" /\ wire' = [wire EXCEPT ![c] = "empty"]
           /\ UNCHANGED <<open, replica_stubs>>
  <2>1. /\ wire'[c] = "empty" /\ \A d \in Conn : d # c => wire'[d] = wire[d]
        /\ Stubs' = q /\ eng' = eng /\ open' = open
    BY <1>0, <1>2, <1>9 DEF Stubs
  <2>2. eng[c] # "order"
    BY <1>2, <1>9 DEF ReplicationInv, Requests
  <2>3. Shape'
    BY <1>3, <1>4, <1>9, <2>1 DEF ReplicationInv, Shape, Up
  <2>4. Requests'
    BY <1>6, <2>1, <2>2 DEF ReplicationInv, Requests, InFlight
  <2>5. StubsDistinct'
    BY <2>1 DEF ReplicationInv, StubsInv, StubsDistinct
  <2>6. StubsServed'
    BY <1>3, <1>4, <2>1, <2>2 DEF ReplicationInv, StubsInv, StubsServed, Up
  <2>7. StubsTried'
    BY <1>2, <1>3, <1>5, <2>1 DEF ReplicationInv, StubsInv, StubsTried
  <2>8. StubsCover'
    BY <1>4, <1>5, <2>1 DEF ReplicationInv, StubsInv, StubsCover, Up
  <2>9. NoneClosed'
    BY <1>2, <2>1 DEF ReplicationInv, StubsInv, NoneClosed
  <2>10. Drained'
    BY <1>4, <1>6, <2>1 DEF ReplicationInv, Drained, InFlight, Up
  <2> QED BY <1>7, <1>8, <2>3, <2>4, <2>5, <2>6, <2>7, <2>8, <2>9, <2>10
          DEF ReplicationInv, StubsInv
<1>10. CASE /\ eng[c] = "none" /\ open' = [open EXCEPT ![c] = FALSE]
            /\ Len(Stubs') = n
            /\ \A j \in 1 .. n : Stubs'[j] = IF q[j] = c THEN ClosedStub ELSE q[j]
            /\ \A s \in Server \ {Primary} : replica_stubs'[s] = replica_stubs[s]
            /\ UNCHANGED wire
  <2>1. /\ \A d \in Conn : d # c => open'[d] = open[d]
        /\ \A j \in 1 .. n : Stubs'[j] \in Conn => Stubs'[j] = q[j] /\ q[j] # c
    BY <1>0, <1>10, ClosedNotConn
  <2>2. ~Up(c[2]) /\ c[2] = Peers[t] /\ t <= Len(Peers)
    BY <1>2, <1>10 DEF ReplicationInv, StubsInv, StubsServed, StubsTried
  <2>3. t = Len(Peers) /\ wire[c] = "empty"
    <3>1. c[2] \in MayCrash /\ wire[c] = "empty"
      BY <1>2, <2>2, ClosedNotConn DEF ReplicationInv, Shape, Up
    <3> QED BY <1>0, <2>2, <3>1 DEF Arranged
  <2>4. Shape'
    BY <1>2, <1>3, <1>4, <1>10 DEF ReplicationInv, Shape, Up
  <2>5. Requests'
    BY <1>2, <1>4, <1>10 DEF ReplicationInv, Requests, InFlight, Lacks
  <2>6. StubsDistinct'
    BY <1>10, <2>1 DEF ReplicationInv, StubsInv, StubsDistinct
  <2>7. StubsServed'
    BY <1>2, <1>3, <1>4, <1>10, <2>1 DEF ReplicationInv, StubsInv, StubsServed, Up
  <2>8. StubsTried'
    <3>1. \A j \in 1 .. n : Stubs'[j] \in Conn => Tried(Stubs'[j][2])
      BY <1>2, <2>1 DEF ReplicationInv, StubsInv, StubsTried
    <3>2. \A j \in 1 .. n : Stubs'[j] \in Conn => \E b : b = Stubs'[j][2] /\ Tried(b)'
      BY <1>5, <3>1
    <3>3. \A j \in 1 .. n : Stubs'[j] \in Conn => Tried(Stubs[j][2])'
      BY <3>2
    <3> QED BY <1>3, <1>10, <3>3 DEF StubsTried
  <2>9. StubsCover'
    <3> SUFFICES ASSUME NEW b \in Server \ {Primary}, Up(b), Tried(b)
                 PROVE  \E j \in 1 .. n : Stubs'[j] \in Conn /\ Stubs'[j][2] = b
      BY <1>4, <1>5, <1>10 DEF StubsCover, Up
    <3>1. PICK j \in 1 .. n : q[j] \in Conn /\ q[j][2] = b
      BY DEF ReplicationInv, StubsInv, StubsCover
    <3>2. q[j] # c
      BY <2>2, <3>1
    <3> QED BY <1>10, <3>1, <3>2
  <2>10. NoneClosed'
    BY <1>0, <1>3, <2>3 DEF NoneClosed, Peers
  <2>11. Drained'
    <3> SUFFICES ASSUME NEW d \in Conn, ~open'[d]
                 PROVE  wire[d] = "empty" /\ eng[d] \in {"none", "backup"}
      BY <1>2, <1>6, <1>10 DEF Drained, InFlight
    <3>1. CASE d = c
      BY <1>10, <2>3, <3>1
    <3>2. CASE d # c
      BY <2>1, <3>2 DEF ReplicationInv, Drained
    <3> QED BY <3>1, <3>2
  <2> QED BY <1>7, <1>8, <2>4, <2>5, <2>6, <2>7, <2>8, <2>9, <2>10, <2>11
          DEF ReplicationInv, StubsInv
<1> QED BY <1>2, <1>9, <1>10

(* Every running peer has been tried when the requests are sent.           *)
LEMMA ConnectedSteady ==
  ASSUME Arranged, TypeInv, ProtocolInv, ReplicationInv, Up(Primary),
         ExpertConnected(Primary)
  PROVE  ReplicationInv'
<1> PICK t, n : t = Turn /\ n = Len(Stubs)
  OBVIOUS
<1>0. /\ Primary \in Server /\ t \in Nat \ {0} /\ Len(Peers) \in Nat /\ n \in Nat
  BY SteadyTypes
<1>1. /\ Phase = "connect" /\ t > Len(Peers)
      /\ expert' = Goto(Primary, "send", 1)
      /\ UNCHANGED <<mode, erq, logvars, replica_stubs, connvars, sent, acked>>
  BY DEF ExpertConnected, Phase, Turn, Peers, clientvars
<1>2. /\ Phase' = "send" /\ Turn' = 1
      /\ expert'[Primary].op = expert[Primary].op
      /\ \A s \in Server \ {Primary} : expert'[s] = expert[s]
  BY <1>0, <1>1, GotoShape DEF Phase, Turn
<1>3. /\ UNCHANGED <<mode, erq, smr_log, committed_index, replica_stubs, eng, wire, msg, open>>
      /\ Stubs' = Stubs /\ Log' = Log
  BY <1>1 DEF logvars, connvars, Stubs, Log
<1>4. \A b \in Server \ {Primary} : Tried(b)
  <2>1. Reached = t - 1
    BY <1>1 DEF Reached
  <2>2. \A m \in 1 .. Len(Peers) : m \in 1 .. t - 1
    BY <1>0, <1>1
  <2> QED BY <1>1, <2>1, <2>2, SteadyTypes DEF Tried
<1>5. Shape'
  BY <1>1, <1>2, <1>3 DEF ReplicationInv, Shape, Up, Phase
<1>6. LogInv'
  BY <1>1, <1>2, QuietLogs DEF ReplicationInv
<1>7. Requests'
  BY <1>3 DEF ReplicationInv, Requests, InFlight, Lacks
<1>8. StubsInv'
  <2>1. StubsDistinct'
    BY <1>3 DEF ReplicationInv, StubsInv, StubsDistinct
  <2>2. StubsServed'
    BY <1>1, <1>2, <1>3 DEF ReplicationInv, StubsInv, StubsServed, Up
  <2>3. StubsTried'
    BY <1>2 DEF StubsTried
  <2>4. StubsCover'
    BY <1>3, <1>4 DEF ReplicationInv, StubsInv, StubsCover, Up
  <2>5. NoneClosed'
    BY <1>2 DEF NoneClosed
  <2> QED BY <2>1, <2>2, <2>3, <2>4, <2>5 DEF StubsInv
<1>9. Drained'
  BY <1>1, <1>2, <1>3 DEF ReplicationInv, Drained, InFlight, Up
<1>10. Progress'
  <2>1. ASSUME NEW j \in 1 .. n, Stubs[j] \in Conn, Up(Stubs[j][2])
        PROVE  Lacks(Stubs[j][2])
    <3>1. Stubs[j][2] \in Server \ {Primary}
      BY <1>0, <2>1, ClosedNotConn DEF ProtocolInv, StubsOpen, Stubs
    <3> QED BY <1>1, <2>1, <3>1 DEF ReplicationInv, Progress, Ahead
  <2>2. TurnByTurn'
    BY <1>2, <1>3, <2>1 DEF TurnByTurn, Lacks, Up
  <2> QED BY <1>1, <1>2, <1>3, <2>2 DEF ReplicationInv, Progress, Between, HandIsLast, Ahead
<1> QED BY <1>5, <1>6, <1>7, <1>8, <1>9, <1>10 DEF ReplicationInv

-----------------------------------------------------------------------------
(* The primary sends its order to its stubs, one after the other. *)

(* The stub whose turn it is.  A dead one leads to no running peer.        *)
LEMMA SkipStubSteady ==
  ASSUME Arranged, TypeInv, ReplicationInv, Phase = "send", Turn \in 1 .. Len(Stubs),
         Dead(Stubs[Turn]), expert' = Goto(Primary, "send", Turn + 1),
         UNCHANGED <<mode, erq, logvars, replica_stubs, connvars, sent, acked>>
  PROVE  ReplicationInv'
<1> PICK t, n : t = Turn /\ n = Len(Stubs)
  OBVIOUS
<1>0. /\ Primary \in Server /\ t \in Nat \ {0} /\ n \in Nat
  BY SteadyTypes
<1>1. /\ Phase' = "send" /\ Turn' = t + 1
      /\ expert'[Primary].op = expert[Primary].op
      /\ \A s \in Server \ {Primary} : expert'[s] = expert[s]
  BY <1>0, GotoShape DEF Phase, Turn
<1>2. /\ UNCHANGED <<mode, erq, smr_log, committed_index, replica_stubs, eng, wire, msg, open>>
      /\ Stubs' = Stubs /\ Log' = Log
  BY DEF logvars, connvars, Stubs, Log
<1>3. ~(Stubs[t] \in Conn /\ Up(Stubs[t][2]))
  BY DEF Dead, ReplicationInv, StubsInv, StubsServed
<1>4. Shape'
  BY <1>1, <1>2 DEF ReplicationInv, Shape, Up, Phase
<1>5. LogInv'
  BY <1>1, QuietLogs DEF ReplicationInv
<1>6. Requests'
  BY <1>2 DEF ReplicationInv, Requests, InFlight, Lacks
<1>7. StubsInv'
  <2>1. StubsDistinct'
    BY <1>2 DEF ReplicationInv, StubsInv, StubsDistinct
  <2>2. StubsServed'
    BY <1>1, <1>2 DEF ReplicationInv, StubsInv, StubsServed, Up
  <2>3. StubsTried' /\ NoneClosed'
    BY <1>1 DEF StubsTried, NoneClosed
  <2>4. StubsCover'
    BY <1>2 DEF ReplicationInv, StubsInv, StubsCover, Tried, Up
  <2> QED BY <2>1, <2>2, <2>3, <2>4 DEF StubsInv
<1>8. Drained'
  BY <1>1, <1>2 DEF ReplicationInv, Drained, InFlight, Up
<1>9. Progress'
  <2> SUFFICES ASSUME NEW j \in 1 .. n, Stubs[j] \in Conn, Up(Stubs[j][2])
               PROVE  /\ j < t + 1 => Holds(Stubs[j][2])
                      /\ j > t + 1 \/ j = t + 1 => Lacks(Stubs[j][2])
    BY <1>1, <1>2 DEF ReplicationInv, Progress, Between, HandIsLast, Ahead, TurnByTurn,
                      Holds, Lacks, Up
  <2>1. j # t
    BY <1>3
  <2> QED BY <1>0, <2>1 DEF ReplicationInv, Progress, TurnByTurn
<1> QED BY <1>4, <1>5, <1>6, <1>7, <1>8, <1>9 DEF ReplicationInv

(* A request goes to a peer that lacks the order, with nothing else in     *)
(* flight.                                                                 *)
LEMMA SendSteady ==
  ASSUME Arranged, TypeInv, ProtocolInv, ReplicationInv, Up(Primary), ExpertSend(Primary)
  PROVE  ReplicationInv'
<1> PICK t, n, q, c : t = Turn /\ n = Len(Stubs) /\ q = Stubs /\ c = q[t]
  OBVIOUS
<1>0. /\ Primary \in Server /\ t \in Nat \ {0} /\ n \in Nat
      /\ \A j \in 1 .. n : q[j] \in Conn \cup {ClosedStub}
      /\ eng \in [Conn -> {"none", "order", "backup", "append"}]
      /\ wire \in [Conn -> {"empty", "register", "request", "ack"}]
      /\ open \in [Conn -> BOOLEAN]
      /\ msg \in [Conn -> ReplicaRequest]
  BY SteadyTypes, ProtocolTypes DEF TypeInv, TypeOK
<1>1. /\ Phase = "send" /\ t \in 1 .. n
      /\ \/ /\ Dead(c)
            /\ expert' = Goto(Primary, "send", t + 1)
            /\ UNCHANGED <<wire, msg>>
         \/ /\ ~Dead(c)
            /\ wire' = [wire EXCEPT ![c] = "request"]
            /\ msg' = [msg EXCEPT ![c] = Request(Primary)]
            /\ expert' = Goto(Primary, "await", t)
      /\ UNCHANGED <<mode, erq, logvars, replica_stubs, eng, open, sent, acked>>
  BY <1>0 DEF ExpertSend, Phase, Turn, Stubs, clientvars
<1>2. CASE Dead(c) /\ expert' = Goto(Primary, "send", t + 1) /\ UNCHANGED <<wire, msg>>
  BY <1>1, <1>2, SkipStubSteady DEF connvars
<1>3. CASE /\ ~Dead(c)
           /\ wire' = [wire EXCEPT ![c] = "request"]
           /\ msg' = [msg EXCEPT ![c] = Request(Primary)]
           /\ expert' = Goto(Primary, "await", t)
  <2>1. /\ Phase' = "await" /\ Turn' = t
        /\ expert'[Primary].op = expert[Primary].op
        /\ \A s \in Server \ {Primary} : expert'[s] = expert[s]
    BY <1>0, <1>3, GotoShape DEF Phase, Turn
  <2>2. c \in Conn /\ c[1] = Primary /\ open[c]
    BY <1>0, <1>1, <1>3 DEF Dead, ProtocolInv, StubsOpen, Stubs
  <2>3. \A d \in Conn : ~InFlight(d)
    BY <1>1 DEF ReplicationInv, Drained
  <2>4. Up(c[2]) /\ eng[c] = "backup"
    <3>1. Up(c[2])
      BY <1>3, <2>2 DEF Dead, ReplicationInv, Shape
    <3>2. eng[c] \in {"backup", "append"}
      BY <1>1, <2>2, <3>1 DEF ReplicationInv, StubsInv, StubsServed
    <3> QED BY <2>2, <2>3, <3>1, <3>2 DEF InFlight
  <2>5. /\ UNCHANGED <<mode, erq, smr_log, committed_index, replica_stubs, eng, open>>
        /\ Stubs' = q /\ Log' = Log
    BY <1>1 DEF logvars, Stubs, Log
  <2>6. /\ wire'[c] = "request" /\ msg'[c] = Request(Primary)
        /\ \A d \in Conn : d # c => wire'[d] = wire[d] /\ msg'[d] = msg[d]
    BY <1>0, <1>3, <2>2
  <2>7. \A d \in Conn : InFlight(d)' <=> d = c
    BY <2>3, <2>4, <2>5, <2>6 DEF InFlight
  <2>8. Lacks(c[2])
    BY <1>1, <2>2, <2>4 DEF ReplicationInv, Progress, TurnByTurn
  <2>9. Shape'
    <3>1. \A d \in Conn : d[1] # Primary \/ ~Up(d[2]) => wire'[d] = "empty"
      BY <2>2, <2>4, <2>6 DEF ReplicationInv, Shape
    <3> QED BY <2>1, <2>5, <3>1 DEF ReplicationInv, Shape, Up
  <2>10. LogInv'
    BY <1>1, <2>1, QuietLogs DEF ReplicationInv
  <2>11. Requests'
    <3>1. /\ Log # <<>> /\ msg'[c].op = Log[Len(Log)] /\ msg'[c].last_index = Len(Log) - 1
          /\ msg'[c].committed_index \in {Len(Log) - 2, Len(Log) - 1}
      <4>1. Log # <<>> /\ expert[Primary].op = Log[Len(Log)]
        BY <1>1 DEF ReplicationInv, Progress, HandIsLast
      <4>2. /\ last_index[Primary] = Len(Log) - 1
            /\ committed_index[Primary] \in {Len(Log) - 2, Len(Log) - 1}
        BY <1>0 DEF ReplicationInv, LogInv, Copies, Applied, Log
      <4> QED BY <2>6, <4>1, <4>2 DEF Request
    <3>2. \A d \in Conn : /\ wire'[d] = "register" <=> eng[d] = "order"
                          /\ wire'[d] = "request" => eng[d] = "backup"
      BY <2>4, <2>6 DEF ReplicationInv, Requests
    <3> QED BY <2>5, <2>7, <2>8, <3>1, <3>2 DEF Requests, Lacks
  <2>12. StubsInv'
    <3>1. StubsDistinct'
      BY <2>5 DEF ReplicationInv, StubsInv, StubsDistinct
    <3>2. StubsServed'
      BY <1>1, <2>1, <2>5 DEF ReplicationInv, StubsInv, StubsServed, Up
    <3>3. StubsTried' /\ NoneClosed'
      BY <2>1 DEF StubsTried, NoneClosed
    <3>4. StubsCover'
      BY <1>1, <2>5 DEF ReplicationInv, StubsInv, StubsCover, Tried, Up
    <3> QED BY <3>1, <3>2, <3>3, <3>4 DEF StubsInv
  <2>13. Drained'
    <3> SUFFICES ASSUME NEW d \in Conn, ~open[d]
                 PROVE  wire'[d] = "empty" /\ eng[d] \in {"none", "backup"}
      BY <2>1, <2>5, <2>7 DEF Drained, Up
    <3>1. d # c
      BY <2>2
    <3> QED BY <2>6, <3>1 DEF ReplicationInv, Drained
  <2>14. Progress'
    <3>1. \A j \in 1 .. n : q[j] \in Conn /\ Up(q[j][2]) =>
            /\ j < t => Holds(q[j][2])
            /\ j > t => Lacks(q[j][2])
      BY <1>1 DEF ReplicationInv, Progress, TurnByTurn
    <3>2. TurnByTurn'
      BY <2>1, <2>5, <2>6, <2>7, <3>1 DEF TurnByTurn, Holds, Lacks, Up
    <3> QED BY <1>1, <2>1, <2>5, <3>2 DEF ReplicationInv, Progress, Between, HandIsLast, Ahead
  <2> QED BY <2>9, <2>10, <2>11, <2>12, <2>13, <2>14 DEF ReplicationInv
<1> QED BY <1>1, <1>2, <1>3

(* A peer that has answered has the order; one that has not is dead.       *)
LEMMA AckedSteady ==
  ASSUME Arranged, TypeInv, ProtocolInv, ReplicationInv, Up(Primary), ExpertAcked(Primary)
  PROVE  ReplicationInv'
<1> PICK t, n, q, c : t = Turn /\ n = Len(Stubs) /\ q = Stubs /\ c = q[t]
  OBVIOUS
<1>0. /\ Primary \in Server /\ t \in Nat \ {0} /\ n \in Nat
      /\ eng \in [Conn -> {"none", "order", "backup", "append"}]
      /\ wire \in [Conn -> {"empty", "register", "request", "ack"}]
  BY SteadyTypes, ProtocolTypes
<1>1. /\ Phase = "await" /\ (wire[c] = "ack" \/ Dead(c))
      /\ wire' = [wire EXCEPT ![c] = "empty"]
      /\ expert' = Goto(Primary, "send", t + 1)
      /\ UNCHANGED <<mode, erq, logvars, replica_stubs, eng, msg, open, sent, acked>>
  BY DEF ExpertAcked, Phase, Turn, Stubs, clientvars
<1>2. c \in Conn /\ t \in 1 .. n
  BY <1>0, <1>1 DEF ProtocolInv, StubInUse, Phase, Turn, Stubs
<1>3. /\ Phase' = "send" /\ Turn' = t + 1
      /\ expert'[Primary].op = expert[Primary].op
      /\ \A s \in Server \ {Primary} : expert'[s] = expert[s]
  BY <1>0, <1>1, GotoShape DEF Phase, Turn
<1>4. /\ UNCHANGED <<mode, erq, smr_log, committed_index, replica_stubs, eng, msg, open>>
      /\ Stubs' = q /\ Log' = Log
  BY <1>1 DEF logvars, Stubs, Log
<1>5. /\ wire'[c] = "empty" /\ \A d \in Conn : d # c => wire'[d] = wire[d]
  BY <1>0, <1>1, <1>2
<1>6. eng[c] # "order" /\ eng[c] # "append"
  <2>1. CASE wire[c] = "ack"
    BY <1>2, <2>1 DEF ReplicationInv, Requests, ProtocolInv, AppendQuiet
  <2>2. CASE Dead(c)
    BY <1>2, <2>2 DEF Dead
  <2> QED BY <1>1, <2>1, <2>2
<1>7. \A d \in Conn : ~InFlight(d)'
  <2> SUFFICES ASSUME NEW d \in Conn, wire'[d] = "request" \/ eng[d] = "append"
               PROVE  FALSE
    BY <1>4 DEF InFlight
  <2>1. d = c
    BY <1>5 DEF InFlight, ReplicationInv, Drained
  <2> QED BY <1>5, <1>6, <2>1
<1>8. Up(c[2]) => Holds(c[2])
  <2> SUFFICES ASSUME Up(c[2]) PROVE Holds(c[2])
    OBVIOUS
  <2>1. eng[c] \in {"backup", "append"}
    BY <1>1, <1>2 DEF ReplicationInv, StubsInv, StubsServed
  <2>2. wire[c] = "ack"
    BY <1>1, <1>2, <2>1 DEF Dead
  <2> QED BY <1>1, <1>2, <2>2 DEF ReplicationInv, Progress, TurnByTurn
<1>9. Shape'
  <2>1. \A d \in Conn : d[1] # Primary \/ ~Up(d[2]) => wire'[d] = "empty"
    BY <1>5 DEF ReplicationInv, Shape
  <2> QED BY <1>3, <1>4, <2>1 DEF ReplicationInv, Shape, Up
<1>10. LogInv'
  BY <1>1, <1>3, QuietLogs DEF ReplicationInv
<1>11. Requests'
  <2>1. \A d \in Conn : /\ wire'[d] = "register" <=> eng[d] = "order"
                        /\ wire'[d] = "request" => eng[d] = "backup"
    BY <1>5, <1>6 DEF ReplicationInv, Requests
  <2> QED BY <1>4, <1>7, <2>1 DEF Requests
<1>12. StubsInv'
  <2>1. StubsDistinct'
    BY <1>4 DEF ReplicationInv, StubsInv, StubsDistinct
  <2>2. StubsServed'
    BY <1>1, <1>3, <1>4 DEF ReplicationInv, StubsInv, StubsServed, Up
  <2>3. StubsTried' /\ NoneClosed'
    BY <1>3 DEF StubsTried, NoneClosed
  <2>4. StubsCover'
    BY <1>1, <1>4 DEF ReplicationInv, StubsInv, StubsCover, Tried, Up
  <2> QED BY <2>1, <2>2, <2>3, <2>4 DEF StubsInv
<1>13. Drained'
  <2>1. \A d \in Conn : ~open[d] => wire'[d] = "empty" /\ eng[d] \in {"none", "backup"}
    BY <1>5 DEF ReplicationInv, Drained
  <2> QED BY <1>4, <1>7, <2>1 DEF Drained
<1>14. Progress'
  <2> SUFFICES ASSUME NEW j \in 1 .. n, q[j] \in Conn, Up(q[j][2])
               PROVE  /\ j < t + 1 => Holds(q[j][2])
                      /\ j > t + 1 \/ j = t + 1 => Lacks(q[j][2])
    BY <1>1, <1>3, <1>4 DEF ReplicationInv, Progress, Between, HandIsLast, Ahead, TurnByTurn,
                            Holds, Lacks, Up
  <2>1. /\ j < t => Holds(q[j][2])
        /\ j > t => Lacks(q[j][2])
    BY <1>1 DEF ReplicationInv, Progress, TurnByTurn
  <2>2. j = t => Holds(q[j][2])
    BY <1>8
  <2> QED BY <1>0, <2>1, <2>2
<1> QED BY <1>9, <1>10, <1>11, <1>12, <1>13, <1>14 DEF ReplicationInv

-----------------------------------------------------------------------------
(* The primary answers its customer. *)

(* Writing the last entry to a record that has all the others.             *)
LEMMA ApplyLast ==
  ASSUME NEW rec, NEW f, NEW n \in Nat \ {0}, NEW k \in {n - 1, n}
  PROVE  [Apply(rec, f, 1, k) EXCEPT ![f[n].arg1] = f[n].arg2] = Apply(rec, f, 1, n)
<1> PICK K, N, R : /\ K = Apply(rec, f, 1, k) /\ N = Apply(rec, f, 1, n)
                   /\ R = [K EXCEPT ![f[n].arg1] = f[n].arg2]
  OBVIOUS
<1> SUFFICES R = N
  OBVIOUS
<1>1. /\ R = [x \in Key |-> R[x]] /\ N = [x \in Key |-> N[x]]
      /\ \A x \in Key : R[x] = IF x = f[n].arg1 THEN f[n].arg2 ELSE K[x]
  BY DEF Apply
<1> SUFFICES ASSUME NEW x \in Key PROVE R[x] = N[x]
  BY <1>1
<1> PICK A, B : /\ A = {i \in 1 .. k : f[i].arg1 = x}
                /\ B = {i \in 1 .. n : f[i].arg1 = x}
  OBVIOUS
<1>2. /\ K[x] = IF A = {} THEN rec[x] ELSE f[Max(A)].arg2
      /\ N[x] = IF B = {} THEN rec[x] ELSE f[Max(B)].arg2
  BY DEF Apply
<1>3. CASE x = f[n].arg1
  <2>1. B \in SUBSET (1 .. n) /\ n \in B /\ 1 \in Int /\ n \in Int
    BY <1>3
  <2>2. Max(B) \in B /\ Max(B) >= n
    BY <2>1, MaxOfIndices
  <2>3. Max(B) = n
    BY <2>1, <2>2
  <2> QED BY <1>1, <1>2, <1>3, <2>1, <2>3
<1>4. CASE x # f[n].arg1
  <2>1. A = B
    BY <1>4
  <2> QED BY <1>1, <1>2, <1>4, <2>1
<1> QED BY <1>3, <1>4

(* The order is committed when every running server has it.                *)
LEMMA FinishSteady ==
  ASSUME Arranged, TypeInv, ProtocolInv, ReplicationInv, Up(Primary), ExpertFinish(Primary)
  PROVE  ReplicationInv'
<1> PICK t, n, q, m, op :
      /\ t = Turn /\ n = Len(Stubs) /\ q = Stubs /\ m = Len(Log)
      /\ op = expert[Primary].op
  OBVIOUS
<1>0. /\ Primary \in Server /\ t \in Nat \ {0} /\ n \in Nat /\ m \in Nat
      /\ smr_log \in [Server -> Seq(Op)]
      /\ committed_index \in [Server -> Int]
      /\ customer_record \in [Server -> [Key -> Int]]
      /\ expert \in [Server -> ExpertState]
  BY SteadyTypes DEF TypeInv, TypeOK
<1>1. /\ Phase = "send" /\ t > n
      /\ customer_record' = [customer_record EXCEPT ![Primary][op.arg1] = op.arg2]
      /\ acked' = acked \cup {<<Primary, op>>}
      /\ committed_index' = [committed_index EXCEPT ![Primary] = m - 1]
      /\ expert' = [expert EXCEPT ![Primary] = Idle]
      /\ UNCHANGED <<mode, erq, smr_log, log_file, last_index, replica_stubs,
                     eng, wire, msg, open, sent>>
      /\ Stubs' = q /\ Log' = Log
  BY DEF ExpertFinish, Phase, Turn, Stubs, Log, connvars
<1>2. /\ Phase' = "idle" /\ \A s \in Server \ {Primary} : expert'[s] = expert[s]
      /\ committed_index'[Primary] = m - 1
      /\ \A s \in Server \ {Primary} : /\ committed_index'[s] = committed_index[s]
                                       /\ customer_record'[s] = customer_record[s]
  BY <1>0, <1>1 DEF Phase, Idle
<1>3. m \in Nat \ {0} /\ op = Log[m]
  <2>1. Log # <<>> /\ op = Log[m]
    BY <1>1 DEF ReplicationInv, Progress, HandIsLast
  <2>2. Log \in Seq(Op)
    BY <1>0 DEF Log
  <2> QED BY <1>0, <2>1, <2>2, EmptySeq
<1>4. \A d \in Conn : ~InFlight(d)
  BY <1>1 DEF ReplicationInv, Drained
<1>5. \A b \in Server : Up(b) => Holds(b)
  <2> SUFFICES ASSUME NEW b \in Server, Up(b), b # Primary PROVE Holds(b)
    BY DEF Holds, Log
  <2>1. PICK j \in 1 .. n : q[j] \in Conn /\ q[j][2] = b
    BY <1>1 DEF ReplicationInv, StubsInv, StubsCover, Tried
  <2>2. j < t
    BY <1>0, <1>1
  <2> QED BY <1>1, <2>1, <2>2 DEF ReplicationInv, Progress, TurnByTurn
<1>6. customer_record'[Primary] = Apply(Empty, Log, 1, m)
  <2>1. PICK k : k = committed_index[Primary] + 1
    OBVIOUS
  <2>2. /\ committed_index[Primary] \in {m - 2, m - 1}
        /\ customer_record[Primary] = Apply(Empty, Log, 1, k)
    BY <1>0, <2>1 DEF ReplicationInv, LogInv, Applied, Log
  <2>3. k \in {m - 1, m}
    BY <1>0, <2>1, <2>2
  <2>4. customer_record'[Primary] =
          [Apply(Empty, Log, 1, k) EXCEPT ![Log[m].arg1] = Log[m].arg2]
    BY <1>0, <1>1, <1>3, <2>2
  <2>5. [Apply(Empty, Log, 1, k) EXCEPT ![Log[m].arg1] = Log[m].arg2] =
          Apply(Empty, Log, 1, m)
    BY <1>3, <2>3, ApplyLast
  <2> QED BY <2>4, <2>5
<1>7. Shape'
  BY <1>1, <1>2 DEF ReplicationInv, Shape, Up
<1>8. Copies' /\ Orders'
  BY <1>1 DEF ReplicationInv, LogInv, Copies, Orders, Holds, Lacks, Up
<1>9. Applied'
  <2> SUFFICES ASSUME NEW s \in Server
               PROVE  /\ committed_index'[s] >= -1
                      /\ committed_index'[s] \in {Len(smr_log[s]) - 2, Len(smr_log[s]) - 1}
                      /\ customer_record'[s] =
                           Apply(Empty, smr_log[s], 1, committed_index'[s] + 1)
    BY <1>1 DEF Applied
  <2>1. CASE s = Primary
    <3>1. m - 1 >= -1 /\ m - 1 + 1 = m
      BY <1>0
    <3> QED BY <1>2, <1>6, <2>1, <3>1 DEF Log
  <2>2. CASE s # Primary
    BY <1>2, <2>2 DEF ReplicationInv, LogInv, Applied
  <2> QED BY <2>1, <2>2
<1>10. Answered'
  <2>1. ASSUME NEW s \in Server, s = Primary \/ Up(s)
        PROVE  \E i \in 1 .. Len(smr_log[s]) : smr_log[s][i] = op
    <3>1. Len(smr_log[s]) = m
      BY <1>5, <2>1 DEF Holds, Log
    <3>2. \A i \in 1 .. m : smr_log[s][i] = Log[i]
      BY <3>1 DEF ReplicationInv, LogInv, Copies
    <3> QED BY <1>3, <3>1, <3>2
  <2>2. ASSUME NEW e \in acked'
        PROVE  /\ e[1] = Primary
               /\ \A s \in Server : s = Primary \/ Up(s) =>
                    \E i \in 1 .. Len(smr_log[s]) : smr_log[s][i] = e[2]
    <3>1. CASE e \in acked
      BY <3>1 DEF ReplicationInv, LogInv, Answered
    <3>2. CASE e = <<Primary, op>>
      BY <2>1, <3>2
    <3> QED BY <1>1, <3>1, <3>2
  <2>3. \A i \in 1 .. m : <<Primary, Log[i]>> \in acked'
    <3> SUFFICES ASSUME NEW i \in 1 .. m PROVE <<Primary, Log[i]>> \in acked'
      OBVIOUS
    <3>1. i < m => <<Primary, Log[i]>> \in acked
      BY DEF ReplicationInv, LogInv, Answered
    <3>2. i < m \/ i = m
      BY <1>0
    <3> QED BY <1>1, <1>3, <3>1, <3>2
  <2> QED BY <1>1, <2>2, <2>3 DEF Answered, Up
<1>11. Requests'
  BY <1>1 DEF ReplicationInv, Requests, InFlight, Lacks
<1>12. StubsInv'
  <2>1. StubsDistinct'
    BY <1>1 DEF ReplicationInv, StubsInv, StubsDistinct
  <2>2. StubsServed'
    BY <1>1 DEF ReplicationInv, StubsInv, StubsServed, Up
  <2>3. StubsTried' /\ StubsCover' /\ NoneClosed'
    BY <1>2 DEF StubsTried, StubsCover, Tried, NoneClosed
  <2> QED BY <2>1, <2>2, <2>3 DEF StubsInv
<1>13. Drained'
  BY <1>1, <1>4 DEF ReplicationInv, Drained, InFlight, Up
<1>14. Progress'
  BY <1>1, <1>2, <1>5 DEF Progress, Between, HandIsLast, Ahead, TurnByTurn, Holds, Up
<1> QED BY <1>7, <1>8, <1>9, <1>10, <1>11, <1>12, <1>13, <1>14 DEF ReplicationInv, LogInv

-----------------------------------------------------------------------------
(* The backups' engineers. *)

(* An engineer step that leaves the logs alone changes only its connection.*)
LEMMA EngineerQuiet ==
  ASSUME Arranged, TypeInv, ReplicationInv, NEW c \in Conn, c[1] = Primary, Up(c[2]),
         UNCHANGED <<mode, erq, expert, logvars, replica_stubs, msg, open, sent, acked>>,
         \A d \in Conn : d # c => eng'[d] = eng[d] /\ wire'[d] = wire[d],
         InFlight(c)' <=> InFlight(c),
         wire'[c] # "register", eng'[c] # "order",
         wire'[c] = "request" => eng'[c] = "backup",
         \A j \in 1 .. Len(Stubs) : Stubs[j] = c => eng'[c] \in {"backup", "append"},
         Up(Primary) /\ ~open[c] => wire'[c] = "empty" /\ eng'[c] \in {"none", "backup"},
         wire[c] # "ack", wire'[c] = "ack" => eng[c] = "order"
  PROVE  ReplicationInv'
<1>1. /\ UNCHANGED <<mode, erq, expert, smr_log, committed_index, replica_stubs, msg, open>>
      /\ Stubs' = Stubs /\ Log' = Log /\ Phase' = Phase /\ Turn' = Turn
  BY DEF logvars, Stubs, Log, Phase, Turn
<1>2. \A d \in Conn : InFlight(d)' <=> InFlight(d)
  BY DEF InFlight
<1>3. Shape'
  BY <1>1 DEF ReplicationInv, Shape, Up
<1>4. LogInv'
  BY <1>1, QuietLogs DEF ReplicationInv
<1>5. Requests'
  <2>1. \A d \in Conn : /\ wire'[d] = "register" <=> eng'[d] = "order"
                        /\ wire'[d] = "request" => eng'[d] = "backup"
    BY DEF ReplicationInv, Requests
  <2> QED BY <1>1, <1>2, <2>1 DEF ReplicationInv, Requests, Lacks
<1>6. StubsInv'
  <2>1. StubsDistinct'
    BY <1>1 DEF ReplicationInv, StubsInv, StubsDistinct
  <2>2. StubsServed'
    BY <1>1 DEF ReplicationInv, StubsInv, StubsServed, Up
  <2>3. StubsTried' /\ StubsCover' /\ NoneClosed'
    BY <1>1 DEF ReplicationInv, StubsInv, StubsTried, StubsCover, Tried, Reached, NoneClosed, Up
  <2> QED BY <2>1, <2>2, <2>3 DEF StubsInv
<1>7. Drained'
  BY <1>1, <1>2 DEF ReplicationInv, Drained, Up
<1>8. TurnByTurn'
  <2> SUFFICES ASSUME Phase \in {"send", "await"},
                      NEW j \in 1 .. Len(Stubs), Stubs[j] \in Conn, Up(Stubs[j][2])
               PROVE  /\ j < Turn => Holds(Stubs[j][2])
                      /\ j > Turn \/ (j = Turn /\ Phase = "send") => Lacks(Stubs[j][2])
                      /\ j = Turn /\ Phase = "await" =>
                           IF wire'[Stubs[j]] = "ack" THEN Holds(Stubs[j][2])
                           ELSE InFlight(Stubs[j])
    BY <1>1, <1>2 DEF TurnByTurn, Holds, Lacks, Up
  <2>1. /\ j < Turn => Holds(Stubs[j][2])
        /\ j > Turn \/ (j = Turn /\ Phase = "send") => Lacks(Stubs[j][2])
        /\ j = Turn /\ Phase = "await" =>
             IF wire[Stubs[j]] = "ack" THEN Holds(Stubs[j][2]) ELSE InFlight(Stubs[j])
    BY DEF ReplicationInv, Progress, TurnByTurn
  <2>2. eng[Stubs[j]] # "order"
    BY DEF ReplicationInv, StubsInv, StubsServed
  <2>3. CASE j = Turn /\ Phase = "await" /\ Stubs[j] = c
    BY <2>1, <2>2, <2>3
  <2>4. CASE ~(j = Turn /\ Phase = "await" /\ Stubs[j] = c)
    BY <2>1, <2>4
  <2> QED BY <2>3, <2>4
<1>9. Progress'
  BY <1>1, <1>8 DEF ReplicationInv, Progress, Between, HandIsLast, Ahead, Holds, Lacks, Up
<1> QED BY <1>3, <1>4, <1>5, <1>6, <1>7, <1>9 DEF ReplicationInv

(* A registration is answered.                                             *)
LEMMA RegisterSteady ==
  ASSUME Arranged, TypeInv, ReplicationInv, NEW c \in Conn, c[1] = Primary, Up(c[2]),
         EngineerRegister(c)
  PROVE  ReplicationInv'
<1>0. /\ eng \in [Conn -> {"none", "order", "backup", "append"}]
      /\ wire \in [Conn -> {"empty", "register", "request", "ack"}]
  BY ProtocolTypes
<1>1. /\ eng[c] = "order" /\ wire[c] = "register"
      /\ eng'[c] = "backup" /\ wire'[c] = IF open[c] THEN "ack" ELSE "empty"
      /\ \A d \in Conn : d # c => eng'[d] = eng[d] /\ wire'[d] = wire[d]
      /\ UNCHANGED <<mode, erq, expert, logvars, replica_stubs, msg, open, sent, acked>>
  BY <1>0 DEF EngineerRegister, Answer, clientvars
<1>2. ~InFlight(c) /\ ~InFlight(c)'
  BY <1>1 DEF InFlight
<1> QED BY <1>1, <1>2, EngineerQuiet

(* A request is never behind the backup's committed index.                 *)
LEMMA ReceiveSteady ==
  ASSUME Arranged, TypeInv, ReplicationInv, NEW c \in Conn, c[1] = Primary, Up(c[2]),
         EngineerReceive(c)
  PROVE  ReplicationInv'
<1>0. /\ eng \in [Conn -> {"none", "order", "backup", "append"}]
      /\ wire \in [Conn -> {"empty", "register", "request", "ack"}]
      /\ c[2] \in Server /\ Len(Log) \in Nat /\ Len(smr_log[c[2]]) \in Nat
  BY SteadyTypes, ProtocolTypes, ClosedNotConn
<1>1. /\ eng[c] = "backup" /\ wire[c] = "request"
      /\ UNCHANGED <<mode, erq, expert, logvars, replica_stubs, msg, open, sent, acked>>
  BY DEF EngineerReceive, clientvars
<1>2. InFlight(c)
  BY <1>1 DEF InFlight
<1>3. msg[c].last_index > committed_index[c[2]]
  <2>1. msg[c].last_index = Len(Log) - 1 /\ Lacks(c[2])
    BY <1>2 DEF ReplicationInv, Requests
  <2>2. committed_index[c[2]] \in {Len(smr_log[c[2]]) - 2, Len(smr_log[c[2]]) - 1}
    BY <1>0 DEF ReplicationInv, LogInv, Applied
  <2> QED BY <1>0, <2>1, <2>2 DEF Lacks
<1>4. eng' = [eng EXCEPT ![c] = "append"] /\ wire' = [wire EXCEPT ![c] = "empty"]
  <2>1. ~(msg[c].last_index <= committed_index[c[2]])
    <3>1. msg[c].last_index \in Int /\ committed_index[c[2]] \in Int
      BY <1>0 DEF TypeInv, TypeOK, ReplicaRequest
    <3> QED BY <1>3, <3>1
  <2> QED BY <2>1 DEF EngineerReceive
<1>5. /\ eng'[c] = "append" /\ wire'[c] = "empty"
      /\ \A d \in Conn : d # c => eng'[d] = eng[d] /\ wire'[d] = wire[d]
  BY <1>0, <1>4
<1>6. InFlight(c)'
  BY <1>5 DEF InFlight
<1>7. open[c] \/ ~Up(Primary)
  BY <1>1 DEF ReplicationInv, Drained
<1> QED BY <1>1, <1>2, <1>5, <1>6, <1>7, EngineerQuiet

(* The engineer of a closed connection serves no stub.                     *)
LEMMA EofSteady ==
  ASSUME Arranged, TypeInv, ProtocolInv, ReplicationInv, NEW c \in Conn, c[1] = Primary,
         Up(c[2]), EngineerEof(c)
  PROVE  ReplicationInv'
<1>0. eng \in [Conn -> {"none", "order", "backup", "append"}] /\ Primary \in Server
  BY ProtocolTypes, SteadyTypes
<1>1. /\ eng[c] = "backup" /\ ~open[c] /\ wire[c] = "empty"
      /\ eng' = [eng EXCEPT ![c] = "none"]
      /\ UNCHANGED <<mode, erq, expert, logvars, replica_stubs, wire, msg, open, sent, acked>>
  BY DEF EngineerEof, clientvars
<1>2. /\ eng'[c] = "none" /\ wire'[c] = "empty"
      /\ \A d \in Conn : d # c => eng'[d] = eng[d] /\ wire'[d] = wire[d]
  BY <1>0, <1>1
<1>3. ~InFlight(c) /\ ~InFlight(c)'
  BY <1>1, <1>2 DEF InFlight
<1>4. \A j \in 1 .. Len(Stubs) : Stubs[j] # c
  BY <1>0, <1>1 DEF ProtocolInv, StubsOpen, Stubs
<1> QED BY <1>1, <1>2, <1>3, <1>4, EngineerQuiet

(* What the append does to the backup's log.                               *)
LEMMA AppendShape ==
  ASSUME Arranged, TypeInv, ReplicationInv, NEW c \in Conn, c[1] = Primary, Up(c[2]),
         EngineerAppend(c)
  PROVE  LET b == c[2] IN
         /\ b \in Server \ {Primary} /\ InFlight(c) /\ Len(Log) \in Nat \ {0}
         /\ Len(smr_log[b]) = Len(Log) - 1
         /\ \A s \in Server \ {b} :
              /\ smr_log'[s] = smr_log[s] /\ log_file'[s] = log_file[s]
              /\ last_index'[s] = last_index[s]
              /\ committed_index'[s] = committed_index[s]
              /\ customer_record'[s] = customer_record[s]
         /\ smr_log'[b] \in Seq(Op) /\ Len(smr_log'[b]) = Len(Log)
         /\ \A i \in 1 .. Len(Log) : smr_log'[b][i] = Log[i]
         /\ log_file'[b] = smr_log'[b] /\ last_index'[b] = Len(Log) - 1
         /\ committed_index'[b] \in {Len(Log) - 2, Len(Log) - 1}
         /\ customer_record'[b] = Apply(Empty, smr_log'[b], 1, committed_index'[b] + 1)
<1> PICK b, n, hi, new : /\ b = c[2] /\ n = Len(Log) /\ hi = msg[c].committed_index
                         /\ new = Append(smr_log[b], msg[c].op)
  OBVIOUS
<1>0. /\ Primary \in Server /\ b \in Server \ {Primary} /\ n \in Nat
      /\ Log \in Seq(Op) /\ smr_log \in [Server -> Seq(Op)]
      /\ smr_log[b] \in Seq(Op) /\ Len(smr_log[b]) \in Nat
      /\ log_file \in [Server -> Seq(Op)]
      /\ last_index \in [Server -> Int] /\ committed_index \in [Server -> Int]
      /\ customer_record \in [Server -> [Key -> Int]]
      /\ msg[c].op \in Op
  <2>1. b \in Server \ {Primary}
    BY ClosedNotConn
  <2>2. msg[c].op \in Op
    BY DEF TypeInv, TypeOK, ReplicaRequest
  <2> QED BY <2>1, <2>2, SteadyTypes DEF TypeInv, TypeOK, Log
<1>1. /\ eng[c] = "append"
      /\ smr_log' = [smr_log EXCEPT ![b] = new]
      /\ log_file' = [log_file EXCEPT ![b] = Append(log_file[b], msg[c].op)]
      /\ last_index' = [last_index EXCEPT ![b] = msg[c].last_index]
      /\ committed_index' = [committed_index EXCEPT ![b] = hi]
      /\ CatchUp(b, new, hi)
  BY DEF EngineerAppend, LogAppend
<1>2. /\ InFlight(c) /\ n \in Nat \ {0} /\ Len(smr_log[b]) = n - 1
      /\ msg[c].op = Log[n] /\ msg[c].last_index = n - 1 /\ hi \in {n - 2, n - 1}
  <2>1. InFlight(c)
    BY <1>1 DEF InFlight
  <2>2. /\ Log # <<>> /\ Len(smr_log[b]) = n - 1
        /\ msg[c].op = Log[n] /\ msg[c].last_index = n - 1 /\ hi \in {n - 2, n - 1}
    BY <2>1 DEF ReplicationInv, Requests, Lacks
  <2>3. n # 0
    BY <1>0, <2>2, EmptySeq
  <2> QED BY <1>0, <2>1, <2>2, <2>3
<1>3. /\ new \in Seq(Op) /\ Len(new) = n /\ new[n] = Log[n]
      /\ \A i \in 1 .. n - 1 : new[i] = smr_log[b][i]
  <2>1. /\ new \in Seq(Op) /\ Len(new) = Len(smr_log[b]) + 1
        /\ new[Len(smr_log[b]) + 1] = msg[c].op
        /\ \A i \in 1 .. Len(smr_log[b]) : new[i] = smr_log[b][i]
    BY <1>0, AppendProperties
  <2>2. Len(smr_log[b]) + 1 = n
    BY <1>2
  <2> QED BY <1>2, <2>1, <2>2
<1>4. \A i \in 1 .. n : new[i] = Log[i]
  <2> SUFFICES ASSUME NEW i \in 1 .. n PROVE new[i] = Log[i]
    OBVIOUS
  <2>1. CASE i = n
    BY <1>3, <2>1
  <2>2. CASE i # n
    <3>1. i \in 1 .. n - 1
      BY <1>0, <2>2
    <3>2. smr_log[b][i] = Log[i]
      BY <1>0, <1>2, <3>1 DEF ReplicationInv, LogInv, Copies
    <3> QED BY <1>3, <3>1, <3>2
  <2> QED BY <2>1, <2>2
<1>5. customer_record' = [customer_record EXCEPT ![b] = Apply(Empty, new, 1, hi + 1)]
  <2>1. /\ committed_index[b] >= -1
        /\ committed_index[b] \in {n - 3, n - 2}
        /\ customer_record[b] = Apply(Empty, smr_log[b], 1, committed_index[b] + 1)
    <3>1. /\ committed_index[b] >= -1
          /\ committed_index[b] \in {Len(smr_log[b]) - 2, Len(smr_log[b]) - 1}
          /\ customer_record[b] = Apply(Empty, smr_log[b], 1, committed_index[b] + 1)
      BY <1>0 DEF ReplicationInv, LogInv, Applied
    <3> QED BY <1>2, <3>1
  <2>2. Same(smr_log[b], new, 1, committed_index[b] + 1)
    <3>1. \A i \in 1 .. committed_index[b] + 1 : i \in 1 .. n - 1
      BY <1>2, <2>1
    <3> QED BY <1>3, <3>1 DEF Same
  <2>3. hi \in Int /\ hi < Len(new) /\ committed_index[b] <= hi
    BY <1>2, <1>3, <2>1
  <2>4. b \in Server /\ new \in Seq(Op) /\ CatchUp(b, new, hi)
    BY <1>0, <1>1, <1>3
  <2> QED BY <2>1, <2>2, <2>3, <2>4, CatchUpAll
<1>6. log_file[b] = smr_log[b]
  BY <1>0 DEF ReplicationInv, LogInv, Copies
<1>7. /\ smr_log'[b] = new /\ log_file'[b] = new /\ last_index'[b] = n - 1
      /\ committed_index'[b] = hi /\ customer_record'[b] = Apply(Empty, new, 1, hi + 1)
      /\ \A s \in Server \ {b} :
           /\ smr_log'[s] = smr_log[s] /\ log_file'[s] = log_file[s]
           /\ last_index'[s] = last_index[s]
           /\ committed_index'[s] = committed_index[s]
           /\ customer_record'[s] = customer_record[s]
  BY <1>0, <1>1, <1>2, <1>5, <1>6
<1> QED BY <1>0, <1>2, <1>3, <1>4, <1>7

(* The backup that was asked now has the order, and nothing is in flight.  *)
LEMMA AppendSteady ==
  ASSUME Arranged, TypeInv, ProtocolInv, ReplicationInv, NEW c \in Conn, c[1] = Primary,
         Up(c[2]), EngineerAppend(c)
  PROVE  ReplicationInv'
<1> PICK b, n : b = c[2] /\ n = Len(Log)
  OBVIOUS
<1>0. /\ Primary \in Server /\ n \in Nat \ {0}
      /\ eng \in [Conn -> {"none", "order", "backup", "append"}]
      /\ wire \in [Conn -> {"empty", "register", "request", "ack"}]
      /\ \A s \in Server : Len(smr_log[s]) \in Nat
  BY SteadyTypes, ProtocolTypes, AppendShape
<1>1. /\ eng[c] = "append"
      /\ eng'[c] = "backup" /\ wire'[c] = IF open[c] THEN "ack" ELSE "empty"
      /\ \A d \in Conn : d # c => eng'[d] = eng[d] /\ wire'[d] = wire[d]
      /\ UNCHANGED <<mode, erq, expert, replica_stubs, msg, open, sent, acked>>
      /\ Stubs' = Stubs /\ Phase' = Phase /\ Turn' = Turn
  BY <1>0 DEF EngineerAppend, Answer, clientvars, Stubs, Phase, Turn
<1>2. /\ b \in Server \ {Primary} /\ InFlight(c)
      /\ Len(smr_log[b]) = n - 1
      /\ \A s \in Server \ {b} :
           /\ smr_log'[s] = smr_log[s] /\ log_file'[s] = log_file[s]
           /\ last_index'[s] = last_index[s]
           /\ committed_index'[s] = committed_index[s]
           /\ customer_record'[s] = customer_record[s]
      /\ Len(smr_log'[b]) = n
      /\ \A i \in 1 .. n : smr_log'[b][i] = Log[i]
      /\ log_file'[b] = smr_log'[b] /\ last_index'[b] = n - 1
      /\ committed_index'[b] \in {n - 2, n - 1}
      /\ customer_record'[b] = Apply(Empty, smr_log'[b], 1, committed_index'[b] + 1)
  BY AppendShape
<1>3. Log' = Log
  BY <1>0, <1>2 DEF Log
<1>4. \A d \in Conn : ~InFlight(d)'
  <2> SUFFICES ASSUME NEW d \in Conn, InFlight(d)' PROVE FALSE
    OBVIOUS
  <2>1. d # c
    BY <1>1 DEF InFlight
  <2>2. InFlight(d)
    BY <1>1, <2>1 DEF InFlight
  <2> QED BY <1>2, <2>1, <2>2 DEF ReplicationInv, Requests
<1>5. Phase # "idle" => Up(Primary) /\ Phase = "await" /\ c = Stubs[Turn] /\ open[c]
  <2>1. Phase # "idle" => Up(Primary)
    BY <1>0 DEF ReplicationInv, Shape, Phase
  <2>2. Up(Primary) => Phase = "await" /\ c = Stubs[Turn]
    BY <1>2 DEF ReplicationInv, Drained
  <2>3. Up(Primary) => open[c]
    BY <1>1 DEF ReplicationInv, Drained
  <2> QED BY <2>1, <2>2, <2>3
<1>6. Shape'
  BY <1>1 DEF ReplicationInv, Shape, Up
<1>7. Copies'
  <2> SUFFICES ASSUME NEW s \in Server
               PROVE  /\ log_file'[s] = smr_log'[s]
                      /\ last_index'[s] = Len(smr_log'[s]) - 1
                      /\ Len(smr_log'[s]) <= n
                      /\ \A i \in 1 .. Len(smr_log'[s]) : smr_log'[s][i] = Log[i]
                      /\ mode[s] = "up" => \/ Len(smr_log'[s]) = n
                                           \/ Len(smr_log'[s]) = n - 1
    BY <1>1, <1>3 DEF Copies, Holds, Lacks, Up
  <2>1. CASE s = b
    BY <1>0, <1>2, <2>1
  <2>2. CASE s # b
    BY <1>2, <2>2 DEF ReplicationInv, LogInv, Copies, Holds, Lacks, Up
  <2> QED BY <2>1, <2>2
<1>8. Applied'
  <2> SUFFICES ASSUME NEW s \in Server
               PROVE  /\ committed_index'[s] >= -1
                      /\ committed_index'[s] \in {Len(smr_log'[s]) - 2, Len(smr_log'[s]) - 1}
                      /\ customer_record'[s] =
                           Apply(Empty, smr_log'[s], 1, committed_index'[s] + 1)
    BY DEF Applied
  <2>1. CASE s = b
    <3>1. committed_index'[b] >= -1
      BY <1>0, <1>2
    <3> QED BY <1>2, <2>1, <3>1
  <2>2. CASE s # b
    BY <1>2, <2>2 DEF ReplicationInv, LogInv, Applied
  <2> QED BY <2>1, <2>2
<1>9. Orders'
  BY <1>1, <1>3 DEF ReplicationInv, LogInv, Orders
<1>10. Answered'
  <2>1. ASSUME NEW e \in acked, NEW s \in Server, s = Primary \/ Up(s)
        PROVE  \E i \in 1 .. Len(smr_log'[s]) : smr_log'[s][i] = e[2]
    <3>1. PICK i \in 1 .. Len(smr_log[s]) : smr_log[s][i] = e[2]
      BY <2>1 DEF ReplicationInv, LogInv, Answered
    <3>2. CASE s = b
      <4>1. i \in 1 .. n
        BY <1>0, <1>2, <3>1, <3>2
      <4>2. smr_log[b][i] = Log[i]
        BY <1>2, <3>1, <3>2 DEF ReplicationInv, LogInv, Copies
      <4> QED BY <1>2, <3>1, <3>2, <4>1, <4>2
    <3>3. CASE s # b
      BY <1>2, <3>1, <3>3
    <3> QED BY <3>2, <3>3
  <2>2. ASSUME NEW e \in acked PROVE e[1] = Primary
    BY DEF ReplicationInv, LogInv, Answered
  <2>3. Up(Primary) => \A i \in 1 .. n : i < n \/ Phase = "idle" => <<Primary, Log[i]>> \in acked
    BY DEF ReplicationInv, LogInv, Answered
  <2> QED BY <1>1, <1>3, <2>1, <2>2, <2>3 DEF Answered, Up
<1>11. Requests'
  <2>1. \A d \in Conn : /\ wire'[d] = "register" <=> eng'[d] = "order"
                        /\ wire'[d] = "request" => eng'[d] = "backup"
    BY <1>1 DEF ReplicationInv, Requests
  <2> QED BY <1>4, <2>1 DEF Requests
<1>12. StubsInv'
  <2>1. StubsDistinct'
    BY <1>1 DEF ReplicationInv, StubsInv, StubsDistinct
  <2>2. StubsServed'
    BY <1>1 DEF ReplicationInv, StubsInv, StubsServed, Up
  <2>3. StubsTried' /\ StubsCover' /\ NoneClosed'
    BY <1>1 DEF ReplicationInv, StubsInv, StubsTried, StubsCover, Tried, Reached, NoneClosed, Up
  <2> QED BY <2>1, <2>2, <2>3 DEF StubsInv
<1>13. Drained'
  <2>1. Up(Primary) => \A d \in Conn : ~open[d] => wire'[d] = "empty" /\ eng'[d] \in {"none", "backup"}
    BY <1>1 DEF ReplicationInv, Drained
  <2> QED BY <1>1, <1>4, <2>1 DEF Drained, Up
<1>14. TurnByTurn'
  <2> SUFFICES ASSUME Phase \in {"send", "await"},
                      NEW j \in 1 .. Len(Stubs), Stubs[j] \in Conn, Up(Stubs[j][2])
               PROVE  /\ j < Turn => Len(smr_log'[Stubs[j][2]]) = n
                      /\ j > Turn => Len(smr_log'[Stubs[j][2]]) = n - 1
                      /\ j = Turn => wire'[Stubs[j]] = "ack" /\ Len(smr_log'[Stubs[j][2]]) = n
    BY <1>1, <1>3, <1>5 DEF TurnByTurn, Holds, Lacks, Up
  <2>1. Phase = "await" /\ c = Stubs[Turn] /\ open[c] /\ Turn \in Nat
    BY <1>5, SteadyTypes
  <2>2. CASE j = Turn
    BY <1>1, <1>2, <2>1, <2>2
  <2>3. CASE j # Turn
    <3>1. Stubs[j][2] # b /\ Stubs[j][2] \in Server
      <4>1. Turn \in 1 .. Len(Stubs)
        BY <2>1, SteadyTypes DEF ProtocolInv, StubInUse, Phase, Turn, Stubs
      <4> QED BY <2>1, <2>3, <4>1, ClosedNotConn DEF ReplicationInv, StubsInv, StubsDistinct
    <3>2. /\ j < Turn => Holds(Stubs[j][2])
          /\ j > Turn => Lacks(Stubs[j][2])
      BY DEF ReplicationInv, Progress, TurnByTurn
    <3> QED BY <1>2, <2>3, <3>1, <3>2 DEF Holds, Lacks
  <2> QED BY <2>2, <2>3
<1>15. Progress'
  <2>1. Between' /\ Ahead'
    <3>1. Up(Primary) => Phase = "await"
      BY <1>2 DEF ReplicationInv, Drained
    <3> QED BY <1>1, <1>5, <3>1 DEF Between, Ahead, Up
  <2>2. HandIsLast'
    BY <1>1, <1>3 DEF ReplicationInv, Progress, HandIsLast
  <2> QED BY <1>14, <2>1, <2>2 DEF Progress
<1> QED BY <1>6, <1>7, <1>8, <1>9, <1>10, <1>11, <1>12, <1>13, <1>15 DEF ReplicationInv, LogInv

-----------------------------------------------------------------------------
(* Crashes. *)

(* What a crash leaves alone, and what it only takes away.                 *)
LEMMA CrashShape ==
  ASSUME Arranged, TypeInv, ReplicationInv, NEW s \in Server, Crash(s)
  PROVE  /\ s \in MayCrash /\ mode' = [mode EXCEPT ![s] = "down"]
         /\ expert'[s] = Idle /\ erq'[s] = <<>> /\ replica_stubs'[s] = <<>>
         /\ \A r \in Server \ {s} : /\ expert'[r] = expert[r] /\ erq'[r] = erq[r]
                                    /\ replica_stubs'[r] = replica_stubs[r]
         /\ \A c \in Conn :
              /\ c[2] = s => eng'[c] = "none" /\ wire'[c] = "empty"
              /\ c[2] # s => eng'[c] = eng[c] /\ wire'[c] \in {wire[c], "empty"}
              /\ c[2] # s /\ wire[c] # "ack" => wire'[c] = wire[c]
              /\ c[2] # s /\ c[1] # s => wire'[c] = wire[c]
              /\ open[c] /\ c[1] # s => open'[c]
         /\ \A k \in Customer : sent[k] <= sent'[k]
         /\ sent' \in [Customer -> Int]
         /\ UNCHANGED <<smr_log, log_file, customer_record, last_index,
                        committed_index, msg, acked>>
<1>0. /\ expert \in [Server -> ExpertState] /\ erq \in [Server -> Seq(OrderOp)]
      /\ replica_stubs \in [Server -> Seq(Conn \cup {ClosedStub})]
      /\ sent \in [Customer -> 0 .. NumOrders]
      /\ NumOrders \in Nat
  BY CustomerAssumption DEF TypeInv, TypeOK
<1>1. /\ s \in MayCrash /\ mode' = [mode EXCEPT ![s] = "down"]
      /\ erq' = [erq EXCEPT ![s] = <<>>]
      /\ expert' = [expert EXCEPT ![s] = Idle]
      /\ replica_stubs' = [replica_stubs EXCEPT ![s] = <<>>]
      /\ eng'  = [c \in Conn |-> IF c[2] = s THEN "none" ELSE eng[c]]
      /\ open' = [c \in Conn |-> open[c] /\ c[1] # s]
      /\ wire' = [c \in Conn |->
           IF c[2] = s \/ (c[1] = s /\ wire[c] = "ack") THEN "empty" ELSE wire[c]]
      /\ sent' = [c \in Customer |-> IF at[c] = s THEN NumOrders ELSE sent[c]]
      /\ UNCHANGED <<smr_log, log_file, customer_record, last_index,
                     committed_index, msg, acked>>
  BY DEF Crash, logvars
<1>2. /\ expert'[s] = Idle /\ erq'[s] = <<>> /\ replica_stubs'[s] = <<>>
      /\ \A r \in Server \ {s} : /\ expert'[r] = expert[r] /\ erq'[r] = erq[r]
                                 /\ replica_stubs'[r] = replica_stubs[r]
  BY <1>0, <1>1
<1>3. \A c \in Conn :
        /\ c[2] = s => eng'[c] = "none" /\ wire'[c] = "empty"
        /\ c[2] # s => eng'[c] = eng[c] /\ wire'[c] \in {wire[c], "empty"}
        /\ c[2] # s /\ wire[c] # "ack" => wire'[c] = wire[c]
        /\ c[2] # s /\ c[1] # s => wire'[c] = wire[c]
        /\ open[c] /\ c[1] # s => open'[c]
  BY <1>1
<1>4. (\A k \in Customer : sent[k] <= sent'[k]) /\ sent' \in [Customer -> Int]
  BY <1>0, <1>1
<1> QED BY <1>1, <1>2, <1>3, <1>4

(* Orders on their way to a server that dies are gone; what the others     *)
(* hold, and what was answered, stays.                                     *)
LEMMA CrashCommon ==
  ASSUME Arranged, TypeInv, ReplicationInv, NEW s \in Server, Crash(s)
  PROVE  /\ Copies' /\ Applied' /\ Orders' /\ Requests'
         /\ \A e \in acked' : /\ e[1] = Primary
                              /\ \A r \in Server : r = Primary \/ Up(r)' =>
                                   \E i \in 1 .. Len(smr_log'[r]) : smr_log'[r][i] = e[2]
<1>0. /\ Primary \in Server /\ mode \in [Server -> {"down", "recovering", "status", "fetch",
                                                    "recovered", "up"}]
      /\ sent \in [Customer -> 0 .. NumOrders]
      /\ wire \in [Conn -> {"empty", "register", "request", "ack"}]
  BY SteadyTypes DEF TypeInv, TypeOK
<1>1. \A r \in Server : mode'[r] = "up" => Up(r) /\ r # s
  BY <1>0, CrashShape DEF Up
<1>2. UNCHANGED <<smr_log, log_file, customer_record, last_index,
                  committed_index, msg, acked>> /\ Log' = Log
  BY CrashShape DEF Log
<1>3. Copies'
  BY <1>1, <1>2 DEF ReplicationInv, LogInv, Copies, Holds, Lacks, Up
<1>4. Applied'
  BY <1>2 DEF ReplicationInv, LogInv, Applied
<1>5. Orders'
  <2>1. erq'[Primary] = <<>> \/ erq'[Primary] = erq[Primary]
    BY <1>0, CrashShape
  <2>2. \A i \in 1 .. Len(Log) :
          Log[i] \in OrderOp /\ Log[i].arg2 < sent[Log[i].arg1]
    BY DEF ReplicationInv, LogInv, Orders
  <2>3. \A k \in Customer : sent[k] \in Int /\ sent'[k] \in Int /\ sent[k] <= sent'[k]
    BY <1>0, CrashShape
  <2>4. \A o \in OrderOp : o.arg1 \in Customer /\ o.arg2 \in Int
    BY DEF OrderOp
  <2>5. \A i \in 1 .. Len(Log) :
          Log[i] \in OrderOp /\ Log[i].arg2 < sent'[Log[i].arg1]
    BY <2>2, <2>3, <2>4
  <2>6. \A j \in 1 .. Len(erq'[Primary]) : \A i \in 1 .. Len(Log) :
          Log[i].arg1 = erq'[Primary][j].arg1 => Log[i].arg2 < erq'[Primary][j].arg2
    BY <2>1 DEF ReplicationInv, LogInv, Orders
  <2>7. \A i, j \in 1 .. Len(Log) :
          i < j /\ Log[i].arg1 = Log[j].arg1 => Log[i].arg2 < Log[j].arg2
    BY DEF ReplicationInv, LogInv, Orders
  <2> QED BY <1>2, <2>5, <2>6, <2>7 DEF Orders
<1>6. Requests'
  <2>1. \A c \in Conn : InFlight(c)' => InFlight(c)
    BY CrashShape DEF InFlight
  <2>2. \A c \in Conn : /\ wire'[c] = "register" <=> eng'[c] = "order"
                        /\ wire'[c] = "request" => eng'[c] = "backup"
    <3> SUFFICES ASSUME NEW c \in Conn
                 PROVE  /\ wire'[c] = "register" <=> eng'[c] = "order"
                        /\ wire'[c] = "request" => eng'[c] = "backup"
      OBVIOUS
    <3>1. /\ wire[c] = "register" <=> eng[c] = "order"
          /\ wire[c] = "request" => eng[c] = "backup"
      BY DEF ReplicationInv, Requests
    <3>2. CASE c[2] = s
      BY <3>2, CrashShape
    <3>3. CASE c[2] # s
      BY <3>1, <3>3, CrashShape
    <3> QED BY <3>2, <3>3
  <2> QED BY <1>2, <2>1, <2>2 DEF ReplicationInv, Requests, Lacks
<1>7. \A e \in acked' : /\ e[1] = Primary
                        /\ \A r \in Server : r = Primary \/ Up(r)' =>
                             \E i \in 1 .. Len(smr_log'[r]) : smr_log'[r][i] = e[2]
  BY <1>1, <1>2 DEF ReplicationInv, LogInv, Answered, Up
<1> QED BY <1>3, <1>4, <1>5, <1>6, <1>7

(* A dead primary leaves nothing to replicate, a dead backup no stub of a  *)
(* running peer.                                                           *)
LEMMA CrashSteady ==
  ASSUME Arranged, TypeInv, ProtocolInv, ReplicationInv, NEW s \in Server, Crash(s)
  PROVE  ReplicationInv'
<1>0. /\ Primary \in Server /\ mode \in [Server -> {"down", "recovering", "status", "fetch",
                                                    "recovered", "up"}]
      /\ wire \in [Conn -> {"empty", "register", "request", "ack"}]
      /\ open \in [Conn -> BOOLEAN]
  BY SteadyTypes, ProtocolTypes DEF TypeInv, TypeOK
<1>1. /\ \A r \in Server : r # s => mode'[r] = mode[r]
      /\ mode'[s] = "down" /\ s \in MayCrash
      /\ UNCHANGED <<smr_log, committed_index, acked>> /\ Log' = Log
  BY <1>0, CrashShape DEF Log
<1>2. \A c \in Conn : InFlight(c)' => InFlight(c)
  BY CrashShape DEF InFlight
<1>3. Shape'
  <2>1. \A r \in Server : \/ mode'[r] = "up"
                          \/ mode'[r] = "down" /\ r \in MayCrash
    BY <1>1 DEF ReplicationInv, Shape
  <2>2. ASSUME NEW r \in Server, r # Primary \/ mode'[r] # "up"
        PROVE  expert'[r].pc = "idle" /\ erq'[r] = <<>> /\ replica_stubs'[r] = <<>>
    <3>1. CASE r = s
      BY <3>1, CrashShape DEF Idle
    <3>2. CASE r # s
      BY <1>1, <2>2, <3>2, CrashShape DEF ReplicationInv, Shape, Up
    <3> QED BY <3>1, <3>2
  <2>3. ASSUME NEW c \in Conn, c[1] # Primary \/ mode'[c[2]] # "up"
        PROVE  eng'[c] = "none" /\ wire'[c] = "empty"
    <3>1. CASE c[2] = s
      BY <3>1, CrashShape
    <3>2. CASE c[2] # s
      <4>1. eng[c] = "none" /\ wire[c] = "empty"
        BY <1>1, <2>3, <3>2, ClosedNotConn DEF ReplicationInv, Shape, Up
      <4> QED BY <3>2, <4>1, CrashShape
    <3> QED BY <3>1, <3>2
  <2> QED BY <2>1, <2>2, <2>3 DEF Shape, Up
<1>4. /\ Copies' /\ Applied' /\ Orders' /\ Requests'
      /\ \A e \in acked' : /\ e[1] = Primary
                           /\ \A r \in Server : r = Primary \/ Up(r)' =>
                                \E i \in 1 .. Len(smr_log'[r]) : smr_log'[r][i] = e[2]
  BY CrashCommon
<1>5. CASE s = Primary
  <2>1. Phase' = "idle" /\ Stubs' = <<>> /\ ~Up(Primary)'
    BY <1>1, <1>5, CrashShape DEF Phase, Stubs, Idle, Up
  <2>2. Answered'
    BY <1>4, <2>1 DEF Answered
  <2>3. StubsInv'
    BY <2>1 DEF StubsInv, StubsDistinct, StubsServed, StubsTried, StubsCover, NoneClosed, Tried
  <2>4. Drained' /\ Progress'
    BY <2>1 DEF Drained, Progress, Between, HandIsLast, Ahead, TurnByTurn
  <2> QED BY <1>3, <1>4, <2>2, <2>3, <2>4 DEF ReplicationInv, LogInv
<1>6. CASE s # Primary
  <2>1. /\ Phase' = Phase /\ Turn' = Turn /\ Stubs' = Stubs
        /\ expert'[Primary].op = expert[Primary].op
        /\ mode'[Primary] = mode[Primary]
    BY <1>0, <1>1, <1>6, CrashShape DEF Phase, Turn, Stubs
  <2>2. \A r \in Server : mode'[r] = "up" => mode[r] = "up" /\ r # s
    BY <1>1
  <2>3. \A c \in Conn : c[1] # Primary => eng[c] = "none" /\ wire[c] = "empty"
    BY DEF ReplicationInv, Shape
  <2>4. \A c \in Conn : c[2] # s => eng'[c] = eng[c] /\ wire'[c] = wire[c]
    BY <1>6, <2>3, CrashShape
  <2>5. Answered'
    <3>1. Up(Primary) => \A i \in 1 .. Len(Log) :
            i < Len(Log) \/ Phase = "idle" => <<Primary, Log[i]>> \in acked
      BY DEF ReplicationInv, LogInv, Answered
    <3> QED BY <1>1, <1>4, <2>1, <3>1 DEF Answered, Up
  <2>6. StubsInv'
    <3>1. StubsDistinct'
      BY <2>1 DEF ReplicationInv, StubsInv, StubsDistinct
    <3>2. StubsServed'
      <4> SUFFICES ASSUME NEW j \in 1 .. Len(Stubs), Stubs[j] \in Conn,
                          mode'[Stubs[j][2]] = "up"
                   PROVE  \/ eng'[Stubs[j]] \in {"backup", "append"}
                          \/ eng'[Stubs[j]] = "order" /\ Phase = "register" /\ j = Len(Stubs)
        BY <2>1 DEF StubsServed, Up
      <4>1. mode[Stubs[j][2]] = "up" /\ Stubs[j][2] # s
        BY <2>2, ClosedNotConn
      <4> QED BY <2>4, <4>1 DEF ReplicationInv, StubsInv, StubsServed, Up
    <3>3. StubsTried' /\ NoneClosed'
      BY <2>1 DEF ReplicationInv, StubsInv, StubsTried, Tried, Reached, NoneClosed, Peers
    <3>4. StubsCover'
      BY <2>1, <2>2 DEF ReplicationInv, StubsInv, StubsCover, Tried, Reached, Up
    <3> QED BY <3>1, <3>2, <3>3, <3>4 DEF StubsInv
  <2>7. Drained'
    <3> SUFFICES ASSUME Up(Primary), NEW c \in Conn
                 PROVE  /\ ~open'[c] => wire'[c] = "empty" /\ eng'[c] \in {"none", "backup"}
                        /\ InFlight(c)' => Phase = "await" /\ c = Stubs[Turn]
      BY <2>1 DEF Drained, Up
    <3>1. InFlight(c)' => Phase = "await" /\ c = Stubs[Turn]
      BY <1>2 DEF ReplicationInv, Drained
    <3>2. CASE c[2] = s
      BY <3>1, <3>2, CrashShape
    <3>3. CASE c[2] # s
      <4>1. ~open'[c] => ~open[c] \/ c[1] = s
        BY CrashShape
      <4>2. ~open[c] => wire[c] = "empty" /\ eng[c] \in {"none", "backup"}
        BY DEF ReplicationInv, Drained
      <4> QED BY <1>6, <2>3, <2>4, <3>1, <3>3, <4>1, <4>2
    <3> QED BY <3>2, <3>3
  <2>8. Progress'
    <3>1. Between' /\ HandIsLast' /\ Ahead'
      BY <1>1, <2>1, <2>2 DEF ReplicationInv, Progress, Between, HandIsLast, Ahead,
                              Holds, Lacks, Up
    <3>2. TurnByTurn'
      <4> SUFFICES ASSUME Phase \in {"send", "await"},
                          NEW j \in 1 .. Len(Stubs), Stubs[j] \in Conn,
                          mode'[Stubs[j][2]] = "up"
                   PROVE  /\ j < Turn => Holds(Stubs[j][2])
                          /\ j > Turn \/ (j = Turn /\ Phase = "send") => Lacks(Stubs[j][2])
                          /\ j = Turn /\ Phase = "await" =>
                               IF wire'[Stubs[j]] = "ack" THEN Holds(Stubs[j][2])
                               ELSE InFlight(Stubs[j])'
        BY <1>1, <2>1 DEF TurnByTurn, Holds, Lacks, Up, InFlight
      <4>1. mode[Stubs[j][2]] = "up" /\ Stubs[j][2] # s
        BY <2>2, ClosedNotConn
      <4>2. eng'[Stubs[j]] = eng[Stubs[j]] /\ wire'[Stubs[j]] = wire[Stubs[j]]
        BY <2>4, <4>1
      <4>3. InFlight(Stubs[j])' <=> InFlight(Stubs[j])
        BY <2>1, <4>2 DEF InFlight
      <4> QED BY <4>1, <4>2, <4>3 DEF ReplicationInv, Progress, TurnByTurn, Up
    <3> QED BY <3>1, <3>2 DEF Progress
  <2> QED BY <1>3, <1>4, <2>5, <2>6, <2>7, <2>8 DEF ReplicationInv, LogInv
<1> QED BY <1>5, <1>6

-----------------------------------------------------------------------------
(* The invariant. *)

(* A steady cluster starts with empty logs.                                *)
LEMMA InitSteady == ASSUME Arranged PROVE Init => SteadyInv
<1> SUFFICES ASSUME Init PROVE SteadyInv
  OBVIOUS
<1>0. TypeInv /\ TrackInv /\ ProtocolInv
  BY InitType, InitTrack, InitProtocol
<1>1. /\ Primary \in Server /\ NoServer \notin Server /\ Len(<<>>) = 0
      /\ \A s \in Server : /\ Up(s) /\ expert[s].pc = "idle" /\ erq[s] = <<>>
                           /\ replica_stubs[s] = <<>> /\ smr_log[s] = <<>>
                           /\ log_file[s] = <<>> /\ customer_record[s] = Empty
                           /\ last_index[s] = -1 /\ committed_index[s] = -1
      /\ \A c \in Conn : eng[c] = "none" /\ wire[c] = "empty"
      /\ acked = {}
  BY <1>0, SteadyTypes, ServerAssumption, EmptySeq DEF Init, Arranged, Up, Idle
<1>2. /\ Log = <<>> /\ Len(Log) = 0 /\ Stubs = <<>> /\ Len(Stubs) = 0 /\ Phase = "idle"
      /\ \A c \in Conn : ~InFlight(c)
  BY <1>1 DEF Log, Stubs, Phase, InFlight
<1>3. Shape
  BY <1>1 DEF Shape, Up
<1>4. Copies /\ Orders /\ Answered
  BY <1>1, <1>2 DEF Copies, Holds, Lacks, Orders, Answered
<1>5. Applied
  <2>1. Apply(Empty, <<>>, 1, 0) = Empty
    BY DEF Apply, Empty
  <2> QED BY <1>1, <2>1 DEF Applied
<1>6. Requests /\ Drained
  BY <1>1, <1>2 DEF Requests, Drained
<1>7. StubsInv
  BY <1>2 DEF StubsInv, StubsDistinct, StubsServed, StubsTried, StubsCover, NoneClosed, Tried
<1>8. Progress
  BY <1>1, <1>2 DEF Progress, Between, HandIsLast, Ahead, TurnByTurn, Holds
<1> QED BY <1>0, <1>3, <1>4, <1>5, <1>6, <1>7, <1>8 DEF SteadyInv, ReplicationInv, LogInv

(* Every step of a steady cluster keeps the invariant.                     *)
LEMMA NextSteady == ASSUME Arranged PROVE SteadyInv /\ [SteadyNext]_vars => SteadyInv'
<1> SUFFICES ASSUME SteadyInv, [SteadyNext]_vars PROVE SteadyInv'
  OBVIOUS
<1>0. TypeInv /\ TrackInv /\ ProtocolInv /\ ReplicationInv /\ Shape
  BY DEF SteadyInv, ReplicationInv
<1>1. TypeInv' /\ TrackInv' /\ ProtocolInv'
  <2>1. Primary \in Server
    BY DEF Arranged
  <2>2. [Next]_vars
    BY <2>1 DEF SteadyNext, Next
  <2> QED BY <1>0, <2>2, NextType, NextTrack, NextProtocol
<1>2. CASE UNCHANGED vars
  <2>1. /\ UNCHANGED <<mode, erq, expert, replica_stubs, smr_log, log_file, customer_record,
             last_index, committed_index, eng, wire, msg, open, sent, acked>>
        /\ Log' = Log /\ Stubs' = Stubs /\ Phase' = Phase /\ Turn' = Turn
    BY <1>2 DEF vars, logvars, connvars, clientvars, Log, Stubs, Phase, Turn
  <2>2. Shape' /\ Requests'
    BY <1>0, <2>1 DEF ReplicationInv, Shape, Requests, InFlight, Lacks, Up
  <2>3. LogInv'
    BY <1>0, <2>1, QuietLogs DEF ReplicationInv, logvars
  <2>4. StubsInv'
    BY <1>0, <2>1 DEF ReplicationInv, StubsInv, StubsDistinct, StubsServed, StubsTried,
                      StubsCover, Tried, Reached, NoneClosed, Up
  <2>5. Drained' /\ Progress'
    BY <1>0, <2>1 DEF ReplicationInv, Drained, Progress, Between, HandIsLast, Ahead,
                      TurnByTurn, InFlight, Holds, Lacks, Up
  <2> QED BY <1>1, <2>2, <2>3, <2>4, <2>5 DEF SteadyInv, ReplicationInv
<1>3. CASE \E c \in Customer : Order(c, Primary)
  BY <1>0, <1>1, <1>3, OrderSteady DEF SteadyInv
<1>4. CASE Up(Primary) /\ ExpertThread(Primary)
  BY <1>0, <1>1, <1>4, TakeSteady, ConnectSteady, RegisteredSteady, ConnectedSteady,
     SendSteady, AckedSteady, FinishSteady DEF SteadyInv, ExpertThread
<1>5. CASE \E c \in Conn : c[1] = Primary /\ Up(c[2]) /\ EngineerThread(c)
  BY <1>0, <1>1, <1>5, RegisterSteady, ReceiveSteady, AppendSteady, EofSteady
     DEF SteadyInv, EngineerThread
<1>6. CASE \E s \in Server : Up(s) /\ Crash(s)
  BY <1>0, <1>1, <1>6, CrashSteady DEF SteadyInv
<1> QED BY <1>0, <1>2, <1>3, <1>4, <1>5, <1>6, SteadySteps

(* The steps that change a log, an index, the servers or the answers.      *)
LEMMA SteadyMoves ==
  ASSUME Arranged, SteadyInv, [SteadyNext]_vars
  PROVE  \/ UNCHANGED <<mode, smr_log, log_file, customer_record, last_index,
                        committed_index, acked>>
         \/ Up(Primary) /\ (ExpertTake(Primary) \/ ExpertFinish(Primary))
         \/ \E c \in Conn : c[1] = Primary /\ Up(c[2]) /\ EngineerAppend(c)
         \/ \E s \in Server : Up(s) /\ Crash(s)
<1>0. TypeInv /\ Shape
  BY DEF SteadyInv, ReplicationInv
<1>1. CASE UNCHANGED vars
  BY <1>1 DEF vars, logvars, clientvars
<1>2. CASE \E c \in Customer : Order(c, Primary)
  BY <1>2 DEF Order, logvars
<1>3. CASE Up(Primary) /\ ExpertThread(Primary)
  BY <1>3 DEF ExpertThread, ExpertConnect, ExpertRegistered, ExpertConnected, ExpertSend,
              ExpertAcked, logvars, clientvars
<1>4. CASE \E c \in Conn : c[1] = Primary /\ Up(c[2]) /\ EngineerThread(c)
  BY <1>4 DEF EngineerThread, EngineerRegister, EngineerReceive, EngineerEof,
              logvars, clientvars
<1> QED BY <1>0, <1>1, <1>2, <1>3, <1>4, SteadySteps

(* The invariant holds for ever.                                           *)
LEMMA SteadyAlways == ASSUME Steady PROVE Spec => []SteadyInv /\ [][SteadyNext]_vars
<1>1. Arranged
  BY DEF Steady
<1>2. Init => SteadyInv
  BY <1>1, InitSteady
<1>3. SteadyInv /\ [SteadyNext]_vars => SteadyInv'
  BY <1>1, NextSteady
<1>4. [Next]_vars => [SteadyNext]_vars
  BY DEF Steady, Next, SteadyNext, Order
<1> QED BY <1>2, <1>3, <1>4, PTL DEF Spec

-----------------------------------------------------------------------------
(* What a steady cluster guarantees. *)

(* The last index a running server reports is that of its last entry.      *)
THEOREM IndexIsLogEnd == ASSUME Steady PROVE Spec => []LastIndexIsLogEnd
<1>1. SteadyInv => LastIndexIsLogEnd
  BY DEF SteadyInv, ReplicationInv, LogInv, Copies, LastIndexIsLogEnd
<1> QED BY <1>1, SteadyAlways, PTL

(* The record of a running server is exactly what its entries up to        *)
(* committed_index give, though they are applied in pieces, by two kinds   *)
(* of thread, and the last one by itself.                                  *)
THEOREM RecordIsCommittedLog == ASSUME Steady PROVE Spec => []CommittedIsApplied
<1> Arranged
  BY DEF Steady
<1>1. SteadyInv => CommittedIsApplied
  <2> SUFFICES ASSUME SteadyInv, NEW s \in Server
               PROVE  /\ committed_index[s] < Len(smr_log[s])
                      /\ customer_record[s] =
                           Apply(Empty, smr_log[s], 1, committed_index[s] + 1)
    BY DEF CommittedIsApplied
  <2>1. Len(smr_log[s]) \in Nat
    BY SteadyTypes DEF SteadyInv
  <2> QED BY <2>1 DEF SteadyInv, ReplicationInv, LogInv, Applied
<1> QED BY <1>1, SteadyAlways, PTL

(* A backup that applies up to the primary's committed index reads no      *)
(* entry it does not have.                                                 *)
THEOREM BackupReadsInBounds == ASSUME Steady PROVE Spec => []ReadsInBounds
<1> Arranged
  BY DEF Steady
<1>1. SteadyInv => ReadsInBounds
  <2> SUFFICES ASSUME SteadyInv, NEW c \in Conn, eng[c] = "append"
               PROVE  msg[c].committed_index <= Len(smr_log[c[2]])
    BY DEF ReadsInBounds
  <2>1. Len(Log) \in Nat
    BY SteadyTypes DEF SteadyInv
  <2>2. Lacks(c[2]) /\ msg[c].committed_index \in {Len(Log) - 2, Len(Log) - 1}
    BY DEF SteadyInv, ReplicationInv, Requests, InFlight
  <2> QED BY <2>1, <2>2 DEF Lacks
<1> QED BY <1>1, SteadyAlways, PTL

(* Of two servers' log files, dead or alive, one is a prefix of the other. *)
THEOREM LogsArePrefixes == ASSUME Steady PROVE Spec => []LogsAgree
<1>1. SteadyInv => LogsAgree
  <2> SUFFICES ASSUME SteadyInv, NEW s \in Server, NEW r \in Server,
                      NEW i \in DOMAIN log_file[s] \cap DOMAIN log_file[r]
               PROVE  log_file[s][i] = log_file[r][i]
    BY DEF LogsAgree
  <2>1. /\ smr_log \in [Server -> Seq(Op)]
        /\ log_file[s] = smr_log[s] /\ log_file[r] = smr_log[r]
    BY DEF SteadyInv, TypeInv, TypeOK, ReplicationInv, LogInv, Copies
  <2>2. DOMAIN smr_log[s] = 1 .. Len(smr_log[s]) /\ DOMAIN smr_log[r] = 1 .. Len(smr_log[r])
    BY <2>1, LenProperties
  <2>3. smr_log[s][i] = Log[i] /\ smr_log[r][i] = Log[i]
    BY <2>1, <2>2 DEF SteadyInv, ReplicationInv, LogInv, Copies
  <2> QED BY <2>1, <2>3
<1> QED BY <1>1, SteadyAlways, PTL

(* Answered orders are where the primary and every running server log them.*)
LEMMA AckedLogged ==
  ASSUME SteadyInv
  PROVE  AckedEverywhere
<1> SUFFICES ASSUME NEW e \in acked, NEW s \in Server, Up(s)
             PROVE  e[2] \in Range(smr_log[s])
  BY DEF AckedEverywhere
<1>1. PICK i \in 1 .. Len(smr_log[s]) : smr_log[s][i] = e[2]
  BY DEF SteadyInv, ReplicationInv, LogInv, Answered
<1>2. smr_log[s] \in Seq(Op)
  BY DEF SteadyInv, TypeInv, TypeOK
<1>3. DOMAIN smr_log[s] = 1 .. Len(smr_log[s])
  BY <1>2, LenProperties
<1> QED BY <1>1, <1>3 DEF Range

(* No server runs without an order that some customer was told is done.    *)
THEOREM AckedByAll == ASSUME Steady PROVE Spec => []AckedEverywhere
<1>1. SteadyInv => AckedEverywhere
  BY AckedLogged
<1> QED BY <1>1, SteadyAlways, PTL

(* What a backup tells a customer is at most one order old.                *)
THEOREM BackupsLagByOne == ASSUME Steady PROVE Spec => []BackupLagsByOne
<1> Arranged
  BY DEF Steady
<1>1. SteadyInv => BackupLagsByOne
  <2> SUFFICES ASSUME SteadyInv, NEW b \in Server, Up(Primary), Up(b), ~Locked(Primary)
               PROVE  committed_index[b] \in
                        {committed_index[Primary] - 1, committed_index[Primary]}
    BY DEF BackupLagsByOne, Steady
  <2>1. Phase = "idle"
    BY DEF Locked, Phase
  <2>2. committed_index[Primary] = Len(Log) - 1 /\ Len(smr_log[b]) = Len(Log)
    BY <2>1 DEF SteadyInv, ReplicationInv, Progress, Between, Holds
  <2>3. committed_index[b] \in {Len(smr_log[b]) - 2, Len(smr_log[b]) - 1}
    BY DEF SteadyInv, ReplicationInv, LogInv, Applied
  <2>4. Len(Log) \in Nat
    BY SteadyTypes DEF SteadyInv
  <2> QED BY <2>2, <2>3, <2>4
<1> QED BY <1>1, SteadyAlways, PTL

-----------------------------------------------------------------------------
(* Records never go back. *)

(* Applying more of a log in which each customer's orders ascend.          *)
LEMMA ApplyGrows ==
  ASSUME NEW f, NEW g, NEW a \in Int, NEW b \in Int, a <= b, Same(f, g, 1, a),
         \A i \in 1 .. b : g[i].arg2 \in Int /\ g[i].arg2 >= -1,
         \A i, j \in 1 .. b : i < j /\ g[i].arg1 = g[j].arg1 => g[i].arg2 < g[j].arg2,
         NEW x \in Key
  PROVE  Apply(Empty, g, 1, b)[x] >= Apply(Empty, f, 1, a)[x]
<1> PICK F, G : /\ F = {i \in 1 .. a : f[i].arg1 = x}
                /\ G = {i \in 1 .. b : g[i].arg1 = x}
  OBVIOUS
<1>1. /\ Apply(Empty, f, 1, a)[x] = IF F = {} THEN -1 ELSE f[Max(F)].arg2
      /\ Apply(Empty, g, 1, b)[x] = IF G = {} THEN -1 ELSE g[Max(G)].arg2
  BY DEF Apply, Empty
<1>2. F \in SUBSET (1 .. a) /\ G \in SUBSET (1 .. b) /\ F \subseteq G /\ 1 \in Int
  BY DEF Same
<1>3. CASE G = {}
  BY <1>1, <1>2, <1>3
<1>4. CASE F = {} /\ G # {}
  <2>1. Max(G) \in 1 .. b
    BY <1>2, <1>4, MaxOfIndices
  <2> QED BY <1>1, <1>4, <2>1
<1>5. CASE F # {} /\ G # {}
  <2>1. Max(F) \in F
    BY <1>2, <1>5, MaxOfIndices
  <2>2. Max(G) \in G /\ \A y \in G : Max(G) >= y
    BY <1>2, <1>5, MaxOfIndices
  <2>3. PICK i, j : i = Max(F) /\ j = Max(G)
    OBVIOUS
  <2>4. /\ i \in 1 .. a /\ f[i] = g[i] /\ i \in 1 .. b /\ j \in 1 .. b /\ i <= j
        /\ g[i].arg1 = x /\ g[j].arg1 = x
    BY <1>2, <2>1, <2>2, <2>3 DEF Same
  <2>5. g[j].arg2 >= g[i].arg2
    BY <2>4
  <2> QED BY <1>1, <1>5, <2>3, <2>4, <2>5
<1> QED BY <1>3, <1>4, <1>5

(* No step takes an entry from a log, or an index back.                    *)
LEMMA LogsGrow ==
  ASSUME Arranged, SteadyInv, [SteadyNext]_vars, NEW s \in Server
  PROVE  /\ committed_index[s] <= committed_index'[s]
         /\ Same(smr_log[s], smr_log'[s], 1, committed_index[s] + 1)
<1>0. /\ TypeInv /\ ProtocolInv /\ ReplicationInv /\ SteadyInv'
      /\ Primary \in Server /\ Len(Log) \in Nat
      /\ committed_index[s] \in Int /\ Len(smr_log[s]) \in Nat
      /\ committed_index \in [Server -> Int]
      /\ committed_index[s] \in {Len(smr_log[s]) - 2, Len(smr_log[s]) - 1}
      /\ committed_index'[s] \in {Len(smr_log'[s]) - 2, Len(smr_log'[s]) - 1}
  BY NextSteady, SteadyTypes DEF SteadyInv, ReplicationInv, LogInv, Applied
<1>1. CASE /\ smr_log'[s] = smr_log[s] /\ committed_index'[s] = committed_index[s]
  BY <1>0, <1>1 DEF Same
<1>2. CASE /\ Len(smr_log'[s]) = Len(smr_log[s]) + 1
           /\ \A i \in 1 .. Len(smr_log[s]) : smr_log'[s][i] = smr_log[s][i]
  BY <1>0, <1>2 DEF Same
<1>3. CASE UNCHANGED <<smr_log, committed_index>>
  BY <1>1, <1>3
<1>4. CASE ExpertTake(Primary)
  <2>1. CASE s = Primary
    BY <1>0, <1>2, <1>4, <2>1, TakeShape DEF Log
  <2>2. CASE s # Primary
    BY <1>0, <1>1, <1>4, <2>2, TakeShape DEF ExpertTake
  <2> QED BY <2>1, <2>2
<1>5. CASE ExpertFinish(Primary)
  <2>1. smr_log' = smr_log /\ committed_index' = [committed_index EXCEPT ![Primary] = Len(Log) - 1]
    BY <1>5 DEF ExpertFinish, Log
  <2>2. CASE s = Primary
    BY <1>0, <2>1, <2>2 DEF Same, Log
  <2>3. CASE s # Primary
    BY <1>0, <1>1, <2>1, <2>3
  <2> QED BY <2>2, <2>3
<1>6. ASSUME NEW c \in Conn, c[1] = Primary, Up(c[2]), EngineerAppend(c)
      PROVE  /\ committed_index[s] <= committed_index'[s]
             /\ Same(smr_log[s], smr_log'[s], 1, committed_index[s] + 1)
  <2>1. CASE s = c[2]
    <3>1. /\ Len(smr_log[s]) = Len(Log) - 1 /\ Len(smr_log'[s]) = Len(Log)
          /\ \A i \in 1 .. Len(Log) : smr_log'[s][i] = Log[i]
      BY <1>0, <1>6, <2>1, AppendShape
    <3>2. \A i \in 1 .. Len(smr_log[s]) : smr_log[s][i] = Log[i]
      BY <1>0 DEF ReplicationInv, LogInv, Copies
    <3> QED BY <1>0, <1>2, <3>1, <3>2
  <2>2. CASE s # c[2]
    BY <1>0, <1>1, <1>6, <2>2, AppendShape
  <2> QED BY <2>1, <2>2
<1>7. CASE \E r \in Server : Up(r) /\ Crash(r)
  BY <1>3, <1>7 DEF Crash, logvars
<1> QED BY <1>3, <1>4, <1>5, <1>6, <1>7, SteadyMoves

(* No step of any thread takes a customer's last order back.               *)
LEMMA RecordsAdvance ==
  ASSUME Arranged, SteadyInv, [SteadyNext]_vars, NEW s \in Server, NEW k \in Key
  PROVE  customer_record'[s][k] >= customer_record[s][k]
<1> PICK f, g, a, b : /\ f = smr_log[s] /\ g = smr_log'[s]
                      /\ a = committed_index[s] + 1 /\ b = committed_index'[s] + 1
  OBVIOUS
<1>1. SteadyInv'
  BY NextSteady
<1>2. /\ customer_record[s] = Apply(Empty, f, 1, a)
      /\ customer_record'[s] = Apply(Empty, g, 1, b)
      /\ b <= Len(g) /\ Len(g) \in Nat /\ a \in Int /\ b \in Int
  <2>1. /\ Len(g) \in Nat /\ committed_index[s] \in Int /\ committed_index'[s] \in Int
    BY <1>1, LenProperties DEF SteadyInv, TypeInv, TypeOK
  <2>2. /\ customer_record[s] = Apply(Empty, f, 1, a)
        /\ customer_record'[s] = Apply(Empty, g, 1, b)
        /\ committed_index'[s] \in {Len(g) - 2, Len(g) - 1}
    BY <1>1 DEF SteadyInv, ReplicationInv, LogInv, Applied
  <2> QED BY <2>1, <2>2
<1>3. a <= b /\ Same(f, g, 1, a)
  <2>1. /\ committed_index[s] <= committed_index'[s]
        /\ Same(f, g, 1, a)
    BY LogsGrow
  <2>2. committed_index[s] \in Int /\ committed_index'[s] \in Int
    BY <1>1 DEF SteadyInv, TypeInv, TypeOK
  <2> QED BY <2>1, <2>2
<1>4. \A i \in 1 .. b : i \in 1 .. Len(Log') /\ g[i] = Log'[i]
  <2>1. /\ Len(g) <= Len(Log') /\ \A i \in 1 .. Len(g) : g[i] = Log'[i]
    BY <1>1 DEF SteadyInv, ReplicationInv, LogInv, Copies
  <2>2. Len(Log') \in Nat
    BY <1>1, SteadyTypes, LenProperties DEF SteadyInv, TypeInv, TypeOK, Log
  <2> QED BY <1>2, <2>1, <2>2
<1>5. \A i \in 1 .. b : g[i].arg2 \in Int /\ g[i].arg2 >= -1
  <2>1. \A i \in 1 .. Len(Log') : Log'[i] \in OrderOp
    BY <1>1 DEF SteadyInv, ReplicationInv, LogInv, Orders
  <2>2. \A o \in OrderOp : o.arg2 \in Int /\ o.arg2 >= -1
    BY CustomerAssumption DEF OrderOp
  <2> QED BY <1>4, <2>1, <2>2
<1>6. \A i, j \in 1 .. b : i < j /\ g[i].arg1 = g[j].arg1 => g[i].arg2 < g[j].arg2
  <2>1. \A i, j \in 1 .. Len(Log') :
          i < j /\ Log'[i].arg1 = Log'[j].arg1 => Log'[i].arg2 < Log'[j].arg2
    BY <1>1 DEF SteadyInv, ReplicationInv, LogInv, Orders
  <2> QED BY <1>4, <2>1
<1>7. Apply(Empty, g, 1, b)[k] >= Apply(Empty, f, 1, a)[k]
  BY <1>2, <1>3, <1>5, <1>6, ApplyGrows
<1> QED BY <1>2, <1>7

(* The last order a server reports for a customer never goes back,         *)
(* whichever thread writes the record, and however late it catches up.     *)
THEOREM RecordsOnlyAdvance == ASSUME Steady PROVE Spec => RecordNeverGoesBack
<1>1. Arranged
  BY DEF Steady
<1>2. SteadyInv /\ [SteadyNext]_vars =>
        [\A s \in Server : Up(s) =>
           \A k \in Key : customer_record'[s][k] >= customer_record[s][k]]_vars
  BY <1>1, RecordsAdvance
<1> QED BY <1>2, SteadyAlways, PTL DEF Spec, RecordNeverGoesBack

-----------------------------------------------------------------------------
(* The refinement of ReplicatedLog. *)

(* The producer is the primary.                                            *)
LEMMA ProducerIsPrimary == ASSUME Steady PROVE (CHOOSE p \in Contact : TRUE) = Primary
  BY DEF Steady

(* An order that is taken was not answered before.                         *)
LEMMA TakenIsNew ==
  ASSUME Steady, Arranged, SteadyInv, ExpertTake(Primary)
  PROVE  /\ \A e \in acked : e[2] # erq[Primary][1]
         /\ \A i \in 1 .. Len(Log) : <<Primary, Log[i]>> \in acked
<1>0. /\ TypeInv /\ ReplicationInv /\ Primary \in Server
      /\ Up(Primary) /\ Phase = "idle" /\ Len(erq[Primary]) \in Nat \ {0}
      /\ erq[Primary][1] \in OrderOp
  BY SteadyTypes, TakeShape DEF SteadyInv
<1>1. ASSUME NEW e \in acked PROVE e[2] # erq[Primary][1]
  <2>1. PICK i \in 1 .. Len(Log) : Log[i] = e[2]
    BY <1>0 DEF ReplicationInv, LogInv, Answered, Log
  <2>2. 1 \in 1 .. Len(erq[Primary])
    BY <1>0
  <2>3. Log[i].arg1 = erq[Primary][1].arg1 => Log[i].arg2 < erq[Primary][1].arg2
    BY <1>0, <2>2 DEF ReplicationInv, LogInv, Orders
  <2>4. erq[Primary][1].arg2 \in Int
    BY <1>0 DEF OrderOp
  <2> QED BY <2>1, <2>3, <2>4
<1>2. \A i \in 1 .. Len(Log) : <<Primary, Log[i]>> \in acked
  BY <1>0 DEF ReplicationInv, LogInv, Answered
<1> QED BY <1>1, <1>2

(* Taking an order accepts it.                                             *)
LEMMA TakeAccepts ==
  ASSUME Steady, Arranged, SteadyInv, SteadyInv', ExpertTake(Primary)
  PROVE  \E o \in OrderOp : Abstract!Accept(o)
<1> PICK o, n : o = erq[Primary][1] /\ n = Len(Log)
  OBVIOUS
<1>0. /\ TypeInv /\ ReplicationInv /\ Primary \in Server /\ n \in Nat
      /\ log_file \in [Server -> Seq(Op)] /\ committed_index \in [Server -> Int]
      /\ log_file[Primary] = Log
  BY SteadyTypes DEF SteadyInv, TypeInv, TypeOK, ReplicationInv, LogInv, Copies, Log
<1>1. /\ Up(Primary) /\ o \in OrderOp /\ Len(Log') = n + 1 /\ log_file'[Primary] = Log'
      /\ log_file' = [log_file EXCEPT ![Primary] = Append(@, o)]
      /\ UNCHANGED <<mode, acked>>
  <2>1. log_file' = [log_file EXCEPT ![Primary] = Append(@, Head(erq[Primary]))]
    BY DEF ExpertTake, LogAppend
  <2>2. Head(erq[Primary]) = o
    OBVIOUS
  <2> QED BY <1>0, <2>1, <2>2, TakeShape
<1>2. PICK hi : /\ committed_index' = [committed_index EXCEPT ![Primary] = hi]
                /\ hi = Promoted(Primary, last_index[Primary] + 1)
  BY DEF ExpertTake
<1>3. hi \in {n - 1, n} /\ committed_index[Primary] = n - 1
  <2>1. committed_index'[Primary] = hi
    BY <1>0, <1>2
  <2>2. committed_index'[Primary] \in {Len(Log') - 2, Len(Log') - 1}
    BY <1>0 DEF SteadyInv, ReplicationInv, LogInv, Applied, Log
  <2>3. committed_index[Primary] = n - 1
    BY <1>0, TakeShape DEF ReplicationInv, Progress, Between
  <2> QED BY <1>0, <1>1, <2>1, <2>2, <2>3
<1>4. /\ Primary \in {s \in Server : Up(s)}
      /\ {s \in Server : Up(s)}' = {s \in Server : Up(s)}
  BY <1>0, <1>1 DEF Up
<1>5. /\ {log_file[Primary][i] : i \in 1 .. Len(log_file[Primary])} \subseteq {e[2] : e \in acked}
      /\ o \notin {e[2] : e \in acked}
  <2>1. \A i \in 1 .. Len(Log) : <<Primary, Log[i]>> \in acked /\ <<Primary, Log[i]>>[2] = Log[i]
    BY TakenIsNew
  <2>2. \A i \in 1 .. Len(Log) : Log[i] \in {e[2] : e \in acked}
    BY <2>1
  <2>3. \A e \in acked : e[2] # o
    BY TakenIsNew
  <2> QED BY <1>0, <2>2, <2>3
<1>6. /\ hi + 1 \in committed_index[Primary] + 1 .. Len(log_file'[Primary])
      /\ Len(log_file'[Primary]) <= hi + 2
      /\ [s \in Server |-> committed_index[s] + 1]' =
           [[s \in Server |-> committed_index[s] + 1] EXCEPT ![Primary] = hi + 1]
  <2>1. hi + 1 \in committed_index[Primary] + 1 .. Len(log_file'[Primary])
    BY <1>0, <1>1, <1>3
  <2>2. Len(log_file'[Primary]) <= hi + 2
    BY <1>0, <1>1, <1>3
  <2>3. \A s \in Server : committed_index'[s] + 1 =
          IF s = Primary THEN hi + 1 ELSE committed_index[s] + 1
    BY <1>0, <1>2
  <2> QED BY <2>1, <2>2, <2>3
<1>7. Abstract!Entries(Primary) \subseteq {e[2] : e \in acked}
  BY <1>5 DEF Abstract!Entries
<1>8. Abstract!Apply(Primary)
  <2>1. [s \in Server |-> committed_index[s] + 1][Primary] = committed_index[Primary] + 1
    BY <1>0
  <2>2. Len(log_file'[Primary]) <= (hi + 1) + 1
    BY <1>3, <1>0, <1>1
  <2> QED BY <1>6, <2>1, <2>2 DEF Abstract!Apply
<1>9. /\ UNCHANGED {s \in Server : Up(s)} /\ UNCHANGED {e[2] : e \in acked}
  BY <1>1 DEF Up
<1>10. Abstract!Accept(o)
  BY <1>1, <1>4, <1>5, <1>7, <1>8, <1>9, ProducerIsPrimary DEF Abstract!Accept
<1> QED BY <1>1, <1>10


(* Appending the request copies the next entry of the primary's log.       *)
LEMMA AppendCopies ==
  ASSUME Steady, Arranged, SteadyInv, NEW c \in Conn, c[1] = Primary, Up(c[2]), EngineerAppend(c)
  PROVE  Abstract!Copy(c[2])
<1> PICK b, n : b = c[2] /\ n = Len(Log)
  OBVIOUS
<1>0. /\ TypeInv /\ ReplicationInv
      /\ b \in Server \ {Primary} /\ n \in Nat \ {0} /\ Len(smr_log[b]) = n - 1
      /\ Len(smr_log'[b]) = n /\ log_file'[b] = smr_log'[b]
      /\ committed_index'[b] \in {n - 2, n - 1} /\ InFlight(c)
      /\ committed_index \in [Server -> Int] /\ log_file \in [Server -> Seq(Op)]
      /\ log_file[b] = smr_log[b] /\ log_file[Primary] = Log
      /\ committed_index[b] \in {Len(smr_log[b]) - 2, Len(smr_log[b]) - 1}
  <2>1. TypeInv /\ ReplicationInv /\ b \in Server /\ Primary \in Server
    BY ClosedNotConn, SteadyTypes DEF SteadyInv
  <2>2. /\ log_file[b] = smr_log[b] /\ log_file[Primary] = Log
        /\ committed_index[b] \in {Len(smr_log[b]) - 2, Len(smr_log[b]) - 1}
    BY <2>1 DEF ReplicationInv, LogInv, Copies, Applied, Log
  <2>3. /\ b \in Server \ {Primary} /\ n \in Nat \ {0} /\ Len(smr_log[b]) = n - 1
        /\ Len(smr_log'[b]) = n /\ log_file'[b] = smr_log'[b]
        /\ committed_index'[b] \in {n - 2, n - 1} /\ InFlight(c)
    BY <2>1, AppendShape
  <2> QED BY <2>1, <2>2, <2>3 DEF TypeInv, TypeOK
<1>1. /\ log_file' = [log_file EXCEPT ![b] = Append(log_file[b], Log[n])]
      /\ committed_index' = [committed_index EXCEPT ![b] = msg[c].committed_index]
      /\ UNCHANGED <<mode, acked>>
  <2>1. msg[c].op = Log[n]
    BY <1>0 DEF ReplicationInv, Requests
  <2> QED BY <2>1 DEF EngineerAppend, LogAppend, clientvars
<1>2. /\ b \in {s \in Server : Up(s)}
      /\ UNCHANGED {s \in Server : Up(s)} /\ UNCHANGED {e[2] : e \in acked}
  BY <1>0, <1>1 DEF Up
<1>3. Abstract!Apply(b)
  <2> PICK hi : hi = msg[c].committed_index
    OBVIOUS
  <2>1. hi = committed_index'[b]
    BY <1>0, <1>1
  <2>2. [s \in Server |-> committed_index[s] + 1][b] = committed_index[b] + 1
    BY <1>0
  <2>3. /\ hi + 1 \in committed_index[b] + 1 .. Len(log_file'[b])
        /\ Len(log_file'[b]) <= (hi + 1) + 1
    BY <1>0, <2>1
  <2>4. \A s \in Server : committed_index'[s] + 1 =
          IF s = b THEN hi + 1 ELSE committed_index[s] + 1
    BY <1>0, <1>1
  <2>5. [s \in Server |-> committed_index[s] + 1]' =
          [[s \in Server |-> committed_index[s] + 1] EXCEPT ![b] = hi + 1]
    BY <2>4
  <2> QED BY <2>2, <2>3, <2>5 DEF Abstract!Apply
<1>4. /\ Len(log_file[b]) < Len(log_file[Primary])
      /\ log_file' = [log_file EXCEPT ![b] = Append(@, log_file[Primary][Len(log_file[b]) + 1])]
  <2>1. Len(log_file[b]) + 1 = n
    BY <1>0
  <2>2. Len(log_file[b]) < Len(log_file[Primary])
    BY <1>0
  <2> QED BY <1>0, <1>1, <2>1, <2>2
<1>5. Abstract!Copy(b)
  BY <1>2, <1>3, <1>4, ProducerIsPrimary DEF Abstract!Copy
<1> QED BY <1>5

(* Finishing an order answers it.                                          *)
LEMMA FinishAnswers ==
  ASSUME Steady, Arranged, SteadyInv, SteadyInv', Up(Primary), ExpertFinish(Primary)
  PROVE  Abstract!Answer
<1> PICK n, op : n = Len(Log) /\ op = expert[Primary].op
  OBVIOUS
<1>0. /\ TypeInv /\ ReplicationInv /\ Primary \in Server /\ n \in Nat
      /\ smr_log \in [Server -> Seq(Op)] /\ committed_index \in [Server -> Int]
      /\ Log \in Seq(Op) /\ \A s \in Server : log_file[s] = smr_log[s]
      /\ log_file[Primary] = Log
  BY SteadyTypes DEF SteadyInv, TypeInv, TypeOK, ReplicationInv, LogInv, Copies, Log
<1>1. /\ Phase = "send"
      /\ acked' = acked \cup {<<Primary, op>>}
      /\ committed_index' = [committed_index EXCEPT ![Primary] = n - 1]
      /\ expert' = [expert EXCEPT ![Primary] = Idle]
      /\ UNCHANGED <<mode, smr_log, log_file>> /\ Log' = Log
  BY DEF ExpertFinish, Phase, Log
<1>2. Log # <<>> /\ op = Log[n]
  BY <1>1 DEF SteadyInv, ReplicationInv, Progress, HandIsLast
<1>3. ASSUME NEW s \in Server, Up(s) PROVE log_file[s] = log_file[Primary]
  <2>1. Phase' = "idle"
    <3>1. expert \in [Server -> ExpertState]
      BY <1>0, ProtocolTypes
    <3> QED BY <1>0, <1>1, <3>1 DEF Phase, Idle
  <2>2. Len(smr_log'[s]) = Len(Log')
    BY <1>1, <1>3, <2>1 DEF SteadyInv, ReplicationInv, Progress, Between, Holds, Up
  <2>3. Len(smr_log[s]) = n /\ \A i \in 1 .. Len(smr_log[s]) : smr_log[s][i] = Log[i]
    BY <1>0, <1>1, <2>2 DEF ReplicationInv, LogInv, Copies
  <2>4. smr_log[s] \in Seq(Op)
    BY <1>0
  <2>5. smr_log[s] = Log
    BY <1>0, <2>3, <2>4, SeqEqual
  <2> QED BY <1>0, <2>5
<1>4. {e[2] : e \in acked}' = {e[2] : e \in acked} \cup {Log[n]}
  <2>1. {e[2] : e \in acked}' = {e[2] : e \in acked \cup {<<Primary, op>>}}
    BY <1>1
  <2>2. PICK x : x = <<Primary, op>>
    OBVIOUS
  <2>3. {e[2] : e \in acked \cup {x}} = {e[2] : e \in acked} \cup {x[2]}
    OBVIOUS
  <2>4. x[2] = Log[n]
    BY <1>2, <2>2
  <2> QED BY <2>1, <2>2, <2>3, <2>4
<1>5. [s \in Server |-> committed_index[s] + 1]' =
        [[s \in Server |-> committed_index[s] + 1] EXCEPT ![Primary] = n]
  <2>1. \A s \in Server : committed_index'[s] + 1 =
          IF s = Primary THEN n ELSE committed_index[s] + 1
    BY <1>0, <1>1
  <2> QED BY <2>1
<1>6. /\ Primary \in {s \in Server : Up(s)} /\ UNCHANGED {s \in Server : Up(s)}
      /\ \A s \in {r \in Server : Up(r)} : log_file[s] = log_file[Primary]
  BY <1>0, <1>1, <1>3 DEF Up
<1>7. log_file[Primary] # <<>> /\ n = Len(log_file[Primary]) /\ Log[n] = log_file[Primary][n]
  BY <1>0, <1>2
<1> QED BY <1>1, <1>4, <1>5, <1>6, <1>7, ProducerIsPrimary DEF Abstract!Answer

(* Every step of a steady cluster is a step of ReplicatedLog, or changes   *)
(* nothing there.                                                          *)
LEMMA StepRefines ==
  ASSUME Steady, Arranged, SteadyInv, SteadyInv', [SteadyNext]_vars
  PROVE  [Abstract!Next]_Abstract!vars
<1>1. CASE UNCHANGED <<mode, smr_log, log_file, customer_record, last_index,
                       committed_index, acked>>
  BY <1>1 DEF Abstract!vars, Up
<1>2. CASE Up(Primary) /\ ExpertTake(Primary)
  BY <1>2, TakeAccepts DEF Abstract!Next
<1>3. CASE Up(Primary) /\ ExpertFinish(Primary)
  BY <1>3, FinishAnswers DEF Abstract!Next
<1>4. CASE \E c \in Conn : c[1] = Primary /\ Up(c[2]) /\ EngineerAppend(c)
  BY <1>4, AppendCopies, ClosedNotConn DEF Abstract!Next
<1>5. CASE \E s \in Server : Up(s) /\ Crash(s)
  <2>1. PICK s \in Server : Crash(s)
    BY <1>5
  <2>2. /\ mode' = [mode EXCEPT ![s] = "down"]
        /\ UNCHANGED <<log_file, committed_index, acked>>
    BY <2>1 DEF Crash, logvars
  <2>3. {r \in Server : Up(r)}' = {r \in Server : Up(r)} \ {s}
    <3>1. mode \in [Server -> {"down", "recovering", "status", "fetch", "recovered", "up"}]
      BY DEF SteadyInv, TypeInv, TypeOK
    <3> QED BY <2>2, <3>1 DEF Up
  <2>4. Abstract!Fail(s)
    BY <2>2, <2>3 DEF Abstract!Fail
  <2> QED BY <2>4 DEF Abstract!Next
<1> QED BY <1>1, <1>2, <1>3, <1>4, <1>5, SteadyMoves

(* A steady cluster starts as ReplicatedLog does.                          *)
LEMMA InitRefines == ASSUME Steady PROVE Init => Abstract!Init
<1> SUFFICES ASSUME Init PROVE Abstract!Init
  OBVIOUS
<1>1. \A s \in Server : Up(s) /\ committed_index[s] = -1
  BY DEF Init, Steady, Arranged, Up
<1>2. {s \in Server : Up(s)} = Server
  BY <1>1
<1>3. [s \in Server |-> committed_index[s] + 1] = [s \in Server |-> 0]
  BY <1>1
<1>4. log_file = [s \in Server |-> <<>>] /\ {e[2] : e \in acked} = {}
  BY DEF Init
<1> QED BY <1>2, <1>3, <1>4 DEF Abstract!Init

(* With one production server the threads, connections and messages of the *)
(* cluster amount to ReplicatedLog: orders enter one at a time, are copied *)
(* in order, and are answered when every live server has them.             *)
THEOREM ClusterIsReplicatedLog == ASSUME Steady PROVE Spec => ImplementsReplicatedLog
<1> Arranged
  BY DEF Steady
<1>1. SteadyInv /\ SteadyInv' /\ [SteadyNext]_vars => [Abstract!Next]_Abstract!vars
  BY StepRefines
<1> QED BY <1>1, InitRefines, SteadyAlways, PTL
        DEF Spec, ImplementsReplicatedLog, Abstract!Spec
=============================================================================
