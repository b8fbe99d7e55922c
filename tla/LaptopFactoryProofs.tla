------------------------- MODULE LaptopFactoryProofs -------------------------
(* What holds of LaptopFactory for any cluster, any customers and any      *)
(* number of crashes and restarts.                                         *)
EXTENDS LaptopFactory, IndexLemmas, SequenceTheorems, TLAPS

-----------------------------------------------------------------------------
(* The operators on logs and records. *)

(* Promoted takes the larger of two indices.                               *)
LEMMA MaxOfTwo ==
  ASSUME NEW a \in Int, NEW b \in Int
  PROVE  Max({a, b}) = IF a >= b THEN a ELSE b
  BY DEF Max

(* Closing or reusing a stub keeps the list of stubs in shape.             *)
LEMMA ReplaceAllType ==
  ASSUME NEW T, NEW q \in Seq(T), NEW old, NEW new \in T
  PROVE  /\ ReplaceAll(q, old, new) \in Seq(T)
         /\ Len(ReplaceAll(q, old, new)) = Len(q)
         /\ \A i \in 1 .. Len(q) :
              ReplaceAll(q, old, new)[i] = IF q[i] = old THEN new ELSE q[i]
<1> DEFINE r == ReplaceAll(q, old, new)
<1>1. Len(q) \in Nat /\ r \in [1 .. Len(q) -> T]
  BY LenProperties DEF ReplaceAll
<1>2. r \in Seq(T) /\ Len(r) = Len(q)
  BY <1>1
<1> QED BY <1>2, LenProperties DEF ReplaceAll

(* Ops applied to a record leave a record.                                 *)
LEMMA ApplyType ==
  ASSUME NEW rec \in [Key -> Int], NEW lo \in Int, NEW hi \in Int, NEW f,
         \A i \in lo .. hi : f[i] \in Op
  PROVE  Apply(rec, f, lo, hi) \in [Key -> Int]
<1> SUFFICES ASSUME NEW k \in Key, NEW W, W = {i \in lo .. hi : f[i].arg1 = k},
                    W # {}
             PROVE  f[Max(W)].arg2 \in Int
  BY DEF Apply
<1>1. Max(W) \in lo .. hi
  BY MaxOfIndices
<1> QED BY <1>1 DEF Op

(* Whatever smr_log yields, past its end too, is an op.                    *)
LEMMA ReadsType ==
  ASSUME NEW log \in Seq(Op), NEW lo \in Int, NEW hi \in Int,
         NEW f \in Reads(log, lo, hi), NEW i \in lo .. hi
  PROVE  f[i] \in Op
<1>1. Range(log) \subseteq Op
  BY LenProperties DEF Range
<1>2. AnyOp \subseteq Op
  BY CustomerAssumption DEF AnyOp, OrderOp, LostRecord, Op, Key
<1> QED BY <1>1, <1>2 DEF Reads

(* What customers order can be logged.                                     *)
LEMMA OrderIsOp == OrderOp \subseteq Op /\ LostRecord \in Op
  BY CustomerAssumption DEF OrderOp, LostRecord, Op, Key
-----------------------------------------------------------------------------
(* Type correctness.  What an expert has in its hands while it works is an *)
(* order, never the initial LostRecord.                                    *)

OrderInHand == \A s \in Server : Locked(s) => expert[s].op \in OrderOp

TypeInv == TypeOK /\ OrderInHand

(* The cluster starts well typed, with nothing in hand.                    *)
LEMMA InitType == Init => TypeInv
<1> SUFFICES ASSUME Init PROVE TypeInv
  OBVIOUS
<1>1. \A T : <<>> \in Seq(T)
  BY EmptySeq
<1>2. NoRequest \in ReplicaRequest /\ Empty \in [Key -> Int]
  BY OrderIsOp DEF NoRequest, ReplicaRequest, Empty
<1>3. TypeOK
  BY <1>1, <1>2, OrderIsOp, ServerAssumption, CustomerAssumption, BoundAssumption
     DEF Init, TypeOK, Idle, NotRecovering, ExpertState, RecoveryState
<1>4. OrderInHand
  BY DEF Init, OrderInHand, Locked, Idle
<1> QED BY <1>3, <1>4 DEF TypeInv

(* Moving on keeps the order in hand.                                      *)
LEMMA GotoType ==
  ASSUME TypeInv, NEW s \in Server, Locked(s),
         NEW pc \in {"connect", "register", "send", "await"}, NEW i \in Nat \ {0},
         expert' = Goto(s, pc, i)
  PROVE  expert' \in [Server -> ExpertState] /\ OrderInHand'
<1>1. expert \in [Server -> ExpertState] /\ OrderInHand
  BY DEF TypeInv, TypeOK
<1>2. [pc |-> pc, i |-> i, op |-> expert[s].op] \in ExpertState
  BY <1>1 DEF ExpertState
<1> QED BY <1>1, <1>2 DEF Goto, OrderInHand, Locked

(* A customer's order is an order.                                         *)
LEMMA OrderType ==
  ASSUME TypeInv, NEW c \in Customer, NEW s \in Server, Order(c, s)
  PROVE  TypeInv'
<1>1. [arg1 |-> c, arg2 |-> sent[c]] \in OrderOp
  BY CustomerAssumption DEF TypeInv, TypeOK, Order, OrderOp
<1>2. erq' \in [Server -> Seq(OrderOp)]
  BY <1>1, AppendProperties DEF TypeInv, TypeOK, Order
<1>3. sent' \in [Customer -> 0 .. NumOrders]
  BY CustomerAssumption DEF TypeInv, TypeOK, Order
<1>4. at' \in [Customer -> Server \cup {NoServer}]
  BY DEF TypeInv, TypeOK, Order
<1>5. UNCHANGED <<mode, expert, logvars, primary_id, replica_stubs, recovery,
                  connvars, acked, bounds>>
  BY DEF Order
<1> QED BY <1>2, <1>3, <1>4, <1>5
    DEF TypeInv, TypeOK, OrderInHand, Locked, logvars, connvars, bounds

(* What the expert takes and logs is an order.                             *)
LEMMA ExpertTakeType ==
  ASSUME TypeInv, NEW s \in Server, ExpertTake(s) PROVE TypeInv'
<1> DEFINE op   == Head(erq[s])
           log  == Append(smr_log[s], op)
           last == last_index[s] + 1
           hi   == Promoted(s, last)
<1>1. op \in OrderOp /\ op \in Op /\ Tail(erq[s]) \in Seq(OrderOp)
  BY HeadTailProperties, OrderIsOp DEF TypeInv, TypeOK, ExpertTake
<1>2. log \in Seq(Op) /\ Append(log_file[s], op) \in Seq(Op)
  <2> HIDE DEF op
  <2> QED BY <1>1, AppendProperties DEF TypeInv, TypeOK
<1>3. last \in Int /\ hi \in Int /\ committed_index[s] + 2 \in Int /\ hi + 1 \in Int
  <2>1. committed_index[s] \in Int /\ last \in Int
    BY DEF TypeInv, TypeOK
  <2>2. Promoted(s, last) \in Int
    <3> HIDE DEF last
    <3> QED BY <2>1, MaxOfTwo DEF Promoted
  <2> HIDE DEF last
  <2> QED BY <2>1, <2>2
<1> HIDE DEF op, log, last, hi
<1>4. PICK f \in Reads(log, committed_index[s] + 2, hi + 1) :
        customer_record' = [customer_record EXCEPT
           ![s] = Apply(@, f, committed_index[s] + 2, hi + 1)]
  BY DEF ExpertTake, CatchUp, op, log, last, hi
<1>5. Apply(customer_record[s], f, committed_index[s] + 2, hi + 1) \in [Key -> Int]
  BY <1>2, <1>3, ReadsType, ApplyType DEF TypeInv, TypeOK
<1>6. customer_record' \in [Server -> [Key -> Int]]
  BY <1>4, <1>5 DEF TypeInv, TypeOK
<1>7. /\ erq' = [erq EXCEPT ![s] = Tail(@)]
      /\ smr_log' = [smr_log EXCEPT ![s] = log]
      /\ log_file' = [log_file EXCEPT ![s] = Append(@, op)]
      /\ last_index' = [last_index EXCEPT ![s] = last]
      /\ committed_index' = [committed_index EXCEPT ![s] = hi]
      /\ expert' = [expert EXCEPT ![s] = [pc |-> "connect", i |-> 1, op |-> op]]
  BY DEF ExpertTake, LogAppend, op, log, last, hi
<1>8. /\ erq' \in [Server -> Seq(OrderOp)]
      /\ smr_log' \in [Server -> Seq(Op)] /\ log_file' \in [Server -> Seq(Op)]
      /\ last_index' \in [Server -> Int] /\ committed_index' \in [Server -> Int]
  BY <1>1, <1>2, <1>3, <1>7 DEF TypeInv, TypeOK
<1>9. /\ expert' \in [Server -> ExpertState]
      /\ OrderInHand'
  BY <1>1, <1>7 DEF TypeInv, TypeOK, ExpertState, OrderInHand, Locked
<1>10. /\ primary_id' \in [Server -> Server \cup {NoServer}]
       /\ open' \in [Conn -> BOOLEAN]
       /\ replica_stubs' \in [Server -> Seq(Conn \cup {ClosedStub})]
  BY EmptySeq DEF TypeInv, TypeOK, ExpertTake, ClearStubs
<1>11. UNCHANGED <<mode, recovery, eng, wire, msg, clientvars, bounds>>
  BY DEF ExpertTake
<1> QED BY <1>6, <1>8, <1>9, <1>10, <1>11
    DEF TypeInv, TypeOK, clientvars, bounds

(* A new stub is a connection to a peer.                                   *)
LEMMA ExpertConnectType ==
  ASSUME TypeInv, NEW s \in Server, ExpertConnect(s) PROVE TypeInv'
<1> DEFINE r == Replicas[s][expert[s].i]
<1>0. /\ expert[s].i \in Nat \ {0} /\ expert[s].i + 1 \in Nat \ {0}
      /\ eng \in [Conn -> {"none", "order", "backup", "append"}]
      /\ wire \in [Conn -> {"empty", "register", "request", "ack"}]
      /\ open \in [Conn -> BOOLEAN]
  BY DEF TypeInv, TypeOK, ExpertState
<1>1. r \in Server /\ r # s
  <2>1. Replicas[s] \in Seq(Server) /\ s \notin Range(Replicas[s])
    BY ServerAssumption
  <2>2. expert[s].i <= Len(Replicas[s])
    BY Zenon DEF ExpertConnect
  <2>3. Len(Replicas[s]) \in Nat /\ DOMAIN Replicas[s] = 1 .. Len(Replicas[s])
    BY <2>1, LenProperties
  <2>4. expert[s].i \in 1 .. Len(Replicas[s])
    BY <1>0, <2>2, <2>3
  <2> QED BY <2>1, <2>3, <2>4, ElementOfSeq DEF Range
<1>2. \A k \in Slot : <<s, r, k>> \in Conn
  BY <1>1 DEF Conn
<1>3. expert' \in [Server -> ExpertState] /\ OrderInHand'
  <2>1. /\ Locked(s)
        /\ \/ expert' = Goto(s, "connect", expert[s].i + 1)
           \/ expert' = Goto(s, "register", expert[s].i)
    BY DEF ExpertConnect, Locked
  <2> QED BY <2>1, <1>0, GotoType
<1>5. /\ eng' \in [Conn -> {"none", "order", "backup", "append"}]
      /\ wire' \in [Conn -> {"empty", "register", "request", "ack"}]
      /\ open' \in [Conn -> BOOLEAN]
      /\ msg' = msg
  <2>1. CASE UNCHANGED connvars
    BY <1>0, <2>1 DEF connvars
  <2>2. ASSUME NEW k \in Slot, NEW c, c = <<s, r, k>>,
               eng' = [eng EXCEPT ![c] = "order"],
               wire' = [wire EXCEPT ![c] = "register"],
               open' = [open EXCEPT ![c] = TRUE], msg' = msg
        PROVE  /\ eng' \in [Conn -> {"none", "order", "backup", "append"}]
               /\ wire' \in [Conn -> {"empty", "register", "request", "ack"}]
               /\ open' \in [Conn -> BOOLEAN]
               /\ msg' = msg
    <3>1. c \in Conn
      BY <1>2, <2>2
    <3>2. eng' \in [Conn -> {"none", "order", "backup", "append"}]
      BY <1>0, <2>2, <3>1
    <3>3. wire' \in [Conn -> {"empty", "register", "request", "ack"}]
      BY <1>0, <2>2, <3>1
    <3>4. open' \in [Conn -> BOOLEAN]
      BY <1>0, <2>2, <3>1
    <3> QED BY <2>2, <3>2, <3>3, <3>4
  <2>3. \/ UNCHANGED connvars
        \/ \E k \in Slot :
             /\ eng' = [eng EXCEPT ![<<s, r, k>>] = "order"]
             /\ wire' = [wire EXCEPT ![<<s, r, k>>] = "register"]
             /\ open' = [open EXCEPT ![<<s, r, k>>] = TRUE]
             /\ msg' = msg
    BY Zenon DEF ExpertConnect
  <2> QED BY <2>1, <2>2, <2>3
<1>6. replica_stubs' \in [Server -> Seq(Conn \cup {ClosedStub})]
  <2>1. CASE UNCHANGED replica_stubs
    BY <2>1 DEF TypeInv, TypeOK
  <2>2. ASSUME NEW k \in Slot, NEW reused \in BOOLEAN,
               replica_stubs' = [replica_stubs EXCEPT ![s] = Append(
                 IF reused THEN ReplaceAll(@, ClosedStub, <<s, r, k>>) ELSE @,
                 <<s, r, k>>)]
        PROVE  replica_stubs' \in [Server -> Seq(Conn \cup {ClosedStub})]
    <3> DEFINE q == IF reused
                    THEN ReplaceAll(replica_stubs[s], ClosedStub, <<s, r, k>>)
                    ELSE replica_stubs[s]
    <3>0. replica_stubs[s] \in Seq(Conn \cup {ClosedStub})
      BY DEF TypeInv, TypeOK
    <3>1. q \in Seq(Conn \cup {ClosedStub})
      <4>1. <<s, r, k>> \in Conn \cup {ClosedStub}
        BY <1>2
      <4>2. ReplaceAll(replica_stubs[s], ClosedStub, <<s, r, k>>)
              \in Seq(Conn \cup {ClosedStub})
        BY <3>0, <4>1, ReplaceAllType
      <4> QED BY <3>0, <4>2
    <3>2. Append(q, <<s, r, k>>) \in Seq(Conn \cup {ClosedStub})
      <4> HIDE DEF q
      <4> QED BY <1>2, <3>1, AppendProperties
    <3> QED BY <2>2, <3>2 DEF TypeInv, TypeOK
  <2> QED BY <2>1, <2>2 DEF ExpertConnect
<1>7. UNCHANGED <<mode, erq, logvars, primary_id, recovery, clientvars, bounds>>
  BY DEF ExpertConnect
<1> QED BY <1>3, <1>5, <1>6, <1>7
    DEF TypeInv, TypeOK, logvars, clientvars, bounds

(* A stub closed is still a stub.                                          *)
LEMMA ExpertRegisteredType ==
  ASSUME TypeInv, NEW s \in Server, ExpertRegistered(s) PROVE TypeInv'
<1>0. /\ expert[s].i + 1 \in Nat \ {0}
      /\ wire \in [Conn -> {"empty", "register", "request", "ack"}]
      /\ open \in [Conn -> BOOLEAN]
      /\ replica_stubs \in [Server -> Seq(Conn \cup {ClosedStub})]
  <2>1. expert[s] \in ExpertState
    BY DEF TypeInv, TypeOK
  <2>2. expert[s].i + 1 \in Nat \ {0}
    BY <2>1 DEF ExpertState
  <2> QED BY <2>2 DEF TypeInv, TypeOK
<1>1. expert' \in [Server -> ExpertState] /\ OrderInHand'
  BY <1>0, GotoType DEF ExpertRegistered, Locked
<1>2. /\ wire' \in [Conn -> {"empty", "register", "request", "ack"}]
      /\ open' \in [Conn -> BOOLEAN]
  BY <1>0 DEF ExpertRegistered
<1>3. replica_stubs' \in [Server -> Seq(Conn \cup {ClosedStub})]
  <2>1. \/ UNCHANGED replica_stubs
        \/ replica_stubs' = [replica_stubs EXCEPT ![s] =
             ReplaceAll(@, Last(replica_stubs[s]), ClosedStub)]
    BY Zenon DEF ExpertRegistered
  <2>2. ReplaceAll(replica_stubs[s], Last(replica_stubs[s]), ClosedStub)
          \in Seq(Conn \cup {ClosedStub})
    BY <1>0, ReplaceAllType
  <2> QED BY <1>0, <2>1, <2>2
<1>4. UNCHANGED <<mode, erq, logvars, primary_id, recovery, eng, msg,
                  clientvars, bounds>>
  BY DEF ExpertRegistered
<1> QED BY <1>1, <1>2, <1>3, <1>4 DEF TypeInv, TypeOK, logvars, clientvars, bounds

(* From the connections to the requests.                                   *)
LEMMA ExpertConnectedType ==
  ASSUME TypeInv, NEW s \in Server, ExpertConnected(s) PROVE TypeInv'
<1>1. expert' \in [Server -> ExpertState] /\ OrderInHand'
  BY GotoType DEF ExpertConnected, Locked
<1> QED BY <1>1 DEF TypeInv, TypeOK, ExpertConnected,
                    logvars, connvars, clientvars, bounds

(* The request sent is a replica request.                                  *)
LEMMA ExpertSendType ==
  ASSUME TypeInv, NEW s \in Server, ExpertSend(s) PROVE TypeInv'
<1>0. /\ expert[s].i \in Nat \ {0} /\ expert[s].i + 1 \in Nat \ {0}
      /\ expert[s].op \in Op
      /\ committed_index[s] \in Int /\ last_index[s] \in Int
      /\ wire \in [Conn -> {"empty", "register", "request", "ack"}]
      /\ msg \in [Conn -> ReplicaRequest]
  BY DEF TypeInv, TypeOK, ExpertState
<1>1. expert' \in [Server -> ExpertState] /\ OrderInHand'
  <2>1. /\ Locked(s)
        /\ \/ expert' = Goto(s, "send", expert[s].i + 1)
           \/ expert' = Goto(s, "await", expert[s].i)
    BY DEF ExpertSend, Locked
  <2> QED BY <2>1, <1>0, GotoType
<1>2. Request(s) \in ReplicaRequest
  BY <1>0 DEF Request, ReplicaRequest
<1>3. /\ wire' \in [Conn -> {"empty", "register", "request", "ack"}]
      /\ msg' \in [Conn -> ReplicaRequest]
  BY <1>0, <1>2 DEF ExpertSend
<1>4. UNCHANGED <<mode, erq, logvars, primary_id, replica_stubs, recovery,
                  eng, open, clientvars, bounds>>
  BY DEF ExpertSend
<1> QED BY <1>1, <1>3, <1>4 DEF TypeInv, TypeOK, logvars, clientvars, bounds

(* From one stub to the next.                                              *)
LEMMA ExpertAckedType ==
  ASSUME TypeInv, NEW s \in Server, ExpertAcked(s) PROVE TypeInv'
<1>0. /\ expert[s].i + 1 \in Nat \ {0}
      /\ wire \in [Conn -> {"empty", "register", "request", "ack"}]
  BY DEF TypeInv, TypeOK, ExpertState
<1>1. expert' \in [Server -> ExpertState] /\ OrderInHand'
  BY <1>0, GotoType DEF ExpertAcked, Locked
<1>2. wire' \in [Conn -> {"empty", "register", "request", "ack"}]
  BY <1>0 DEF ExpertAcked
<1> QED BY <1>1, <1>2 DEF TypeInv, TypeOK, ExpertAcked, logvars, clientvars, bounds

(* What is applied and answered is the order in hand.                      *)
LEMMA ExpertFinishType ==
  ASSUME TypeInv, NEW s \in Server, ExpertFinish(s) PROVE TypeInv'
<1>0. /\ expert \in [Server -> ExpertState] /\ OrderInHand
      /\ customer_record \in [Server -> [Key -> Int]]
      /\ committed_index \in [Server -> Int]
      /\ smr_log[s] \in Seq(Op)
      /\ acked \subseteq Server \X OrderOp
      /\ at \in [Customer -> Server \cup {NoServer}]
  BY DEF TypeInv, TypeOK
<1>1. expert[s].op \in OrderOp
  BY <1>0 DEF OrderInHand, Locked, ExpertFinish
<1>2. expert[s].op.arg1 \in Key /\ expert[s].op.arg2 \in Int
  BY <1>1, OrderIsOp DEF Op
<1>3. Len(smr_log[s]) - 1 \in Int
  BY <1>0, LenProperties
<1>4. customer_record' \in [Server -> [Key -> Int]]
  BY <1>0, <1>2 DEF ExpertFinish
<1>5. committed_index' \in [Server -> Int]
  BY <1>0, <1>3 DEF ExpertFinish
<1>6. /\ acked' \subseteq Server \X OrderOp
      /\ at' \in [Customer -> Server \cup {NoServer}]
  <2>1. /\ acked' = acked \cup {<<s, expert[s].op>>}
        /\ at' = [at EXCEPT ![expert[s].op.arg1] = NoServer]
    BY DEF ExpertFinish
  <2>2. acked' \subseteq Server \X OrderOp
    BY <1>0, <1>1, <2>1
  <2> QED BY <1>0, <2>1, <2>2
<1>7. Idle \in ExpertState
  BY OrderIsOp DEF Idle, ExpertState
<1>8. expert' \in [Server -> ExpertState] /\ OrderInHand'
  BY <1>0, <1>7 DEF OrderInHand, Locked, ExpertFinish, Idle
<1>9. UNCHANGED <<mode, erq, smr_log, log_file, last_index, primary_id,
                  replica_stubs, recovery, connvars, sent, bounds>>
  BY DEF ExpertFinish
<1> QED BY <1>4, <1>5, <1>6, <1>8, <1>9 DEF TypeInv, TypeOK, connvars, bounds

(* The engineer's steps that leave the log alone.                          *)
LEMMA EngineerType ==
  ASSUME TypeInv, NEW c \in Conn,
         EngineerRegister(c) \/ EngineerReceive(c) \/ EngineerEof(c)
  PROVE  TypeInv'
<1>0. /\ c[1] \in Server /\ c[2] \in Server
      /\ eng \in [Conn -> {"none", "order", "backup", "append"}]
      /\ wire \in [Conn -> {"empty", "register", "request", "ack"}]
      /\ primary_id \in [Server -> Server \cup {NoServer}]
  BY DEF TypeInv, TypeOK, Conn
<1>1. /\ eng' \in [Conn -> {"none", "order", "backup", "append"}]
      /\ wire' \in [Conn -> {"empty", "register", "request", "ack"}]
      /\ primary_id' \in [Server -> Server \cup {NoServer}]
  BY <1>0 DEF EngineerRegister, EngineerReceive, EngineerEof, Answer
<1>2. UNCHANGED <<mode, erq, expert, logvars, replica_stubs, recovery,
                  msg, open, clientvars, bounds>>
  BY DEF EngineerRegister, EngineerReceive, EngineerEof
<1> QED BY <1>1, <1>2
    DEF TypeInv, TypeOK, OrderInHand, Locked, logvars, clientvars, bounds

(* A backup logs and applies what was sent to it.                          *)
LEMMA EngineerAppendType ==
  ASSUME TypeInv, NEW c \in Conn, EngineerAppend(c) PROVE TypeInv'
<1> DEFINE b == c[2]
           m == msg[c]
           log == Append(smr_log[b], m.op)
<1>0. /\ eng \in [Conn -> {"none", "order", "backup", "append"}]
      /\ wire \in [Conn -> {"empty", "register", "request", "ack"}]
      /\ smr_log \in [Server -> Seq(Op)] /\ log_file \in [Server -> Seq(Op)]
      /\ customer_record \in [Server -> [Key -> Int]]
      /\ last_index \in [Server -> Int] /\ committed_index \in [Server -> Int]
  BY DEF TypeInv, TypeOK
<1>1. /\ b \in Server /\ m.op \in Op
      /\ m.committed_index \in Int /\ m.last_index \in Int
  BY DEF TypeInv, TypeOK, Conn, ReplicaRequest
<1>2. log \in Seq(Op) /\ Append(log_file[b], m.op) \in Seq(Op)
  <2> HIDE DEF m, b
  <2> QED BY <1>0, <1>1, AppendProperties
<1>3. committed_index[b] + 2 \in Int /\ m.committed_index + 1 \in Int
  BY <1>0, <1>1
<1>4. PICK f \in Reads(log, committed_index[b] + 2, m.committed_index + 1) :
        customer_record' = [customer_record EXCEPT
          ![b] = Apply(@, f, committed_index[b] + 2, m.committed_index + 1)]
  BY DEF EngineerAppend, CatchUp
<1>5. Apply(customer_record[b], f, committed_index[b] + 2, m.committed_index + 1)
        \in [Key -> Int]
  <2> HIDE DEF log, b, m
  <2> QED BY <1>0, <1>1, <1>2, <1>3, ReadsType, ApplyType
<1>6. /\ customer_record' \in [Server -> [Key -> Int]]
      /\ smr_log' \in [Server -> Seq(Op)] /\ log_file' \in [Server -> Seq(Op)]
      /\ last_index' \in [Server -> Int] /\ committed_index' \in [Server -> Int]
  BY <1>0, <1>1, <1>2, <1>4, <1>5 DEF EngineerAppend, LogAppend
<1>7. /\ eng' \in [Conn -> {"none", "order", "backup", "append"}]
      /\ wire' \in [Conn -> {"empty", "register", "request", "ack"}]
  BY <1>0 DEF EngineerAppend, Answer
<1>8. UNCHANGED <<mode, erq, expert, primary_id, replica_stubs, recovery,
                  msg, open, clientvars, bounds>>
  BY DEF EngineerAppend
<1> QED BY <1>6, <1>7, <1>8
    DEF TypeInv, TypeOK, OrderInHand, Locked, clientvars, bounds

(* What a crash leaves is well typed.                                      *)
LEMMA CrashType ==
  ASSUME TypeInv, NEW s \in Server, Crash(s) PROVE TypeInv'
<1>0. /\ mode \in [Server -> {"down", "recovering", "status", "fetch",
                             "recovered", "up"}]
      /\ erq \in [Server -> Seq(OrderOp)]
      /\ expert \in [Server -> ExpertState] /\ OrderInHand
      /\ replica_stubs \in [Server -> Seq(Conn \cup {ClosedStub})]
      /\ recovery \in [Server -> RecoveryState]
      /\ eng \in [Conn -> {"none", "order", "backup", "append"}]
      /\ wire \in [Conn -> {"empty", "register", "request", "ack"}]
      /\ open \in [Conn -> BOOLEAN]
      /\ sent \in [Customer -> 0 .. NumOrders]
      /\ at \in [Customer -> Server \cup {NoServer}]
      /\ crashes \in 0 .. MaxCrashes
  BY DEF TypeInv, TypeOK
<1>1. NotRecovering \in RecoveryState /\ Idle \in ExpertState
  BY OrderIsOp DEF NotRecovering, RecoveryState, Idle, ExpertState
<1>2. /\ mode' \in [Server -> {"down", "recovering", "status", "fetch",
                              "recovered", "up"}]
      /\ erq' \in [Server -> Seq(OrderOp)]
      /\ replica_stubs' \in [Server -> Seq(Conn \cup {ClosedStub})]
  BY <1>0, EmptySeq DEF Crash
<1>3. expert' \in [Server -> ExpertState] /\ OrderInHand'
  BY <1>0, <1>1 DEF Crash, OrderInHand, Locked, Idle
<1>4. recovery' \in [Server -> RecoveryState]
  <2>1. ASSUME NEW r \in Server
        PROVE  [recovery[r] EXCEPT !.peer = NoServer] \in RecoveryState
    <3>1. recovery[r] \in RecoveryState
      BY <1>0
    <3> QED BY <3>1 DEF RecoveryState
  <2> QED BY <1>0, <1>1, <2>1 DEF Crash
<1>5. /\ eng' \in [Conn -> {"none", "order", "backup", "append"}]
      /\ wire' \in [Conn -> {"empty", "register", "request", "ack"}]
      /\ open' \in [Conn -> BOOLEAN]
  BY <1>0 DEF Crash
<1>6. /\ sent' \in [Customer -> 0 .. NumOrders]
      /\ at' \in [Customer -> Server \cup {NoServer}]
  BY <1>0, CustomerAssumption DEF Crash
<1>7. crashes' \in 0 .. MaxCrashes
  BY <1>0, BoundAssumption DEF Crash
<1>8. UNCHANGED <<logvars, primary_id, msg, acked, starts>>
  BY DEF Crash
<1> QED BY <1>2, <1>3, <1>4, <1>5, <1>6, <1>7, <1>8 DEF TypeInv, TypeOK, logvars

(* A log read from the file gives a record.                                *)
LEMMA StartType ==
  ASSUME TypeInv, NEW s \in Server, NEW fromLog, Start(s, fromLog) PROVE TypeInv'
<1> DEFINE log == IF fromLog THEN log_file[s] ELSE <<>>
<1>0. /\ mode \in [Server -> {"down", "recovering", "status", "fetch",
                             "recovered", "up"}]
      /\ smr_log \in [Server -> Seq(Op)] /\ log_file \in [Server -> Seq(Op)]
      /\ customer_record \in [Server -> [Key -> Int]]
      /\ last_index \in [Server -> Int] /\ committed_index \in [Server -> Int]
      /\ primary_id \in [Server -> Server \cup {NoServer}]
      /\ recovery \in [Server -> RecoveryState]
      /\ starts \in 0 .. MaxStarts
  BY DEF TypeInv, TypeOK
<1>1. log \in Seq(Op)
  BY <1>0, EmptySeq
<1>2. /\ Len(log) \in Int /\ Len(log) - 1 \in Int
      /\ \A i \in 1 .. Len(log) : log[i] \in Op
  <2> HIDE DEF log
  <2> QED BY <1>1, LenProperties, ElementOfSeq
<1>3. Apply(Empty, log, 1, Len(log)) \in [Key -> Int]
  <2>1. Empty \in [Key -> Int]
    BY DEF Empty
  <2> HIDE DEF log
  <2> QED BY <1>2, <2>1, ApplyType
<1>4. NotRecovering \in RecoveryState
  BY DEF NotRecovering, RecoveryState
<1>5. /\ smr_log' \in [Server -> Seq(Op)]
      /\ customer_record' \in [Server -> [Key -> Int]]
      /\ last_index' \in [Server -> Int] /\ committed_index' \in [Server -> Int]
  BY <1>0, <1>1, <1>2, <1>3 DEF Start
<1>6. /\ mode' \in [Server -> {"down", "recovering", "status", "fetch",
                              "recovered", "up"}]
      /\ primary_id' \in [Server -> Server \cup {NoServer}]
      /\ recovery' \in [Server -> RecoveryState]
  BY <1>0, <1>4 DEF Start
<1>7. starts' \in 0 .. MaxStarts
  BY <1>0, BoundAssumption DEF Start
<1>8. UNCHANGED <<erq, expert, log_file, replica_stubs, connvars, clientvars,
                  crashes>>
  BY DEF Start
<1> QED BY <1>5, <1>6, <1>7, <1>8
    DEF TypeInv, TypeOK, OrderInHand, Locked, connvars, clientvars

(* The steps of a recovery that fetch nothing.                             *)
LEMMA RecoverConnectType ==
  ASSUME TypeInv, NEW s \in Server,
         RecoverConnect(s) \/ RecoverNobody(s) \/ Listen(s)
  PROVE  TypeInv'
<1>0. /\ mode \in [Server -> {"down", "recovering", "status", "fetch",
                             "recovered", "up"}]
      /\ recovery \in [Server -> RecoveryState]
  BY DEF TypeInv, TypeOK
<1>1. mode' \in [Server -> {"down", "recovering", "status", "fetch",
                           "recovered", "up"}]
  BY <1>0 DEF RecoverConnect, RecoverNobody, Listen
<1>2. recovery' \in [Server -> RecoveryState]
  <2>1. CASE RecoverConnect(s)
    <3> DEFINE r == Replicas[s][recovery[s].i]
    <3>1. Replicas[s] \in Seq(Server) /\ recovery[s].i \in Nat \ {0}
      BY <1>0, ServerAssumption DEF RecoveryState
    <3>2. r \in Server
      BY <2>1, <3>1, ElementOfSeq, LenProperties DEF RecoverConnect
    <3>3. /\ [recovery[s] EXCEPT !.peer = r] \in RecoveryState
          /\ [recovery[s] EXCEPT !.i = recovery[s].i + 1] \in RecoveryState
      <4> HIDE DEF r
      <4> QED BY <1>0, <3>2 DEF RecoveryState
    <3>4. \/ recovery' = [recovery EXCEPT ![s] = [recovery[s] EXCEPT !.peer = r]]
          \/ recovery' = [recovery EXCEPT ![s] =
                            [recovery[s] EXCEPT !.i = recovery[s].i + 1]]
      BY <2>1 DEF RecoverConnect
    <3> QED BY <1>0, <3>3, <3>4
  <2>2. CASE RecoverNobody(s)
    BY <1>0, <2>2 DEF RecoverNobody
  <2>3. CASE Listen(s)
    BY <1>0, <2>3 DEF Listen, NotRecovering, RecoveryState
  <2> QED BY <2>1, <2>2, <2>3
<1>3. UNCHANGED <<erq, expert, logvars, primary_id, replica_stubs, connvars,
                  clientvars, bounds>>
  BY DEF RecoverConnect, RecoverNobody, Listen
<1> QED BY <1>1, <1>2, <1>3
    DEF TypeInv, TypeOK, OrderInHand, Locked, logvars, connvars, clientvars, bounds

(* The peer's last_index is an index, or -1.                               *)
LEMMA RecoverStatusType ==
  ASSUME TypeInv, NEW s \in Server, RecoverStatus(s) PROVE TypeInv'
<1> DEFINE other == IF recovery[s].peer = NoServer THEN -1
                    ELSE last_index[recovery[s].peer]
<1>0. /\ mode \in [Server -> {"down", "recovering", "status", "fetch",
                             "recovered", "up"}]
      /\ primary_id \in [Server -> Server \cup {NoServer}]
      /\ recovery \in [Server -> RecoveryState]
      /\ last_index \in [Server -> Int]
  BY DEF TypeInv, TypeOK
<1>1. recovery[s].peer \in Server \cup {NoServer}
  BY <1>0 DEF RecoveryState
<1>2. other \in Int /\ last_index[s] + 1 \in Int
  BY <1>0, <1>1
<1>3. [recovery[s] EXCEPT !.next = last_index[s] + 1, !.upto = other]
        \in RecoveryState
  <2> HIDE DEF other
  <2> QED BY <1>0, <1>2 DEF RecoveryState
<1>4. /\ mode' \in [Server -> {"down", "recovering", "status", "fetch",
                              "recovered", "up"}]
      /\ primary_id' \in [Server -> Server \cup {NoServer}]
      /\ recovery' \in [Server -> RecoveryState]
  BY <1>0, <1>3 DEF RecoverStatus
<1>5. UNCHANGED <<erq, expert, logvars, replica_stubs, connvars, clientvars,
                  bounds>>
  BY DEF RecoverStatus
<1> QED BY <1>4, <1>5
    DEF TypeInv, TypeOK, OrderInHand, Locked, logvars, connvars, clientvars, bounds

(* An entry fetched, or LostRecord, is an op.                              *)
LEMMA RecoverFetchType ==
  ASSUME TypeInv, NEW s \in Server, RecoverFetch(s) PROVE TypeInv'
<1> DEFINE peer == recovery[s].peer
           i    == recovery[s].next
<1>0. /\ mode \in [Server -> {"down", "recovering", "status", "fetch",
                             "recovered", "up"}]
      /\ smr_log \in [Server -> Seq(Op)] /\ log_file \in [Server -> Seq(Op)]
      /\ customer_record \in [Server -> [Key -> Int]]
      /\ last_index \in [Server -> Int] /\ committed_index \in [Server -> Int]
      /\ recovery \in [Server -> RecoveryState]
  BY DEF TypeInv, TypeOK
<1>1. peer \in Server \cup {NoServer} /\ i \in Int /\ i + 1 \in Int
  BY <1>0 DEF RecoveryState
<1>2. PICK f \in IF peer = NoServer THEN {[j \in {i + 1} |-> LostRecord]}
                 ELSE Reads(smr_log[peer], i + 1, i + 1) :
        /\ smr_log' = [smr_log EXCEPT ![s] = Append(@, f[i + 1])]
        /\ log_file' = [log_file EXCEPT ![s] = Append(@, f[i + 1])]
        /\ customer_record' = [customer_record EXCEPT
             ![s] = Apply(@, f, i + 1, i + 1)]
  BY DEF RecoverFetch, LogAppend
<1>3. \A j \in i + 1 .. i + 1 : f[j] \in Op
  <2>1. CASE peer = NoServer
    BY <1>1, <1>2, <2>1, OrderIsOp
  <2>2. CASE peer # NoServer
    <3> HIDE DEF peer, i
    <3> QED BY <1>0, <1>1, <1>2, <2>2, ReadsType
  <2> QED BY <2>1, <2>2
<1>4. /\ Append(smr_log[s], f[i + 1]) \in Seq(Op)
      /\ Append(log_file[s], f[i + 1]) \in Seq(Op)
      /\ Apply(customer_record[s], f, i + 1, i + 1) \in [Key -> Int]
  <2>1. f[i + 1] \in Op
    BY <1>1, <1>3
  <2> HIDE DEF i
  <2> QED BY <1>0, <1>1, <1>3, <2>1, AppendProperties, ApplyType
<1>5. /\ smr_log' \in [Server -> Seq(Op)] /\ log_file' \in [Server -> Seq(Op)]
      /\ customer_record' \in [Server -> [Key -> Int]]
  BY <1>0, <1>2, <1>4
<1>6. recovery' \in [Server -> RecoveryState]
  <2>1. [recovery[s] EXCEPT !.next = i + 1] \in RecoveryState
    BY <1>0, <1>1 DEF RecoveryState
  <2>2. recovery' = [recovery EXCEPT ![s] = [recovery[s] EXCEPT !.next = i + 1]]
    BY DEF RecoverFetch
  <2> QED BY <1>0, <2>1, <2>2
<1>7. /\ mode' \in [Server -> {"down", "recovering", "status", "fetch",
                              "recovered", "up"}]
      /\ last_index' \in [Server -> Int] /\ committed_index' \in [Server -> Int]
  BY <1>0, <1>1 DEF RecoverFetch
<1>8. UNCHANGED <<erq, expert, primary_id, replica_stubs, connvars, clientvars,
                  bounds>>
  BY DEF RecoverFetch
<1> QED BY <1>5, <1>6, <1>7, <1>8
    DEF TypeInv, TypeOK, OrderInHand, Locked, connvars, clientvars, bounds

(* Every step keeps the types.                                             *)
LEMMA NextType == TypeInv /\ [Next]_vars => TypeInv'
<1> SUFFICES ASSUME TypeInv, [Next]_vars PROVE TypeInv'
  OBVIOUS
<1>1. CASE UNCHANGED vars
  BY <1>1 DEF vars, TypeInv, TypeOK, OrderInHand, Locked,
              logvars, connvars, clientvars, bounds
<1>2. ASSUME NEW s \in Server, ExpertThread(s) PROVE TypeInv'
  BY <1>2, ExpertTakeType, ExpertConnectType, ExpertRegisteredType,
     ExpertConnectedType, ExpertSendType, ExpertAckedType, ExpertFinishType
     DEF ExpertThread
<1>3. ASSUME NEW s \in Server, Recover(s) PROVE TypeInv'
  BY <1>3, RecoverConnectType, RecoverStatusType, RecoverFetchType DEF Recover
<1>4. ASSUME NEW c \in Conn, EngineerThread(c) PROVE TypeInv'
  BY <1>4, EngineerType, EngineerAppendType DEF EngineerThread
<1> QED BY <1>1, <1>2, <1>3, <1>4, OrderType, CrashType, StartType
    DEF Next, ServerNext

(* Every field, local and message keeps its C++ type through every         *)
(* interleaving, crash and restart.                                        *)
THEOREM TypeCorrect == Spec => []TypeOK
<1>1. TypeInv => TypeOK
  BY DEF TypeInv
<1> QED BY <1>1, InitType, NextType, PTL DEF Spec

-----------------------------------------------------------------------------
(* The log file.  An answered order is on disk because the expert logs an  *)
(* order when it takes it, before it does anything else with it.           *)

InHandLogged ==
  \A s \in Server : Locked(s) => expert[s].op \in Range(log_file[s])

DiskInv == InHandLogged /\ AckedOnDisk

(* An appended entry is in, and nothing else goes.                         *)
LEMMA AppendRange ==
  ASSUME NEW T, NEW q \in Seq(T), NEW e \in T
  PROVE  Range(q) \subseteq Range(Append(q, e)) /\ e \in Range(Append(q, e))
  BY AppendProperties, LenProperties DEF Range

(* Nothing ever leaves a log file.                                         *)
LEMMA LogFileGrows ==
  ASSUME TypeInv, [Next]_vars
  PROVE  \A s \in Server : Range(log_file[s]) \subseteq Range(log_file'[s])
<1>0. log_file \in [Server -> Seq(Op)]
  BY DEF TypeInv, TypeOK
<1>1. ASSUME NEW s \in Server, NEW e \in Op,
             log_file' = [log_file EXCEPT ![s] = Append(@, e)]
      PROVE  \A r \in Server : Range(log_file[r]) \subseteq Range(log_file'[r])
  BY <1>0, <1>1, AppendRange
<1>2. CASE UNCHANGED log_file
  BY <1>2
<1>3. ASSUME NEW s \in Server, ExpertTake(s)
      PROVE  \E e \in Op : log_file' = [log_file EXCEPT ![s] = Append(@, e)]
  BY <1>3, HeadTailProperties, OrderIsOp DEF ExpertTake, LogAppend, TypeInv, TypeOK
<1>4. ASSUME NEW c \in Conn, EngineerAppend(c)
      PROVE  /\ c[2] \in Server
             /\ \E e \in Op : log_file' = [log_file EXCEPT ![c[2]] = Append(@, e)]
  <2>1. c[2] \in Server /\ msg[c].op \in Op
    BY DEF TypeInv, TypeOK, Conn, ReplicaRequest
  <2> QED BY <1>4, <2>1 DEF EngineerAppend, LogAppend
<1>5. ASSUME NEW s \in Server, RecoverFetch(s)
      PROVE  \E e \in Op : log_file' = [log_file EXCEPT ![s] = Append(@, e)]
  <2> DEFINE peer == recovery[s].peer
             i    == recovery[s].next
  <2>1. peer \in Server \cup {NoServer} /\ i \in Int /\ i + 1 \in Int
    BY DEF TypeInv, TypeOK, RecoveryState
  <2>2. PICK f \in IF peer = NoServer THEN {[j \in {i + 1} |-> LostRecord]}
                   ELSE Reads(smr_log[peer], i + 1, i + 1) :
          log_file' = [log_file EXCEPT ![s] = Append(@, f[i + 1])]
    BY <1>5 DEF RecoverFetch, LogAppend
  <2>3. f[i + 1] \in Op
    <3>1. CASE peer = NoServer
      BY <2>1, <2>2, <3>1, OrderIsOp
    <3>2. CASE peer # NoServer
      <4>1. smr_log[peer] \in Seq(Op) /\ i + 1 \in i + 1 .. i + 1
        BY <2>1, <3>2 DEF TypeInv, TypeOK
      <4> HIDE DEF peer, i
      <4> QED BY <2>1, <2>2, <3>2, <4>1, ReadsType
    <3> QED BY <3>1, <3>2
  <2> QED BY <2>2, <2>3
<1>6. ASSUME Next PROVE
        \/ UNCHANGED log_file
        \/ \E s \in Server : ExpertTake(s) \/ RecoverFetch(s)
        \/ \E c \in Conn : EngineerAppend(c)
  <2>1. ASSUME NEW s \in Server, ExpertThread(s)
        PROVE  UNCHANGED log_file \/ ExpertTake(s)
    BY <2>1 DEF ExpertThread, ExpertConnect, ExpertRegistered, ExpertConnected,
       ExpertSend, ExpertAcked, ExpertFinish, logvars
  <2>2. ASSUME NEW s \in Server, Recover(s)
        PROVE  UNCHANGED log_file \/ RecoverFetch(s)
    BY <2>2 DEF Recover, RecoverConnect, RecoverNobody, RecoverStatus, Listen, logvars
  <2>3. ASSUME NEW c \in Conn, EngineerThread(c)
        PROVE  UNCHANGED log_file \/ EngineerAppend(c)
    BY <2>3 DEF EngineerThread, EngineerRegister, EngineerReceive, EngineerEof, logvars
  <2>4. ASSUME NEW s \in Server, Crash(s) PROVE UNCHANGED log_file
    BY <2>4 DEF Crash, logvars
  <2>5. ASSUME NEW s \in Server, NEW fromLog \in LogAnswers, Start(s, fromLog)
        PROVE  UNCHANGED log_file
    BY <2>5 DEF Start
  <2>6. ASSUME NEW c \in Customer, NEW s \in Server, Order(c, s)
        PROVE  UNCHANGED log_file
    BY <2>6 DEF Order, logvars
  <2> QED BY <1>6, <2>1, <2>2, <2>3, <2>4, <2>5, <2>6 DEF Next, ServerNext
<1>7. CASE UNCHANGED vars
  BY <1>7 DEF vars, logvars
<1> QED BY <1>1, <1>2, <1>3, <1>4, <1>5, <1>6, <1>7

(* What each step may do to the order in an expert's hands.                *)
LEMMA ExpertSteps ==
  ASSUME TypeInv, [Next]_vars, NEW s \in Server, Locked(s)'
  PROVE  \/ Locked(s) /\ expert'[s].op = expert[s].op
         \/ ExpertTake(s)
<1>0. expert \in [Server -> ExpertState]
  BY DEF TypeInv, TypeOK
<1>1. CASE UNCHANGED expert
  BY <1>1 DEF Locked
<1>2. ASSUME NEW r \in Server, ExpertTake(r)
      PROVE  r = s \/ expert'[s] = expert[s]
  BY <1>0, <1>2 DEF ExpertTake
<1>3. ASSUME NEW r \in Server, NEW pc, NEW i, Locked(r), expert' = Goto(r, pc, i)
      PROVE  Locked(s) /\ expert'[s].op = expert[s].op
  BY <1>0, <1>3 DEF Goto, Locked
<1>4. ASSUME NEW r \in Server, ExpertFinish(r) \/ Crash(r)
      PROVE  Locked(s) /\ expert'[s].op = expert[s].op
  BY <1>0, <1>4 DEF ExpertFinish, Crash, Locked, Idle
<1>5. ASSUME NEW r \in Server,
             \/ ExpertConnect(r) \/ ExpertRegistered(r) \/ ExpertConnected(r)
             \/ ExpertSend(r) \/ ExpertAcked(r)
      PROVE  Locked(r) /\ \E pc, i : expert' = Goto(r, pc, i)
  BY <1>5 DEF ExpertConnect, ExpertRegistered, ExpertConnected, ExpertSend,
              ExpertAcked, Locked
<1>6. ASSUME Next PROVE
        \/ UNCHANGED expert
        \/ \E r \in Server : ExpertThread(r) \/ Crash(r)
  BY <1>6 DEF Next, ServerNext, EngineerThread, Recover, Order,
     EngineerRegister, EngineerReceive, EngineerAppend, EngineerEof, Start,
     RecoverConnect, RecoverNobody, RecoverStatus, RecoverFetch, Listen
<1>7. CASE UNCHANGED vars
  BY <1>1, <1>7 DEF vars
<1> QED BY <1>1, <1>2, <1>3, <1>4, <1>5, <1>6, <1>7 DEF ExpertThread, Locked

(* Every step keeps answered and held orders in the log files.             *)
LEMMA NextDisk == TypeInv /\ DiskInv /\ [Next]_vars => DiskInv'
<1> SUFFICES ASSUME TypeInv, DiskInv, [Next]_vars PROVE DiskInv'
  OBVIOUS
<1>1. InHandLogged'
  <2> SUFFICES ASSUME NEW s \in Server, Locked(s)'
               PROVE  expert'[s].op \in Range(log_file'[s])
    BY DEF InHandLogged
  <2>1. CASE Locked(s) /\ expert'[s].op = expert[s].op
    BY <2>1, LogFileGrows DEF DiskInv, InHandLogged
  <2>2. CASE ExpertTake(s)
    <3> DEFINE op == Head(erq[s])
    <3>1. op \in Op /\ log_file[s] \in Seq(Op)
      BY <2>2, HeadTailProperties, OrderIsOp DEF ExpertTake, TypeInv, TypeOK
    <3>2. expert'[s].op = op /\ log_file'[s] = Append(log_file[s], op)
      BY <2>2 DEF ExpertTake, LogAppend, TypeInv, TypeOK
    <3> HIDE DEF op
    <3> QED BY <3>1, <3>2, AppendRange
  <2> QED BY <2>1, <2>2, ExpertSteps
<1>2. AckedOnDisk'
  <2> SUFFICES ASSUME NEW e \in acked' PROVE e[2] \in Range(log_file'[e[1]])
    BY DEF AckedOnDisk
  <2>1. CASE e \in acked
    <3>1. e[1] \in Server
      BY <2>1 DEF TypeInv, TypeOK
    <3> QED BY <2>1, <3>1, LogFileGrows DEF DiskInv, AckedOnDisk
  <2>2. CASE e \notin acked
    <3>1. PICK s \in Server : ExpertFinish(s)
      <4>1. ASSUME NEW s \in Server, ExpertThread(s)
            PROVE  UNCHANGED acked \/ ExpertFinish(s)
        BY <4>1 DEF ExpertThread, ExpertTake, ExpertConnect, ExpertRegistered,
           ExpertConnected, ExpertSend, ExpertAcked, clientvars
      <4>2. ASSUME NEW s \in Server, Recover(s) PROVE UNCHANGED acked
        BY <4>2 DEF Recover, RecoverConnect, RecoverNobody, RecoverStatus,
           RecoverFetch, Listen, clientvars
      <4>3. ASSUME NEW c \in Conn, EngineerThread(c) PROVE UNCHANGED acked
        BY <4>3 DEF EngineerThread, EngineerRegister, EngineerReceive,
           EngineerAppend, EngineerEof, clientvars
      <4>4. ASSUME NEW s \in Server, Crash(s) PROVE UNCHANGED acked
        BY <4>4 DEF Crash
      <4>5. ASSUME NEW s \in Server, NEW fromLog \in LogAnswers, Start(s, fromLog)
            PROVE  UNCHANGED acked
        BY <4>5 DEF Start, clientvars
      <4>6. ASSUME NEW c \in Customer, NEW s \in Server, Order(c, s)
            PROVE  UNCHANGED acked
        BY <4>6 DEF Order
      <4> QED BY <2>2, <4>1, <4>2, <4>3, <4>4, <4>5, <4>6
          DEF Next, ServerNext, vars, clientvars
    <3>2. e = <<s, expert[s].op>> /\ Locked(s)
      BY <2>2, <3>1 DEF ExpertFinish, Locked
    <3> QED BY <3>2, LogFileGrows DEF DiskInv, InHandLogged
  <2> QED BY <2>1, <2>2
<1> QED BY <1>1, <1>2 DEF DiskInv

(* An order answered to a customer is in the log file of the server that   *)
(* answered, for good: whatever is appended later, and across any number   *)
(* of crashes and restarts.                                                *)
THEOREM AnsweredOrdersOnDisk == Spec => []AckedOnDisk
<1>1. Init => DiskInv
  BY DEF Init, DiskInv, InHandLogged, AckedOnDisk, Locked, Idle
<1>2. DiskInv => AckedOnDisk
  BY DEF DiskInv
<1> QED BY <1>1, <1>2, InitType, NextType, NextDisk, PTL DEF Spec

-----------------------------------------------------------------------------
(* The log file and the log.                                               *)

(* Appending to both keeps them equal, if nobody starts meanwhile.         *)
LEMMA AppendMirror ==
  ASSUME TypeInv, DiskMirrorsMemory, NEW s \in Server, NEW e, LogAppend(s, e),
         \A r \in Server : mode'[r] # "down" => mode[r] # "down"
  PROVE  DiskMirrorsMemory'
<1>1. smr_log \in [Server -> Seq(Op)] /\ log_file \in [Server -> Seq(Op)]
  BY DEF TypeInv, TypeOK
<1> QED BY <1>1 DEF LogAppend, DiskMirrorsMemory

(* A step that touches neither log starts no process, save Start.          *)
LEMMA QuietMirror ==
  ASSUME TypeInv, DiskMirrorsMemory, UNCHANGED <<smr_log, log_file>>,
         \A r \in Server : mode'[r] # "down" => mode[r] # "down"
  PROVE  DiskMirrorsMemory'
  BY DEF DiskMirrorsMemory

(* Every step keeps the log file of a running server equal to its log.     *)
LEMMA NextMirror ==
  ASSUME LogAnswers \subseteq {TRUE}, TypeInv, DiskMirrorsMemory, [Next]_vars
  PROVE  DiskMirrorsMemory'
<1>0. mode \in [Server -> {"down", "recovering", "status", "fetch",
                           "recovered", "up"}]
  BY DEF TypeInv, TypeOK
<1>1. CASE UNCHANGED vars
  BY <1>1, QuietMirror DEF vars, logvars
<1>2. ASSUME NEW s \in Server, ExpertThread(s) PROVE DiskMirrorsMemory'
  <2>1. UNCHANGED mode
    BY <1>2 DEF ExpertThread, ExpertTake, ExpertConnect, ExpertRegistered,
       ExpertConnected, ExpertSend, ExpertAcked, ExpertFinish
  <2>2. CASE ExpertTake(s)
    BY <2>1, <2>2, AppendMirror DEF ExpertTake
  <2>3. CASE ~ExpertTake(s)
    <3>1. UNCHANGED <<smr_log, log_file>>
      BY <1>2, <2>3 DEF ExpertThread, ExpertConnect, ExpertRegistered,
         ExpertConnected, ExpertSend, ExpertAcked, ExpertFinish, logvars
    <3> QED BY <2>1, <3>1, QuietMirror
  <2> QED BY <2>2, <2>3
<1>3. ASSUME NEW c \in Conn, EngineerThread(c) PROVE DiskMirrorsMemory'
  <2>1. UNCHANGED mode
    BY <1>3 DEF EngineerThread, EngineerRegister, EngineerReceive,
       EngineerAppend, EngineerEof
  <2>2. CASE EngineerAppend(c)
    <3>1. c[2] \in Server /\ LogAppend(c[2], msg[c].op)
      BY <2>2 DEF EngineerAppend, Conn
    <3> QED BY <2>1, <3>1, AppendMirror
  <2>3. CASE ~EngineerAppend(c)
    <3>1. UNCHANGED <<smr_log, log_file>>
      BY <1>3, <2>3 DEF EngineerThread, EngineerRegister, EngineerReceive,
         EngineerEof, logvars
    <3> QED BY <2>1, <3>1, QuietMirror
  <2> QED BY <2>2, <2>3
<1>4. ASSUME NEW s \in Server, Recover(s) PROVE DiskMirrorsMemory'
  <2>1. \A r \in Server : mode'[r] # "down" => mode[r] # "down"
    BY <1>0, <1>4 DEF Recover, RecoverConnect, RecoverNobody, RecoverStatus,
       RecoverFetch, Listen
  <2>2. CASE RecoverFetch(s)
    <3>1. PICK e : LogAppend(s, e)
      BY <2>2 DEF RecoverFetch
    <3> QED BY <2>1, <3>1, AppendMirror
  <2>3. CASE ~RecoverFetch(s)
    <3>1. UNCHANGED <<smr_log, log_file>>
      BY <1>4, <2>3 DEF Recover, RecoverConnect, RecoverNobody, RecoverStatus,
         Listen, logvars
    <3> QED BY <2>1, <3>1, QuietMirror
  <2> QED BY <2>2, <2>3
<1>5. ASSUME NEW s \in Server, Crash(s) PROVE DiskMirrorsMemory'
  BY <1>0, <1>5, QuietMirror DEF Crash, logvars
<1>6. ASSUME NEW s \in Server, NEW fromLog \in LogAnswers, Start(s, fromLog)
      PROVE  DiskMirrorsMemory'
  <2>1. smr_log \in [Server -> Seq(Op)]
    BY DEF TypeInv, TypeOK
  <2>2. /\ smr_log' = [smr_log EXCEPT ![s] = log_file[s]]
        /\ log_file' = log_file
        /\ mode' = [mode EXCEPT ![s] = "recovering"]
    BY <1>6 DEF Start
  <2> QED BY <1>0, <2>1, <2>2 DEF DiskMirrorsMemory
<1>7. ASSUME NEW c \in Customer, NEW s \in Server, Order(c, s)
      PROVE  DiskMirrorsMemory'
  BY <1>7, QuietMirror DEF Order, logvars
<1> QED BY <1>1, <1>2, <1>3, <1>4, <1>5, <1>6, <1>7 DEF Next, ServerNext

(* If operators always recover from the log file, the file of a running    *)
(* server is its log, through orders, replication, fetches from a peer and *)
(* crashes: a restart loses nothing the server knew.                       *)
THEOREM LogFileMirrorsMemory ==
  ASSUME LogAnswers \subseteq {TRUE}
  PROVE  Spec => []DiskMirrorsMemory
<1>1. Init => DiskMirrorsMemory
  BY DEF Init, DiskMirrorsMemory
<1>2. TypeInv /\ DiskMirrorsMemory /\ [Next]_vars => DiskMirrorsMemory'
  BY NextMirror
<1> QED BY <1>1, <1>2, InitType, NextType, PTL DEF Spec

-----------------------------------------------------------------------------
(* Orders on their way.  An order is tracked because whatever is queued or *)
(* in an expert's hands is what its customer waits for, and only once.     *)

\* o is the order its customer waits for at s.
Awaited(o, s) == at[o.arg1] = s /\ o.arg2 = sent[o.arg1] - 1

InHand(s, c) == Locked(s) /\ expert[s].op.arg1 = c
Queued(s, c) == \E i \in DOMAIN erq[s] : erq[s][i].arg1 = c

QueuedOnce ==
  \A s \in Server : \A i \in DOMAIN erq[s] :
    /\ Awaited(erq[s][i], s)
    /\ \A j \in DOMAIN erq[s] : erq[s][j].arg1 = erq[s][i].arg1 => i = j

HeldOnce ==
  \A s \in Server : Locked(s) =>
    Awaited(expert[s].op, s) /\ ~Queued(s, expert[s].op.arg1)

NoneLost ==
  \A c \in Customer : at[c] # NoServer =>
    InHand(at[c], c) \/ Queued(at[c], c)

TrackInv == QueuedOnce /\ HeldOnce /\ NoneLost

(* TrackInv is what OrderTracked says and more.                            *)
LEMMA TrackedOrders == TypeInv /\ TrackInv => OrderTracked
<1> SUFFICES ASSUME TypeInv, TrackInv, NEW c \in Customer, at[c] # NoServer
             PROVE  LET s  == at[c]
                        op == [arg1 |-> c, arg2 |-> sent[c] - 1]
                        queued == {i \in DOMAIN erq[s] : erq[s][i].arg1 = c}
                    IN  IF Locked(s) /\ expert[s].op.arg1 = c
                        THEN expert[s].op = op /\ queued = {}
                        ELSE \E i \in queued : erq[s][i] = op /\ queued = {i}
  BY DEF OrderTracked
<1> DEFINE s  == at[c]
           op == [arg1 |-> c, arg2 |-> sent[c] - 1]
           queued == {i \in DOMAIN erq[s] : erq[s][i].arg1 = c}
<1>0. s \in Server /\ erq[s] \in Seq(OrderOp)
  BY DEF TypeInv, TypeOK
<1>1. \A o \in OrderOp : Awaited(o, s) /\ o.arg1 = c => o = op
  BY DEF OrderOp, Awaited
<1> HIDE DEF s, op
<1>2. CASE InHand(s, c)
  <2>1. expert[s].op \in OrderOp /\ Awaited(expert[s].op, s)
    BY <1>0, <1>2 DEF InHand, TypeInv, OrderInHand, TrackInv, HeldOnce
  <2>2. queued = {}
    BY <1>0, <1>2 DEF InHand, TrackInv, HeldOnce, Queued
  <2>3. expert[s].op = op
    BY <1>1, <1>2, <2>1 DEF InHand
  <2> QED BY <1>2, <2>2, <2>3 DEF InHand, s, op
<1>3. CASE ~InHand(s, c)
  <2>1. PICK i \in DOMAIN erq[s] : erq[s][i].arg1 = c
    BY <1>3 DEF TrackInv, NoneLost, Queued, s
  <2>2. erq[s][i] \in OrderOp
    BY <1>0, ElementOfSeq, LenProperties
  <2>3. Awaited(erq[s][i], s) /\ queued = {i}
    BY <1>0, <2>1 DEF TrackInv, QueuedOnce
  <2>4. erq[s][i] = op
    BY <1>1, <2>1, <2>2, <2>3
  <2> QED BY <1>3, <2>1, <2>3, <2>4 DEF InHand, s, op
<1> QED BY <1>2, <1>3

(* The steps that move an order or change what its customer waits for.     *)
LEMMA MovingSteps ==
  ASSUME TypeInv, [Next]_vars
  PROVE  \/ \E c \in Customer, s \in Server : Order(c, s)
         \/ \E s \in Server : ExpertTake(s) \/ ExpertFinish(s) \/ Crash(s)
         \/ /\ UNCHANGED <<erq, sent, at>>
            /\ \A s \in Server : /\ Locked(s)' = Locked(s)
                                 /\ expert'[s].op = expert[s].op
<1>0. expert \in [Server -> ExpertState]
  BY DEF TypeInv, TypeOK
<1>1. CASE UNCHANGED <<erq, sent, at, expert>>
  BY <1>1 DEF Locked
<1>2. ASSUME NEW r \in Server, UNCHANGED <<erq, sent, at>>, Locked(r),
             NEW pc \in {"connect", "register", "send", "await"}, NEW i,
             expert' = Goto(r, pc, i)
      PROVE  \A s \in Server : /\ Locked(s)' = Locked(s)
                               /\ expert'[s].op = expert[s].op
  BY <1>0, <1>2 DEF Goto, Locked
<1>3. ASSUME NEW r \in Server,
             \/ ExpertConnect(r) \/ ExpertRegistered(r) \/ ExpertConnected(r)
             \/ ExpertSend(r) \/ ExpertAcked(r)
      PROVE  /\ UNCHANGED <<erq, sent, at>> /\ Locked(r)
             /\ \E pc \in {"connect", "register", "send", "await"} :
                  \E i : expert' = Goto(r, pc, i)
  BY <1>3 DEF ExpertConnect, ExpertRegistered, ExpertConnected, ExpertSend,
              ExpertAcked, Locked, clientvars
<1>4. ASSUME NEW c \in Conn, EngineerThread(c)
      PROVE  UNCHANGED <<erq, sent, at, expert>>
  BY <1>4 DEF EngineerThread, EngineerRegister, EngineerReceive, EngineerAppend,
              EngineerEof, clientvars
<1>5. ASSUME NEW s \in Server, Recover(s)
      PROVE  UNCHANGED <<erq, sent, at, expert>>
  BY <1>5 DEF Recover, RecoverConnect, RecoverNobody, RecoverStatus,
              RecoverFetch, Listen, clientvars
<1>6. ASSUME NEW s \in Server, NEW fromLog, Start(s, fromLog)
      PROVE  UNCHANGED <<erq, sent, at, expert>>
  BY <1>6 DEF Start, clientvars
<1>7. CASE UNCHANGED vars
  BY <1>1, <1>7 DEF vars, clientvars
<1> QED BY <1>1, <1>2, <1>3, <1>4, <1>5, <1>6, <1>7
        DEF Next, ServerNext, ExpertThread

(* A customer without an outstanding order queues its next one.            *)
LEMMA OrderTrack ==
  ASSUME TypeInv, TrackInv, NEW c \in Customer, NEW s \in Server, Order(c, s)
  PROVE  TrackInv'
<1> PICK op : op = [arg1 |-> c, arg2 |-> sent[c]]
  OBVIOUS
<1>0. /\ erq \in [Server -> Seq(OrderOp)] /\ OrderInHand
      /\ sent \in [Customer -> 0 .. NumOrders]
      /\ at \in [Customer -> Server \cup {NoServer}]
      /\ \A o \in OrderOp : o.arg1 \in Customer
  BY DEF TypeInv, TypeOK, OrderOp
<1>1. /\ op \in OrderOp
      /\ at[c] = NoServer
      /\ at' = [at EXCEPT ![c] = s] /\ sent' = [sent EXCEPT ![c] = sent[c] + 1]
      /\ erq' = [erq EXCEPT ![s] = Append(erq[s], op)]
      /\ expert' = expert
  BY <1>0, CustomerAssumption DEF Order, OrderOp
<1>2. op.arg1 = c /\ op.arg2 = sent'[c] - 1
  BY <1>0, <1>1, CustomerAssumption
<1>3. /\ DOMAIN erq'[s] = DOMAIN erq[s] \cup {Len(erq[s]) + 1}
      /\ \A i \in DOMAIN erq[s] : erq'[s][i] = erq[s][i]
      /\ erq'[s][Len(erq[s]) + 1] = op
      /\ Len(erq[s]) + 1 \notin DOMAIN erq[s]
  BY <1>0, <1>1, AppendProperties, LenProperties
<1>4. \A r \in Server : \A i \in DOMAIN erq[r] : erq[r][i] \in OrderOp
  BY <1>0, ElementOfSeq, LenProperties
<1>5. \A r \in Server, o \in OrderOp :
        Awaited(o, r) => o.arg1 # c /\ Awaited(o, r)'
  BY <1>0, <1>1, ServerAssumption DEF Awaited
<1>6. Awaited(op, s)'
  BY <1>0, <1>1, <1>2 DEF Awaited
<1>7. QueuedOnce'
  <2> SUFFICES ASSUME NEW r \in Server, NEW i \in DOMAIN erq'[r]
               PROVE  /\ Awaited(erq[r][i], r)'
                      /\ \A j \in DOMAIN erq'[r] :
                           erq'[r][j].arg1 = erq'[r][i].arg1 => i = j
    BY DEF QueuedOnce, Awaited
  <2>1. CASE r # s
    BY <1>0, <1>1, <1>4, <1>5, <2>1 DEF TrackInv, QueuedOnce
  <2>2. CASE r = s
    <3>1. \A j \in DOMAIN erq[s] :
            Awaited(erq[s][j], s)' /\ erq[s][j].arg1 # c
      BY <1>3, <1>4, <1>5 DEF TrackInv, QueuedOnce, Awaited
    <3>2. Awaited(erq[r][i], r)'
      BY <1>3, <1>6, <2>2, <3>1 DEF Awaited
    <3>3. \A j \in DOMAIN erq'[s] : erq'[s][j].arg1 = erq'[s][i].arg1 => i = j
      BY <1>2, <1>3, <2>2, <3>1 DEF TrackInv, QueuedOnce
    <3> QED BY <2>2, <3>2, <3>3
  <2> QED BY <2>1, <2>2
<1>8. HeldOnce'
  <2> SUFFICES ASSUME NEW r \in Server, Locked(r)'
               PROVE  /\ Awaited(expert[r].op, r)'
                      /\ ~Queued(r, expert[r].op.arg1)'
    BY <1>1 DEF HeldOnce, Awaited, Queued
  <2>1. /\ Locked(r) /\ expert[r].op \in OrderOp
        /\ Awaited(expert[r].op, r) /\ ~Queued(r, expert[r].op.arg1)
    BY <1>0, <1>1 DEF Locked, OrderInHand, TrackInv, HeldOnce
  <2>2. expert[r].op.arg1 # c /\ Awaited(expert[r].op, r)'
    BY <1>1, <1>5, <2>1 DEF Awaited
  <2>3. ~Queued(r, expert[r].op.arg1)'
    <3>1. CASE r = s
      BY <1>1, <1>2, <1>3, <2>1, <2>2, <3>1 DEF Queued
    <3>2. CASE r # s
      BY <1>0, <1>1, <2>1, <3>2 DEF Queued
    <3> QED BY <3>1, <3>2
  <2> QED BY <2>2, <2>3
<1>9. NoneLost'
  <2> SUFFICES ASSUME NEW d \in Customer, at'[d] # NoServer
               PROVE  InHand(at[d], d)' \/ Queued(at[d], d)'
    BY DEF NoneLost
  <2>1. CASE d = c
    <3>1. at'[d] = s
      BY <1>0, <1>1, <2>1
    <3> QED BY <1>2, <1>3, <2>1, <3>1 DEF Queued
  <2>2. CASE d # c
    <3>1. at'[d] = at[d] /\ at[d] \in Server
      BY <1>0, <1>1, <2>2
    <3>2. InHand(at[d], d) \/ Queued(at[d], d)
      BY <3>1, ServerAssumption DEF TrackInv, NoneLost
    <3> QED BY <1>0, <1>1, <1>3, <3>1, <3>2 DEF InHand, Locked, Queued
  <2> QED BY <2>1, <2>2
<1> QED BY <1>7, <1>8, <1>9 DEF TrackInv
(* The expert takes the head of its queue into its hands.                  *)
LEMMA TakeTrack ==
  ASSUME TypeInv, TrackInv, NEW s \in Server, ExpertTake(s) PROVE TrackInv'
<1> PICK op : op = Head(erq[s])
  OBVIOUS
<1>0. /\ erq \in [Server -> Seq(OrderOp)]
      /\ expert \in [Server -> ExpertState]
      /\ at \in [Customer -> Server \cup {NoServer}]
  BY DEF TypeInv, TypeOK
<1>1. /\ erq[s] # <<>> /\ ~Locked(s)
      /\ erq' = [erq EXCEPT ![s] = Tail(erq[s])]
      /\ expert' = [expert EXCEPT ![s] = [pc |-> "connect", i |-> 1, op |-> op]]
      /\ UNCHANGED <<sent, at>>
  BY DEF ExpertTake, Locked, clientvars
<1>2. /\ DOMAIN erq[s] = 1 .. Len(erq[s]) /\ Len(erq[s]) \in Nat
      /\ 1 \in DOMAIN erq[s] /\ erq[s][1] = op
      /\ DOMAIN erq'[s] = 1 .. Len(erq[s]) - 1
      /\ \A i \in DOMAIN erq'[s] :
           i + 1 \in DOMAIN erq[s] /\ erq'[s][i] = erq[s][i + 1]
  BY <1>0, <1>1, HeadTailProperties, LenProperties, EmptySeq
<1>3. /\ \A i \in DOMAIN erq[s] : i # 1 => i - 1 \in DOMAIN erq'[s]
      /\ \A i \in DOMAIN erq[s] : i # 1 => erq'[s][i - 1] = erq[s][i]
  BY <1>2
<1>4. QueuedOnce'
  <2> SUFFICES ASSUME NEW r \in Server, NEW i \in DOMAIN erq'[r]
               PROVE  /\ Awaited(erq[r][i], r)'
                      /\ \A j \in DOMAIN erq'[r] :
                           erq'[r][j].arg1 = erq'[r][i].arg1 => i = j
    BY DEF QueuedOnce, Awaited
  <2>1. CASE r # s
    BY <1>0, <1>1, <2>1 DEF TrackInv, QueuedOnce, Awaited
  <2>2. CASE r = s
    <3>1. Awaited(erq[r][i], r)'
      BY <1>1, <1>2, <2>2 DEF TrackInv, QueuedOnce, Awaited
    <3>2. ASSUME NEW j \in DOMAIN erq'[s], erq'[s][j].arg1 = erq'[s][i].arg1
          PROVE  i = j
      <4>1. i + 1 \in DOMAIN erq[s] /\ j + 1 \in DOMAIN erq[s]
        BY <1>2, <2>2
      <4>2. erq[s][i + 1].arg1 = erq[s][j + 1].arg1
        BY <1>2, <2>2, <3>2
      <4>3. \A k, l \in DOMAIN erq[s] : erq[s][k].arg1 = erq[s][l].arg1 => k = l
        BY DEF TrackInv, QueuedOnce
      <4>4. i + 1 = j + 1
        BY <4>1, <4>2, <4>3
      <4> QED BY <1>2, <2>2, <4>4
    <3> QED BY <2>2, <3>1, <3>2
  <2> QED BY <2>1, <2>2
<1>5. HeldOnce'
  <2> SUFFICES ASSUME NEW r \in Server, Locked(r)'
               PROVE  /\ Awaited(expert[r].op, r)'
                      /\ ~Queued(r, expert[r].op.arg1)'
    BY DEF HeldOnce, Awaited, Queued
  <2>1. CASE r = s
    <3>1. expert'[r].op = op
      BY <1>0, <1>1, <2>1
    <3>2. Awaited(op, s)
      BY <1>2 DEF TrackInv, QueuedOnce
    <3>3. \A i \in DOMAIN erq'[s] : erq'[s][i].arg1 # op.arg1
      <4> SUFFICES ASSUME NEW i \in DOMAIN erq'[s], erq'[s][i].arg1 = op.arg1
                   PROVE  FALSE
        OBVIOUS
      <4>1. i + 1 \in DOMAIN erq[s] /\ erq[s][i + 1].arg1 = erq[s][1].arg1
        BY <1>2
      <4>2. 1 = i + 1
        BY <1>2, <4>1 DEF TrackInv, QueuedOnce
      <4> QED BY <1>2, <4>2
    <3> QED BY <1>1, <2>1, <3>1, <3>2, <3>3 DEF Awaited, Queued
  <2>2. CASE r # s
    <3>1. Locked(r) /\ expert'[r] = expert[r] /\ erq'[r] = erq[r]
      BY <1>0, <1>1, <2>2 DEF Locked
    <3> QED BY <1>1, <3>1 DEF TrackInv, HeldOnce, Awaited, Queued
  <2> QED BY <2>1, <2>2
<1>6. NoneLost'
  <2> SUFFICES ASSUME NEW d \in Customer, at[d] # NoServer
               PROVE  InHand(at[d], d)' \/ Queued(at[d], d)'
    BY <1>1 DEF NoneLost
  <2>0. at[d] \in Server /\ at'[d] = at[d]
    BY <1>0, <1>1
  <2>1. CASE InHand(at[d], d)
    <3>1. at[d] # s
      BY <1>1, <2>1 DEF InHand
    <3> QED BY <1>0, <1>1, <2>0, <2>1, <3>1 DEF InHand, Locked
  <2>2. CASE Queued(at[d], d) /\ at[d] # s
    BY <1>0, <1>1, <2>0, <2>2 DEF Queued
  <2>3. CASE Queued(at[d], d) /\ at[d] = s
    <3>1. PICK i \in DOMAIN erq[s] : erq[s][i].arg1 = d
      BY <2>3 DEF Queued
    <3>2. CASE i = 1
      <4>1. Locked(s)' /\ expert'[s].op.arg1 = d
        BY <1>0, <1>1, <1>2, <3>1, <3>2 DEF Locked
      <4> QED BY <2>0, <2>3, <4>1 DEF InHand
    <3>3. CASE i # 1
      BY <1>3, <2>0, <2>3, <3>1, <3>3 DEF Queued
    <3> QED BY <3>2, <3>3
  <2> QED BY <2>1, <2>2, <2>3 DEF TrackInv, NoneLost
<1> QED BY <1>4, <1>5, <1>6 DEF TrackInv

(* The order in hand is answered; nobody else waits for it.                *)
LEMMA FinishTrack ==
  ASSUME TypeInv, TrackInv, NEW s \in Server, ExpertFinish(s) PROVE TrackInv'
<1> PICK op : op = expert[s].op
  OBVIOUS
<1>0. /\ erq \in [Server -> Seq(OrderOp)] /\ OrderInHand
      /\ expert \in [Server -> ExpertState]
      /\ at \in [Customer -> Server \cup {NoServer}]
      /\ \A o \in OrderOp : o.arg1 \in Customer
  BY DEF TypeInv, TypeOK, OrderOp
<1>1. /\ Locked(s) /\ op \in OrderOp
      /\ at' = [at EXCEPT ![op.arg1] = NoServer]
      /\ expert' = [expert EXCEPT ![s] = Idle]
      /\ UNCHANGED <<erq, sent>>
  BY <1>0 DEF ExpertFinish, Locked, OrderInHand
<1>2. Awaited(op, s) /\ ~Queued(s, op.arg1)
  BY <1>1 DEF TrackInv, HeldOnce
<1>3. \A r \in Server : \A i \in DOMAIN erq[r] : erq[r][i] \in OrderOp
  BY <1>0, ElementOfSeq, LenProperties
<1>4. \A r \in Server, o \in OrderOp :
        Awaited(o, r) /\ o.arg1 # op.arg1 => Awaited(o, r)'
  BY <1>0, <1>1 DEF Awaited
<1>5. QueuedOnce'
  <2> SUFFICES ASSUME NEW r \in Server, NEW i \in DOMAIN erq[r]
               PROVE  Awaited(erq[r][i], r)'
    BY <1>1 DEF TrackInv, QueuedOnce, Awaited
  <2>1. Awaited(erq[r][i], r)
    BY DEF TrackInv, QueuedOnce
  <2>2. erq[r][i].arg1 # op.arg1
    BY <1>2, <2>1 DEF Awaited, Queued
  <2> QED BY <1>1, <1>3, <1>4, <2>1, <2>2 DEF Awaited
<1>6. HeldOnce'
  <2> SUFFICES ASSUME NEW r \in Server, Locked(r)'
               PROVE  /\ Awaited(expert[r].op, r)'
                      /\ ~Queued(r, expert[r].op.arg1)'
    BY DEF HeldOnce, Awaited, Queued
  <2>1. r # s /\ expert'[r] = expert[r] /\ Locked(r)
    BY <1>0, <1>1 DEF Locked, Idle
  <2>2. /\ expert[r].op \in OrderOp
        /\ Awaited(expert[r].op, r) /\ ~Queued(r, expert[r].op.arg1)
    BY <1>0, <2>1 DEF OrderInHand, TrackInv, HeldOnce
  <2>3. expert[r].op.arg1 # op.arg1
    BY <1>2, <2>1, <2>2 DEF Awaited
  <2> QED BY <1>1, <1>4, <2>1, <2>2, <2>3 DEF Awaited, Queued
<1>7. NoneLost'
  <2> SUFFICES ASSUME NEW d \in Customer, at'[d] # NoServer
               PROVE  InHand(at[d], d)' \/ Queued(at[d], d)'
    BY DEF NoneLost
  <2>1. d # op.arg1 /\ at'[d] = at[d]
    BY <1>0, <1>1
  <2>2. InHand(at[d], d) \/ Queued(at[d], d)
    BY <2>1 DEF TrackInv, NoneLost
  <2>3. CASE InHand(at[d], d)
    <3>1. at[d] # s /\ at[d] \in Server
      BY <1>0, <2>1, <2>3 DEF InHand
    <3> QED BY <1>0, <1>1, <2>1, <2>3, <3>1 DEF InHand, Locked
  <2>4. CASE Queued(at[d], d)
    BY <1>1, <2>1, <2>4 DEF Queued
  <2> QED BY <2>2, <2>3, <2>4
<1> QED BY <1>5, <1>6, <1>7 DEF TrackInv

(* A crash drops the orders at its server with the customers' claim.       *)
LEMMA CrashTrack ==
  ASSUME TypeInv, TrackInv, NEW s \in Server, Crash(s) PROVE TrackInv'
<1>0. /\ erq \in [Server -> Seq(OrderOp)] /\ OrderInHand
      /\ expert \in [Server -> ExpertState]
      /\ at \in [Customer -> Server \cup {NoServer}]
      /\ \A o \in OrderOp : o.arg1 \in Customer
  BY DEF TypeInv, TypeOK, OrderOp
<1>1. /\ erq' = [erq EXCEPT ![s] = <<>>]
      /\ expert' = [expert EXCEPT ![s] = Idle]
      /\ sent' = [c \in Customer |-> IF at[c] = s THEN NumOrders ELSE sent[c]]
      /\ at' = [c \in Customer |-> IF at[c] = s THEN NoServer ELSE at[c]]
  BY DEF Crash
<1>2. \A r \in Server : \A i \in DOMAIN erq[r] : erq[r][i] \in OrderOp
  BY <1>0, ElementOfSeq, LenProperties
<1>3. \A r \in Server \ {s}, o \in OrderOp : Awaited(o, r) => Awaited(o, r)'
  BY <1>0, <1>1 DEF Awaited
<1>4. /\ DOMAIN erq'[s] = {} /\ ~Locked(s)'
      /\ \A r \in Server \ {s} : /\ erq'[r] = erq[r]
                                 /\ expert'[r] = expert[r]
  BY <1>0, <1>1 DEF Locked, Idle
<1>5. QueuedOnce'
  <2> SUFFICES ASSUME NEW r \in Server \ {s}, NEW i \in DOMAIN erq[r]
               PROVE  Awaited(erq[r][i], r)'
    BY <1>4 DEF TrackInv, QueuedOnce, Awaited
  <2>1. Awaited(erq[r][i], r)
    BY DEF TrackInv, QueuedOnce
  <2> QED BY <1>2, <1>3, <1>4, <2>1 DEF Awaited
<1>6. HeldOnce'
  <2> SUFFICES ASSUME NEW r \in Server, Locked(r)'
               PROVE  /\ Awaited(expert[r].op, r)'
                      /\ ~Queued(r, expert[r].op.arg1)'
    BY DEF HeldOnce, Awaited, Queued
  <2>1. r # s /\ expert'[r] = expert[r] /\ erq'[r] = erq[r] /\ Locked(r)
    BY <1>4 DEF Locked
  <2>2. /\ expert[r].op \in OrderOp
        /\ Awaited(expert[r].op, r) /\ ~Queued(r, expert[r].op.arg1)
    BY <1>0, <2>1 DEF OrderInHand, TrackInv, HeldOnce
  <2> QED BY <1>3, <2>1, <2>2 DEF Awaited, Queued
<1>7. NoneLost'
  <2> SUFFICES ASSUME NEW d \in Customer, at'[d] # NoServer
               PROVE  InHand(at[d], d)' \/ Queued(at[d], d)'
    BY DEF NoneLost
  <2>1. at'[d] = at[d] /\ at[d] \in Server \ {s}
    BY <1>0, <1>1
  <2>2. InHand(at[d], d) \/ Queued(at[d], d)
    BY <2>1, ServerAssumption DEF TrackInv, NoneLost
  <2> QED BY <1>4, <2>1, <2>2 DEF InHand, Locked, Queued
<1> QED BY <1>5, <1>6, <1>7 DEF TrackInv

(* Nothing is in the queues at the start.                                  *)
LEMMA InitTrack == Init => TrackInv
  BY EmptySeq DEF Init, TrackInv, QueuedOnce, HeldOnce, NoneLost, Locked, Idle

(* Every step keeps track of the orders.                                   *)
LEMMA NextTrack == TypeInv /\ TrackInv /\ [Next]_vars => TrackInv'
<1> SUFFICES ASSUME TypeInv, TrackInv, [Next]_vars PROVE TrackInv'
  OBVIOUS
<1>1. CASE /\ UNCHANGED <<erq, sent, at>>
           /\ \A s \in Server : /\ Locked(s)' = Locked(s)
                                /\ expert'[s].op = expert[s].op
  <2>1. QueuedOnce' /\ HeldOnce'
    BY <1>1 DEF TrackInv, QueuedOnce, HeldOnce, Awaited, Queued
  <2>2. NoneLost'
    <3> SUFFICES ASSUME NEW d \in Customer, at[d] # NoServer
                 PROVE  InHand(at[d], d)' \/ Queued(at[d], d)'
      BY <1>1 DEF NoneLost
    <3>1. at[d] \in Server /\ (InHand(at[d], d) \/ Queued(at[d], d))
      BY DEF TypeInv, TypeOK, TrackInv, NoneLost
    <3> QED BY <1>1, <3>1 DEF InHand, Queued
  <2> QED BY <2>1, <2>2 DEF TrackInv
<1> QED BY <1>1, MovingSteps, OrderTrack, TakeTrack, FinishTrack, CrashTrack

(* An order a customer waits for is at its server exactly once, in the     *)
(* queue or in the expert's hands, until it is answered or the server      *)
(* dies: no order is lost between the threads, and none is run twice.      *)
THEOREM NoOrderLostOrDoubled == Spec => []OrderTracked
  BY InitTrack, NextTrack, TrackedOrders, InitType, NextType, PTL DEF Spec

-----------------------------------------------------------------------------
(* The protocol on a connection, in any cluster.  While an expert goes     *)
(* from stub to stub nothing is in flight on its open connections, because *)
(* each stub is a connection of its own that it keeps open.                *)

StubsOpen ==
  \A s \in Server : \A j \in 1 .. Len(replica_stubs[s]) :
    replica_stubs[s][j] \in Conn =>
      replica_stubs[s][j][1] = s /\ open[replica_stubs[s][j]]

AppendQuiet == \A c \in Conn : eng[c] = "append" => wire[c] = "empty"

StubInUse ==
  \A s \in Server :
    /\ expert[s].pc = "register" =>
         replica_stubs[s] # <<>> /\ Last(replica_stubs[s]) \in Conn
    /\ expert[s].pc = "await" =>
         /\ expert[s].i <= Len(replica_stubs[s])
         /\ replica_stubs[s][expert[s].i] \in Conn

ProtocolInv == StubsOpen /\ AppendQuiet /\ StubInUse /\ OneRequestAtATime

(* A closed stub is no connection.                                         *)
LEMMA ClosedNotConn == ClosedStub \notin Conn /\ \A c \in Conn : c[1] \in Server /\ c[2] \in Server /\ c[1] # c[2]
  BY DEF ClosedStub, Conn

(* What the steps of the protocol read and write has its type.             *)
LEMMA ProtocolTypes ==
  ASSUME TypeInv
  PROVE  /\ expert \in [Server -> ExpertState]
         /\ replica_stubs \in [Server -> Seq(Conn \cup {ClosedStub})]
         /\ eng \in [Conn -> {"none", "order", "backup", "append"}]
         /\ wire \in [Conn -> {"empty", "register", "request", "ack"}]
         /\ open \in [Conn -> BOOLEAN]
         /\ \A s \in Server : /\ Len(replica_stubs[s]) \in Nat
                              /\ expert[s].i \in Nat \ {0}
                              /\ \A j \in 1 .. Len(replica_stubs[s]) :
                                   replica_stubs[s][j] \in Conn \cup {ClosedStub}
<1>1. /\ expert \in [Server -> ExpertState]
      /\ replica_stubs \in [Server -> Seq(Conn \cup {ClosedStub})]
      /\ eng \in [Conn -> {"none", "order", "backup", "append"}]
      /\ wire \in [Conn -> {"empty", "register", "request", "ack"}]
      /\ open \in [Conn -> BOOLEAN]
  BY DEF TypeInv, TypeOK
<1>2. ASSUME NEW s \in Server
      PROVE  /\ Len(replica_stubs[s]) \in Nat
             /\ \A j \in 1 .. Len(replica_stubs[s]) :
                  replica_stubs[s][j] \in Conn \cup {ClosedStub}
  BY <1>1, LenProperties, ElementOfSeq
<1> QED BY <1>1, <1>2 DEF ExpertState

(* Moving on is the only change to the experts.                            *)
LEMMA GotoShape ==
  ASSUME TypeInv, NEW s \in Server, NEW p, NEW i, expert' = Goto(s, p, i)
  PROVE  /\ expert'[s].pc = p /\ expert'[s].i = i /\ expert'[s].op = expert[s].op
         /\ \A t \in Server \ {s} : expert'[t] = expert[t]
  BY ProtocolTypes DEF Goto

(* The expert skips a peer that is down, or opens a connection to it.      *)
LEMMA ConnectShape ==
  ASSUME TypeInv, NEW s \in Server, ExpertConnect(s)
  PROVE  LET r == Replicas[s][expert[s].i]
             q == replica_stubs[s]
         IN /\ r \in Server \ {s} /\ expert[s].i \in 1 .. Len(Replicas[s])
            /\ \/ /\ ~Up(r) /\ expert' = Goto(s, "connect", expert[s].i + 1)
                  /\ UNCHANGED <<replica_stubs, connvars>>
               \/ /\ Up(r) /\ expert' = Goto(s, "register", expert[s].i)
                  /\ \E c \in Conn :
                       /\ c[1] = s /\ c[2] = r /\ eng[c] = "none"
                       /\ eng' = [eng EXCEPT ![c] = "order"]
                       /\ wire' = [wire EXCEPT ![c] = "register"]
                       /\ open' = [open EXCEPT ![c] = TRUE]
                       /\ Len(replica_stubs'[s]) = Len(q) + 1
                       /\ replica_stubs'[s][Len(q) + 1] = c
                       /\ \A j \in 1 .. Len(q) :
                            \/ replica_stubs'[s][j] = q[j]
                            \/ q[j] = ClosedStub /\ replica_stubs'[s][j] = c
                  /\ \A t \in Server \ {s} : replica_stubs'[t] = replica_stubs[t]
                  /\ UNCHANGED msg
<1> DEFINE r == Replicas[s][expert[s].i]
           q == replica_stubs[s]
<1>0. /\ replica_stubs \in [Server -> Seq(Conn \cup {ClosedStub})]
      /\ q \in Seq(Conn \cup {ClosedStub}) /\ Len(q) \in Nat
      /\ expert[s].i \in Nat \ {0}
  BY ProtocolTypes
<1>1. Replicas[s] \in Seq(Server) /\ s \notin Range(Replicas[s])
  BY ServerAssumption
<1>2. expert[s].i \in 1 .. Len(Replicas[s])
  <2>1. Len(Replicas[s]) \in Nat
    BY <1>1, LenProperties
  <2>2. expert[s].i <= Len(Replicas[s])
    BY DEF ExpertConnect
  <2> QED BY <1>0, <2>1, <2>2
<1>3. r \in Server \ {s}
  BY <1>1, <1>2, ElementOfSeq, LenProperties DEF Range
<1>4. CASE /\ ~Up(r) /\ expert' = Goto(s, "connect", expert[s].i + 1)
           /\ UNCHANGED <<replica_stubs, connvars>>
  BY <1>2, <1>3, <1>4
<1>5. CASE Up(r)
  <2>1. PICK k \in Slot, reused \in BOOLEAN :
          LET c == <<s, r, k>>
          IN /\ eng[c] = "none"
             /\ eng' = [eng EXCEPT ![c] = "order"]
             /\ wire' = [wire EXCEPT ![c] = "register"]
             /\ open' = [open EXCEPT ![c] = TRUE]
             /\ replica_stubs' = [replica_stubs EXCEPT ![s] = Append(
                  IF reused THEN ReplaceAll(@, ClosedStub, c) ELSE @, c)]
    BY <1>5 DEF ExpertConnect
  <2>2. PICK c : c = <<s, r, k>>
    OBVIOUS
  <2>3. c \in Conn /\ c[1] = s /\ c[2] = r
    BY <1>3, <2>2 DEF Conn
  <2>4. PICK p : p = IF reused THEN ReplaceAll(q, ClosedStub, c) ELSE q
    OBVIOUS
  <2>5. /\ p \in Seq(Conn \cup {ClosedStub}) /\ Len(p) = Len(q)
        /\ \A j \in 1 .. Len(q) : p[j] = q[j] \/ (q[j] = ClosedStub /\ p[j] = c)
    <3>1. /\ ReplaceAll(q, ClosedStub, c) \in Seq(Conn \cup {ClosedStub})
          /\ Len(ReplaceAll(q, ClosedStub, c)) = Len(q)
          /\ \A j \in 1 .. Len(q) : ReplaceAll(q, ClosedStub, c)[j] =
                                      IF q[j] = ClosedStub THEN c ELSE q[j]
      <4> HIDE DEF q
      <4> QED BY <1>0, <2>3, ReplaceAllType
    <3> HIDE DEF q
    <3> QED BY <1>0, <2>4, <3>1
  <2>6. replica_stubs' = [replica_stubs EXCEPT ![s] = Append(p, c)]
    BY <2>1, <2>2, <2>4
  <2>7. /\ Len(Append(p, c)) = Len(q) + 1 /\ Append(p, c)[Len(q) + 1] = c
        /\ \A j \in 1 .. Len(q) : Append(p, c)[j] = p[j]
    <3> HIDE DEF q
    <3> QED BY <2>3, <2>5, AppendProperties
  <2>8. /\ replica_stubs'[s] = Append(p, c)
        /\ \A t \in Server \ {s} : replica_stubs'[t] = replica_stubs[t]
    BY <1>0, <2>6
  <2>9. /\ c[1] = s /\ c[2] = r /\ eng[c] = "none"
        /\ eng' = [eng EXCEPT ![c] = "order"]
        /\ wire' = [wire EXCEPT ![c] = "register"]
        /\ open' = [open EXCEPT ![c] = TRUE]
    BY <2>1, <2>2, <2>3
  <2>10. /\ Len(replica_stubs'[s]) = Len(q) + 1
         /\ replica_stubs'[s][Len(q) + 1] = c
         /\ \A j \in 1 .. Len(q) :
              \/ replica_stubs'[s][j] = q[j]
              \/ q[j] = ClosedStub /\ replica_stubs'[s][j] = c
    <3> HIDE DEF q
    <3> QED BY <2>5, <2>7, <2>8
  <2>11. expert' = Goto(s, "register", expert[s].i) /\ UNCHANGED msg
    BY <1>5 DEF ExpertConnect
  <2> HIDE DEF q, r
  <2> QED BY <1>2, <1>3, <1>5, <2>3, <2>8, <2>9, <2>10, <2>11, Zenon DEF q, r
<1> QED BY <1>4, <1>5 DEF ExpertConnect

(* The expert leaves the stub it registered with: acknowledged, or closed. *)
LEMMA RegisteredShape ==
  ASSUME TypeInv, ProtocolInv, NEW s \in Server, ExpertRegistered(s)
  PROVE  LET q == replica_stubs[s]
             c == q[Len(q)]
         IN /\ expert[s].pc = "register" /\ Len(q) \in 1 .. Len(q) /\ c \in Conn
            /\ expert' = Goto(s, "connect", expert[s].i + 1)
            /\ UNCHANGED <<eng, msg>>
            /\ \/ /\ wire[c] = "ack" /\ wire' = [wire EXCEPT ![c] = "empty"]
                  /\ UNCHANGED <<open, replica_stubs>>
               \/ /\ eng[c] = "none" /\ open' = [open EXCEPT ![c] = FALSE]
                  /\ Len(replica_stubs'[s]) = Len(q)
                  /\ \A j \in 1 .. Len(q) : replica_stubs'[s][j] =
                       IF q[j] = c THEN ClosedStub ELSE q[j]
                  /\ \A t \in Server \ {s} : replica_stubs'[t] = replica_stubs[t]
                  /\ UNCHANGED wire
<1> PICK q, c : q = replica_stubs[s] /\ c = q[Len(q)]
  OBVIOUS
<1>0. /\ replica_stubs \in [Server -> Seq(Conn \cup {ClosedStub})]
      /\ q \in Seq(Conn \cup {ClosedStub}) /\ Len(q) \in Nat
  BY ProtocolTypes
<1>1. expert[s].pc = "register" /\ expert' = Goto(s, "connect", expert[s].i + 1)
  BY DEF ExpertRegistered
<1>2. q # <<>> /\ Last(q) = c /\ c \in Conn
  BY <1>1 DEF ProtocolInv, StubInUse, Last
<1>3. Len(q) \in 1 .. Len(q)
  BY <1>0, <1>2, EmptySeq
<1>4. \/ /\ wire[c] = "ack" /\ wire' = [wire EXCEPT ![c] = "empty"]
         /\ UNCHANGED <<open, replica_stubs>>
      \/ /\ Dead(c) /\ open' = [open EXCEPT ![c] = FALSE]
         /\ replica_stubs' = [replica_stubs EXCEPT ![s] = ReplaceAll(@, c, ClosedStub)]
         /\ UNCHANGED wire
  BY <1>2 DEF ExpertRegistered
<1>5. /\ Len(ReplaceAll(q, c, ClosedStub)) = Len(q)
      /\ \A j \in 1 .. Len(q) : ReplaceAll(q, c, ClosedStub)[j] =
                                  IF q[j] = c THEN ClosedStub ELSE q[j]
  BY <1>0, ReplaceAllType
<1>6. UNCHANGED <<eng, msg>> /\ (Dead(c) => eng[c] = "none")
  BY <1>2 DEF Dead, ExpertRegistered
<1>7. CASE /\ Dead(c) /\ open' = [open EXCEPT ![c] = FALSE]
           /\ replica_stubs' = [replica_stubs EXCEPT ![s] = ReplaceAll(@, c, ClosedStub)]
           /\ UNCHANGED wire
  <2>1. /\ replica_stubs'[s] = ReplaceAll(q, c, ClosedStub)
        /\ \A t \in Server \ {s} : replica_stubs'[t] = replica_stubs[t]
    BY <1>0, <1>7
  <2> QED BY <1>1, <1>2, <1>3, <1>5, <1>6, <1>7, <2>1
<1>8. CASE /\ wire[c] = "ack" /\ wire' = [wire EXCEPT ![c] = "empty"]
           /\ UNCHANGED <<open, replica_stubs>>
  BY <1>1, <1>2, <1>3, <1>6, <1>8
<1> QED BY <1>4, <1>7, <1>8

(* A new order starts without stubs; their connections are closed.         *)
LEMMA TakeProtocol ==
  ASSUME TypeInv, ProtocolInv, NEW s \in Server, ExpertTake(s)
  PROVE  ProtocolInv'
<1>0. /\ replica_stubs \in [Server -> Seq(Conn \cup {ClosedStub})]
      /\ expert \in [Server -> ExpertState]
      /\ \A t \in Server : \A j \in 1 .. Len(replica_stubs[t]) :
           replica_stubs[t][j] \in Conn \cup {ClosedStub}
  BY ProtocolTypes
<1>1. /\ expert[s].pc = "idle"
      /\ \E op : expert' = [expert EXCEPT ![s] = [pc |-> "connect", i |-> 1, op |-> op]]
      /\ replica_stubs' = [replica_stubs EXCEPT ![s] = <<>>]
      /\ open' = [c \in Conn |-> open[c] /\ c \notin Range(replica_stubs[s])]
      /\ UNCHANGED <<eng, wire>>
  BY DEF ExpertTake, ClearStubs
<1>2. /\ expert'[s].pc = "connect"
      /\ \A t \in Server \ {s} : /\ expert'[t] = expert[t]
                                 /\ replica_stubs'[t] = replica_stubs[t]
      /\ replica_stubs'[s] = <<>>
  BY <1>0, <1>1
<1>3. \A c \in Conn : c[1] # s => c \notin Range(replica_stubs[s])
  BY <1>0, LenProperties DEF ProtocolInv, StubsOpen, Range
<1>4. StubsOpen'
  <2> SUFFICES ASSUME NEW t \in Server, NEW j \in 1 .. Len(replica_stubs'[t]),
                      replica_stubs'[t][j] \in Conn
               PROVE  replica_stubs'[t][j][1] = t /\ open'[replica_stubs'[t][j]]
    BY DEF StubsOpen
  <2>1. t # s /\ replica_stubs'[t] = replica_stubs[t]
    BY <1>2
  <2>2. replica_stubs[t][j][1] = t /\ open[replica_stubs[t][j]]
    BY <2>1 DEF ProtocolInv, StubsOpen
  <2> QED BY <1>1, <1>3, <2>1, <2>2
<1>5. AppendQuiet' /\ StubInUse'
  BY <1>1, <1>2 DEF ProtocolInv, AppendQuiet, StubInUse
<1>6. OneRequestAtATime'
  <2> SUFFICES ASSUME NEW c \in Conn, open'[c], wire[c] # "empty" \/ eng[c] = "append"
               PROVE  LET t == c[1]
                      IN \/ expert'[t].pc = "register" /\ c = Last(replica_stubs'[t])
                         \/ expert'[t].pc = "await" /\ c = replica_stubs'[t][expert'[t].i]
    BY <1>1 DEF OneRequestAtATime
  <2>1. c[1] # s /\ c[1] \in Server /\ open[c]
    BY <1>1, ClosedNotConn DEF ProtocolInv, OneRequestAtATime
  <2> QED BY <2>1, <1>2 DEF ProtocolInv, OneRequestAtATime
<1> QED BY <1>4, <1>5, <1>6 DEF ProtocolInv

(* A new connection is the last stub, and the one the expert waits for.    *)
LEMMA ConnectProtocol ==
  ASSUME TypeInv, ProtocolInv, NEW s \in Server, ExpertConnect(s)
  PROVE  ProtocolInv'
<1> DEFINE q == replica_stubs[s]
<1>0. /\ eng \in [Conn -> {"none", "order", "backup", "append"}]
      /\ wire \in [Conn -> {"empty", "register", "request", "ack"}]
      /\ open \in [Conn -> BOOLEAN]
      /\ Len(q) \in Nat
  BY ProtocolTypes
<1>1. expert[s].pc = "connect"
  BY DEF ExpertConnect
<1>2. \A c \in Conn : c[1] = s /\ open[c] => wire[c] = "empty" /\ eng[c] # "append"
  BY <1>1 DEF ProtocolInv, OneRequestAtATime
<1>3. CASE /\ expert' = Goto(s, "connect", expert[s].i + 1)
           /\ UNCHANGED <<replica_stubs, connvars>>
  <2>1. /\ expert'[s].pc = "connect"
        /\ \A t \in Server \ {s} : expert'[t] = expert[t]
    BY <1>3, GotoShape
  <2>2. UNCHANGED <<eng, wire, open, replica_stubs>>
    BY <1>3 DEF connvars
  <2>3. StubsOpen' /\ AppendQuiet' /\ StubInUse'
    BY <2>1, <2>2 DEF ProtocolInv, StubsOpen, AppendQuiet, StubInUse
  <2>4. OneRequestAtATime'
    BY <1>2, <2>1, <2>2, ClosedNotConn DEF ProtocolInv, OneRequestAtATime
  <2> QED BY <2>3, <2>4 DEF ProtocolInv
<1>4. CASE ~ /\ expert' = Goto(s, "connect", expert[s].i + 1)
             /\ UNCHANGED <<replica_stubs, connvars>>
  <2>1. PICK c \in Conn :
          /\ c[1] = s /\ eng[c] = "none"
          /\ eng' = [eng EXCEPT ![c] = "order"]
          /\ wire' = [wire EXCEPT ![c] = "register"]
          /\ open' = [open EXCEPT ![c] = TRUE]
          /\ Len(replica_stubs'[s]) = Len(q) + 1
          /\ replica_stubs'[s][Len(q) + 1] = c
          /\ \A j \in 1 .. Len(q) :
               replica_stubs'[s][j] = q[j] \/ replica_stubs'[s][j] = c
    BY <1>4, ConnectShape
  <2>2. /\ expert'[s].pc = "register"
        /\ \A t \in Server \ {s} : /\ expert'[t] = expert[t]
                                   /\ replica_stubs'[t] = replica_stubs[t]
    BY <1>4, ConnectShape, GotoShape
  <2>3. StubsOpen'
    <3> SUFFICES ASSUME NEW t \in Server, NEW j \in 1 .. Len(replica_stubs'[t]),
                        replica_stubs'[t][j] \in Conn, replica_stubs'[t][j] # c
                 PROVE  replica_stubs'[t][j][1] = t /\ open[replica_stubs'[t][j]]
      <4>1. ASSUME NEW t \in Server, NEW j \in 1 .. Len(replica_stubs'[t]),
                   replica_stubs'[t][j] = c
            PROVE  t = s
        <5>1. CASE t # s
          BY <2>1, <2>2, <4>1, <5>1 DEF ProtocolInv, StubsOpen
        <5> QED BY <5>1
      <4> QED BY <1>0, <2>1, <4>1 DEF StubsOpen
    <3>1. CASE t = s
      <4>1. j \in 1 .. Len(q) /\ replica_stubs'[t][j] = q[j]
        BY <1>0, <2>1, <3>1
      <4> QED BY <3>1, <4>1 DEF ProtocolInv, StubsOpen
    <3>2. CASE t # s
      BY <2>2, <3>2 DEF ProtocolInv, StubsOpen
    <3> QED BY <3>1, <3>2
  <2>4. AppendQuiet'
    BY <1>0, <2>1 DEF ProtocolInv, AppendQuiet
  <2>5. Last(replica_stubs'[s]) = c /\ replica_stubs'[s] # <<>>
    <3>1. Len(replica_stubs'[s]) # 0
      BY <1>0, <2>1
    <3> QED BY <2>1, <3>1 DEF Last
  <2>6. StubInUse'
    BY <2>2, <2>5 DEF ProtocolInv, StubInUse
  <2>7. OneRequestAtATime'
    <3> SUFFICES ASSUME NEW d \in Conn, open'[d], wire'[d] # "empty" \/ eng'[d] = "append"
                 PROVE  LET t == d[1]
                        IN \/ expert'[t].pc = "register" /\ d = Last(replica_stubs'[t])
                           \/ expert'[t].pc = "await" /\ d = replica_stubs'[t][expert'[t].i]
      BY DEF OneRequestAtATime
    <3>1. CASE d = c
      BY <2>1, <2>2, <2>5, <3>1
    <3>2. CASE d # c
      <4>1. open[d] /\ (wire[d] # "empty" \/ eng[d] = "append")
        BY <1>0, <2>1, <3>2
      <4>2. d[1] \in Server \ {s}
        BY <1>2, <4>1, ClosedNotConn
      <4> QED BY <2>2, <4>1, <4>2 DEF ProtocolInv, OneRequestAtATime
    <3> QED BY <3>1, <3>2
  <2> QED BY <2>3, <2>4, <2>6, <2>7 DEF ProtocolInv
<1> QED BY <1>3, <1>4

(* Acknowledged or closed, the stub is quiet when the expert leaves it.    *)
LEMMA RegisteredProtocol ==
  ASSUME TypeInv, ProtocolInv, NEW s \in Server, ExpertRegistered(s)
  PROVE  ProtocolInv'
<1> DEFINE q == replica_stubs[s]
           c == q[Len(q)]
<1>0. /\ wire \in [Conn -> {"empty", "register", "request", "ack"}]
      /\ open \in [Conn -> BOOLEAN]
      /\ Len(q) \in Nat /\ c \in Conn
      /\ expert[s].pc = "register" /\ UNCHANGED eng
  BY ProtocolTypes, RegisteredShape
<1>1. /\ expert'[s].pc = "connect"
      /\ \A t \in Server \ {s} : expert'[t] = expert[t]
  BY RegisteredShape, GotoShape
<1>2. c[1] = s
  BY <1>0, RegisteredShape DEF ProtocolInv, StubsOpen
<1>3. \A d \in Conn : d[1] = s /\ open[d] /\ d # c => wire[d] = "empty" /\ eng[d] # "append"
  BY <1>0 DEF ProtocolInv, OneRequestAtATime, Last
<1>4. CASE /\ wire[c] = "ack" /\ wire' = [wire EXCEPT ![c] = "empty"]
           /\ UNCHANGED <<open, replica_stubs>>
  <2>1. eng[c] # "append"
    BY <1>0, <1>4 DEF ProtocolInv, AppendQuiet
  <2>2. StubsOpen' /\ StubInUse'
    BY <1>1, <1>4 DEF ProtocolInv, StubsOpen, StubInUse
  <2>3. AppendQuiet'
    BY <1>0, <1>4 DEF ProtocolInv, AppendQuiet
  <2>4. OneRequestAtATime'
    <3> HIDE DEF q, c
    <3> QED BY <1>0, <1>1, <1>3, <1>4, <2>1, ClosedNotConn DEF ProtocolInv, OneRequestAtATime
  <2> QED BY <2>2, <2>3, <2>4 DEF ProtocolInv
<1>5. CASE /\ eng[c] = "none" /\ open' = [open EXCEPT ![c] = FALSE]
           /\ Len(replica_stubs'[s]) = Len(q)
           /\ \A j \in 1 .. Len(q) : replica_stubs'[s][j] =
                IF q[j] = c THEN ClosedStub ELSE q[j]
           /\ \A t \in Server \ {s} : replica_stubs'[t] = replica_stubs[t]
           /\ UNCHANGED wire
  <2>1. StubsOpen'
    <3> SUFFICES ASSUME NEW t \in Server, NEW j \in 1 .. Len(replica_stubs'[t]),
                        replica_stubs'[t][j] \in Conn
                 PROVE  replica_stubs'[t][j][1] = t /\ open'[replica_stubs'[t][j]]
      BY DEF StubsOpen
    <3>1. /\ j \in 1 .. Len(replica_stubs[t])
          /\ replica_stubs'[t][j] = replica_stubs[t][j] /\ replica_stubs[t][j] # c
      <4>1. CASE t = s
        <5> HIDE DEF c
        <5> QED BY <1>5, <4>1, ClosedNotConn
      <4>2. CASE t # s
        <5>1. replica_stubs'[t] = replica_stubs[t]
          BY <1>5, <4>2
        <5>2. replica_stubs[t][j][1] = t
          BY <5>1 DEF ProtocolInv, StubsOpen
        <5> HIDE DEF c
        <5> QED BY <1>2, <4>2, <5>1, <5>2
      <4> QED BY <4>1, <4>2
    <3>2. replica_stubs[t][j][1] = t /\ open[replica_stubs[t][j]]
      BY <3>1 DEF ProtocolInv, StubsOpen
    <3> HIDE DEF c, q
    <3> QED BY <1>0, <1>5, <3>1, <3>2
  <2>2. StubInUse' /\ AppendQuiet'
    BY <1>0, <1>1, <1>5 DEF ProtocolInv, StubInUse, AppendQuiet
  <2>3. OneRequestAtATime'
    <3> HIDE DEF q, c
    <3> QED BY <1>0, <1>1, <1>3, <1>5, ClosedNotConn DEF ProtocolInv, OneRequestAtATime
  <2> QED BY <2>1, <2>2, <2>3 DEF ProtocolInv
<1> QED BY <1>4, <1>5, RegisteredShape

(* The other steps of the expert leave the stubs as they are.              *)
LEMMA SendProtocol ==
  ASSUME TypeInv, ProtocolInv, NEW s \in Server,
         \/ ExpertConnected(s) \/ ExpertSend(s) \/ ExpertAcked(s) \/ ExpertFinish(s)
  PROVE  ProtocolInv'
<1> PICK q, c : q = replica_stubs[s] /\ c = q[expert[s].i]
  OBVIOUS
<1>0. /\ expert \in [Server -> ExpertState]
      /\ eng \in [Conn -> {"none", "order", "backup", "append"}]
      /\ wire \in [Conn -> {"empty", "register", "request", "ack"}]
      /\ expert[s].i \in Nat \ {0} /\ Len(q) \in Nat
  BY ProtocolTypes
<1>1. UNCHANGED <<replica_stubs, open, eng>>
  BY DEF ExpertConnected, ExpertSend, ExpertAcked, ExpertFinish, connvars
<1>2. /\ \A t \in Server \ {s} : expert'[t] = expert[t]
      /\ \/ expert'[s].pc \in {"send", "idle"}
         \/ /\ expert'[s].pc = "await" /\ ExpertSend(s)
            /\ expert'[s].i = expert[s].i
  <2>1. CASE ExpertConnected(s)
    BY <2>1, GotoShape DEF ExpertConnected
  <2>2. CASE ExpertSend(s)
    BY <2>2, GotoShape DEF ExpertSend
  <2>3. CASE ExpertAcked(s)
    BY <2>3, GotoShape DEF ExpertAcked
  <2>4. CASE ExpertFinish(s)
    BY <1>0, <2>4 DEF ExpertFinish, Idle
  <2> QED BY <2>1, <2>2, <2>3, <2>4
<1>3. StubsOpen'
  BY <1>1 DEF ProtocolInv, StubsOpen
<1>4. CASE UNCHANGED wire /\ expert'[s].pc \in {"send", "idle"} /\ expert[s].pc = "send"
  <2>1. AppendQuiet' /\ StubInUse'
    BY <1>1, <1>2, <1>4 DEF ProtocolInv, AppendQuiet, StubInUse
  <2>2. OneRequestAtATime'
    BY <1>1, <1>2, <1>4, ClosedNotConn DEF ProtocolInv, OneRequestAtATime
  <2> QED BY <1>3, <2>1, <2>2 DEF ProtocolInv
<1>5. CASE UNCHANGED wire /\ expert'[s].pc = "send" /\ expert[s].pc = "connect"
  <2>1. AppendQuiet' /\ StubInUse'
    BY <1>1, <1>2, <1>5 DEF ProtocolInv, AppendQuiet, StubInUse
  <2>2. OneRequestAtATime'
    BY <1>1, <1>2, <1>5, ClosedNotConn DEF ProtocolInv, OneRequestAtATime
  <2> QED BY <1>3, <2>1, <2>2 DEF ProtocolInv
<1>6. CASE /\ expert[s].pc = "send" /\ expert'[s].pc = "await"
           /\ expert'[s].i = expert[s].i /\ expert[s].i <= Len(q)
           /\ c \in Conn /\ wire' = [wire EXCEPT ![c] = "request"]
  <2>1. c[1] = s /\ open[c]
    BY <1>0, <1>6 DEF ProtocolInv, StubsOpen
  <2>2. \A d \in Conn : d[1] = s /\ open[d] => wire[d] = "empty" /\ eng[d] # "append"
    BY <1>6 DEF ProtocolInv, OneRequestAtATime
  <2>3. AppendQuiet'
    BY <1>0, <1>1, <1>6, <2>1, <2>2 DEF ProtocolInv, AppendQuiet
  <2>4. StubInUse'
    BY <1>1, <1>2, <1>6 DEF ProtocolInv, StubInUse
  <2>5. OneRequestAtATime'
    <3> SUFFICES ASSUME NEW d \in Conn, open[d], wire'[d] # "empty" \/ eng[d] = "append"
                 PROVE  LET t == d[1]
                        IN \/ expert'[t].pc = "register" /\ d = Last(replica_stubs[t])
                           \/ expert'[t].pc = "await" /\ d = replica_stubs[t][expert'[t].i]
      BY <1>1 DEF OneRequestAtATime
    <3>1. CASE d = c
      BY <1>6, <2>1, <3>1
    <3>2. CASE d # c
      <4>1. d[1] \in Server \ {s} /\ (wire[d] # "empty" \/ eng[d] = "append")
        BY <1>0, <1>6, <2>2, <3>2, ClosedNotConn
      <4> QED BY <1>2, <4>1 DEF ProtocolInv, OneRequestAtATime
    <3> QED BY <3>1, <3>2
  <2> QED BY <1>3, <2>3, <2>4, <2>5 DEF ProtocolInv
<1>7. CASE /\ expert[s].pc = "await" /\ expert'[s].pc = "send" /\ c \in Conn
           /\ wire[c] = "ack" \/ eng[c] = "none"
           /\ wire' = [wire EXCEPT ![c] = "empty"]
  <2>1. eng[c] # "append"
    BY <1>7 DEF ProtocolInv, AppendQuiet
  <2>2. AppendQuiet'
    BY <1>0, <1>1, <1>7 DEF ProtocolInv, AppendQuiet
  <2>3. StubInUse'
    BY <1>1, <1>2, <1>7 DEF ProtocolInv, StubInUse
  <2>4. OneRequestAtATime'
    <3> SUFFICES ASSUME NEW d \in Conn, open[d], wire'[d] # "empty" \/ eng[d] = "append"
                 PROVE  LET t == d[1]
                        IN \/ expert'[t].pc = "register" /\ d = Last(replica_stubs[t])
                           \/ expert'[t].pc = "await" /\ d = replica_stubs[t][expert'[t].i]
      BY <1>1 DEF OneRequestAtATime
    <3>1. d # c /\ (wire[d] # "empty" \/ eng[d] = "append")
      BY <1>0, <1>7, <2>1
    <3>2. d[1] \in Server \ {s}
      BY <1>7, <3>1, ClosedNotConn DEF ProtocolInv, OneRequestAtATime
    <3>3. expert'[d[1]] = expert[d[1]]
      BY <1>2, <3>2
    <3> QED BY <3>1, <3>3 DEF ProtocolInv, OneRequestAtATime
  <2> QED BY <1>3, <2>2, <2>3, <2>4 DEF ProtocolInv
<1>8. CASE ExpertConnected(s)
  BY <1>5, <1>8, GotoShape DEF ExpertConnected, connvars
<1>9. CASE ExpertSend(s)
  <2>1. CASE expert' = Goto(s, "send", expert[s].i + 1) /\ UNCHANGED wire
    BY <1>4, <1>9, <2>1, GotoShape DEF ExpertSend
  <2>2. CASE /\ ~Dead(c) /\ wire' = [wire EXCEPT ![c] = "request"]
             /\ expert' = Goto(s, "await", expert[s].i)
    <3>1. /\ expert[s].pc = "send" /\ expert[s].i <= Len(q)
          /\ expert'[s].pc = "await" /\ expert'[s].i = expert[s].i
      BY <1>9, <2>2, GotoShape DEF ExpertSend
    <3>2. c \in Conn
      BY <1>9, <2>2 DEF ExpertSend, Dead
    <3> QED BY <1>6, <2>2, <3>1, <3>2
  <2> QED BY <1>9, <2>1, <2>2 DEF ExpertSend
<1>10. CASE ExpertAcked(s)
  <2>1. c \in Conn
    BY <1>10 DEF ExpertAcked, ProtocolInv, StubInUse
  <2> QED BY <1>7, <1>10, <2>1, GotoShape DEF ExpertAcked, Dead
<1>11. CASE ExpertFinish(s)
  <2>1. expert'[s].pc = "idle"
    BY <1>0, <1>11 DEF ExpertFinish, Idle
  <2> QED BY <1>4, <1>11, <2>1 DEF ExpertFinish, connvars
<1> QED BY <1>8, <1>9, <1>10, <1>11

(* The engineer works only on what was sent to it, and answers it.         *)
LEMMA EngineerProtocol ==
  ASSUME TypeInv, ProtocolInv, NEW c \in Conn, EngineerThread(c)
  PROVE  ProtocolInv'
<1>0. /\ eng \in [Conn -> {"none", "order", "backup", "append"}]
      /\ wire \in [Conn -> {"empty", "register", "request", "ack"}]
  BY ProtocolTypes
<1>1. UNCHANGED <<replica_stubs, open, expert>>
  BY DEF EngineerThread, EngineerRegister, EngineerReceive, EngineerAppend, EngineerEof
<1>2. StubsOpen' /\ StubInUse'
  BY <1>1 DEF ProtocolInv, StubsOpen, StubInUse
<1>3. /\ \A d \in Conn \ {c} : eng'[d] = eng[d] /\ wire'[d] = wire[d]
      /\ eng'[c] = "append" => wire'[c] = "empty"
      /\ open[c] /\ (wire'[c] # "empty" \/ eng'[c] = "append") =>
           wire[c] # "empty" \/ eng[c] = "append"
  BY <1>0 DEF EngineerThread, EngineerRegister, EngineerReceive, EngineerAppend,
              EngineerEof, Answer
<1>4. AppendQuiet'
  BY <1>3 DEF ProtocolInv, AppendQuiet
<1>5. OneRequestAtATime'
  BY <1>1, <1>3 DEF ProtocolInv, OneRequestAtATime
<1> QED BY <1>2, <1>4, <1>5 DEF ProtocolInv

(* A crash empties the stubs of its server and closes their connections.   *)
LEMMA CrashProtocol ==
  ASSUME TypeInv, ProtocolInv, NEW s \in Server, Crash(s)
  PROVE  ProtocolInv'
<1>0. /\ replica_stubs \in [Server -> Seq(Conn \cup {ClosedStub})]
      /\ expert \in [Server -> ExpertState]
  BY ProtocolTypes
<1>1. /\ expert' = [expert EXCEPT ![s] = Idle]
      /\ replica_stubs' = [replica_stubs EXCEPT ![s] = <<>>]
      /\ eng'  = [c \in Conn |-> IF c[2] = s THEN "none" ELSE eng[c]]
      /\ open' = [c \in Conn |-> open[c] /\ c[1] # s]
      /\ wire' = [c \in Conn |->
           IF c[2] = s \/ (c[1] = s /\ wire[c] = "ack") THEN "empty" ELSE wire[c]]
  BY DEF Crash
<1>2. /\ expert'[s].pc = "idle" /\ replica_stubs'[s] = <<>>
      /\ \A t \in Server \ {s} : /\ expert'[t] = expert[t]
                                 /\ replica_stubs'[t] = replica_stubs[t]
  BY <1>0, <1>1 DEF Idle
<1>3. StubsOpen'
  <2> SUFFICES ASSUME NEW t \in Server, NEW j \in 1 .. Len(replica_stubs'[t]),
                      replica_stubs'[t][j] \in Conn
               PROVE  replica_stubs'[t][j][1] = t /\ open'[replica_stubs'[t][j]]
    BY DEF StubsOpen
  <2>1. t # s /\ replica_stubs'[t] = replica_stubs[t]
    BY <1>2
  <2>2. replica_stubs[t][j][1] = t /\ open[replica_stubs[t][j]]
    BY <2>1 DEF ProtocolInv, StubsOpen
  <2> QED BY <1>1, <2>1, <2>2
<1>4. AppendQuiet' /\ StubInUse'
  BY <1>1, <1>2 DEF ProtocolInv, AppendQuiet, StubInUse
<1>5. OneRequestAtATime'
  <2> SUFFICES ASSUME NEW d \in Conn, open'[d], wire'[d] # "empty" \/ eng'[d] = "append"
               PROVE  LET t == d[1]
                      IN \/ expert'[t].pc = "register" /\ d = Last(replica_stubs'[t])
                         \/ expert'[t].pc = "await" /\ d = replica_stubs'[t][expert'[t].i]
    BY DEF OneRequestAtATime
  <2>1. d[1] \in Server \ {s} /\ open[d]
    BY <1>1, ClosedNotConn
  <2>2. wire[d] # "empty" \/ eng[d] = "append"
    BY <1>1
  <2>3. expert'[d[1]] = expert[d[1]] /\ replica_stubs'[d[1]] = replica_stubs[d[1]]
    BY <1>2, <2>1
  <2> QED BY <2>1, <2>2, <2>3 DEF ProtocolInv, OneRequestAtATime
<1> QED BY <1>3, <1>4, <1>5 DEF ProtocolInv

(* Every step keeps the protocol.                                          *)
LEMMA NextProtocol == TypeInv /\ ProtocolInv /\ [Next]_vars => ProtocolInv'
<1> SUFFICES ASSUME TypeInv, ProtocolInv, [Next]_vars PROVE ProtocolInv'
  OBVIOUS
<1>1. CASE UNCHANGED <<expert, replica_stubs, eng, wire, open>>
  BY <1>1 DEF ProtocolInv, StubsOpen, AppendQuiet, StubInUse, OneRequestAtATime
<1>2. ASSUME NEW s \in Server, ExpertThread(s) PROVE ProtocolInv'
  BY <1>2, TakeProtocol, ConnectProtocol, RegisteredProtocol, SendProtocol
     DEF ExpertThread
<1>3. ASSUME NEW s \in Server, Recover(s)
      PROVE  UNCHANGED <<expert, replica_stubs, eng, wire, open>>
  BY <1>3 DEF Recover, RecoverConnect, RecoverNobody, RecoverStatus,
              RecoverFetch, Listen, connvars
<1>4. ASSUME NEW s \in Server, NEW fromLog, Start(s, fromLog)
      PROVE  UNCHANGED <<expert, replica_stubs, eng, wire, open>>
  BY <1>4 DEF Start, connvars
<1>5. ASSUME NEW c \in Customer, NEW s \in Server, Order(c, s)
      PROVE  UNCHANGED <<expert, replica_stubs, eng, wire, open>>
  BY <1>5 DEF Order, connvars
<1>6. CASE UNCHANGED vars
  BY <1>1, <1>6 DEF vars, connvars
<1> QED BY <1>1, <1>2, <1>3, <1>4, <1>5, <1>6, EngineerProtocol, CrashProtocol
        DEF Next, ServerNext

(* At the start nothing is connected.                                      *)
LEMMA InitProtocol == Init => ProtocolInv
  BY DEF Init, ProtocolInv, StubsOpen, AppendQuiet, StubInUse,
         OneRequestAtATime, Idle

(* Replication is a strict request/answer protocol, in any cluster and     *)
(* through any crashes and restarts: on a connection still open something  *)
(* is in flight, or being appended, only while the expert that owns it     *)
(* waits for exactly that connection.                                      *)
THEOREM RequestsOneAtATime == Spec => []OneRequestAtATime
<1>1. ProtocolInv => OneRequestAtATime
  BY DEF ProtocolInv
<1> QED BY <1>1, InitProtocol, InitType, NextType, NextProtocol, PTL DEF Spec
=============================================================================
