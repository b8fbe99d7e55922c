---------------------------- MODULE LaptopFactory ----------------------------
(***************************************************************************)
(* A cluster of production servers (LaptopFactory, ServerThread.cpp).      *)
(* Each process runs one ExpertThread, which executes orders and           *)
(* replicates them, and one EngineerThread per accepted connection.        *)
(*                                                                         *)
(* cr_lock and smr_lock are held across a step only by the expert thread:  *)
(* every other holder is one action here, so both locks are the single     *)
(* predicate Locked.  Logs are 1-based here and 0-based in the code:       *)
(* smr_log[i] of the code is smr_log[s][i + 1].                            *)
(***************************************************************************)
EXTENDS Integers, SequencesExt

CONSTANTS
  Server,      \* the factory ids of the cluster
  NoServer,    \* the code's -1 in primary_id; also "no peer"
  Replicas,    \* command line: each server's peers, in AddReplica order
  Customer,    \* customer ids that place orders
  NumOrders,   \* orders of one customer (ClientThread's num_orders)
  Contact,     \* the servers customers send their orders to
  StartUp,     \* servers listening before the first order is placed
  LogAnswers,  \* operator's answers to "recover from log?" at a restart
  Slot,        \* bound: connections of one server to one peer that may coexist
  MayCrash,    \* bound: the servers that may crash
  MaxCrashes,  \* bound on process crashes
  MaxStarts    \* bound on process starts after the initial ones

ASSUME ServerAssumption ==
  /\ NoServer \notin Server
  /\ Replicas \in [Server -> Seq(Server)]
  /\ \A s \in Server : s \notin Range(Replicas[s]) /\ IsInjective(Replicas[s])
  /\ Contact \subseteq Server /\ StartUp \subseteq Server
  /\ MayCrash \subseteq Server

ASSUME CustomerAssumption == Customer \subseteq Nat /\ NumOrders \in Nat

ASSUME BoundAssumption ==
  LogAnswers \subseteq BOOLEAN /\ MaxCrashes \in Nat /\ MaxStarts \in Nat

(* MapOp without its opcode, which is always 1.  LostRecord is what        *)
(* ReadRecord returns when the connection broke (CustomerRecord()).        *)
Key        == Customer \cup {-1}
Op         == [arg1 : Key, arg2 : Int]
OrderOp    == [arg1 : Customer, arg2 : 0 .. NumOrders - 1]
LostRecord == [arg1 |-> -1, arg2 |-> -1]
\* What an index past the end of a vector may yield (undefined behaviour).
AnyOp      == OrderOp \cup {LostRecord}

Conn       == {c \in Server \X Server \X Slot : c[1] # c[2]}
\* A stub whose socket was closed after a failed Recv; it keeps its fd number.
ClosedStub == <<>>
ReplicaRequest == [committed_index : Int, last_index : Int, op : Op]

ExpertState == [pc : {"idle", "connect", "register", "send", "await"},
                i : Nat \ {0}, op : Op]
RecoveryState == [peer : Server \cup {NoServer}, i : Nat \ {0},
                  next : Int, upto : Int]

VARIABLES
  mode,            \* lifecycle of the process: down, recovering, recovered, up
  erq,             \* queue of orders waiting for the expert thread
  expert,          \* control of the expert thread and the order in its hands
  smr_log, log_file, customer_record, last_index, committed_index, primary_id,
  replica_stubs,   \* connections of the current order, in the order made
  recovery,        \* locals of RecoverReplica
  eng,             \* engineer thread at the accepting end of a connection
  wire,            \* what is in flight on a connection
  msg,             \* the replica request in flight or in the engineer's hands
  open,            \* the connecting end has not closed it
  sent, at,        \* customers: orders sent, and the server asked (or NoServer)
  acked,           \* ghost: <<server, op>> answered to a customer
  crashes, starts  \* counters for the bounds

logvars    == <<smr_log, log_file, customer_record, last_index, committed_index>>
connvars   == <<eng, wire, msg, open>>
clientvars == <<sent, at, acked>>
bounds     == <<crashes, starts>>
vars == <<mode, erq, expert, logvars, primary_id, replica_stubs, recovery,
          connvars, clientvars, bounds>>

-----------------------------------------------------------------------------
(* Operators on logs and records. *)

Empty == [k \in Key |-> -1]

(* rec after the ops f[i], lo <= i <= hi, are applied in order.            *)
Apply(rec, f, lo, hi) ==
  [k \in Key |-> LET writes == {i \in lo .. hi : f[i].arg1 = k}
                 IN  IF writes = {} THEN rec[k] ELSE f[Max(writes)].arg2]

(* smr_log[i] for each i in lo .. hi (1-based here): an index past the end *)
(* may yield anything.                                                     *)
Reads(log, lo, hi) ==
  {f \in [lo .. hi -> Range(log) \cup IF hi > Len(log) THEN AnyOp ELSE {}] :
     \A i \in lo .. hi : i \in DOMAIN log => f[i] = log[i]}

(* smr_log.push_back(op) and WriteToLogFile(op).                           *)
LogAppendMemoryOnly(s, op) ==   \* bug: a push_back without its write
  smr_log' = [smr_log EXCEPT ![s] = Append(@, op)] /\ UNCHANGED log_file
LogAppendTruncates(s, op) ==    \* bug: the file opened without ios::app
  smr_log' = [smr_log EXCEPT ![s] = Append(@, op)] /\ log_file' = [log_file EXCEPT ![s] = <<op>>]
LogAppend(s, op) ==
  /\ smr_log' = [smr_log EXCEPT ![s] = Append(@, op)]
  /\ log_file' = [log_file EXCEPT ![s] = Append(@, op)]

(* The entries of log after committed_index up to hi go to the record.     *)
CatchUpSkips(s, log, hi) ==     \* bug: the loop starts one entry late
  \E f \in Reads(log, committed_index[s] + 3, hi + 1) :
    customer_record' = [customer_record EXCEPT
      ![s] = Apply(@, f, committed_index[s] + 3, hi + 1)]
CatchUp(s, log, hi) ==
  \E f \in Reads(log, committed_index[s] + 2, hi + 1) :
    customer_record' = [customer_record EXCEPT
      ![s] = Apply(@, f, committed_index[s] + 2, hi + 1)]

(* Where committed_index stands once a backup has become the primary.      *)
PromotedTooFar(s, last) ==      \* bug: <= for < in the loop
  IF primary_id[s] = s THEN committed_index[s]
  ELSE Max({committed_index[s], last + 1})
PromotedNever(s, last) ==       \* bug: a new primary applies nothing of its log
  committed_index[s]
Promoted(s, last) ==
  IF primary_id[s] = s THEN committed_index[s]
  ELSE Max({committed_index[s], last})

Idle == [pc |-> "idle", i |-> 1, op |-> LostRecord]
NotRecovering == [peer |-> NoServer, i |-> 1, next |-> 0, upto |-> -1]
NoRequest == [committed_index |-> -1, last_index |-> -1, op |-> LostRecord]

\* The expert of s goes on with its order at pc, with loop index i.
Goto(s, pc, i) == [expert EXCEPT ![s] = [pc |-> pc, i |-> i, op |-> @.op]]

Up(s)     == mode[s] = "up"
Locked(s) == expert[s].pc # "idle"

(* The request that carries the expert's order to the backups.             *)
RequestBySize(s) ==             \* bug: the size of the log for its last index
  [committed_index |-> Len(smr_log[s]), last_index |-> last_index[s],
   op |-> expert[s].op]
RequestNextIndex(s) ==          \* bug: the index of the next order
  [committed_index |-> committed_index[s], last_index |-> last_index[s] + 1,
   op |-> expert[s].op]
RequestLags(s) ==               \* bug: off by one
  [committed_index |-> committed_index[s] - 1, last_index |-> last_index[s],
   op |-> expert[s].op]
Request(s) ==
  [committed_index |-> committed_index[s], last_index |-> last_index[s],
   op |-> expert[s].op]

(* replica_stubs.clear() closes the connections of the last order.         *)
KeepStubs(s) == UNCHANGED <<open, replica_stubs>>   \* bug: no clear()
ClearStubs(s) ==
  /\ open' = [c \in Conn |-> open[c] /\ c \notin Range(replica_stubs[s])]
  /\ replica_stubs' = [replica_stubs EXCEPT ![s] = <<>>]

NeverDead(c) == FALSE           \* bug: a broken connection is waited for
\* Nobody answers on the stub: it is closed, or the peer process has gone.
Dead(c) == ~(c \in Conn /\ eng[c] # "none")

-----------------------------------------------------------------------------
(* Servers start one after the other: the first finds nobody listening and *)
(* keeps primary_id = -1; one that finds a peer reads its own id back from *)
(* the status reply.                                                       *)
Init ==
  /\ mode = [s \in Server |-> IF s \in StartUp THEN "up" ELSE "down"]
  /\ erq = [s \in Server |-> <<>>]
  /\ expert = [s \in Server |-> Idle]
  /\ smr_log = [s \in Server |-> <<>>]
  /\ log_file = [s \in Server |-> <<>>]
  /\ customer_record = [s \in Server |-> Empty]
  /\ last_index = [s \in Server |-> -1]
  /\ committed_index = [s \in Server |-> -1]
  /\ \E first \in StartUp :
        primary_id = [s \in Server |->
                        IF s \in StartUp \ {first} THEN s ELSE NoServer]
  /\ replica_stubs = [s \in Server |-> <<>>]
  /\ recovery = [s \in Server |-> NotRecovering]
  /\ eng = [c \in Conn |-> "none"]
  /\ wire = [c \in Conn |-> "empty"]
  /\ msg = [c \in Conn |-> NoRequest]
  /\ open = [c \in Conn |-> FALSE]
  /\ sent = [c \in Customer |-> 0]
  /\ at = [c \in Customer |-> NoServer]
  /\ acked = {}
  /\ crashes = 0 /\ starts = 0

-----------------------------------------------------------------------------
OrderOneTooMany(c, s) ==        \* bug: the client's loop runs to num_orders
  /\ Up(s) /\ s \in Contact
  /\ at[c] = NoServer /\ sent[c] <= NumOrders
  /\ erq' = [erq EXCEPT ![s] = Append(@, [arg1 |-> c, arg2 |-> sent[c]])]
  /\ sent' = [sent EXCEPT ![c] = @ + 1]
  /\ at' = [at EXCEPT ![c] = s]
  /\ UNCHANGED <<mode, expert, logvars, primary_id, replica_stubs, recovery,
                 connvars, acked, bounds>>

(* A customer's order reaches an engineer thread of s, which queues it for *)
(* the expert and waits for the promise (CreateCustomLaptop).              *)
Order(c, s) ==
  /\ Up(s) /\ s \in Contact
  /\ at[c] = NoServer /\ sent[c] < NumOrders
  /\ erq' = [erq EXCEPT ![s] = Append(@, [arg1 |-> c, arg2 |-> sent[c]])]
  /\ sent' = [sent EXCEPT ![c] = @ + 1]
  /\ at' = [at EXCEPT ![c] = s]
  /\ UNCHANGED <<mode, expert, logvars, primary_id, replica_stubs, recovery,
                 connvars, acked, bounds>>

-----------------------------------------------------------------------------
(* The expert thread. *)

(* Takes an order, locks, appends it to the log and the log file, promotes *)
(* itself if it was not the primary, and drops the stubs of the last order.*)
ExpertTake(s) ==
  /\ Up(s) /\ expert[s].pc = "idle" /\ erq[s] # <<>>
  /\ LET op   == Head(erq[s])
         log  == Append(smr_log[s], op)
         last == last_index[s] + 1
         hi   == Promoted(s, last)
     IN /\ erq' = [erq EXCEPT ![s] = Tail(@)]
        /\ LogAppend(s, op)
        /\ last_index' = [last_index EXCEPT ![s] = last]
        /\ CatchUp(s, log, hi)
        /\ committed_index' = [committed_index EXCEPT ![s] = hi]
        /\ expert' = [expert EXCEPT ![s] = [pc |-> "connect", i |-> 1, op |-> op]]
  /\ primary_id' = [primary_id EXCEPT ![s] = s]
  /\ ClearStubs(s)
  /\ UNCHANGED <<mode, recovery, eng, wire, msg, clientvars, bounds>>

(* Connects to the next peer and registers with it; a refused connection   *)
(* is skipped.  The new socket may get the descriptor of the stubs closed  *)
(* before it: Close leaves fd_ as it is, so those stubs, still in          *)
(* replica_stubs, then send on the new connection.                         *)
ExpertConnect(s) ==
  /\ expert[s].pc = "connect" /\ expert[s].i <= Len(Replicas[s])
  /\ LET r == Replicas[s][expert[s].i]
     IN \/ /\ ~Up(r)
           /\ expert' = Goto(s, "connect", expert[s].i + 1)
           /\ UNCHANGED <<replica_stubs, connvars>>
        \/ /\ Up(r)
           /\ \E k \in Slot, reused \in BOOLEAN :
                LET c == <<s, r, k>>
                IN /\ eng[c] = "none"
                   /\ eng' = [eng EXCEPT ![c] = "order"]
                   /\ wire' = [wire EXCEPT ![c] = "register"]
                   /\ open' = [open EXCEPT ![c] = TRUE]
                   /\ replica_stubs' = [replica_stubs EXCEPT ![s] = Append(
                        IF reused THEN ReplaceAll(@, ClosedStub, c) ELSE @, c)]
           /\ expert' = Goto(s, "register", expert[s].i)
           /\ UNCHANGED msg
  /\ UNCHANGED <<mode, erq, logvars, primary_id, recovery, clientvars, bounds>>

(* The peer answered the registration, or died, which closes the socket:   *)
(* on to the next peer.  The stub is kept either way.                      *)
ExpertRegistered(s) ==
  /\ expert[s].pc = "register"
  /\ LET c == Last(replica_stubs[s])
     IN \/ /\ wire[c] = "ack"
           /\ wire' = [wire EXCEPT ![c] = "empty"]
           /\ UNCHANGED <<open, replica_stubs>>
        \/ /\ Dead(c)
           /\ open' = [open EXCEPT ![c] = FALSE]
           /\ replica_stubs' = [replica_stubs EXCEPT
                ![s] = ReplaceAll(@, c, ClosedStub)]
           /\ UNCHANGED wire
  /\ expert' = Goto(s, "connect", expert[s].i + 1)
  /\ UNCHANGED <<mode, erq, logvars, primary_id, recovery, eng, msg,
                 clientvars, bounds>>

ExpertSkipsFirst(s) ==          \* bug: the loop over the stubs starts at 1
  /\ expert[s].pc = "connect" /\ expert[s].i > Len(Replicas[s])
  /\ expert' = Goto(s, "send", 2)
  /\ UNCHANGED <<mode, erq, logvars, primary_id, replica_stubs, recovery,
                 connvars, clientvars, bounds>>

ExpertConnected(s) ==
  /\ expert[s].pc = "connect" /\ expert[s].i > Len(Replicas[s])
  /\ expert' = Goto(s, "send", 1)
  /\ UNCHANGED <<mode, erq, logvars, primary_id, replica_stubs, recovery,
                 connvars, clientvars, bounds>>

(* SendReplicaRequest to the next stub; to a dead peer it fails at once.   *)
ExpertSend(s) ==
  /\ expert[s].pc = "send" /\ expert[s].i <= Len(replica_stubs[s])
  /\ LET c == replica_stubs[s][expert[s].i]
     IN \/ /\ Dead(c)
           /\ expert' = Goto(s, "send", expert[s].i + 1)
           /\ UNCHANGED <<wire, msg>>
        \/ /\ ~Dead(c)
           /\ wire' = [wire EXCEPT ![c] = "request"]
           /\ msg' = [msg EXCEPT ![c] = Request(s)]
           /\ expert' = Goto(s, "await", expert[s].i)
  /\ UNCHANGED <<mode, erq, logvars, primary_id, replica_stubs, recovery,
                 eng, open, clientvars, bounds>>

ExpertDoesNotWait(s) ==         \* bug: the response is not received
  /\ expert[s].pc = "await"
  /\ expert' = Goto(s, "send", expert[s].i + 1)
  /\ UNCHANGED <<mode, erq, logvars, primary_id, replica_stubs, recovery,
                 connvars, clientvars, bounds>>

ExpertAcked(s) ==
  /\ expert[s].pc = "await"
  /\ LET c == replica_stubs[s][expert[s].i]
     IN /\ wire[c] = "ack" \/ Dead(c)
        /\ wire' = [wire EXCEPT ![c] = "empty"]
  /\ expert' = Goto(s, "send", expert[s].i + 1)
  /\ UNCHANGED <<mode, erq, logvars, primary_id, replica_stubs, recovery,
                 eng, msg, open, clientvars, bounds>>

ExpertBreaksPromise(s) ==       \* bug: set_value is never called
  /\ expert[s].pc = "send" /\ expert[s].i > Len(replica_stubs[s])
  /\ LET op == expert[s].op
     IN customer_record' = [customer_record EXCEPT ![s][op.arg1] = op.arg2]
  /\ committed_index' = [committed_index EXCEPT ![s] = Len(smr_log[s]) - 1]
  /\ expert' = [expert EXCEPT ![s] = Idle]
  /\ UNCHANGED <<mode, erq, smr_log, log_file, last_index, primary_id,
                 replica_stubs, recovery, connvars, clientvars, bounds>>

(* Applies and commits the order, unlocks, and fulfils the promise: the    *)
(* engineer thread answers the customer.                                   *)
ExpertFinish(s) ==
  /\ expert[s].pc = "send" /\ expert[s].i > Len(replica_stubs[s])
  /\ LET op == expert[s].op
     IN /\ customer_record' = [customer_record EXCEPT ![s][op.arg1] = op.arg2]
        /\ acked' = acked \cup {<<s, op>>}
        /\ at' = [at EXCEPT ![op.arg1] = NoServer]
  /\ committed_index' = [committed_index EXCEPT ![s] = Len(smr_log[s]) - 1]
  /\ expert' = [expert EXCEPT ![s] = Idle]
  /\ UNCHANGED <<mode, erq, smr_log, log_file, last_index, primary_id,
                 replica_stubs, recovery, connvars, sent, bounds>>

-----------------------------------------------------------------------------
(* The engineer thread at the accepting end of a replication connection.   *)

\* An answer sent to a process that has closed the connection is lost.
Answer(c) == wire' = [wire EXCEPT ![c] = IF open[c] THEN "ack" ELSE "empty"]

(* A request of type 4: this server becomes a backup of the sender.        *)
EngineerRegister(c) ==
  /\ eng[c] = "order" /\ wire[c] = "register"
  /\ eng' = [eng EXCEPT ![c] = "backup"]
  /\ primary_id' = [primary_id EXCEPT ![c[2]] = c[1]]
  /\ Answer(c)
  /\ UNCHANGED <<mode, erq, expert, logvars, replica_stubs, recovery,
                 msg, open, clientvars, bounds>>

(* A replica request: the test reads committed_index without a lock, and a *)
(* request that is not ahead of it is acknowledged and dropped.            *)
EngineerReceive(c) ==
  /\ eng[c] = "backup" /\ wire[c] = "request"
  /\ \/ /\ msg[c].last_index > committed_index[c[2]]
        /\ eng' = [eng EXCEPT ![c] = "append"]
        /\ wire' = [wire EXCEPT ![c] = "empty"]
     \/ /\ msg[c].last_index <= committed_index[c[2]]
        /\ Answer(c)
        /\ UNCHANGED eng
  /\ UNCHANGED <<mode, erq, expert, logvars, primary_id, replica_stubs,
                 recovery, msg, open, clientvars, bounds>>

(* Under both locks: append, apply up to the sender's committed index, and *)
(* take over both of its indices.                                          *)
EngineerAppend(c) ==
  /\ eng[c] = "append" /\ ~Locked(c[2])
  /\ LET b   == c[2]
         m   == msg[c]
         log == Append(smr_log[b], m.op)
     IN /\ LogAppend(b, m.op)
        /\ CatchUp(b, log, m.committed_index)
        /\ last_index' = [last_index EXCEPT ![b] = m.last_index]
        /\ committed_index' = [committed_index EXCEPT ![b] = m.committed_index]
  /\ eng' = [eng EXCEPT ![c] = "backup"]
  /\ Answer(c)
  /\ UNCHANGED <<mode, erq, expert, primary_id, replica_stubs, recovery,
                 msg, open, clientvars, bounds>>

(* The connection is closed and drained: the server forgets its primary,   *)
(* and the read on the closed socket ends the thread.                      *)
EngineerEof(c) ==
  /\ eng[c] = "backup" /\ ~open[c] /\ wire[c] = "empty"
  /\ primary_id' = [primary_id EXCEPT ![c[2]] = NoServer]
  /\ eng' = [eng EXCEPT ![c] = "none"]
  /\ UNCHANGED <<mode, erq, expert, logvars, replica_stubs, recovery,
                 wire, msg, open, clientvars, bounds>>

-----------------------------------------------------------------------------
(* Crash and restart. *)

(* The process dies: its threads, queue and connections go, the log file   *)
(* stays (and so does the unobservable memory, until Start overwrites it). *)
(* Customers waiting for it get an invalid laptop and stop ordering.       *)
Crash(s) ==
  /\ mode[s] # "down" /\ s \in MayCrash /\ crashes < MaxCrashes
  /\ crashes' = crashes + 1
  /\ mode' = [mode EXCEPT ![s] = "down"]
  /\ erq' = [erq EXCEPT ![s] = <<>>]
  /\ expert' = [expert EXCEPT ![s] = Idle]
  /\ replica_stubs' = [replica_stubs EXCEPT ![s] = <<>>]
  /\ recovery' = [r \in Server |->
       IF r = s THEN NotRecovering
       ELSE IF recovery[r].peer = s THEN [recovery[r] EXCEPT !.peer = NoServer]
       ELSE recovery[r]]
  /\ eng'  = [c \in Conn |-> IF c[2] = s THEN "none" ELSE eng[c]]
  /\ open' = [c \in Conn |-> open[c] /\ c[1] # s]
  /\ wire' = [c \in Conn |->
       IF c[2] = s \/ (c[1] = s /\ wire[c] = "ack") THEN "empty" ELSE wire[c]]
  /\ sent' = [c \in Customer |-> IF at[c] = s THEN NumOrders ELSE sent[c]]
  /\ at'   = [c \in Customer |-> IF at[c] = s THEN NoServer ELSE at[c]]
  /\ UNCHANGED <<logvars, primary_id, msg, acked, starts>>

(* main: a new process, and RecoverFromLogFile if the operator asks for it.*)
Start(s, fromLog) ==
  /\ mode[s] = "down" /\ starts < MaxStarts
  /\ starts' = starts + 1
  /\ LET log == IF fromLog THEN log_file[s] ELSE <<>>
     IN /\ smr_log' = [smr_log EXCEPT ![s] = log]
        /\ customer_record' = [customer_record EXCEPT
             ![s] = Apply(Empty, log, 1, Len(log))]
        /\ last_index' = [last_index EXCEPT ![s] = Len(log) - 1]
        /\ committed_index' = [committed_index EXCEPT ![s] = Len(log) - 1]
  /\ primary_id' = [primary_id EXCEPT ![s] = NoServer]
  /\ mode' = [mode EXCEPT ![s] = "recovering"]
  /\ recovery' = [recovery EXCEPT ![s] = NotRecovering]
  /\ UNCHANGED <<erq, expert, log_file, replica_stubs, connvars, clientvars,
                 crashes>>

(* RecoverReplica: tries the peers in order until one accepts.             *)
RecoverConnect(s) ==
  /\ mode[s] = "recovering"
  /\ recovery[s].i <= Len(Replicas[s])
  /\ LET r == Replicas[s][recovery[s].i]
     IN IF Up(r)
        THEN /\ mode' = [mode EXCEPT ![s] = "status"]
             /\ recovery' = [recovery EXCEPT ![s].peer = r]
        ELSE /\ recovery' = [recovery EXCEPT ![s].i = @ + 1]
             /\ UNCHANGED mode
  /\ UNCHANGED <<erq, expert, logvars, primary_id, replica_stubs, connvars,
                 clientvars, bounds>>

RecoverNobody(s) ==
  /\ mode[s] = "recovering"
  /\ recovery[s].i > Len(Replicas[s])
  /\ mode' = [mode EXCEPT ![s] = "recovered"]
  /\ UNCHANGED <<erq, expert, logvars, primary_id, replica_stubs, recovery,
                 connvars, clientvars, bounds>>

(* The answer to request type 5: the peer's last_index, read without a     *)
(* lock, and the asker's own id, which becomes its primary_id.  A peer     *)
(* that died answers -1 and -1.                                            *)
RecoverStatus(s) ==
  /\ mode[s] = "status"
  /\ LET peer  == recovery[s].peer
         other == IF peer = NoServer THEN -1 ELSE last_index[peer]
     IN /\ primary_id' = [primary_id EXCEPT
             ![s] = IF peer = NoServer THEN NoServer ELSE s]
        /\ IF other > last_index[s]
           THEN /\ mode' = [mode EXCEPT ![s] = "fetch"]
                /\ recovery' = [recovery EXCEPT ![s] =
                     [@ EXCEPT !.next = last_index[s] + 1, !.upto = other]]
           ELSE /\ mode' = [mode EXCEPT ![s] = "recovered"]
                /\ UNCHANGED recovery
  /\ UNCHANGED <<erq, expert, logvars, replica_stubs, connvars, clientvars,
                 bounds>>

(* One log entry by request type 6, appended and applied at once; after    *)
(* the last one the indices are set.  A broken connection yields           *)
(* LostRecord for every entry still wanted.                                *)
RecoverFetch(s) ==
  /\ mode[s] = "fetch"
  /\ LET peer == recovery[s].peer
         i    == recovery[s].next
         done == i = recovery[s].upto
     IN /\ peer # NoServer => ~Locked(peer)
        /\ \E f \in IF peer = NoServer THEN {[j \in {i + 1} |-> LostRecord]}
                    ELSE Reads(smr_log[peer], i + 1, i + 1) :
             /\ LogAppend(s, f[i + 1])
             /\ customer_record' = [customer_record EXCEPT
                  ![s] = Apply(@, f, i + 1, i + 1)]
        /\ recovery' = [recovery EXCEPT ![s].next = i + 1]
        /\ last_index' = [last_index EXCEPT ![s] = IF done THEN i ELSE @]
        /\ committed_index' = [committed_index EXCEPT ![s] = IF done THEN i ELSE @]
        /\ mode' = [mode EXCEPT ![s] = IF done THEN "recovered" ELSE @]
  /\ UNCHANGED <<erq, expert, primary_id, replica_stubs, connvars, clientvars,
                 bounds>>

(* main: the expert thread is started and the port opened.                 *)
Listen(s) ==
  /\ mode[s] = "recovered"
  /\ mode' = [mode EXCEPT ![s] = "up"]
  /\ recovery' = [recovery EXCEPT ![s] = NotRecovering]
  /\ UNCHANGED <<erq, expert, logvars, primary_id, replica_stubs, connvars,
                 clientvars, bounds>>

-----------------------------------------------------------------------------
ExpertThread(s) ==
  \/ ExpertTake(s) \/ ExpertConnect(s) \/ ExpertRegistered(s)
  \/ ExpertConnected(s) \/ ExpertSend(s) \/ ExpertAcked(s) \/ ExpertFinish(s)

EngineerThread(c) ==
  \/ EngineerRegister(c) \/ EngineerReceive(c) \/ EngineerAppend(c)
  \/ EngineerEof(c)

Recover(s) ==
  \/ RecoverConnect(s) \/ RecoverNobody(s) \/ RecoverStatus(s)
  \/ RecoverFetch(s) \/ Listen(s)

\* The servers alone, without the customers.
ServerNext ==
  \/ \E s \in Server : ExpertThread(s) \/ Recover(s) \/ Crash(s)
  \/ \E c \in Conn : EngineerThread(c)
  \/ \E s \in Server, fromLog \in LogAnswers : Start(s, fromLog)

Next ==
  \/ ServerNext
  \/ \E c \in Customer, s \in Server : Order(c, s)

(* Threads of a running process are scheduled; customers, operators and    *)
(* crashes owe nothing.                                                    *)
Fairness ==
  /\ \A s \in Server : WF_vars(ExpertThread(s)) /\ WF_vars(Recover(s))
  /\ \A c \in Conn : WF_vars(EngineerThread(c))

Spec     == Init /\ [][Next]_vars
FairSpec == Spec /\ Fairness
-----------------------------------------------------------------------------
(* Properties. *)

(* Every variable has the type of the C++ field or local it stands for.    *)
TypeOK ==
  /\ mode \in [Server -> {"down", "recovering", "status", "fetch",
                          "recovered", "up"}]
  /\ erq \in [Server -> Seq(OrderOp)]
  /\ expert \in [Server -> ExpertState]
  /\ smr_log \in [Server -> Seq(Op)] /\ log_file \in [Server -> Seq(Op)]
  /\ customer_record \in [Server -> [Key -> Int]]
  /\ last_index \in [Server -> Int] /\ committed_index \in [Server -> Int]
  /\ primary_id \in [Server -> Server \cup {NoServer}]
  /\ replica_stubs \in [Server -> Seq(Conn \cup {ClosedStub})]
  /\ recovery \in [Server -> RecoveryState]
  /\ eng \in [Conn -> {"none", "order", "backup", "append"}]
  /\ wire \in [Conn -> {"empty", "register", "request", "ack"}]
  /\ msg \in [Conn -> ReplicaRequest]
  /\ open \in [Conn -> BOOLEAN]
  /\ sent \in [Customer -> 0 .. NumOrders]
  /\ at \in [Customer -> Server \cup {NoServer}]
  /\ acked \subseteq Server \X OrderOp
  /\ crashes \in 0 .. MaxCrashes /\ starts \in 0 .. MaxStarts

(* As long as operators answer 1 to "recover from log?", the log file of a *)
(* running server is exactly its smr_log, whatever mixture of own orders,  *)
(* backup appends, recoveries and crashes wrote it: every push_back is     *)
(* paired with its WriteToLogFile.                                         *)
DiskMirrorsMemory ==
  \A s \in Server : mode[s] # "down" => log_file[s] = smr_log[s]

(* An order answered to a customer is in the log file of the server that   *)
(* answered, and stays there across crashes and restarts of it.            *)
AckedOnDisk == \A e \in acked : e[2] \in Range(log_file[e[1]])

(* An order a customer waits for is at its server exactly once: in the     *)
(* queue or in the expert's hands.  No order is lost or run twice.         *)
OrderTracked ==
  \A c \in Customer : at[c] # NoServer =>
    LET s  == at[c]
        op == [arg1 |-> c, arg2 |-> sent[c] - 1]
        queued == {i \in DOMAIN erq[s] : erq[s][i].arg1 = c}
    IN IF Locked(s) /\ expert[s].op.arg1 = c
       THEN expert[s].op = op /\ queued = {}
       ELSE \E i \in queued : erq[s][i] = op /\ queued = {i}

(* Replication is a strict request/answer protocol: on a connection its    *)
(* owner still has open, something is in flight or being worked on only    *)
(* while the owner's expert waits for exactly that connection.             *)
OneRequestAtATime ==
  \A c \in Conn : open[c] /\ (wire[c] # "empty" \/ eng[c] = "append") =>
    LET s == c[1]
    IN \/ expert[s].pc = "register" /\ c = Last(replica_stubs[s])
       \/ expert[s].pc = "await" /\ c = replica_stubs[s][expert[s].i]

(* "the last index of the smr_log that has data" (ServerThread.h:40).      *)
LastIndexIsLogEnd ==
  \A s \in Server : mode[s] = "up" => last_index[s] = Len(smr_log[s]) - 1

(* "the last index ... where the MapOp of the log entry is committed and   *)
(* applied to the customer_record" (ServerThread.h:41): the record is what *)
(* the entries up to committed_index give, no more and no less.            *)
CommittedIsApplied ==
  \A s \in Server : mode[s] = "up" =>
    /\ committed_index[s] < Len(smr_log[s])
    /\ customer_record[s] = Apply(Empty, smr_log[s], 1, committed_index[s] + 1)

(* A backup about to apply a replica request indexes its log only where    *)
(* there is an entry, counting the one it appends.                         *)
ReadsInBounds ==
  \A c \in Conn : eng[c] = "append" =>
    msg[c].committed_index <= Len(smr_log[c[2]])

(* Of two servers' log files one is a prefix of the other.                 *)
LogsAgree ==
  \A s, r \in Server : \A i \in DOMAIN log_file[s] \cap DOMAIN log_file[r] :
    log_file[s][i] = log_file[r][i]

(* An order answered by any server is in the log of every running server.  *)
AckedEverywhere ==
  \A e \in acked, s \in Server : Up(s) => e[2] \in Range(smr_log[s])

(* While the production server is between orders, a running backup has     *)
(* applied all its orders, or all but the last.                            *)
BackupLagsByOne ==
  \A p \in Contact, b \in Server :
    Up(p) /\ Up(b) /\ ~Locked(p) =>
      committed_index[b] \in {committed_index[p] - 1, committed_index[p]}

(* The last order a server reports for a customer never goes back, however *)
(* its record is written: own orders, backup catch-up, promotion.          *)
RecordNeverGoesBack ==
  [][\A s \in Server : Up(s) =>
       \A k \in Key : customer_record'[s][k] >= customer_record[s][k]]_vars

(* With one production server, every server up from the start and none     *)
(* restarted, the cluster does what ReplicatedLog says: the logs are the   *)
(* log files, which outlive a crash.                                       *)
Abstract == INSTANCE ReplicatedLog WITH
  Producer <- CHOOSE p \in Contact : TRUE,
  Command  <- OrderOp,
  log      <- log_file,
  applied  <- [s \in Server |-> committed_index[s] + 1],
  live     <- {s \in Server : Up(s)},
  acked    <- {e[2] : e \in acked}

ImplementsReplicatedLog == Abstract!Spec

(* An order does not wait for ever: it is answered or its server dies.     *)
OrderAnswered == \A c \in Customer : at[c] # NoServer ~> at[c] = NoServer
=============================================================================
