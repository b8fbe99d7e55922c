--------------------------- MODULE ConnectionsProofs ---------------------------
(* The connections of one server process: types, and whose descriptor is   *)
(* whose, whatever the far ends do; and what customers and recovering      *)
(* servers are served with.                                                *)
EXTENDS Connections, MessagesProofs, IndexLemmas

-----------------------------------------------------------------------------
(* What the constants are. *)

(* Connections, stubs and threads, and which of them are the same.         *)
LEMMA Names ==
  /\ Conn \subseteq Socket /\ Stub \subseteq Socket /\ Socket = Conn \cup Stub
  /\ Conn \subseteq Thread /\ Expert \in Thread /\ Thread = Conn \cup {Expert}
  /\ Expert \notin Conn /\ \A c \in Conn : c \notin Stub
  /\ NoSocket \notin Socket
<1>1. Socket = Conn \cup Stub /\ Thread = Conn \cup {Expert} /\ NoSocket \notin Socket
  BY ConnectionsAssumption, SocketAssumption
<1>2. Expert \notin Conn
  BY DEF Expert, Conn, Customer, Replication, Recovery
<1>3. \A c \in Conn : c \notin Stub
  BY DEF Stub, Conn, Customer, Replication, Recovery
<1> QED BY <1>1, <1>2, <1>3

(* The peers, each once.                                                   *)
LEMMA PeersType ==
  /\ Len(Peers) \in Nat /\ DOMAIN Peers = 1 .. Len(Peers)
  /\ \A i \in 1 .. Len(Peers) : Peers[i] \in Range(Peers)
  /\ \A i, j \in 1 .. Len(Peers) : Peers[i] = Peers[j] => i = j
<1>1. Peers \in Seq(Range(Peers)) /\ IsInjective(Peers)
  BY ConnectionsAssumption
<1>2. Len(Peers) \in Nat /\ DOMAIN Peers = 1 .. Len(Peers)
  BY <1>1, LenProperties
<1> QED BY <1>1, <1>2, ElementOfSeq DEF IsInjective

(* The stub for a peer in an order.                                        *)
LEMMA StubType ==
  ASSUME NEW i \in 1 .. Len(Peers), NEW k \in 1 .. MaxOrders
  PROVE  <<"stub", Peers[i], k>> \in Stub
  BY PeersType DEF Stub

(* Any int makes a word.                                                   *)
LEMMA HtonlType == ASSUME NEW x \in Int PROVE Htonl(x) \in Word
<1>1. /\ (x \div 16777216) % 256 \in Byte /\ (x \div 65536) % 256 \in Byte
      /\ (x \div 256) % 256 \in Byte /\ x % 256 \in Byte
  BY SMT DEF Byte
<1> QED BY <1>1, SMT DEF Htonl, Word

(* Any word makes an int.                                                  *)
LEMMA NtohlType == ASSUME NEW w \in Word PROVE Ntohl(w) \in Int32
<1>1. PICK a \in Byte, b \in Byte, c \in Byte, d \in Byte : w = <<a, b, c, d>>
  BY DEF Word
<1>2. INT_MIN = -2147483648 /\ INT_MAX = 2147483647
  BY SMT DEF INT_MIN, INT_MAX
<1>3. Ntohl(w) = (IF a < 128 THEN a ELSE a - 256) * 16777216 + b * 65536 + c * 256 + d
  BY <1>1 DEF Ntohl
<1>4. \A x \in -128 .. 127 : /\ x * 16777216 + b * 65536 + c * 256 + d \in Int
                             /\ x * 16777216 + b * 65536 + c * 256 + d >= -2147483648
                             /\ x * 16777216 + b * 65536 + c * 256 + d <= 2147483647
  BY SMT DEF Byte
<1>5. (IF a < 128 THEN a ELSE a - 256) \in -128 .. 127
  BY SMT DEF Byte
<1>6. /\ Ntohl(w) \in Int /\ Ntohl(w) >= -2147483648 /\ Ntohl(w) <= 2147483647
  BY <1>3, <1>4, <1>5
<1>7. /\ INT_MIN \in Int /\ INT_MAX \in Int
      /\ Ntohl(w) >= INT_MIN /\ Ntohl(w) <= INT_MAX
  BY <1>2, <1>6
<1> QED BY <1>6, <1>7, SMT DEF Int32

(* What is sent is words, as many as the reader of the message waits for.  *)
LEMMA MarshalType ==
  ASSUME NEW a \in Int, NEW b \in Int, NEW c \in Int, NEW d \in Int, NEW e \in Int
  PROVE  /\ \A m : m = [customer_id |-> a, order_number |-> b, request_type |-> c] =>
              MarshalRequest(m) \in Seq(Word) /\ Len(MarshalRequest(m)) = RequestSize
         /\ \A m : m = [customer_id |-> a, order_number |-> b, request_type |-> c,
                        engineer_id |-> d, admin_id |-> e] =>
              MarshalLaptop(m) \in Seq(Word) /\ Len(MarshalLaptop(m)) = LaptopSize
         /\ \A m : m = [customer_id |-> a, last_order |-> b] =>
              MarshalRecord(m) \in Seq(Word) /\ Len(MarshalRecord(m)) = RecordSize
         /\ \A m : m = [status |-> a] =>
              /\ MarshalReplicaResponse(m) \in Seq(Word)
              /\ Len(MarshalReplicaResponse(m)) = ReplicaResponseSize
<1>1. /\ Htonl(a) \in Word /\ Htonl(b) \in Word /\ Htonl(c) \in Word
      /\ Htonl(d) \in Word /\ Htonl(e) \in Word
  BY HtonlType
<1> QED BY <1>1, SMT
        DEF MarshalRequest, MarshalLaptop, MarshalRecord, MarshalReplicaResponse,
            RequestSize, LaptopSize, RecordSize, ReplicaResponseSize

(* A laptop in hand can be sent.                                           *)
LEMMA LaptopWords ==
  ASSUME NEW m \in LaptopInfo
  PROVE  MarshalLaptop(m) \in Seq(Word) /\ Len(MarshalLaptop(m)) = LaptopSize
  BY SizesAgree

(* A replica request of this server or another.                            *)
LEMMA ReplicateType ==
  ASSUME NEW id \in Int, NEW k \in Int
  PROVE  Replicate(id, k) \in Seq(Word) /\ Len(Replicate(id, k)) = ReplicaRequestSize
<1>1. /\ Htonl(id) \in Word /\ Htonl(k - 1) \in Word /\ Htonl(k) \in Word
      /\ Htonl(1) \in Word /\ Htonl(0) \in Word
  BY HtonlType
<1> QED BY <1>1, SMT DEF Replicate, MarshalReplicaRequest, ReplicaRequestSize

Ask == [words : Seq(Word), answer : Nat]

(* A request that is made.                                                 *)
LEMMA RequestType ==
  ASSUME NEW id \in Int, NEW number \in Int, NEW type \in Int, NEW size \in Nat
  PROVE  /\ Request(id, number, type, size) \in Ask
         /\ Len(Request(id, number, type, size).words) = RequestSize
<1>1. Htonl(id) \in Word /\ Htonl(number) \in Word /\ Htonl(type) \in Word
  BY HtonlType
<1> QED BY <1>1, SMT DEF Request, Ask, MarshalRequest, RequestSize

(* What is asked for, and the size of the answer waited for: a record for  *)
(* a read (2), a record for a log entry (6) of a recovering server, and a  *)
(* laptop otherwise.  No customer registers (4).                           *)
Fits(r, m) ==
  /\ r = [words |-> MarshalRequest(m), answer |-> r.answer]
  /\ m.request_type # 4
  /\ r.answer \in {RecordSize, LaptopSize}
  /\ m.request_type = 2 => r.answer = RecordSize
  /\ m.request_type \notin {2, 6} => r.answer = LaptopSize

LEMMA FittingRequest ==
  ASSUME NEW id \in Int32, NEW number \in Int32, NEW type \in Int32,
         NEW size \in {RecordSize, LaptopSize},
         type # 4, type = 2 => size = RecordSize, type \notin {2, 6} => size = LaptopSize
  PROVE  \E m \in CustomerRequest : /\ Fits(Request(id, number, type, size), m)
                                    /\ m.request_type = type
<1> DEFINE m == [customer_id |-> id, order_number |-> number, request_type |-> type]
<1>1. m \in CustomerRequest /\ m.request_type = type
  BY DEF CustomerRequest
<1>2. Request(id, number, type, size) = [words |-> MarshalRequest(m), answer |-> size]
  BY DEF Request
<1>3. Fits(Request(id, number, type, size), m)
  BY <1>1, <1>2 DEF Fits
<1> QED BY <1>1, <1>3

(* The ints that the constants are.                                        *)
LEMMA Ints ==
  /\ num_customers \in Nat /\ num_orders \in Nat /\ NumEntries \in Nat
  /\ \A x \in 0 .. num_customers : x \in Int32
  /\ \A x \in 0 .. num_orders : x \in Int32
  /\ \A x \in 0 .. NumEntries : x \in Int32
  /\ \A id \in 0 .. num_customers - 1 : request_type[id] \in Int32 /\ request_type[id] \in Nat
  /\ \A x \in -1 .. 7 : x \in Int32
<1>1. /\ INT_MIN \in Int /\ INT_MAX \in Int
      /\ INT_MIN <= -1 /\ 7 <= INT_MAX
  BY SMT DEF INT_MIN, INT_MAX
<1>2. \A x \in 0 .. INT_MAX : x \in Int32 /\ x \in Nat
  BY <1>1, SMT DEF Int32
<1>3. /\ num_customers \in 0 .. INT_MAX /\ num_orders \in 0 .. INT_MAX
      /\ NumEntries \in 0 .. INT_MAX
      /\ \A id \in 0 .. num_customers - 1 : request_type[id] \in 0 .. INT_MAX
  BY ConnectionsAssumption
<1>4. \A x \in -1 .. 7 : x \in Int32
  BY <1>1, SMT DEF Int32
<1>5. \A n \in 0 .. INT_MAX : \A x \in 0 .. n : x \in Int32
  <2>1. \A n \in 0 .. INT_MAX : \A x \in 0 .. n : x \in 0 .. INT_MAX
    BY <1>1, SMT
  <2> QED BY <2>1, <1>2
<1> QED BY <1>2, <1>3, <1>4, <1>5

(* The ids a thread of a type 3 client reads are below num_orders.         *)
LEMMA ShareBound ==
  ASSUME NEW id \in 0 .. num_customers - 1,
         NEW q, q = (num_orders - id + num_customers - 1) \div num_customers
  PROVE  q \in Nat /\ \A i \in 1 .. q : id + (i - 1) * num_customers \in 0 .. num_orders
<1>1. num_customers \in Nat /\ num_orders \in Nat /\ num_customers > 0
  BY Ints
<1>2. PICK a \in Int : a = num_orders - id + num_customers - 1 /\ a >= 0
  BY <1>1
<1>3. q \in Int /\ q >= 0 /\ q * num_customers <= a
  BY <1>1, <1>2, SMT
<1>4. ASSUME NEW i \in 1 .. q
      PROVE  id + (i - 1) * num_customers \in 0 .. num_orders
  <2>1. /\ (q - i) * num_customers >= 0 /\ (i - 1) * num_customers >= 0
        /\ (i - 1) * num_customers \in Int /\ (q - i) * num_customers \in Int
    BY <1>1, <1>3, SMT
  <2>2. q * num_customers = (q - i) * num_customers + (i - 1) * num_customers + num_customers
    BY <1>1, <1>3, SMT
  <2>3. (i - 1) * num_customers <= a - num_customers
    BY <2>1, <2>2, <1>1, <1>2, <1>3, SMT
  <2> QED BY <2>1, <2>3, <1>1, <1>2, SMT
<1> QED BY <1>3, <1>4

(* A sequence given as a function.                                         *)
LEMMA FunctionIsSeq ==
  ASSUME NEW S, NEW n \in Nat, NEW f \in [1 .. n -> S]
  PROVE  f \in Seq(S) /\ Len(f) = n
<1>1. f \in Seq(S)
  BY SeqDef
<1>2. DOMAIN f = 1 .. n /\ DOMAIN f = 1 .. Len(f) /\ Len(f) \in Nat
  BY <1>1, LenProperties
<1> QED BY <1>1, <1>2

\* What a customer may ask for: no log entries, though it may try to order some.
CustomerAsk ==
  {r \in Ask : \E m \in CustomerRequest :
                 Fits(r, m) /\ (m.request_type = 6 => r.answer = LaptopSize)}

(* The ids a customer thread reads, if it does.                            *)
LEMMA ReadsAsked ==
  ASSUME NEW s \in Seq(0 .. num_orders)
  PROVE  [i \in DOMAIN s |-> Request(s[i], 0, 2, RecordSize)] \in Seq(CustomerAsk)
<1>1. \A x \in 0 .. num_orders : Request(x, 0, 2, RecordSize) \in CustomerAsk
  <2> TAKE x \in 0 .. num_orders
  <2>1. x \in Int32 /\ 0 \in Int32 /\ 2 \in Int32 /\ x \in Int
    BY Ints
  <2>2. PICK m \in CustomerRequest :
          Fits(Request(x, 0, 2, RecordSize), m) /\ m.request_type = 2
    BY <2>1, FittingRequest
  <2>3. Request(x, 0, 2, RecordSize) \in Ask
    BY <2>1, RequestType DEF RecordSize
  <2> QED BY <2>2, <2>3 DEF CustomerAsk
<1>2. Len(s) \in Nat /\ DOMAIN s = 1 .. Len(s)
  BY LenProperties
<1>3. \A i \in 1 .. Len(s) : s[i] \in 0 .. num_orders
  BY ElementOfSeq
<1>4. [i \in DOMAIN s |-> Request(s[i], 0, 2, RecordSize)] \in [1 .. Len(s) -> CustomerAsk]
  BY <1>1, <1>2, <1>3
<1> QED BY <1>2, <1>4, FunctionIsSeq

(* What a customer thread asks for.                                        *)
LEMMA CustomerRequestsType ==
  ASSUME NEW id \in 0 .. num_customers - 1
  PROVE  CustomerRequests(id) \in Seq(CustomerAsk)
<1> DEFINE type == request_type[id]
           q == (num_orders - id + num_customers - 1) \div num_customers
           share == [i \in 1 .. q |-> id + (i - 1) * num_customers]
           upward == [i \in 1 .. num_orders + 1 |-> i - 1]
           Asked(s) == [i \in DOMAIN s |-> Request(s[i], 0, 2, RecordSize)]
<1>0. num_orders \in Nat /\ type \in Int32 /\ type \in Nat /\ id \in Int32 /\ id \in Int
  BY Ints
<1>1. CASE type = 2
  <2>1. CustomerRequests(id) = Asked(<<num_orders>>)
    BY <1>1 DEF CustomerRequests
  <2>2. <<num_orders>> \in Seq(0 .. num_orders)
    BY <1>0
  <2> QED BY <2>1, <2>2, ReadsAsked
<1>2. CASE type = 3
  <2>1. CustomerRequests(id) = Asked(share)
    BY <1>2 DEF CustomerRequests
  <2>2. q \in Nat /\ \A i \in 1 .. q : id + (i - 1) * num_customers \in 0 .. num_orders
    BY ShareBound
  <2>3. share \in Seq(0 .. num_orders)
    <3>1. share \in [1 .. q -> 0 .. num_orders]
      <4> HIDE DEF q
      <4> QED BY <2>2
    <3> HIDE DEF share, q
    <3> QED BY <2>2, <3>1, FunctionIsSeq
  <2> HIDE DEF share
  <2> QED BY <2>1, <2>3, ReadsAsked
<1>3. CASE type = 4
  <2>1. CustomerRequests(id) = Asked(upward \o Reverse(upward))
    <3>1. type # 2 /\ type # 3 /\ type \in {2, 3, 4}
      BY <1>3
    <3> QED BY <1>3, <3>1, Zenon DEF CustomerRequests
  <2>2. upward \in [1 .. num_orders + 1 -> 0 .. num_orders] /\ num_orders + 1 \in Nat
    BY <1>0
  <2>3. upward \in Seq(0 .. num_orders) /\ Len(upward) = num_orders + 1
    <3> HIDE DEF upward
    <3> QED BY <2>2, FunctionIsSeq
  <2>4. Reverse(upward) \in [1 .. num_orders + 1 -> 0 .. num_orders]
    <3> HIDE DEF upward
    <3> QED BY <1>0, <2>2, <2>3 DEF Reverse
  <2>5. Reverse(upward) \in Seq(0 .. num_orders)
    <3> HIDE DEF upward
    <3> QED BY <2>2, <2>4, FunctionIsSeq
  <2>6. upward \o Reverse(upward) \in Seq(0 .. num_orders)
    <3> HIDE DEF upward
    <3> QED BY <2>3, <2>5, ConcatProperties
  <2> HIDE DEF upward
  <2> QED BY <2>1, <2>6, ReadsAsked
<1>4. CASE type \notin {2, 3, 4}
  <2>1. CustomerRequests(id) = [i \in 1 .. num_orders |-> Request(id, i - 1, type, LaptopSize)]
    BY <1>4 DEF CustomerRequests
  <2>2. \A i \in 1 .. num_orders : Request(id, i - 1, type, LaptopSize) \in CustomerAsk
    <3> HIDE DEF type
    <3> TAKE i \in 1 .. num_orders
    <3>1. i - 1 \in 0 .. num_orders /\ i - 1 \in Int
      BY <1>0
    <3>2. i - 1 \in Int32
      BY <3>1, Ints
    <3>3. PICK m \in CustomerRequest : Fits(Request(id, i - 1, type, LaptopSize), m)
      BY <1>0, <1>4, <3>2, FittingRequest
    <3>4. Request(id, i - 1, type, LaptopSize) \in Ask
      BY <1>0, <3>1, RequestType DEF LaptopSize
    <3>5. Request(id, i - 1, type, LaptopSize).answer = LaptopSize
      BY DEF Request
    <3> QED BY <3>3, <3>4, <3>5 DEF CustomerAsk
  <2>3. CustomerRequests(id) \in [1 .. num_orders -> CustomerAsk]
    <3> HIDE DEF type
    <3> QED BY <2>1, <2>2
  <2> QED BY <1>0, <2>3, FunctionIsSeq
<1> QED BY <1>1, <1>2, <1>3, <1>4

(* What a recovering server asks for.                                      *)
LEMMA RecoveryRequestsType ==
  RecoveryRequests \in Seq({r \in Ask : \E m \in CustomerRequest : Fits(r, m)})
<1> DEFINE RecoveryAsk == {r \in Ask : \E m \in CustomerRequest : Fits(r, m)}
           status == Request(1, -1, 5, LaptopSize)
           entries == [i \in 1 .. NumEntries |-> Request(1, i - 1, 6, RecordSize)]
<1>1. 1 \in Int32 /\ -1 \in Int32 /\ 5 \in Int32 /\ 6 \in Int32 /\ NumEntries \in Nat
  BY Ints
<1>2. status \in RecoveryAsk
  <2>1. status \in Ask
    BY RequestType DEF LaptopSize
  <2>2. \E m \in CustomerRequest : Fits(status, m)
    BY <1>1, FittingRequest
  <2> QED BY <2>1, <2>2
<1>3. \A i \in 1 .. NumEntries : Request(1, i - 1, 6, RecordSize) \in RecoveryAsk
  <2> TAKE i \in 1 .. NumEntries
  <2>1. i - 1 \in 0 .. NumEntries /\ i - 1 \in Int
    BY <1>1
  <2>2. i - 1 \in Int32
    BY <2>1, Ints
  <2>3. Request(1, i - 1, 6, RecordSize) \in Ask
    BY <2>1, RequestType DEF RecordSize
  <2>4. \E m \in CustomerRequest : Fits(Request(1, i - 1, 6, RecordSize), m)
    BY <1>1, <2>2, FittingRequest
  <2> QED BY <2>3, <2>4
<1>4. entries \in Seq(RecoveryAsk)
  <2>1. entries \in [1 .. NumEntries -> RecoveryAsk]
    <3> HIDE DEF RecoveryAsk
    <3> QED BY <1>3
  <2> HIDE DEF entries, RecoveryAsk
  <2> QED BY <1>1, <2>1, FunctionIsSeq
<1>5. <<status>> \in Seq(RecoveryAsk)
  <2> HIDE DEF status, RecoveryAsk
  <2> QED BY <1>2
<1>6. RecoveryRequests = <<status>> \o entries
  BY DEF RecoveryRequests
<1> HIDE DEF status, entries, RecoveryAsk
<1>7. RecoveryRequests \in Seq(RecoveryAsk)
  BY <1>4, <1>5, <1>6, ConcatProperties
<1> QED BY <1>7 DEF RecoveryAsk

(* What another server asks for.                                           *)
LEMMA ReplicationRequestsType ==
  ASSUME NEW k \in Int PROVE ReplicationRequests(k) \in Seq(Ask)
<1>1. Request(1, 0, 4, LaptopSize) \in Ask
  BY RequestType DEF LaptopSize
<1>2. [words |-> Replicate(1, k), answer |-> ReplicaResponseSize] \in Ask
  BY ReplicateType DEF Ask, ReplicaResponseSize
<1> QED BY <1>1, <1>2 DEF ReplicationRequests

(* What each far end asks for, in order.                                   *)
LEMMA Scripts ==
  /\ \A c \in Customer : Script[c] \in Seq(CustomerAsk)
  /\ \A c \in Replication : Script[c] \in Seq(Ask)
  /\ Script[Recovery] \in Seq({r \in Ask : \E m \in CustomerRequest : Fits(r, m)})
<1>1. /\ \A c \in Customer : c \notin Replication /\ c # Recovery
      /\ \A c \in Replication : c \notin Customer /\ c # Recovery
      /\ Recovery \notin Customer /\ Recovery \notin Replication
      /\ Customer \subseteq Conn /\ Replication \subseteq Conn /\ Recovery \in Conn
  BY DEF Customer, Replication, Recovery, Conn
<1>2. ASSUME NEW c \in Customer PROVE Script[c] \in Seq(CustomerAsk)
  <2>1. Script[c] = CustomerRequests(c[2])
    BY <1>1, Zenon DEF Script
  <2>2. c[2] \in 0 .. num_customers - 1
    BY DEF Customer
  <2> QED BY <2>1, <2>2, CustomerRequestsType
<1>3. ASSUME NEW c \in Replication PROVE Script[c] \in Seq(Ask)
  <2>1. Script[c] = ReplicationRequests(c[2])
    BY <1>1, Zenon DEF Script
  <2>2. c[2] \in Int
    BY DEF Replication
  <2> QED BY <2>1, <2>2, ReplicationRequestsType
<1>4. Script[Recovery] = RecoveryRequests
  BY <1>1, Zenon DEF Script
<1> QED BY <1>2, <1>3, <1>4, RecoveryRequestsType

LEMMA ScriptType ==
  ASSUME NEW c \in Conn
  PROVE  /\ Script[c] \in Seq(Ask) /\ Len(Script[c]) \in Nat
         /\ \A n \in 1 .. Len(Script[c]) : Script[c][n] \in Ask
<1>1. Script[c] \in Seq(Ask)
  <2>1. CustomerAsk \subseteq Ask
    BY DEF CustomerAsk
  <2>2. CASE c \in Customer
    BY <2>1, <2>2, Scripts, SeqMonotonic
  <2>3. CASE c \in Replication
    BY <2>3, Scripts
  <2>4. CASE c = Recovery
    <3> DEFINE T == {r \in Ask : \E m \in CustomerRequest : Fits(r, m)}
    <3>1. T \subseteq Ask /\ Script[Recovery] \in Seq(T)
      BY Scripts
    <3> HIDE DEF T
    <3> QED BY <2>4, <3>1, SeqMonotonic
  <2> QED BY <2>2, <2>3, <2>4 DEF Conn
<1> QED BY <1>1, LenProperties, ElementOfSeq

-----------------------------------------------------------------------------
(* Sockets: what closing, opening, sending and receiving do. *)

\* What a thread has of the message it receives.
CallFits(k) ==
  /\ k.pc = "none" => k = NoCall
  /\ k.pc # "none" => k.on \in Socket /\ k.size > 0
  /\ k.pc \in {"receive", "blocked"} => Len(k.buffer) < k.size
  /\ k.pc = "blocked" => k.at \in Socket
  /\ k.pc = "returned" => k.buffer = <<>> \/ Len(k.buffer) = k.size

BufferFits == \A t \in Thread : CallFits(call[t])

SocketInv == SocketTypeOK /\ BufferFits

LEMMA CloseType ==
  ASSUME SocketTypeOK, NEW S, Close(S)
  PROVE  /\ table' \in [Fd -> Socket \cup {NoSocket}]
         /\ is_initialized_' \in [Socket -> BOOLEAN]
         /\ shut' \in [Socket -> BOOLEAN]
<1>1. table' \in [Fd -> Socket \cup {NoSocket}]
  BY DEF SocketTypeOK, Close
<1>2. is_initialized_' \in [Socket -> BOOLEAN]
  BY Zenon DEF SocketTypeOK, Close
<1>3. shut' \in [Socket -> BOOLEAN]
  BY Zenon DEF SocketTypeOK, Close
<1> QED BY <1>1, <1>2, <1>3

(* A new connection has the lowest free number.                            *)
LEMMA InstallShows ==
  ASSUME SocketTypeOK, NEW s \in Socket, NEW b \in BOOLEAN, FreeFds # {}, Install(s, b)
  PROVE  /\ \E f \in Fd : /\ table[f] = NoSocket
                          /\ table' = [table EXCEPT ![f] = s]
                          /\ fd_' = [fd_ EXCEPT ![s] = f]
         /\ is_initialized_' = [is_initialized_ EXCEPT ![s] = b]
         /\ table' \in [Fd -> Socket \cup {NoSocket}]
         /\ fd_' \in [Socket -> Fd \cup {NoFd}]
         /\ is_initialized_' \in [Socket -> BOOLEAN]
<1>1. NumFds \in Int /\ FreeFds \in SUBSET (1 .. NumFds)
  BY SocketAssumption DEF FreeFds, Fd
<1>2. Min(FreeFds) \in FreeFds
  <2>1. \A S \in SUBSET (1 .. NumFds) : S # {} => Min(S) \in S
    <3> TAKE S \in SUBSET (1 .. NumFds)
    <3>1. 1 \in Int /\ NumFds \in Int
      BY <1>1
    <3> QED BY <3>1, MinOfIndices
  <2> QED BY <1>1, <2>1
<1>3. PICK f \in Fd : f = Min(FreeFds) /\ table[f] = NoSocket
  BY <1>2 DEF FreeFds
<1>4. /\ table' = [table EXCEPT ![f] = s] /\ fd_' = [fd_ EXCEPT ![s] = f]
      /\ is_initialized_' = [is_initialized_ EXCEPT ![s] = b]
  BY <1>3 DEF Install
<1>5. /\ table' \in [Fd -> Socket \cup {NoSocket}]
      /\ fd_' \in [Socket -> Fd \cup {NoFd}]
  BY <1>4 DEF SocketTypeOK
<1>6. is_initialized_' \in [Socket -> BOOLEAN]
  BY <1>4, Zenon DEF SocketTypeOK
<1> QED BY <1>3, <1>4, <1>5, <1>6

(* What a number stands for.                                               *)
LEMMA BehindType ==
  ASSUME SocketTypeOK, NEW s \in Socket
  PROVE  /\ Behind(s) \in Socket \cup {NoSocket}
         /\ Behind(s) # NoSocket => /\ Behind(s) \in Socket /\ fd_[s] \in Fd
                                    /\ table[fd_[s]] = Behind(s)
  BY DEF SocketTypeOK, Behind

LEMMA SendType ==
  ASSUME SocketTypeOK, NEW s \in Socket, NEW words \in Seq(Word), Send(s, words)
  PROVE  /\ table' \in [Fd -> Socket \cup {NoSocket}]
         /\ is_initialized_' \in [Socket -> BOOLEAN]
         /\ shut' \in [Socket -> BOOLEAN] /\ leaving' \in [Socket -> Seq(Word)]
<1>1. CASE ~Reaches(s)
  <2>1. Close({s}) /\ UNCHANGED leaving
    BY <1>1 DEF Send
  <2> QED BY <2>1, CloseType DEF SocketTypeOK
<1>2. CASE Reaches(s)
  <2>1. /\ leaving' = IF over[Behind(s)] THEN leaving
                      ELSE [leaving EXCEPT ![Behind(s)] = @ \o words]
        /\ UNCHANGED <<table, is_initialized_, shut>>
    BY <1>2 DEF Send
  <2>2. Behind(s) \in Socket
    BY <1>2, BehindType DEF Reaches
  <2>3. leaving[Behind(s)] \o words \in Seq(Word)
    BY <2>2, ConcatProperties DEF SocketTypeOK
  <2>4. leaving' \in [Socket -> Seq(Word)]
    BY <2>1, <2>2, <2>3 DEF SocketTypeOK
  <2> QED BY <2>1, <2>4 DEF SocketTypeOK
<1> QED BY <1>1, <1>2

(* A thread begins to receive, or to do something else.                    *)
LEMMA ReceiveType ==
  ASSUME SocketInv, NEW t \in Thread, NEW s \in Socket, NEW size \in Nat \ {0},
         call' = Receive(t, s, size)
  PROVE  /\ call' \in [Thread -> Call] /\ BufferFits'
         /\ call'[t] = [pc |-> "receive", on |-> s, at |-> NoSocket, size |-> size,
                        buffer |-> <<>>]
         /\ \A u \in Thread \ {t} : call'[u] = call[u]
<1> DEFINE k == [pc |-> "receive", on |-> s, at |-> NoSocket, size |-> size,
                 buffer |-> <<>>]
<1>1. call \in [Thread -> Call] /\ \A u \in Thread : CallFits(call[u])
  BY DEF SocketInv, SocketTypeOK, BufferFits
<1>2. k \in Call /\ CallFits(k)
  BY DEF Call, CallFits
<1>3. call' = [call EXCEPT ![t] = k]
  BY DEF Receive
<1> HIDE DEF k
<1>4. /\ call' \in [Thread -> Call] /\ call'[t] = k
      /\ \A u \in Thread \ {t} : call'[u] = call[u]
  BY <1>1, <1>2, <1>3
<1>5. \A u \in Thread : CallFits(call'[u])
  BY <1>1, <1>2, <1>4
<1>6. BufferFits'
  BY <1>5 DEF BufferFits, CallFits, NoCall
<1> QED BY <1>4, <1>6 DEF k

LEMMA ReturnedType ==
  ASSUME SocketInv, NEW t \in Thread, call' = Returned(t)
  PROVE  /\ call' \in [Thread -> Call] /\ BufferFits' /\ call'[t] = NoCall
         /\ \A u \in Thread \ {t} : call'[u] = call[u]
<1>1. call \in [Thread -> Call] /\ \A u \in Thread : CallFits(call[u])
  BY DEF SocketInv, SocketTypeOK, BufferFits
<1>2. NoCall \in Call /\ CallFits(NoCall)
  BY DEF Call, CallFits, NoCall
<1>3. /\ call' \in [Thread -> Call] /\ call'[t] = NoCall
      /\ \A u \in Thread \ {t} : call'[u] = call[u]
  BY <1>1, <1>2 DEF Returned
<1>4. \A u \in Thread : CallFits(call'[u])
  BY <1>1, <1>2, <1>3
<1> QED BY <1>3, <1>4 DEF BufferFits, CallFits, NoCall

(* One pass of the loop in Recv, of one thread.                            *)
LEMMA RecvType ==
  ASSUME SocketInv, NEW t \in Thread, Recv(t)
  PROVE  /\ SocketInv' /\ UNCHANGED <<fd_, leaving, over>>
         /\ \A u \in Thread \ {t} : call'[u] = call[u]
         /\ call[t].pc \in {"receive", "blocked", "failed"} /\ call'[t].pc # "none"
         /\ call'[t].on = call[t].on /\ call'[t].size = call[t].size
<1>1. /\ call \in [Thread -> Call] /\ \A u \in Thread : CallFits(call[u])
      /\ arriving \in [Socket -> Seq(Word)]
  BY DEF SocketInv, SocketTypeOK, BufferFits
<1> DEFINE k == call[t]
<1>2. k \in Call /\ CallFits(k)
  BY <1>1
<1>3. ASSUME NEW l, l \in Call, CallFits(l), l.on = k.on, l.size = k.size, l.pc # "none",
             call' = [call EXCEPT ![t] = l]
      PROVE  /\ call' \in [Thread -> Call] /\ BufferFits'
             /\ \A u \in Thread \ {t} : call'[u] = call[u]
             /\ call'[t].pc # "none"
             /\ call'[t].on = call[t].on /\ call'[t].size = call[t].size
  <2>1. /\ call' \in [Thread -> Call] /\ call'[t] = l
        /\ \A u \in Thread \ {t} : call'[u] = call[u]
    BY <1>1, <1>3
  <2>2. \A u \in Thread : CallFits(call'[u])
    BY <1>1, <1>3, <2>1
  <2>3. BufferFits'
    BY <2>2 DEF BufferFits, CallFits, NoCall
  <2> QED BY <1>3, <2>1, <2>3
<1>4. CASE RecvCall(t)
  <2> DEFINE l == IF Reaches(k.on)
                  THEN [k EXCEPT !.pc = "blocked", !.at = Behind(k.on)]
                  ELSE [k EXCEPT !.pc = "failed"]
  <2>1. k.pc = "receive" /\ call' = [call EXCEPT ![t] = l]
    BY <1>1, <1>4 DEF RecvCall
  <2>2. k.on \in Socket /\ Len(k.buffer) < k.size /\ k.size > 0
    BY <1>2, <2>1 DEF CallFits
  <2>3. Reaches(k.on) => Behind(k.on) \in Socket
    BY <2>2, BehindType DEF Reaches, SocketInv
  <2>4. l \in Call /\ CallFits(l) /\ l.on = k.on /\ l.size = k.size /\ l.pc # "none"
    <3> HIDE DEF k
    <3>1. CASE Reaches(k.on)
      BY <1>2, <2>2, <2>3, <3>1 DEF Call, CallFits
    <3>2. CASE ~Reaches(k.on)
      BY <1>2, <2>2, <3>2 DEF Call, CallFits
    <3> QED BY <3>1, <3>2
  <2>5. UNCHANGED <<table, fd_, is_initialized_, arriving, leaving, over, shut>>
    BY <1>4 DEF RecvCall
  <2> HIDE DEF l
  <2> QED BY <1>3, <2>1, <2>4, <2>5 DEF SocketInv, SocketTypeOK
<1>5. CASE RecvSome(t)
  <2>0. k.pc = "blocked" /\ k.at \in Socket /\ Len(k.buffer) < k.size /\ k.on \in Socket
    BY <1>2, <1>5 DEF RecvSome, CallFits
  <2>1. PICK a, w, n : /\ a = arriving[k.at] /\ w = k.size - Len(k.buffer)
                       /\ n \in 1 .. Min({Len(a), w})
                       /\ arriving' = [arriving EXCEPT ![k.at] = SubSeq(@, n + 1, Len(@))]
                       /\ call' = [call EXCEPT ![t] =
                            [pc |-> IF n = w THEN "returned" ELSE "receive",
                             on |-> k.on, at |-> NoSocket, size |-> k.size,
                             buffer |-> k.buffer \o SubSeq(a, 1, n)]]
    BY <1>5, ZenonT(40) DEF RecvSome
  <2>2. /\ a \in Seq(Word) /\ Len(a) \in Nat /\ k.buffer \in Seq(Word)
        /\ Len(k.buffer) \in Nat /\ k.size \in Nat /\ w \in Nat
    BY <1>1, <1>2, <2>0, <2>1, LenProperties DEF Call
  <2>3. n \in Nat /\ n >= 1 /\ n <= Len(a) /\ n <= w
    <3>1. Min({Len(a), w}) \in {Len(a), w} /\ \A y \in {Len(a), w} : y >= Min({Len(a), w})
      <4>1. {Len(a), w} \in SUBSET (0 .. Len(a) + w) /\ 0 \in Int /\ Len(a) + w \in Int
        BY <2>2
      <4> QED BY <4>1, MinOfIndices
    <3>2. PICK mm \in Nat : mm = Min({Len(a), w}) /\ mm <= Len(a) /\ mm <= w
      BY <2>2, <3>1
    <3> QED BY <2>1, <2>2, <3>2
  <2>4. /\ SubSeq(a, 1, n) \in Seq(Word) /\ Len(SubSeq(a, 1, n)) = n
        /\ SubSeq(a, n + 1, Len(a)) \in Seq(Word)
    <3>1. \A i \in 1 .. Len(a) : a[i] \in Word
      BY <2>2, ElementOfSeq
    <3>2. \A i \in 1 .. n : a[i] \in Word
      BY <2>2, <2>3, <3>1
    <3>3. \A i \in n + 1 .. Len(a) : a[i] \in Word
      BY <2>2, <2>3, <3>1
    <3> QED BY <2>2, <2>3, <3>2, <3>3, SubSeqProperties
  <2>5. PICK b : b = k.buffer \o SubSeq(a, 1, n)
    OBVIOUS
  <2>6. b \in Seq(Word) /\ Len(b) = Len(k.buffer) + n
    BY <2>2, <2>4, <2>5, ConcatProperties
  <2> DEFINE l == [pc |-> IF n = w THEN "returned" ELSE "receive", on |-> k.on,
                   at |-> NoSocket, size |-> k.size, buffer |-> b]
  <2>7. call' = [call EXCEPT ![t] = l]
    BY <2>1, <2>5
  <2>8. l \in Call /\ CallFits(l) /\ l.on = k.on /\ l.size = k.size /\ l.pc # "none"
    <3> HIDE DEF k
    <3>1. k.on \in Socket /\ k.size > 0
      BY <2>0, <2>2
    <3>2. CASE n = w
      BY <2>0, <2>1, <2>2, <2>3, <2>6, <3>1, <3>2 DEF Call, CallFits
    <3>3. CASE n # w
      BY <2>0, <2>1, <2>2, <2>3, <2>6, <3>1, <3>3 DEF Call, CallFits
    <3> QED BY <3>2, <3>3
  <2>9. arriving' \in [Socket -> Seq(Word)]
    BY <1>1, <2>0, <2>1, <2>4
  <2>10. UNCHANGED <<table, fd_, is_initialized_, leaving, over, shut>>
    BY <1>5 DEF RecvSome
  <2> HIDE DEF l
  <2> QED BY <1>3, <2>0, <2>7, <2>8, <2>9, <2>10 DEF SocketInv, SocketTypeOK
<1>6. CASE RecvEnd(t)
  <2> DEFINE l == [k EXCEPT !.pc = "failed", !.at = NoSocket]
  <2>1. /\ k.pc = "blocked" /\ call' = [call EXCEPT ![t] = l]
        /\ UNCHANGED <<table, fd_, is_initialized_, arriving, leaving, over, shut>>
    BY <1>1, <1>6 DEF RecvEnd
  <2>2. l \in Call /\ CallFits(l) /\ l.on = k.on /\ l.size = k.size /\ l.pc # "none"
    <3> HIDE DEF k
    <3> QED BY <1>2, <2>1 DEF Call, CallFits
  <2> HIDE DEF l
  <2> QED BY <1>3, <2>1, <2>2 DEF SocketInv, SocketTypeOK
<1>7. CASE RecvFail(t)
  <2> DEFINE l == [k EXCEPT !.pc = "returned", !.buffer = <<>>]
  <2>1. /\ k.pc = "failed" /\ call' = [call EXCEPT ![t] = l] /\ Close({k.on})
        /\ UNCHANGED <<fd_, arriving, leaving, over>>
    BY <1>1, <1>7 DEF RecvFail
  <2>2. l \in Call /\ CallFits(l) /\ l.on = k.on /\ l.size = k.size /\ l.pc # "none"
    <3> HIDE DEF k
    <3>1. <<>> \in Seq(Word)
      OBVIOUS
    <3> QED BY <1>2, <2>1, <3>1 DEF Call, CallFits
  <2>3. /\ table' \in [Fd -> Socket \cup {NoSocket}]
        /\ is_initialized_' \in [Socket -> BOOLEAN] /\ shut' \in [Socket -> BOOLEAN]
    BY <2>1, CloseType DEF SocketInv
  <2> HIDE DEF l
  <2> QED BY <1>3, <2>1, <2>2, <2>3 DEF SocketInv, SocketTypeOK
<1> QED BY <1>4, <1>5, <1>6, <1>7 DEF Recv

-----------------------------------------------------------------------------
(* Type correctness.  An engineer receives on its own Socket, and as many  *)
(* words as its role wants; the expert receives from the peer whose turn   *)
(* it is; whoever waits for the expert is queued once.                     *)

EngineerCall(c, role, k) ==
  /\ role \in {"order", "backup"} <=> k.pc # "none"
  /\ k.pc # "none" =>
       k.on = c /\ k.size = IF role = "backup" THEN ReplicaRequestSize ELSE RequestSize

EngineerCalls == \A c \in Conn : EngineerCall(c, eng[c].role, call[c])

ExpertCall(x, stubs, k) ==
  /\ x.i >= 1 /\ x.k <= MaxOrders
  /\ x.pc # "idle" => x.k >= 1
  /\ x.pc \in {"register", "await"} <=> k.pc # "none"
  /\ x.pc = "register" => x.i <= Len(Peers) /\ k.on = <<"stub", Peers[x.i], x.k>>
  /\ x.pc = "await" => x.i <= Len(stubs) /\ k.on = stubs[x.i]

ExpertCalls == ExpertCall(expert, replica_stubs, call[Expert])

Queued ==
  /\ expert.pc # "idle" => expert.order \in Conn /\ eng[expert.order].role = "waiting"
  /\ expert.pc = "idle" => expert.order = NoSocket
  /\ \A i \in 1 .. Len(erq) :
       /\ eng[erq[i]].role = "waiting" /\ erq[i] # expert.order
       /\ \A j \in 1 .. Len(erq) : erq[i] = erq[j] => i = j

Asking == \A c \in Conn : remote[c].pc = "await" => remote[c].n \in 1 .. Len(Script[c])

TypeInv == TypeOK /\ BufferFits /\ EngineerCalls /\ ExpertCalls /\ Queued /\ Asking

(* The parts of it.                                                        *)
LEMMA TypesKnown ==
  ASSUME TypeInv
  PROVE  /\ SocketInv /\ SocketTypeOK /\ BufferFits
         /\ running \in BOOLEAN /\ backlog \in Seq(Conn) /\ eng \in [Conn -> Engineer]
         /\ erq \in Seq(Conn) /\ expert \in ExpertState /\ replica_stubs \in Seq(Stub)
         /\ Len(erq) \in Nat /\ Len(replica_stubs) \in Nat
         /\ call \in [Thread -> Call] /\ remote \in [Conn -> Remote]
         /\ \A c \in Conn : EngineerCall(c, eng[c].role, call[c])
         /\ ExpertCall(expert, replica_stubs, call[Expert])
<1>1. TypeOK /\ BufferFits /\ EngineerCalls /\ ExpertCalls
  BY DEF TypeInv
<1>2. erq \in Seq(Conn) /\ replica_stubs \in Seq(Stub)
  BY <1>1 DEF TypeOK
<1>3. Len(erq) \in Nat /\ Len(replica_stubs) \in Nat
  BY <1>2, LenProperties
<1> QED BY <1>1, <1>3
        DEF TypeOK, SocketTypeOK, SocketInv, EngineerCalls, ExpertCalls

LEMMA InitType == Init => TypeInv
<1> SUFFICES ASSUME Init PROVE TypeInv
  OBVIOUS
<1>1. \A T : <<>> \in Seq(T)
  BY EmptySeq
<1>2. NoCall \in Call /\ CallFits(NoCall) /\ NoCall.pc = "none"
  BY <1>1 DEF NoCall, Call, CallFits
<1>3. SocketTypeOK
  BY <1>1, <1>2 DEF Init, SocketInit, SocketTypeOK
<1>4. [role |-> "none", laptop |-> NoLaptopInfo] \in Engineer
  <2>1. -1 \in Int32
    BY Ints
  <2> QED BY <2>1 DEF Engineer, NoLaptopInfo, LaptopInfo
<1>5. PICK sc \in Scenarios :
        remote = [c \in Conn |-> [pc |-> IF c \in sc.connects THEN "new" ELSE "closed",
                                  n |-> 0, answer |-> <<>>]]
  BY DEF Init
<1>6. remote \in [Conn -> Remote] /\ Asking
  BY <1>1, <1>5 DEF Remote, Asking
<1>7. MaxOrders \in Nat
  BY ConnectionsAssumption
<1>8. TypeOK
  BY <1>1, <1>3, <1>4, <1>6, <1>7, ConnectionsAssumption DEF Init, TypeOK, ExpertState
<1>9. BufferFits
  BY <1>2, Names DEF Init, SocketInit, BufferFits
<1>10. EngineerCalls
  BY <1>2, Names DEF Init, SocketInit, EngineerCalls, EngineerCall
<1>11. ExpertCalls
  BY <1>2, <1>7, Names DEF Init, SocketInit, ExpertCalls, ExpertCall
<1>12. Queued
  BY DEF Init, Queued
<1> QED BY <1>6, <1>8, <1>9, <1>10, <1>11, <1>12 DEF TypeInv

(* Nothing of this changes unless one of these variables does.             *)
LEMMA SocketsOnly ==
  ASSUME TypeInv, SocketTypeOK', UNCHANGED <<call, servervars, alive, registered, remote>>
  PROVE  TypeInv'
<1>1. TypeOK'
  BY DEF TypeInv, TypeOK, servervars
<1> QED BY <1>1 DEF TypeInv, BufferFits, EngineerCalls, ExpertCalls, Queued, Asking,
               CallFits, NoCall, EngineerCall, ExpertCall, servervars

(* A step of one engineer thread.                                          *)
LEMMA EngineerFrame ==
  ASSUME TypeInv, NEW c \in Conn,
         SocketTypeOK', BufferFits', eng' \in [Conn -> Engineer],
         \A d \in Conn \ {c} : eng'[d] = eng[d],
         \A u \in Thread \ {c} : call'[u] = call[u],
         eng[c].role # "waiting", EngineerCall(c, eng'[c].role, call'[c]),
         erq' = erq \/ (erq' = Append(erq, c) /\ eng'[c].role = "waiting"),
         UNCHANGED <<running, backlog, expert, replica_stubs, alive, registered, remote>>
  PROVE  TypeInv'
<1>0. /\ TypeOK /\ EngineerCalls /\ ExpertCalls /\ Queued /\ Asking
      /\ erq \in Seq(Conn) /\ Len(erq) \in Nat
  BY TypesKnown DEF TypeInv
<1>1. erq' \in Seq(Conn)
  BY <1>0, AppendProperties
<1>2. TypeOK'
  BY <1>0, <1>1 DEF TypeOK
<1>3. EngineerCalls'
  <2>1. ASSUME NEW d \in Conn PROVE EngineerCall(d, eng'[d].role, call'[d])
    BY <1>0, Names DEF EngineerCalls
  <2> QED BY <2>1 DEF EngineerCalls, EngineerCall
<1>4. ExpertCalls'
  BY <1>0, Names DEF ExpertCalls, ExpertCall
<1>5. Queued'
  <2>1. ASSUME NEW i \in 1 .. Len(erq) PROVE erq[i] \in Conn \ {c} /\ erq'[i] = erq[i]
    BY <1>0, ElementOfSeq, AppendProperties DEF Queued
  <2>2. expert.pc # "idle" => expert.order \in Conn \ {c}
    BY <1>0 DEF Queued
  <2>3. expert.order # c
    BY <1>0, <2>2, Names DEF Queued
  <2>4. CASE erq' = erq
    BY <1>0, <2>1, <2>2, <2>4 DEF Queued
  <2>5. CASE erq' = Append(erq, c) /\ eng'[c].role = "waiting"
    <3>1. Len(erq') = Len(erq) + 1 /\ erq'[Len(erq) + 1] = c
      BY <1>0, <2>5, AppendProperties
    <3>2. ASSUME NEW i \in 1 .. Len(erq')
          PROVE  /\ eng'[erq'[i]].role = "waiting" /\ erq'[i] # expert'.order
                 /\ \A j \in 1 .. Len(erq') : erq'[i] = erq'[j] => i = j
      <4>1. CASE i \in 1 .. Len(erq)
        <5>1. eng'[erq'[i]].role = "waiting" /\ erq'[i] # expert'.order
          BY <1>0, <2>1, <4>1 DEF Queued
        <5>2. ASSUME NEW j \in 1 .. Len(erq'), erq'[i] = erq'[j] PROVE i = j
          BY <1>0, <2>1, <3>1, <4>1, <5>2 DEF Queued
        <5> QED BY <5>1, <5>2
      <4>2. CASE i = Len(erq) + 1
        <5>1. eng'[erq'[i]].role = "waiting" /\ erq'[i] # expert'.order
          BY <2>3, <2>5, <3>1, <4>2
        <5>2. ASSUME NEW j \in 1 .. Len(erq'), erq'[i] = erq'[j] PROVE i = j
          BY <1>0, <2>1, <3>1, <4>2, <5>2
        <5> QED BY <5>1, <5>2
      <4> QED BY <1>0, <3>1, <4>1, <4>2
    <3>3. expert'.pc # "idle" => /\ expert'.order \in Conn
                                 /\ eng'[expert'.order].role = "waiting"
      BY <1>0, <2>2 DEF Queued
    <3> QED BY <1>0, <3>2, <3>3 DEF Queued
  <2> QED BY <2>4, <2>5
<1>6. Asking'
  BY <1>0 DEF Asking
<1> QED BY <1>2, <1>3, <1>4, <1>5, <1>6 DEF TypeInv

(* What an engineer has received is a request.                             *)
LEMMA GotType ==
  ASSUME TypeInv, NEW c \in Conn, Has(c, "order")
  PROVE  /\ Got(c) \in CustomerRequest
         /\ RequestIsValid(Got(c)) => /\ call[c].buffer # <<>>
                                      /\ Len(call[c].buffer) = RequestSize
                                      /\ call[c].buffer \in Seq(Word)
<1> DEFINE b == call[c].buffer
<1>1. /\ eng[c].role = "order" /\ call[c].pc = "returned" /\ call[c] \in Call
      /\ CallFits(call[c]) /\ EngineerCall(c, eng[c].role, call[c])
  BY TypesKnown, Names DEF Has, BufferFits
<1>2. b \in Seq(Word) /\ (b = <<>> \/ Len(b) = 3)
  BY <1>1 DEF Call, CallFits, EngineerCall, RequestSize
<1>3. CASE b = <<>>
  <2>1. Got(c) = NoCustomerRequest
    BY <1>3 DEF Got
  <2>2. -1 \in Int32
    BY Ints
  <2> QED BY <2>1, <2>2 DEF NoCustomerRequest, CustomerRequest, RequestIsValid
<1>4. CASE b # <<>>
  <2>1. Got(c) = UnmarshalRequest(b) /\ Len(b) = 3
    BY <1>2, <1>4 DEF Got
  <2>2. b[1] \in Word /\ b[2] \in Word /\ b[3] \in Word
    <3> HIDE DEF b
    <3>1. \A n \in 1 .. Len(b) : b[n] \in Word
      BY <1>2, ElementOfSeq
    <3> QED BY <2>1, <3>1
  <2>3. Ntohl(b[1]) \in Int32 /\ Ntohl(b[2]) \in Int32 /\ Ntohl(b[3]) \in Int32
    <3> HIDE DEF b
    <3> QED BY <2>2, NtohlType
  <2> QED BY <1>2, <1>4, <2>1, <2>3 DEF UnmarshalRequest, CustomerRequest, RequestSize
<1> QED BY <1>3, <1>4

(* An answer.                                                              *)
LEMMA ReplyType ==
  ASSUME TypeInv, NEW c \in Conn, NEW words \in Seq(Word), NEW role \in {"order", "backup"},
         NEW laptop \in LaptopInfo, eng[c].role # "waiting",
         Reply(c, words, role, laptop), UNCHANGED <<EngineerRest, erq>>
  PROVE  TypeInv'
<1>1. /\ c \in Socket /\ c \in Thread /\ SocketInv /\ SocketTypeOK
      /\ eng \in [Conn -> Engineer]
  BY TypesKnown, Names
<1>2. PICK size \in Nat \ {0} : /\ call' = Receive(c, c, size)
                                /\ size = IF role = "backup" THEN ReplicaRequestSize
                                          ELSE RequestSize
  BY DEF Reply, ReplicaRequestSize, RequestSize
<1>3. /\ call' \in [Thread -> Call] /\ BufferFits'
      /\ call'[c] = [pc |-> "receive", on |-> c, at |-> NoSocket, size |-> size,
                     buffer |-> <<>>]
      /\ \A u \in Thread \ {c} : call'[u] = call[u]
  BY <1>1, <1>2, ReceiveType
<1>4. Send(c, words) /\ eng' = [eng EXCEPT ![c] = [role |-> role, laptop |-> laptop]]
  BY DEF Reply
<1>5. SocketTypeOK'
  <2>1. /\ table' \in [Fd -> Socket \cup {NoSocket}]
        /\ is_initialized_' \in [Socket -> BOOLEAN]
        /\ shut' \in [Socket -> BOOLEAN] /\ leaving' \in [Socket -> Seq(Word)]
    BY <1>1, <1>4, SendType
  <2>2. UNCHANGED <<fd_, arriving, over>>
    BY DEF EngineerRest
  <2> QED BY <1>1, <1>3, <2>1, <2>2 DEF SocketTypeOK
<1>6. [role |-> role, laptop |-> laptop] \in Engineer
  BY DEF Engineer
<1>7. /\ eng' \in [Conn -> Engineer] /\ eng'[c].role = role
      /\ \A d \in Conn \ {c} : eng'[d] = eng[d]
  BY <1>1, <1>4, <1>6
<1>8. EngineerCall(c, eng'[c].role, call'[c])
  BY <1>2, <1>3, <1>7 DEF EngineerCall
<1>9. UNCHANGED <<running, backlog, expert, replica_stubs, alive, registered, remote, erq>>
  BY DEF EngineerRest
<1> QED BY <1>3, <1>5, <1>7, <1>8, <1>9, EngineerFrame

(* What engineers answer.                                                  *)
LEMMA LaptopType ==
  ASSUME NEW c, NEW m \in CustomerRequest, NEW expert_id \in {-1, 0}
  PROVE  Laptop(c, m, expert_id) \in LaptopInfo
<1>1. 0 \in Int32 /\ -1 \in Int32
  BY Ints
<1> QED BY <1>1 DEF Laptop, LaptopInfo, CustomerRequest

LEMMA Int32IsInt == ASSUME NEW x \in Int32 PROVE x \in Int
  BY Range32

LEMMA RecordWords ==
  ASSUME NEW a \in Int32, NEW b \in Int32
  PROVE  /\ MarshalRecord([customer_id |-> a, last_order |-> b]) \in Seq(Word)
         /\ Len(MarshalRecord([customer_id |-> a, last_order |-> b])) = RecordSize
<1>1. a \in Int /\ b \in Int
  BY Int32IsInt
<1> QED BY <1>1, MarshalType

(* Nothing sent, and a wait for the next request in the same role, or the  *)
(* change from backup to ordinary engineer.                                *)
LEMMA AwaitType ==
  ASSUME TypeInv, NEW c \in Conn, eng[c].role \in {"order", "backup"},
         call' = Receive(c, c, RequestSize),
         eng' = [eng EXCEPT ![c].role = "order"],
         UNCHANGED <<EngineerRest, table, is_initialized_, leaving, shut, erq>>
  PROVE  TypeInv'
<1>1. /\ c \in Socket /\ c \in Thread /\ SocketInv /\ SocketTypeOK
      /\ eng \in [Conn -> Engineer]
  BY TypesKnown, Names
<1>2. RequestSize \in Nat \ {0}
  BY DEF RequestSize
<1>3. /\ call' \in [Thread -> Call] /\ BufferFits'
      /\ call'[c] = [pc |-> "receive", on |-> c, at |-> NoSocket, size |-> RequestSize,
                     buffer |-> <<>>]
      /\ \A u \in Thread \ {c} : call'[u] = call[u]
  BY <1>1, <1>2, ReceiveType
<1>4. SocketTypeOK'
  BY <1>1, <1>3 DEF SocketTypeOK, EngineerRest
<1>5. /\ eng' \in [Conn -> Engineer] /\ eng'[c].role = "order"
      /\ \A d \in Conn \ {c} : eng'[d] = eng[d]
  BY <1>1 DEF Engineer
<1>6. EngineerCall(c, eng'[c].role, call'[c])
  BY <1>3, <1>5 DEF EngineerCall
<1>7. UNCHANGED <<running, backlog, expert, replica_stubs, alive, registered, remote, erq>>
  BY DEF EngineerRest
<1> QED BY <1>1, <1>3, <1>4, <1>5, <1>6, <1>7, EngineerFrame

(* A thread that stops receiving, for good or until the expert is done.    *)
LEMMA StopType ==
  ASSUME TypeInv, NEW c \in Conn, eng[c].role = "order", call' = Returned(c),
         NEW role \in {"ended", "waiting"},
         eng' \in [Conn -> Engineer], eng'[c].role = role,
         \A d \in Conn \ {c} : eng'[d] = eng[d],
         erq' = erq \/ (erq' = Append(erq, c) /\ role = "waiting"),
         table' \in [Fd -> Socket \cup {NoSocket}],
         is_initialized_' \in [Socket -> BOOLEAN], shut' \in [Socket -> BOOLEAN],
         UNCHANGED <<EngineerRest, leaving>>
  PROVE  TypeInv'
<1>1. /\ c \in Thread /\ SocketInv /\ SocketTypeOK /\ eng \in [Conn -> Engineer]
  BY TypesKnown, Names
<1>2. /\ call' \in [Thread -> Call] /\ BufferFits' /\ call'[c] = NoCall
      /\ \A u \in Thread \ {c} : call'[u] = call[u]
  BY <1>1, ReturnedType
<1>3. SocketTypeOK'
  BY <1>1, <1>2 DEF SocketTypeOK, EngineerRest
<1>6. EngineerCall(c, eng'[c].role, call'[c])
  BY <1>2 DEF EngineerCall, NoCall
<1>7. erq' = erq \/ (erq' = Append(erq, c) /\ eng'[c].role = "waiting")
  OBVIOUS
<1>8. UNCHANGED <<running, backlog, expert, replica_stubs, alive, registered, remote>>
  BY DEF EngineerRest
<1> QED BY <1>1, <1>2, <1>3, <1>6, <1>7, <1>8, EngineerFrame

LEMMA EngineerType ==
  ASSUME TypeInv, NEW c \in Conn, EngineerThread(c) PROVE TypeInv'
<1>1. /\ c \in Socket /\ c \in Thread /\ SocketInv /\ SocketTypeOK
      /\ eng \in [Conn -> Engineer] /\ eng[c] \in Engineer /\ eng[c].laptop \in LaptopInfo
      /\ EngineerCall(c, eng[c].role, call[c])
  BY TypesKnown, Names DEF Engineer
<1>2. \A x \in Payload : x \in Int32 /\ x \in Int
  BY ConnectionsAssumption, Int32IsInt
<1>3. ASSUME Has(c, "order")
      PROVE  /\ eng[c].role = "order" /\ Got(c) \in CustomerRequest
             /\ Got(c).customer_id \in Int32
  BY <1>3, GotType DEF Has, CustomerRequest
<1>4. CASE EngineerEnd(c)
  <2>1. /\ eng[c].role = "order" /\ call' = Returned(c) /\ Destroy({c})
        /\ eng' = [eng EXCEPT ![c].role = "ended"]
        /\ UNCHANGED <<EngineerRest, leaving, erq>>
    BY <1>4 DEF EngineerEnd, Has
  <2>2. /\ eng' \in [Conn -> Engineer] /\ eng'[c].role = "ended"
        /\ \A d \in Conn \ {c} : eng'[d] = eng[d]
    BY <1>1, <2>1 DEF Engineer
  <2>3. /\ table' \in [Fd -> Socket \cup {NoSocket}]
        /\ is_initialized_' \in [Socket -> BOOLEAN] /\ shut' \in [Socket -> BOOLEAN]
    BY <1>1, <2>1, CloseType DEF Destroy
  <2> QED BY <1>1, <2>1, <2>2, <2>3, StopType
<1>5. CASE CreateRegularLaptop(c)
  <2>1. PICK laptop : /\ laptop = Laptop(c, Got(c), -1) /\ Has(c, "order")
                      /\ Reply(c, MarshalLaptop(laptop), "order", laptop)
                      /\ UNCHANGED <<EngineerRest, erq>>
    BY <1>5 DEF CreateRegularLaptop
  <2>2. laptop \in LaptopInfo
    BY <1>3, <2>1, LaptopType
  <2> QED BY <1>3, <2>1, <2>2, LaptopWords, ReplyType
<1>6. CASE CreateCustomLaptop(c)
  <2>1. PICK laptop : /\ laptop = Laptop(c, Got(c), 0) /\ Has(c, "order")
                      /\ eng' = [eng EXCEPT ![c] = [role |-> "waiting", laptop |-> laptop]]
                      /\ erq' = Append(erq, c) /\ call' = Returned(c)
                      /\ UNCHANGED <<EngineerRest, table, is_initialized_, leaving, shut>>
    BY <1>6 DEF CreateCustomLaptop
  <2>2. [role |-> "waiting", laptop |-> laptop] \in Engineer
    BY <1>3, <2>1, LaptopType DEF Engineer
  <2>3. /\ eng' \in [Conn -> Engineer] /\ eng'[c].role = "waiting"
        /\ \A d \in Conn \ {c} : eng'[d] = eng[d]
    BY <1>1, <2>1, <2>2
  <2>4. /\ table' \in [Fd -> Socket \cup {NoSocket}]
        /\ is_initialized_' \in [Socket -> BOOLEAN] /\ shut' \in [Socket -> BOOLEAN]
    BY <1>1, <2>1 DEF SocketTypeOK
  <2> QED BY <1>3, <2>1, <2>3, <2>4, StopType
<1>7. CASE DeliverCustomLaptop(c)
  <2>1. /\ eng[c].role = "deliver"
        /\ Reply(c, MarshalLaptop(eng[c].laptop), "order", eng[c].laptop)
        /\ UNCHANGED <<EngineerRest, erq>>
    BY <1>7 DEF DeliverCustomLaptop
  <2> QED BY <1>1, <2>1, LaptopWords, ReplyType
<1>8. CASE ReadRecord(c)
  <2>1. PICK n \in Payload :
          Reply(c, MarshalRecord([customer_id |-> Got(c).customer_id, last_order |-> n]),
                "order", eng[c].laptop)
    BY <1>8 DEF ReadRecord
  <2>2. Has(c, "order") /\ UNCHANGED <<EngineerRest, erq>>
    BY <1>8 DEF ReadRecord
  <2>3. MarshalRecord([customer_id |-> Got(c).customer_id, last_order |-> n]) \in Seq(Word)
    BY <1>2, <1>3, <2>2, RecordWords
  <2> QED BY <1>1, <1>3, <2>1, <2>2, <2>3, ReplyType
<1>9. CASE Register(c)
  <2>1. /\ Has(c, "order") /\ UNCHANGED <<EngineerRest, erq>>
        /\ Reply(c, MarshalLaptop(eng[c].laptop), "backup", eng[c].laptop)
    BY <1>9 DEF Register
  <2> QED BY <1>1, <1>3, <2>1, LaptopWords, ReplyType
<1>10. CASE Status(c)
  <2>1. /\ Has(c, "order") /\ UNCHANGED <<EngineerRest, erq>>
    BY <1>10 DEF Status
  <2>2. PICK laptop : \E last_index \in Payload, primary \in Payload :
          /\ laptop = [customer_id |-> Got(c).customer_id, order_number |-> last_index,
                       request_type |-> primary, engineer_id |-> 0, admin_id |-> 0]
          /\ Reply(c, MarshalLaptop(laptop), "order", laptop)
    BY <1>10 DEF Status
  <2>3. 0 \in Int32
    BY Ints
  <2>4. laptop \in LaptopInfo
    BY <1>2, <1>3, <2>1, <2>2, <2>3 DEF LaptopInfo
  <2> QED BY <1>3, <2>1, <2>2, <2>4, LaptopWords, ReplyType
<1>11. CASE LogEntry(c)
  <2>1. /\ Has(c, "order") /\ UNCHANGED <<EngineerRest, erq>>
    BY <1>11 DEF LogEntry
  <2>2. PICK arg1 \in Payload, arg2 \in Payload :
          Reply(c, MarshalRecord([customer_id |-> arg1, last_order |-> arg2]),
                "order", eng[c].laptop)
    BY <1>11 DEF LogEntry
  <2>3. MarshalRecord([customer_id |-> arg1, last_order |-> arg2]) \in Seq(Word)
    BY <1>2, RecordWords
  <2> QED BY <1>1, <1>3, <2>1, <2>2, <2>3, ReplyType
<1>12. CASE Undefined(c)
  <2>1. /\ eng[c].role = "order" /\ call' = Receive(c, c, RequestSize)
        /\ UNCHANGED <<EngineerRest, table, is_initialized_, leaving, shut, eng, erq>>
    BY <1>12 DEF Undefined, Has
  <2>2. eng' = [eng EXCEPT ![c].role = "order"]
    BY <1>1, <2>1 DEF Engineer
  <2> QED BY <2>1, <2>2, AwaitType
<1>13. CASE BackupAppend(c)
  <2>1. /\ eng[c].role = "backup" /\ UNCHANGED <<EngineerRest, erq>>
        /\ Reply(c, MarshalReplicaResponse([status |-> 1]), "backup", eng[c].laptop)
    BY <1>13 DEF BackupAppend, Has
  <2>2. MarshalReplicaResponse([status |-> 1]) \in Seq(Word)
    BY MarshalType
  <2> QED BY <1>1, <2>1, <2>2, ReplyType
<1>14. CASE BackupEnd(c)
  <2>1. /\ eng[c].role = "backup" /\ call' = Receive(c, c, RequestSize)
        /\ eng' = [eng EXCEPT ![c].role = "order"]
        /\ UNCHANGED <<EngineerRest, table, is_initialized_, leaving, shut, erq>>
    BY <1>14 DEF BackupEnd, Has
  <2> QED BY <2>1, AwaitType
<1>15. CASE Recv(c) /\ UNCHANGED <<servervars, alive, registered, remote, mortal>>
  <2>1. /\ SocketInv' /\ UNCHANGED <<fd_, leaving, over>>
        /\ \A u \in Thread \ {c} : call'[u] = call[u]
        /\ call[c].pc \in {"receive", "blocked", "failed"} /\ call'[c].pc # "none"
        /\ call'[c].on = call[c].on /\ call'[c].size = call[c].size
    BY <1>1, <1>15, RecvType
  <2>2. eng[c].role # "waiting" /\ EngineerCall(c, eng'[c].role, call'[c])
    BY <1>1, <1>15, <2>1 DEF EngineerCall, servervars
  <2> QED BY <1>1, <1>15, <2>1, <2>2, EngineerFrame DEF SocketInv, servervars
<1> QED BY <1>4, <1>5, <1>6, <1>7, <1>8, <1>9, <1>10, <1>11, <1>12, <1>13, <1>14, <1>15
        DEF EngineerThread

(* A step of the expert thread.                                            *)
LEMMA ExpertFrame ==
  ASSUME TypeInv, SocketTypeOK', BufferFits',
         \A u \in Conn : call'[u] = call[u],
         expert' \in ExpertState, replica_stubs' \in Seq(Stub), erq' \in Seq(Conn),
         ExpertCall(expert', replica_stubs', call'[Expert]), Queued',
         UNCHANGED <<eng, running, backlog, alive, registered, remote>>
  PROVE  TypeInv'
<1>1. TypeOK'
  BY DEF TypeInv, TypeOK
<1>2. EngineerCalls'
  BY DEF TypeInv, EngineerCalls, EngineerCall
<1>3. ExpertCalls'
  BY DEF ExpertCalls, ExpertCall
<1>4. Asking'
  BY DEF TypeInv, Asking
<1> QED BY <1>1, <1>2, <1>3, <1>4 DEF TypeInv

(* One within an order.                                                    *)
LEMMA ExpertMoves ==
  ASSUME TypeInv, SocketTypeOK', BufferFits',
         \A u \in Conn : call'[u] = call[u],
         expert.pc # "idle", expert'.pc # "idle", expert' \in ExpertState,
         expert'.order = expert.order,
         replica_stubs' \in Seq(Stub),
         ExpertCall(expert', replica_stubs', call'[Expert]),
         UNCHANGED <<eng, erq, running, backlog, alive, registered, remote>>
  PROVE  TypeInv'
<1>1. Queued /\ erq \in Seq(Conn)
  BY TypesKnown DEF TypeInv
<1>2. Queued'
  BY <1>1 DEF Queued
<1> QED BY <1>1, <1>2, ExpertFrame

(* One that neither opens nor closes nor receives anything.                *)
LEMMA ExpertStill ==
  ASSUME TypeInv, UNCHANGED <<sockvars, ExpertRest, eng, erq>>,
         expert.pc # "idle", expert'.pc # "idle", expert' \in ExpertState,
         expert'.order = expert.order, replica_stubs' \in Seq(Stub),
         ExpertCall(expert', replica_stubs', call[Expert])
  PROVE  TypeInv'
<1>1. SocketTypeOK' /\ BufferFits'
  BY TypesKnown DEF sockvars, SocketTypeOK, BufferFits, CallFits, NoCall
<1>2. call' = call /\ UNCHANGED <<running, backlog, alive, registered, remote>>
  BY DEF sockvars, ExpertRest
<1> QED BY <1>1, <1>2, ExpertMoves

(* Where the expert goes on.                                               *)
LEMMA ExpertGoes ==
  ASSUME expert \in ExpertState, NEW i \in Nat,
         NEW pc \in {"idle", "connect", "register", "send", "await"},
         expert' = [expert EXCEPT !.pc = pc, !.i = i]
  PROVE  /\ expert' \in ExpertState /\ expert'.pc = pc /\ expert'.i = i
         /\ expert'.order = expert.order /\ expert'.k = expert.k
<1>1. PICK z : z = [expert EXCEPT !.pc = pc]
  OBVIOUS
<1>2. z \in ExpertState /\ z.pc = pc /\ z.order = expert.order /\ z.k = expert.k
  BY <1>1 DEF ExpertState
<1>3. expert' = [z EXCEPT !.i = i]
  BY <1>1
<1> QED BY <1>2, <1>3 DEF ExpertState

LEMMA ExpertType ==
  ASSUME TypeInv, ExpertThread PROVE TypeInv'
<1>1. /\ Expert \in Thread /\ \A c \in Conn : c \in Thread /\ c # Expert
      /\ SocketInv /\ SocketTypeOK /\ BufferFits
      /\ expert \in ExpertState /\ expert.i \in Nat /\ expert.k \in Nat
      /\ expert.order \in Conn \cup {NoSocket}
      /\ replica_stubs \in Seq(Stub) /\ Len(replica_stubs) \in Nat
      /\ erq \in Seq(Conn) /\ eng \in [Conn -> Engineer]
      /\ ExpertCall(expert, replica_stubs, call[Expert]) /\ CallFits(call[Expert])
  BY TypesKnown, Names DEF ExpertState, BufferFits
<1>2. /\ MaxOrders \in Nat /\ Len(Peers) \in Nat
      /\ \A i \in 1 .. Len(replica_stubs) : replica_stubs[i] \in Stub
  BY <1>1, ConnectionsAssumption, PeersType, ElementOfSeq
<1>3. CASE ExpertTake
  <2>1. /\ expert.pc = "idle" /\ erq # <<>> /\ expert.k < MaxOrders
        /\ Destroy(Range(replica_stubs))
        /\ replica_stubs' = <<>> /\ erq' = Tail(erq)
        /\ expert' = [pc |-> "connect", i |-> 1, order |-> Head(erq), k |-> expert.k + 1]
        /\ UNCHANGED <<ExpertRest, fd_, leaving, call, eng>>
    BY <1>3 DEF ExpertTake
  <2>2. SocketTypeOK' /\ BufferFits'
    <3>1. /\ table' \in [Fd -> Socket \cup {NoSocket}]
          /\ is_initialized_' \in [Socket -> BOOLEAN] /\ shut' \in [Socket -> BOOLEAN]
      BY <1>1, <2>1, CloseType DEF Destroy
    <3> QED BY <1>1, <2>1, <3>1
            DEF SocketTypeOK, BufferFits, CallFits, NoCall, ExpertRest
  <2>3. /\ Head(erq) \in Conn /\ Tail(erq) \in Seq(Conn)
        /\ Len(Tail(erq)) = Len(erq) - 1 /\ Len(erq) \in Nat /\ Len(erq) > 0
        /\ Head(erq) = erq[1]
        /\ \A i \in 1 .. Len(Tail(erq)) : Tail(erq)[i] = erq[i + 1]
    BY <1>1, <2>1, HeadTailProperties, LenProperties, EmptySeq
  <2>4. expert' \in ExpertState
    BY <1>1, <2>1, <2>3 DEF ExpertState
  <2>5. ExpertCall(expert', replica_stubs', call'[Expert])
    BY <1>1, <1>2, <2>1 DEF ExpertCall
  <2>6. Queued'
    <3>1. Queued
      BY DEF TypeInv
    <3>2. \A i \in 1 .. Len(erq) : /\ eng[erq[i]].role = "waiting"
                                   /\ \A j \in 1 .. Len(erq) : erq[i] = erq[j] => i = j
      BY <3>1 DEF Queued
    <3>3. eng'[expert'.order].role = "waiting" /\ expert'.order \in Conn
      BY <2>1, <2>3, <3>2
    <3>4. ASSUME NEW i \in 1 .. Len(erq')
          PROVE  /\ eng'[erq'[i]].role = "waiting" /\ erq'[i] # expert'.order
                 /\ \A j \in 1 .. Len(erq') : erq'[i] = erq'[j] => i = j
      <4>1. i + 1 \in 1 .. Len(erq) /\ erq'[i] = erq[i + 1] /\ 1 \in 1 .. Len(erq)
        BY <2>1, <2>3
      <4>2. erq[i + 1] # erq[1]
        BY <3>2, <4>1
      <4>3. ASSUME NEW j \in 1 .. Len(erq'), erq'[i] = erq'[j] PROVE i = j
        <5>1. j + 1 \in 1 .. Len(erq) /\ erq'[j] = erq[j + 1]
          BY <2>1, <2>3
        <5>2. i + 1 = j + 1
          BY <3>2, <4>1, <4>3, <5>1
        <5> QED BY <5>2
      <4> QED BY <2>1, <2>3, <3>2, <4>1, <4>2, <4>3
    <3>5. expert'.pc = "connect"
      BY <2>1
    <3> QED BY <3>3, <3>4, <3>5 DEF Queued
  <2>7. <<>> \in Seq(Stub)
    OBVIOUS
  <2> QED BY <2>1, <2>2, <2>3, <2>4, <2>5, <2>6, <2>7, ExpertFrame DEF ExpertRest
<1>4. CASE ExpertConnect
  <2> DEFINE s == <<"stub", Peers[expert.i], expert.k>>
  <2>1. /\ expert.pc = "connect" /\ expert.i <= Len(Peers)
        /\ UNCHANGED <<ExpertRest, shut, eng, erq, replica_stubs>>
    BY <1>4 DEF ExpertConnect
  <2>2. s \in Stub /\ s \in Socket /\ call[Expert] = NoCall
    <3>1. expert.i \in 1 .. Len(Peers) /\ expert.k \in 1 .. MaxOrders
      BY <1>1, <1>2, <2>1 DEF ExpertCall
    <3>2. call[Expert].pc = "none"
      BY <1>1, <2>1 DEF ExpertCall
    <3> QED BY <1>1, <3>1, <3>2, StubType, Names DEF CallFits
  <2> HIDE DEF s
  <2>3. CASE /\ expert' = [expert EXCEPT !.i = @ + 1] /\ UNCHANGED <<leaving, call>>
             /\ \/ UNCHANGED <<table, fd_, is_initialized_>>
                \/ FreeFds # {} /\ Install(s, FALSE)
    <3>1. /\ table' \in [Fd -> Socket \cup {NoSocket}]
          /\ fd_' \in [Socket -> Fd \cup {NoFd}]
          /\ is_initialized_' \in [Socket -> BOOLEAN]
      BY <1>1, <2>2, <2>3, InstallShows DEF SocketTypeOK
    <3>2. SocketTypeOK' /\ BufferFits'
      BY <1>1, <2>1, <2>3, <3>1
         DEF SocketTypeOK, BufferFits, CallFits, NoCall, ExpertRest
    <3>3. expert' \in ExpertState /\ expert'.order = expert.order /\ expert'.pc = "connect"
      BY <1>1, <2>1, <2>3 DEF ExpertState
    <3>4. ExpertCall(expert', replica_stubs', call'[Expert])
      BY <1>1, <2>1, <2>3 DEF ExpertCall, ExpertState
    <3> QED BY <1>1, <2>1, <2>3, <3>2, <3>3, <3>4, ExpertMoves DEF ExpertRest
  <2>4. CASE /\ FreeFds # {} /\ Install(s, TRUE)
             /\ leaving' = [leaving EXCEPT ![s] = Request(2, 0, 4, LaptopSize).words]
             /\ call' = Receive(Expert, s, LaptopSize)
             /\ expert' = [expert EXCEPT !.pc = "register"]
    <3>1. /\ table' \in [Fd -> Socket \cup {NoSocket}]
          /\ fd_' \in [Socket -> Fd \cup {NoFd}]
          /\ is_initialized_' \in [Socket -> BOOLEAN]
      BY <1>1, <2>2, <2>4, InstallShows
    <3>2. LaptopSize \in Nat \ {0} /\ LaptopSize \in Nat
      BY DEF LaptopSize
    <3>3. leaving' \in [Socket -> Seq(Word)]
      <4>1. Request(2, 0, 4, LaptopSize).words \in Seq(Word)
        BY <3>2, RequestType DEF Ask
      <4> QED BY <1>1, <2>2, <2>4, <4>1 DEF SocketTypeOK
    <3>4. /\ call' \in [Thread -> Call] /\ BufferFits'
          /\ call'[Expert] = [pc |-> "receive", on |-> s, at |-> NoSocket,
                              size |-> LaptopSize, buffer |-> <<>>]
          /\ \A u \in Thread \ {Expert} : call'[u] = call[u]
      BY <1>1, <2>2, <2>4, <3>2, ReceiveType
    <3>5. SocketTypeOK'
      BY <1>1, <2>1, <3>1, <3>3, <3>4 DEF SocketTypeOK, ExpertRest
    <3>6. /\ expert' \in ExpertState /\ expert'.order = expert.order
          /\ expert'.pc = "register" /\ expert'.i = expert.i /\ expert'.k = expert.k
      BY <1>1, <2>4 DEF ExpertState
    <3>7. call'[Expert].pc = "receive" /\ call'[Expert].on = s
      BY <3>4
    <3>8. ExpertCall(expert', replica_stubs', call'[Expert])
      BY <1>1, <2>1, <3>6, <3>7 DEF ExpertCall, s
    <3> QED BY <1>1, <2>1, <3>4, <3>5, <3>6, <3>8, ExpertMoves DEF ExpertRest
  <2> QED BY <1>4, <2>3, <2>4 DEF ExpertConnect, s
<1>5. CASE ExpertRegistered
  <2>1. /\ expert.pc = "register" /\ call[Expert].pc = "returned"
        /\ replica_stubs' = Append(replica_stubs, call[Expert].on)
        /\ call' = Returned(Expert)
        /\ expert' = [expert EXCEPT !.pc = "connect", !.i = @ + 1]
        /\ UNCHANGED <<ExpertRest, table, fd_, is_initialized_, leaving, shut, eng, erq>>
    BY <1>5 DEF ExpertRegistered
  <2>2. call[Expert].on \in Stub
    <3>1. expert.i \in 1 .. Len(Peers) /\ expert.k \in 1 .. MaxOrders
      BY <1>1, <1>2, <2>1 DEF ExpertCall
    <3> QED BY <1>1, <2>1, <3>1, StubType DEF ExpertCall
  <2>3. replica_stubs' \in Seq(Stub)
    BY <1>1, <2>1, <2>2, AppendProperties
  <2>4. /\ call' \in [Thread -> Call] /\ BufferFits' /\ call'[Expert] = NoCall
        /\ \A u \in Thread \ {Expert} : call'[u] = call[u]
    BY <1>1, <2>1, ReturnedType
  <2>5. SocketTypeOK'
    BY <1>1, <2>1, <2>4 DEF SocketTypeOK, ExpertRest
  <2>6. /\ expert' \in ExpertState /\ expert'.order = expert.order
        /\ expert'.pc = "connect" /\ expert'.i = expert.i + 1 /\ expert'.k = expert.k
    <3>1. PICK i \in Nat : i = expert.i + 1
      BY <1>1 DEF ExpertState
    <3>2. expert' = [expert EXCEPT !.pc = "connect", !.i = i]
      BY <2>1, <3>1
    <3> QED BY <1>1, <3>1, <3>2, ExpertGoes
  <2>7. ExpertCall(expert', replica_stubs', call'[Expert])
    BY <1>1, <2>1, <2>4, <2>6 DEF ExpertCall, NoCall
  <2> QED BY <1>1, <2>1, <2>3, <2>4, <2>5, <2>6, <2>7, ExpertMoves DEF ExpertRest
<1>6. CASE ExpertConnected
  <2>1. /\ expert.pc = "connect" /\ expert' = [expert EXCEPT !.pc = "send", !.i = 1]
        /\ UNCHANGED <<sockvars, ExpertRest, eng, erq, replica_stubs>>
    BY <1>6 DEF ExpertConnected
  <2>2. /\ expert' \in ExpertState /\ expert'.order = expert.order
        /\ expert'.pc = "send" /\ expert'.i = 1 /\ expert'.k = expert.k
    BY <1>1, <2>1, ExpertGoes
  <2>3. ExpertCall(expert', replica_stubs', call[Expert])
    BY <1>1, <2>1, <2>2 DEF ExpertCall
  <2>4. UNCHANGED <<sockvars, ExpertRest, eng, erq>> /\ replica_stubs' = replica_stubs
    BY <2>1
  <2> QED BY <1>1, <2>1, <2>2, <2>3, <2>4, ExpertStill
<1>7. CASE ExpertSend
  <2>1. PICK s : /\ s = replica_stubs[expert.i] /\ Send(s, Replicate(2, expert.k))
                 /\ IF ~Reaches(s)
                    THEN expert' = [expert EXCEPT !.i = @ + 1] /\ UNCHANGED call
                    ELSE /\ expert' = [expert EXCEPT !.pc = "await"]
                         /\ call' = Receive(Expert, s, ReplicaResponseSize)
    BY <1>7 DEF ExpertSend
  <2>2. /\ expert.pc = "send" /\ expert.i \in 1 .. Len(replica_stubs)
        /\ UNCHANGED <<ExpertRest, fd_, eng, erq, replica_stubs>>
    BY <1>1, <1>7 DEF ExpertSend, ExpertCall
  <2>3. s \in Stub /\ s \in Socket
    BY <1>2, <2>1, <2>2, Names
  <2>4. /\ table' \in [Fd -> Socket \cup {NoSocket}]
        /\ is_initialized_' \in [Socket -> BOOLEAN]
        /\ shut' \in [Socket -> BOOLEAN] /\ leaving' \in [Socket -> Seq(Word)]
    <3>1. Replicate(2, expert.k) \in Seq(Word)
      BY <1>1, ReplicateType
    <3> QED BY <1>1, <2>1, <2>3, <3>1, SendType
  <2>5. CASE ~Reaches(s)
    <3>1. SocketTypeOK' /\ BufferFits'
      BY <1>1, <2>1, <2>2, <2>4, <2>5
         DEF SocketTypeOK, BufferFits, CallFits, NoCall, ExpertRest
    <3>2. /\ expert' \in ExpertState /\ expert'.order = expert.order /\ expert'.pc = "send"
          /\ ExpertCall(expert', replica_stubs', call'[Expert])
      BY <1>1, <2>1, <2>2, <2>5 DEF ExpertState, ExpertCall
    <3> QED BY <1>1, <2>1, <2>2, <2>5, <3>1, <3>2, ExpertMoves DEF ExpertRest
  <2>6. CASE Reaches(s)
    <3>1. ReplicaResponseSize \in Nat \ {0}
      BY DEF ReplicaResponseSize
    <3>2. /\ call' \in [Thread -> Call] /\ BufferFits'
          /\ call'[Expert] = [pc |-> "receive", on |-> s, at |-> NoSocket,
                              size |-> ReplicaResponseSize, buffer |-> <<>>]
          /\ \A u \in Thread \ {Expert} : call'[u] = call[u]
      BY <1>1, <2>1, <2>3, <2>6, <3>1, ReceiveType
    <3>3. SocketTypeOK'
      BY <1>1, <2>2, <2>4, <3>2 DEF SocketTypeOK, ExpertRest
    <3>4. expert' \in ExpertState /\ expert'.order = expert.order /\ expert'.pc = "await"
      BY <1>1, <2>1, <2>6 DEF ExpertState
    <3>5. ExpertCall(expert', replica_stubs', call'[Expert])
      BY <1>1, <2>1, <2>2, <2>6, <3>2 DEF ExpertState, ExpertCall
    <3> QED BY <1>1, <2>2, <3>2, <3>3, <3>4, <3>5, ExpertMoves DEF ExpertRest
  <2> QED BY <2>5, <2>6
<1>8. CASE ExpertKilled
  <2>1. /\ expert.pc = "send" /\ running' = FALSE
        /\ UNCHANGED <<sockvars, backlog, eng, erq, expert, replica_stubs, alive,
                       registered, remote, mortal>>
    BY <1>8 DEF ExpertKilled
  <2>2. TypeOK'
    BY <2>1 DEF TypeInv, TypeOK, sockvars, SocketTypeOK
  <2> QED BY <2>1, <2>2 DEF TypeInv, sockvars, BufferFits, EngineerCalls, ExpertCalls,
             Queued, Asking, CallFits, NoCall, EngineerCall, ExpertCall
<1>9. CASE ExpertAcked
  <2>1. /\ expert.pc = "await" /\ call' = Returned(Expert)
        /\ expert' = [expert EXCEPT !.pc = "send", !.i = @ + 1]
        /\ UNCHANGED <<ExpertRest, table, fd_, is_initialized_, leaving, shut, eng, erq,
                       replica_stubs>>
    BY <1>9 DEF ExpertAcked
  <2>2. /\ call' \in [Thread -> Call] /\ BufferFits' /\ call'[Expert] = NoCall
        /\ \A u \in Thread \ {Expert} : call'[u] = call[u]
    BY <1>1, <2>1, ReturnedType
  <2>3. SocketTypeOK'
    BY <1>1, <2>1, <2>2 DEF SocketTypeOK, ExpertRest
  <2>4. /\ expert' \in ExpertState /\ expert'.order = expert.order
        /\ expert'.pc = "send" /\ expert'.i = expert.i + 1 /\ expert'.k = expert.k
    <3>1. PICK i \in Nat : i = expert.i + 1
      BY <1>1 DEF ExpertState
    <3>2. expert' = [expert EXCEPT !.pc = "send", !.i = i]
      BY <2>1, <3>1
    <3> QED BY <1>1, <3>1, <3>2, ExpertGoes
  <2>5. ExpertCall(expert', replica_stubs', call'[Expert])
    BY <1>1, <2>1, <2>2, <2>4 DEF ExpertCall, NoCall
  <2> QED BY <1>1, <2>1, <2>2, <2>3, <2>4, <2>5, ExpertMoves DEF ExpertRest
<1>10. CASE ExpertFinish
  <2>1. /\ expert.pc = "send"
        /\ eng' = [eng EXCEPT ![expert.order].role = "deliver"]
        /\ expert' = [expert EXCEPT !.pc = "idle", !.order = NoSocket]
        /\ UNCHANGED <<sockvars, ExpertRest, erq, replica_stubs>>
    BY <1>10 DEF ExpertFinish
  <2>2. PICK c \in Conn : c = expert.order /\ eng[c].role = "waiting"
    BY <2>1 DEF TypeInv, Queued
  <2>3. /\ eng' \in [Conn -> Engineer] /\ eng'[c].role = "deliver"
        /\ \A d \in Conn \ {c} : eng'[d] = eng[d]
    BY <1>1, <2>1, <2>2 DEF Engineer
  <2>4. expert' \in ExpertState /\ expert'.pc = "idle" /\ expert'.order = NoSocket
    BY <1>1, <2>1 DEF ExpertState
  <2>5. TypeOK'
    BY <2>1, <2>3, <2>4 DEF TypeInv, TypeOK, sockvars, SocketTypeOK, ExpertRest
  <2>6. BufferFits' /\ Asking'
    BY <2>1 DEF TypeInv, sockvars, BufferFits, CallFits, NoCall, Asking, ExpertRest
  <2>7. EngineerCalls'
    <3>1. ASSUME NEW d \in Conn PROVE EngineerCall(d, eng'[d].role, call[d])
      BY <2>2, <2>3 DEF TypeInv, EngineerCalls, EngineerCall
    <3> QED BY <2>1, <3>1 DEF EngineerCalls, EngineerCall, sockvars
  <2>8. ExpertCalls'
    BY <1>1, <2>1 DEF ExpertCalls, ExpertCall, ExpertState, sockvars
  <2>9. Queued'
    <3>1. Queued /\ \A i \in 1 .. Len(erq) : erq[i] \in Conn
      BY <1>1, ElementOfSeq DEF TypeInv
    <3>2. \A i \in 1 .. Len(erq) : /\ eng'[erq[i]].role = "waiting" /\ erq[i] # NoSocket
                                   /\ \A j \in 1 .. Len(erq) : erq[i] = erq[j] => i = j
      BY <2>2, <2>3, <3>1, Names DEF Queued
    <3> QED BY <2>1, <2>4, <3>2 DEF Queued
  <2> QED BY <2>5, <2>6, <2>7, <2>8, <2>9 DEF TypeInv
<1>11. CASE Recv(Expert) /\ UNCHANGED <<servervars, alive, registered, remote, mortal>>
  <2>1. /\ SocketInv' /\ UNCHANGED <<fd_, leaving, over>>
        /\ \A u \in Thread \ {Expert} : call'[u] = call[u]
        /\ call[Expert].pc \in {"receive", "blocked", "failed"} /\ call'[Expert].pc # "none"
        /\ call'[Expert].on = call[Expert].on /\ call'[Expert].size = call[Expert].size
    BY <1>1, <1>11, RecvType
  <2>2. expert.pc # "idle" /\ ExpertCall(expert', replica_stubs', call'[Expert])
    BY <1>1, <1>11, <2>1 DEF ExpertCall, servervars
  <2> QED BY <1>1, <1>11, <2>1, <2>2, ExpertMoves DEF SocketInv, servervars
<1> QED BY <1>3, <1>4, <1>5, <1>6, <1>7, <1>8, <1>9, <1>10, <1>11 DEF ExpertThread

-----------------------------------------------------------------------------
(* main, the far ends and the peers. *)

(* Each connection is made once, and has no engineer before it is accepted. *)
ToAccept ==
  /\ \A i \in 1 .. Len(backlog) :
       /\ eng[backlog[i]].role = "none" /\ remote[backlog[i]].pc # "new"
       /\ \A j \in 1 .. Len(backlog) : backlog[i] = backlog[j] => i = j
  /\ \A c \in Conn : remote[c].pc = "new" => eng[c].role = "none"

(* A step that no thread of this server takes.                             *)
LEMMA FarFrame ==
  ASSUME TypeInv, SocketTypeOK', running' \in BOOLEAN, backlog' \in Seq(Conn),
         remote' \in [Conn -> Remote], Asking',
         alive' \subseteq Range(Peers), registered' \subseteq Stub,
         UNCHANGED <<call, eng, erq, expert, replica_stubs>>
  PROVE  TypeInv'
<1>1. TypeOK'
  BY DEF TypeInv, TypeOK
<1>2. BufferFits'
  BY DEF TypeInv, BufferFits, CallFits, NoCall
<1>3. EngineerCalls' /\ ExpertCalls'
  BY DEF TypeInv, EngineerCalls, EngineerCall, ExpertCalls, ExpertCall
<1>4. Queued'
  BY DEF TypeInv, Queued
<1> QED BY <1>1, <1>2, <1>3, <1>4 DEF TypeInv

(* A part of a sequence, and what is left of it.                           *)
LEMMA Parts ==
  ASSUME NEW T, NEW s \in Seq(T), NEW n \in 0 .. Len(s)
  PROVE  /\ SubSeq(s, 1, n) \in Seq(T) /\ SubSeq(s, n + 1, Len(s)) \in Seq(T)
         /\ Len(SubSeq(s, 1, n)) = n /\ Len(SubSeq(s, n + 1, Len(s))) = Len(s) - n
         /\ SubSeq(s, 1, n) \o SubSeq(s, n + 1, Len(s)) = s
<1>1. Len(s) \in Nat /\ \A i \in 1 .. Len(s) : s[i] \in T
  BY LenProperties, ElementOfSeq
<1> DEFINE a == SubSeq(s, 1, n)
           b == SubSeq(s, n + 1, Len(s))
<1>2. a \in Seq(T) /\ Len(a) = n /\ \A i \in 1 .. n : a[i] = s[i]
  <2>1. \A i \in 1 .. n : s[i] \in T
    BY <1>1
  <2> QED BY <1>1, <2>1, SubSeqProperties
<1>3. b \in Seq(T) /\ Len(b) = Len(s) - n /\ \A i \in 1 .. Len(s) - n : b[i] = s[n + i]
  <2>1. \A i \in n + 1 .. Len(s) : s[i] \in T
    BY <1>1
  <2>2. \A i \in 1 .. Len(s) - n : n + 1 + i - 1 = n + i
    BY <1>1
  <2> QED BY <1>1, <2>1, <2>2, SubSeqProperties
<1> HIDE DEF a, b
<1>4. /\ a \o b \in Seq(T) /\ Len(a \o b) = Len(s)
      /\ \A i \in 1 .. Len(s) : (a \o b)[i] = IF i <= n THEN a[i] ELSE b[i - n]
  <2>1. /\ a \o b \in Seq(T) /\ Len(a \o b) = Len(a) + Len(b)
        /\ \A i \in 1 .. Len(a) + Len(b) :
             (a \o b)[i] = IF i <= Len(a) THEN a[i] ELSE b[i - Len(a)]
    BY <1>2, <1>3, ConcatProperties
  <2>2. Len(a) + Len(b) = Len(s) /\ Len(a) = n
    BY <1>1, <1>2, <1>3
  <2> QED BY <2>1, <2>2
<1>5. \A i \in 1 .. Len(s) : (a \o b)[i] = s[i]
  BY <1>1, <1>2, <1>3, <1>4
<1>6. a \o b = s
  <2> DEFINE ab == a \o b
  <2>1. ab \in Seq(T) /\ Len(ab) = Len(s) /\ \A i \in 1 .. Len(s) : ab[i] = s[i]
    BY <1>4, <1>5
  <2> HIDE DEF ab
  <2>2. ab = s
    BY <1>1, <2>1, SeqEqual
  <2> QED BY <2>2 DEF ab
<1> QED BY <1>2, <1>3, <1>6 DEF a, b

(* A step of the far end of a connection.                                  *)
LEMMA RemoteType ==
  ASSUME TypeInv, NEW c \in Conn,
         \/ RemoteConnect(c) \/ RemoteAsk(c) \/ RemoteAnswered(c) \/ RemoteClose(c)
         \/ RemoteDie(c)
  PROVE  TypeInv'
<1>1. /\ SocketTypeOK /\ c \in Socket /\ backlog \in Seq(Conn) /\ running \in BOOLEAN
      /\ remote \in [Conn -> Remote] /\ remote[c] \in Remote /\ remote[c].n \in Nat
      /\ alive \subseteq Range(Peers) /\ registered \subseteq Stub /\ Asking
      /\ arriving[c] \in Seq(Word) /\ leaving[c] \in Seq(Word) /\ Len(leaving[c]) \in Nat
      /\ arriving \in [Socket -> Seq(Word)] /\ leaving \in [Socket -> Seq(Word)]
      /\ over \in [Socket -> BOOLEAN]
  <2>1. TypeOK /\ Asking /\ SocketTypeOK /\ c \in Socket
    BY TypesKnown, Names DEF TypeInv
  <2>2. arriving[c] \in Seq(Word) /\ leaving[c] \in Seq(Word)
    BY <2>1 DEF SocketTypeOK
  <2> QED BY <2>1, <2>2, LenProperties DEF TypeOK, SocketTypeOK, Remote
<1>2. ASSUME NEW r, r \in Remote, remote' = [remote EXCEPT ![c] = r],
             r.pc = "await" => r.n \in 1 .. Len(Script[c])
      PROVE  remote' \in [Conn -> Remote] /\ Asking'
  BY <1>1, <1>2 DEF Asking
<1>3. CASE RemoteConnect(c)
  <2>1. /\ backlog' = Append(backlog, c) /\ remote' = [remote EXCEPT ![c].pc = "ask"]
        /\ UNCHANGED <<sockvars, running, eng, erq, expert, replica_stubs, alive,
                       registered>>
    BY <1>3 DEF RemoteConnect
  <2>2. PICK r : r = [remote[c] EXCEPT !.pc = "ask"]
    OBVIOUS
  <2>3. r \in Remote /\ r.pc = "ask" /\ remote' = [remote EXCEPT ![c] = r]
    BY <1>1, <2>1, <2>2 DEF Remote
  <2>4. backlog' \in Seq(Conn) /\ SocketTypeOK'
    BY <1>1, <2>1, AppendProperties DEF sockvars, SocketTypeOK
  <2> QED BY <1>1, <1>2, <2>1, <2>3, <2>4, FarFrame DEF sockvars
<1>4. CASE RemoteAsk(c)
  <2>1. /\ remote[c].n < Len(Script[c])
        /\ arriving' = IF shut[c] \/ ~running THEN arriving
                       ELSE [arriving EXCEPT ![c] = @ \o Script[c][remote[c].n + 1].words]
        /\ remote' = [remote EXCEPT ![c] =
                        [pc |-> "await", n |-> @.n + 1, answer |-> <<>>]]
        /\ UNCHANGED <<table, fd_, is_initialized_, leaving, over, shut, call,
                       servervars, alive, registered>>
    BY <1>4 DEF RemoteAsk
  <2>2. remote[c].n + 1 \in 1 .. Len(Script[c])
    BY <1>1, <2>1, ScriptType
  <2>3. PICK w \in Seq(Word) : w = Script[c][remote[c].n + 1].words
    BY <2>2, ScriptType DEF Ask
  <2>4. arriving[c] \o w \in Seq(Word)
    BY <1>1, ConcatProperties
  <2>5. arriving' \in [Socket -> Seq(Word)]
    BY <1>1, <2>1, <2>3, <2>4
  <2>6. SocketTypeOK'
    BY <1>1, <2>1, <2>5 DEF SocketTypeOK
  <2>7. PICK r : r = [pc |-> "await", n |-> remote[c].n + 1, answer |-> <<>>]
    OBVIOUS
  <2>8. <<>> \in Seq(Word)
    BY EmptySeq
  <2>9. r \in Remote /\ r.n \in 1 .. Len(Script[c]) /\ remote' = [remote EXCEPT ![c] = r]
    BY <1>1, <2>1, <2>2, <2>7, <2>8 DEF Remote
  <2> QED BY <1>1, <1>2, <2>1, <2>6, <2>9, FarFrame DEF servervars
<1>5. CASE RemoteAnswered(c)
  <2>1. PICK pc \in {"done", "ask"}, n \in Nat :
          /\ n = Wanted(c) /\ n <= Len(leaving[c])
          /\ remote' = [remote EXCEPT ![c].pc = pc,
                                      ![c].answer = SubSeq(leaving[c], 1, n)]
          /\ leaving' = [leaving EXCEPT ![c] = SubSeq(@, n + 1, Len(@))]
    <3>1. remote[c].pc = "await" /\ Len(leaving[c]) >= Wanted(c)
      BY <1>5 DEF RemoteAnswered
    <3>2. remote[c].n \in 1 .. Len(Script[c])
      BY <1>1, <3>1 DEF Asking
    <3>3. Wanted(c) \in Nat
      BY <3>2, ScriptType DEF Wanted, Ask
    <3>4. \E stop \in BOOLEAN :
            /\ remote' = [remote EXCEPT ![c].pc = IF stop THEN "done" ELSE "ask",
                                        ![c].answer = SubSeq(leaving[c], 1, Wanted(c))]
            /\ leaving' = [leaving EXCEPT ![c] = SubSeq(@, Wanted(c) + 1, Len(@))]
      BY <1>5, Zenon DEF RemoteAnswered
    <3> QED BY <1>1, <3>1, <3>3, <3>4
  <2>2. /\ UNCHANGED <<table, fd_, is_initialized_, arriving, over, shut, call,
                       servervars, alive, registered>>
    BY <1>5 DEF RemoteAnswered
  <2>3. PICK a, l : a = SubSeq(leaving[c], 1, n)
                    /\ l = SubSeq(leaving[c], n + 1, Len(leaving[c]))
    OBVIOUS
  <2>4. a \in Seq(Word) /\ l \in Seq(Word)
    <3>1. n \in 0 .. Len(leaving[c])
      BY <1>1, <2>1
    <3> QED BY <1>1, <2>3, <3>1, Parts
  <2>5. leaving' = [leaving EXCEPT ![c] = l]
    BY <2>1, <2>3
  <2>6. SocketTypeOK'
    <3>1. leaving' \in [Socket -> Seq(Word)]
      BY <1>1, <2>4, <2>5
    <3> QED BY <1>1, <2>2, <3>1 DEF SocketTypeOK
  <2>7. PICK q, r : q = [remote[c] EXCEPT !.pc = pc] /\ r = [q EXCEPT !.answer = a]
    OBVIOUS
  <2>8. r \in Remote /\ r.pc # "await"
    <3>1. q \in Remote /\ q.pc = pc
      BY <1>1, <2>7 DEF Remote
    <3> QED BY <2>4, <2>7, <3>1 DEF Remote
  <2>9. remote' = [remote EXCEPT ![c] = r]
    BY <1>1, <2>1, <2>3, <2>7
  <2> QED BY <1>1, <1>2, <2>2, <2>6, <2>8, <2>9, FarFrame DEF servervars
<1>6. ASSUME remote' = [remote EXCEPT ![c].pc = "closed"],
             over' = [over EXCEPT ![c] = TRUE],
             arriving' \in [Socket -> Seq(Word)],
             UNCHANGED <<table, fd_, is_initialized_, leaving, shut, call,
                         servervars, alive, registered>>
      PROVE  TypeInv'
  <2>1. PICK r : r = [remote[c] EXCEPT !.pc = "closed"]
    OBVIOUS
  <2>2. r \in Remote /\ r.pc = "closed" /\ remote' = [remote EXCEPT ![c] = r]
    BY <1>1, <1>6, <2>1 DEF Remote
  <2>3. over' \in [Socket -> BOOLEAN]
    BY <1>1, <1>6
  <2>4. SocketTypeOK'
    BY <1>1, <1>6, <2>3 DEF SocketTypeOK
  <2> QED BY <1>1, <1>2, <1>6, <2>2, <2>4, FarFrame DEF servervars
<1>7. CASE RemoteClose(c)
  BY <1>1, <1>6, <1>7 DEF RemoteClose
<1>8. CASE RemoteDie(c)
  <2>1. PICK n \in 0 .. Len(arriving[c]) :
          arriving' = [arriving EXCEPT ![c] = SubSeq(@, 1, n)]
    BY <1>8 DEF RemoteDie
  <2>2. PICK a : a = SubSeq(arriving[c], 1, n)
    OBVIOUS
  <2>3. a \in Seq(Word)
    BY <1>1, <2>2, Parts
  <2>4. arriving' \in [Socket -> Seq(Word)]
    BY <1>1, <2>1, <2>2, <2>3
  <2> QED BY <1>1, <1>6, <1>8, <2>4 DEF RemoteDie
<1> QED BY <1>3, <1>4, <1>5, <1>7, <1>8

(* A step of a peer.                                                       *)
LEMMA PeerType ==
  ASSUME TypeInv,
         (\E s \in Stub : PeerAnswer(s)) \/ (\E p \in Range(Peers) : PeerDie(p))
  PROVE  TypeInv'
<1>1. /\ TypeOK /\ Asking /\ SocketTypeOK /\ running \in BOOLEAN /\ backlog \in Seq(Conn)
      /\ remote \in [Conn -> Remote]
      /\ alive \subseteq Range(Peers) /\ registered \subseteq Stub
      /\ arriving \in [Socket -> Seq(Word)] /\ leaving \in [Socket -> Seq(Word)]
      /\ over \in [Socket -> BOOLEAN]
  BY TypesKnown DEF TypeInv, TypeOK, SocketTypeOK
<1>2. CASE \E s \in Stub : PeerAnswer(s)
  <2>1. PICK s \in Stub : PeerAnswer(s)
    BY <1>2
  <2>2. /\ s \in Socket /\ leaving[s] \in Seq(Word) /\ arriving[s] \in Seq(Word)
        /\ Len(leaving[s]) \in Nat
    BY <1>1, Names, LenProperties
  <2>3. PICK size \in Nat, answer \in Seq(Word) :
          /\ Len(leaving[s]) >= size
          /\ leaving' = [leaving EXCEPT ![s] = SubSeq(@, size + 1, Len(@))]
          /\ arriving' = [arriving EXCEPT ![s] = @ \o answer]
    <3>1. /\ MarshalReplicaResponse([status |-> 1]) \in Seq(Word)
          /\ MarshalLaptop(NoLaptopInfo) \in Seq(Word)
          /\ ReplicaRequestSize \in Nat /\ RequestSize \in Nat
      BY MarshalType DEF NoLaptopInfo, ReplicaRequestSize, RequestSize
    <3> QED BY <2>1, <3>1 DEF PeerAnswer
  <2>4. PICK l, a : /\ l = SubSeq(leaving[s], size + 1, Len(leaving[s]))
                    /\ a = arriving[s] \o answer
    OBVIOUS
  <2>5. l \in Seq(Word) /\ a \in Seq(Word)
    <3>1. size \in 0 .. Len(leaving[s])
      BY <2>2, <2>3
    <3> QED BY <2>2, <2>4, <3>1, Parts, ConcatProperties
  <2>6. arriving' \in [Socket -> Seq(Word)] /\ leaving' \in [Socket -> Seq(Word)]
    BY <1>1, <2>2, <2>3, <2>4, <2>5
  <2>7. /\ registered' = registered \cup {s}
        /\ UNCHANGED <<table, fd_, is_initialized_, over, shut, call, servervars,
                       alive, remote>>
    BY <2>1 DEF PeerAnswer
  <2>8. SocketTypeOK' /\ Asking' /\ registered' \subseteq Stub
    BY <1>1, <2>6, <2>7 DEF SocketTypeOK, Asking
  <2> QED BY <1>1, <2>7, <2>8, FarFrame DEF servervars
<1>3. CASE \E p \in Range(Peers) : PeerDie(p)
  <2>1. PICK p \in Range(Peers) : PeerDie(p)
    BY <1>3
  <2>2. /\ over' = [s \in Socket |-> over[s] \/ (s \in Stub /\ s[2] = p)]
        /\ alive' \subseteq alive
        /\ UNCHANGED <<table, fd_, is_initialized_, arriving, leaving, shut, call,
                       servervars, registered, remote>>
    BY <2>1 DEF PeerDie
  <2>3. over' \in [Socket -> BOOLEAN]
    BY <1>1, <2>2, Zenon
  <2>4. SocketTypeOK' /\ Asking'
    BY <1>1, <2>2, <2>3 DEF SocketTypeOK, Asking
  <2> QED BY <1>1, <2>2, <2>4, FarFrame DEF servervars
<1> QED BY <1>2, <1>3

(* What a step of main takes from the backlog.                             *)
LEMMA HeadOfBacklog ==
  ASSUME TypeInv, backlog # <<>>
  PROVE  /\ Head(backlog) \in Conn /\ Tail(backlog) \in Seq(Conn)
         /\ Len(backlog) \in Nat /\ Len(backlog) >= 1 /\ Head(backlog) = backlog[1]
         /\ Len(Tail(backlog)) = Len(backlog) - 1
         /\ \A i \in 1 .. Len(backlog) - 1 : Tail(backlog)[i] = backlog[i + 1]
<1>1. backlog \in Seq(Conn)
  BY TypesKnown
<1> QED BY <1>1, HeadTailProperties, LenProperties, EmptySeq, ElementOfSeq

LEMMA MainType ==
  ASSUME TypeInv, ToAccept, Main PROVE TypeInv'
<1>1. /\ SocketTypeOK /\ SocketInv /\ running \in BOOLEAN /\ backlog \in Seq(Conn)
      /\ remote \in [Conn -> Remote] /\ eng \in [Conn -> Engineer]
      /\ alive \subseteq Range(Peers) /\ registered \subseteq Stub /\ Asking
  BY TypesKnown DEF TypeInv, TypeOK
<1>2. CASE Accept
  <2>1. PICK c \in Conn : /\ c = backlog[1] /\ Install(c, TRUE)
                          /\ eng' = [eng EXCEPT ![c].role = "order"]
                          /\ call' = Receive(c, c, RequestSize)
                          /\ backlog' \in Seq(Conn) /\ eng[c].role = "none"
    <3>1. backlog # <<>>
      BY <1>2 DEF Accept
    <3>2. eng[backlog[1]].role = "none"
      BY <3>1, HeadOfBacklog DEF ToAccept
    <3> QED BY <1>2, <3>1, <3>2, HeadOfBacklog DEF Accept
  <2>2. /\ FreeFds # {}
        /\ UNCHANGED <<arriving, leaving, over, shut, running, erq, expert,
                       replica_stubs, alive, registered, remote>>
    BY <1>2 DEF Accept
  <2>3. c \in Socket /\ c \in Thread /\ RequestSize \in Nat \ {0}
    BY Names DEF RequestSize
  <2>4. /\ call' \in [Thread -> Call] /\ BufferFits'
        /\ call'[c] = [pc |-> "receive", on |-> c, at |-> NoSocket, size |-> RequestSize,
                       buffer |-> <<>>]
        /\ \A u \in Thread \ {c} : call'[u] = call[u]
    BY <1>1, <2>1, <2>3, ReceiveType
  <2>5. /\ table' \in [Fd -> Socket \cup {NoSocket}]
        /\ fd_' \in [Socket -> Fd \cup {NoFd}]
        /\ is_initialized_' \in [Socket -> BOOLEAN]
    BY <1>1, <2>1, <2>2, <2>3, InstallShows
  <2>6. SocketTypeOK'
    BY <1>1, <2>2, <2>4, <2>5 DEF SocketTypeOK
  <2>7. /\ eng' \in [Conn -> Engineer] /\ eng'[c].role = "order"
        /\ \A d \in Conn \ {c} : eng'[d] = eng[d]
    BY <1>1, <2>1 DEF Engineer
  <2>8. TypeOK'
    BY <2>1, <2>2, <2>6, <2>7 DEF TypeInv, TypeOK
  <2>9. EngineerCalls'
    <3>1. \A d \in Conn : EngineerCall(d, eng[d].role, call[d])
      BY TypesKnown
    <3>2. ASSUME NEW d \in Conn PROVE EngineerCall(d, eng'[d].role, call'[d])
      <4>1. CASE d = c
        BY <2>4, <2>7, <4>1 DEF EngineerCall
      <4>2. CASE d # c
        BY <2>4, <2>7, <3>1, <4>2, Names
      <4> QED BY <4>1, <4>2
    <3> QED BY <3>2 DEF EngineerCalls, EngineerCall
  <2>10. ExpertCalls'
    <3>1. call'[Expert] = call[Expert]
      BY <2>4, Names
    <3> QED BY <2>2, <3>1 DEF TypeInv, ExpertCalls, ExpertCall
  <2>11. Queued'
    <3>1. Queued /\ \A i \in 1 .. Len(erq) : erq[i] \in Conn
      BY TypesKnown, ElementOfSeq DEF TypeInv
    <3>2. \A d \in Conn : eng[d].role = "waiting" => eng'[d].role = "waiting"
      BY <2>1, <2>7
    <3> QED BY <2>2, <3>1, <3>2 DEF Queued
  <2> QED BY <1>1, <2>2, <2>4, <2>8, <2>9, <2>10, <2>11 DEF TypeInv, Asking
<1>3. CASE AcceptFails
  <2>1. running' = FALSE /\ UNCHANGED <<sockvars, backlog, eng, erq, expert,
                                        replica_stubs, alive, registered, remote>>
    BY <1>3 DEF AcceptFails
  <2>2. SocketTypeOK' /\ Asking'
    BY <1>1, <2>1 DEF sockvars, SocketTypeOK, Asking
  <2> QED BY <1>1, <2>1, <2>2, FarFrame DEF sockvars
<1> QED BY <1>2, <1>3 DEF Main

(* Engineers answer what was accepted, and change nothing else of this.    *)
LEMMA EngineerRoles ==
  ASSUME TypeInv, NEW c \in Conn, EngineerThread(c)
  PROVE  /\ UNCHANGED <<running, backlog, remote, alive, registered, mortal, replica_stubs,
                        expert>>
         /\ \A d \in Conn \ {c} : eng'[d] = eng[d]
         /\ eng[c].role = "none" => eng'[c].role = "none"
<1>1. eng \in [Conn -> Engineer] /\ EngineerCall(c, eng[c].role, call[c])
  BY TypesKnown
<1>2. CASE Recv(c) /\ UNCHANGED <<servervars, alive, registered, remote, mortal>>
  BY <1>2 DEF servervars
<1>3. ASSUME NEW e, eng' = [eng EXCEPT ![c] = e], eng[c].role # "none",
             UNCHANGED EngineerRest
      PROVE  /\ UNCHANGED <<running, backlog, remote, alive, registered, mortal,
                            replica_stubs, expert>>
             /\ \A d \in Conn \ {c} : eng'[d] = eng[d]
             /\ eng[c].role = "none" => eng'[c].role = "none"
  BY <1>1, <1>3 DEF EngineerRest
<1>4. CASE EngineerEnd(c)
  <2>1. eng' = [eng EXCEPT ![c] = [eng[c] EXCEPT !.role = "ended"]]
    BY <1>4 DEF EngineerEnd
  <2> QED BY <1>3, <1>4, <2>1 DEF EngineerEnd, Has
<1>5. CASE CreateRegularLaptop(c)
  <2>1. eng' = [eng EXCEPT ![c] = [role |-> "order", laptop |-> Laptop(c, Got(c), -1)]]
    BY <1>5 DEF CreateRegularLaptop, Reply
  <2> QED BY <1>3, <1>5, <2>1 DEF CreateRegularLaptop, Has
<1>6. CASE CreateCustomLaptop(c)
  <2>1. eng' = [eng EXCEPT ![c] = [role |-> "waiting", laptop |-> Laptop(c, Got(c), 0)]]
    BY <1>6 DEF CreateCustomLaptop
  <2> QED BY <1>3, <1>6, <2>1 DEF CreateCustomLaptop, Has
<1>7. CASE DeliverCustomLaptop(c) \/ Register(c) \/ BackupAppend(c)
  <2>1. PICK role, laptop : eng' = [eng EXCEPT ![c] = [role |-> role, laptop |-> laptop]]
    BY <1>7 DEF DeliverCustomLaptop, Register, BackupAppend, Reply
  <2> QED BY <1>3, <1>7, <2>1 DEF DeliverCustomLaptop, Register, BackupAppend, Has
<1>8. CASE ReadRecord(c) \/ Status(c) \/ LogEntry(c)
  <2>1. PICK laptop : eng' = [eng EXCEPT ![c] = [role |-> "order", laptop |-> laptop]]
    BY <1>8 DEF ReadRecord, Status, LogEntry, Reply
  <2> QED BY <1>3, <1>8, <2>1 DEF ReadRecord, Status, LogEntry, Has
<1>9. CASE Undefined(c)
  BY <1>9 DEF Undefined, EngineerRest
<1>10. CASE BackupEnd(c)
  <2>1. eng' = [eng EXCEPT ![c] = [eng[c] EXCEPT !.role = "order"]]
    BY <1>10 DEF BackupEnd
  <2> QED BY <1>3, <1>10, <2>1 DEF BackupEnd, Has
<1> QED BY <1>2, <1>4, <1>5, <1>6, <1>7, <1>8, <1>9, <1>10 DEF EngineerThread

(* The expert sees neither the backlog nor the far ends, and the engineer  *)
(* it answers has accepted long ago.                                       *)
LEMMA ExpertRoles ==
  ASSUME TypeInv, ExpertThread
  PROVE  /\ UNCHANGED <<backlog, remote, alive, registered, mortal>>
         /\ \A d \in Conn : eng'[d] = eng[d]
                            \/ (eng[d].role = "waiting" /\ eng'[d].role = "deliver")
<1>1. eng \in [Conn -> Engineer]
  BY TypesKnown
<1>2. CASE ExpertFinish
  <2>1. /\ eng' = [eng EXCEPT ![expert.order].role = "deliver"] /\ expert.pc = "send"
        /\ UNCHANGED ExpertRest
    BY <1>2 DEF ExpertFinish
  <2>2. expert.order \in Conn /\ eng[expert.order].role = "waiting"
    BY <2>1 DEF TypeInv, Queued
  <2> QED BY <1>1, <2>1, <2>2 DEF ExpertRest, Engineer
<1> QED BY <1>2
        DEF ExpertThread, ExpertTake, ExpertConnect, ExpertRegistered, ExpertConnected,
            ExpertSend, ExpertKilled, ExpertAcked, ExpertRest, servervars

LEMMA ToAcceptStays ==
  ASSUME TypeInv, ToAccept, backlog' = backlog,
         \A c \in Conn : eng[c].role = "none" => eng'[c].role = "none",
         \A c \in Conn : remote'[c].pc = "new" => remote[c].pc = "new"
  PROVE  ToAccept'
<1>1. \A i \in 1 .. Len(backlog) : backlog[i] \in Conn
  BY TypesKnown, ElementOfSeq
<1> QED BY <1>1 DEF ToAccept

LEMMA ToAcceptStep ==
  ASSUME TypeInv, ToAccept, Next PROVE ToAccept'
<1>1. /\ eng \in [Conn -> Engineer] /\ remote \in [Conn -> Remote] /\ backlog \in Seq(Conn)
      /\ Len(backlog) \in Nat /\ \A i \in 1 .. Len(backlog) : backlog[i] \in Conn
  BY TypesKnown, LenProperties, ElementOfSeq
<1>2. CASE Accept
  <2>1. PICK c \in Conn : /\ c = backlog[1] /\ backlog' = Tail(backlog)
                          /\ eng' = [eng EXCEPT ![c].role = "order"] /\ remote' = remote
                          /\ backlog # <<>>
    BY <1>2, HeadOfBacklog DEF Accept
  <2>2. \A d \in Conn \ {c} : eng'[d] = eng[d]
    BY <1>1, <2>1
  <2>3. Len(backlog') = Len(backlog) - 1 /\ Len(backlog) >= 1
    BY <2>1, HeadOfBacklog
  <2>4. ASSUME NEW i \in 1 .. Len(backlog')
        PROVE  /\ eng'[backlog'[i]].role = "none" /\ remote'[backlog'[i]].pc # "new"
               /\ \A j \in 1 .. Len(backlog') : backlog'[i] = backlog'[j] => i = j
    <3>1. i + 1 \in 1 .. Len(backlog) /\ backlog'[i] = backlog[i + 1]
      BY <1>1, <2>1, <2>3, HeadOfBacklog
    <3>2. backlog[i + 1] \in Conn \ {c}
      BY <1>1, <2>1, <2>3, <3>1 DEF ToAccept
    <3>3. ASSUME NEW j \in 1 .. Len(backlog'), backlog'[i] = backlog'[j] PROVE i = j
      <4>1. j + 1 \in 1 .. Len(backlog) /\ backlog'[j] = backlog[j + 1]
        BY <1>1, <2>1, <2>3, HeadOfBacklog
      <4>2. i + 1 = j + 1
        BY <3>1, <3>3, <4>1 DEF ToAccept
      <4> QED BY <4>2
    <3> QED BY <2>1, <2>2, <3>1, <3>2, <3>3 DEF ToAccept
  <2>5. remote[c].pc # "new"
    BY <1>1, <2>1, <2>3 DEF ToAccept
  <2>6. \A d \in Conn : remote'[d].pc = "new" => eng'[d].role = "none"
    BY <2>1, <2>2, <2>5 DEF ToAccept
  <2> QED BY <2>4, <2>6 DEF ToAccept
<1>3. ASSUME NEW c \in Conn, RemoteConnect(c) PROVE ToAccept'
  <2>1. /\ backlog' = Append(backlog, c) /\ remote' = [remote EXCEPT ![c].pc = "ask"]
        /\ eng' = eng /\ remote[c].pc = "new"
    BY <1>3 DEF RemoteConnect
  <2>2. remote'[c].pc = "ask" /\ \A d \in Conn \ {c} : remote'[d] = remote[d]
    BY <1>1, <2>1 DEF Remote
  <2>3. /\ Len(backlog') = Len(backlog) + 1 /\ backlog'[Len(backlog) + 1] = c
        /\ \A i \in 1 .. Len(backlog) : backlog'[i] = backlog[i]
    BY <1>1, <2>1, AppendProperties
  <2>4. \A i \in 1 .. Len(backlog) : backlog[i] \in Conn \ {c}
    BY <1>1, <2>1 DEF ToAccept
  <2>5. ASSUME NEW i \in 1 .. Len(backlog')
        PROVE  /\ eng'[backlog'[i]].role = "none" /\ remote'[backlog'[i]].pc # "new"
               /\ \A j \in 1 .. Len(backlog') : backlog'[i] = backlog'[j] => i = j
    <3>1. i \in 1 .. Len(backlog) \/ i = Len(backlog) + 1
      BY <1>1, <2>3
    <3>2. eng'[backlog'[i]].role = "none" /\ remote'[backlog'[i]].pc # "new"
      BY <2>1, <2>2, <2>3, <2>4, <3>1 DEF ToAccept
    <3>3. ASSUME NEW j \in 1 .. Len(backlog'), backlog'[i] = backlog'[j] PROVE i = j
      <4>1. j \in 1 .. Len(backlog) \/ j = Len(backlog) + 1
        BY <1>1, <2>3
      <4> QED BY <2>3, <2>4, <3>1, <3>3, <4>1 DEF ToAccept
    <3> QED BY <3>2, <3>3
  <2>6. \A d \in Conn : remote'[d].pc = "new" => eng'[d].role = "none"
    BY <2>1, <2>2 DEF ToAccept
  <2> QED BY <2>5, <2>6 DEF ToAccept
<1>4. ASSUME NEW c \in Conn,
             RemoteAsk(c) \/ RemoteAnswered(c) \/ RemoteClose(c) \/ RemoteDie(c)
      PROVE  ToAccept'
  <2>1. PICK r : remote' = [remote EXCEPT ![c] = r] /\ r.pc # "new"
    <3>1. CASE RemoteAsk(c)
      <4>1. PICK r : r = [pc |-> "await", n |-> remote[c].n + 1, answer |-> <<>>]
        OBVIOUS
      <4>2. r.pc = "await" /\ remote' = [remote EXCEPT ![c] = r]
        BY <3>1, <4>1 DEF RemoteAsk
      <4> QED BY <4>2
    <3>2. CASE RemoteAnswered(c)
      <4>0. PICK pc \in {"done", "ask"} :
              \E a : remote' = [remote EXCEPT ![c].pc = pc, ![c].answer = a]
        BY <3>2, Zenon DEF RemoteAnswered
      <4>1. PICK a : remote' = [remote EXCEPT ![c].pc = pc, ![c].answer = a]
        BY <4>0
      <4>2. PICK q, r : q = [remote[c] EXCEPT !.pc = pc] /\ r = [q EXCEPT !.answer = a]
        OBVIOUS
      <4>3. remote' = [remote EXCEPT ![c] = r]
        BY <1>1, <4>1, <4>2
      <4>4. q.pc = pc /\ DOMAIN q = DOMAIN remote[c] /\ "pc" \in DOMAIN q
        BY <1>1, <4>2 DEF Remote
      <4>5. r.pc = pc
        BY <4>2, <4>4
      <4> QED BY <4>3, <4>5
    <3>3. CASE RemoteClose(c) \/ RemoteDie(c)
      <4>1. remote' = [remote EXCEPT ![c] = [remote[c] EXCEPT !.pc = "closed"]]
        BY <3>3 DEF RemoteClose, RemoteDie
      <4>2. [remote[c] EXCEPT !.pc = "closed"].pc = "closed"
        BY <1>1 DEF Remote
      <4> QED BY <4>1, <4>2
    <3> QED BY <1>4, <3>1, <3>2, <3>3
  <2>2. backlog' = backlog /\ eng' = eng
    BY <1>4 DEF RemoteAsk, RemoteAnswered, RemoteClose, RemoteDie, servervars
  <2>3. \A d \in Conn : remote'[d].pc = "new" => remote[d].pc = "new"
    BY <1>1, <2>1
  <2> QED BY <2>2, <2>3, ToAcceptStays
<1>5. CASE AcceptFails \/ (\E s \in Stub : PeerAnswer(s))
           \/ (\E p \in Range(Peers) : PeerDie(p))
  <2>1. backlog' = backlog /\ eng' = eng /\ remote' = remote
    BY <1>5 DEF AcceptFails, PeerAnswer, PeerDie, servervars
  <2> QED BY <2>1, ToAcceptStays
<1>6. CASE ExpertThread
  BY <1>6, ExpertRoles, ToAcceptStays
<1>7. ASSUME NEW c \in Conn, EngineerThread(c) PROVE ToAccept'
  <2>1. /\ backlog' = backlog /\ remote' = remote
        /\ \A d \in Conn : eng[d].role = "none" => eng'[d].role = "none"
    BY <1>7, EngineerRoles
  <2> QED BY <2>1, ToAcceptStays
<1> QED BY <1>2, <1>3, <1>4, <1>5, <1>6, <1>7 DEF Next, Main

(* What every step keeps.                                                  *)
LEMMA TypeStep ==
  ASSUME TypeInv, ToAccept, [Next]_vars PROVE TypeInv' /\ ToAccept'
<1>1. CASE Next
  <2>1. TypeInv'
    BY <1>1, MainType, ExpertType, EngineerType, RemoteType, PeerType DEF Next
  <2> QED BY <1>1, <2>1, ToAcceptStep
<1>2. CASE UNCHANGED vars
  <2>1. UNCHANGED <<sockvars, servervars, alive, registered, remote>>
    BY <1>2 DEF vars
  <2>2. SocketTypeOK'
    BY <2>1, TypesKnown DEF sockvars, SocketTypeOK
  <2>3. TypeInv'
    BY <2>1, <2>2, SocketsOnly DEF sockvars
  <2>4. ToAccept'
    BY <2>1 DEF ToAccept, servervars
  <2> QED BY <2>3, <2>4
<1> QED BY <1>1, <1>2

LEMMA InitToAccept == Init => ToAccept
  BY DEF Init, ToAccept

(* The types of all variables: what is sent and received are words, the    *)
(* backlog and the expert's queue hold accepted connections, stubs belong  *)
(* to the orders executed so far (ServerMain.cpp, ServerThread.cpp,        *)
(* Socket.cpp).                                                            *)
THEOREM TypeCorrect == Spec => []TypeOK
<1>1. Init => TypeInv /\ ToAccept
  BY InitType, InitToAccept
<1>2. TypeInv /\ ToAccept /\ [Next]_vars => (TypeInv /\ ToAccept)'
  BY TypeStep
<1>3. TypeInv /\ ToAccept => TypeOK
  BY DEF TypeInv
<1> QED BY <1>1, <1>2, <1>3, PTL DEF Spec

-----------------------------------------------------------------------------
(* Whose descriptor is whose.  An open connection stands under the number  *)
(* its own object holds, though other objects may hold the number too; an  *)
(* object is opened once; and whoever is to close it is still there.       *)

Held == \A f \in Fd : table[f] # NoSocket => fd_[table[f]] = f /\ ~shut[table[f]]

Unopened(s) == fd_[s] = NoFd /\ ~shut[s] /\ \A f \in Fd : table[f] # s

\* The stubs the expert has yet to make, for this order and the next ones.
Fresh(s) ==
  \/ s[3] > expert.k
  \/ /\ s[3] = expert.k
     /\ \E j \in 1 .. Len(Peers) : /\ s[2] = Peers[j]
                                   /\ \/ expert.pc = "connect" /\ j >= expert.i
                                      \/ expert.pc = "register" /\ j > expert.i

ToOpen ==
  /\ \A c \in Conn : eng[c].role = "none" => Unopened(c)
  /\ \A s \in Stub : Fresh(s) => Unopened(s)

Belongs(s) ==
  s = call[Expert].on \/ \E i \in 1 .. Len(replica_stubs) : s = replica_stubs[i]

Owned ==
  \A f \in Fd :
    /\ table[f] \in Conn => is_initialized_[table[f]] /\ eng[table[f]].role # "ended"
    /\ table[f] \in Stub /\ is_initialized_[table[f]] => Belongs(table[f])

OwnerInv == Held /\ ToOpen /\ Owned

\* Connections may be closed, and none is opened.
Shrinks ==
  /\ fd_' = fd_
  /\ \A f \in Fd : table'[f] # NoSocket =>
       /\ table'[f] = table[f] /\ ~shut'[table[f]]
       /\ is_initialized_'[table[f]] = is_initialized_[table[f]]
  /\ \A s \in Socket : Unopened(s) => Unopened(s)'

LEMMA CloseShrinks ==
  ASSUME SocketTypeOK, Held, NEW S \in SUBSET Socket, Close(S), fd_' = fd_
  PROVE  Shrinks /\ \A f \in Fd : table'[f] # NoSocket => table[f] \notin S
<1>1. /\ table \in [Fd -> Socket \cup {NoSocket}] /\ fd_ \in [Socket -> Fd \cup {NoFd}]
      /\ \A f \in Fd : f # NoFd
  BY DEF SocketTypeOK, Fd, NoFd
<1>2. /\ \A x \in Socket : shut'[x] <=> shut[x] \/ \E s \in S : Behind(s) = x
      /\ \A f \in Fd : table'[f] = IF \E s \in S : fd_[s] = f THEN NoSocket ELSE table[f]
      /\ \A s \in Socket : is_initialized_'[s] <=> is_initialized_[s] /\ s \notin S
  BY DEF Close
<1>3. ASSUME NEW f \in Fd, table'[f] # NoSocket
      PROVE  /\ table'[f] = table[f] /\ ~shut'[table[f]] /\ table[f] \notin S
             /\ is_initialized_'[table[f]] = is_initialized_[table[f]]
  <2>1. table'[f] = table[f] /\ \A s \in S : fd_[s] # f
    BY <1>2, <1>3
  <2>2. PICK x \in Socket : x = table[f] /\ fd_[x] = f /\ ~shut[x]
    BY <1>1, <1>3, <2>1 DEF Held
  <2>3. x \notin S
    BY <2>1, <2>2
  <2>4. ASSUME NEW s \in S, Behind(s) = x PROVE FALSE
    <3>1. fd_[s] \in Fd /\ table[fd_[s]] = x
      BY <1>1, <2>2, <2>4, SocketAssumption DEF Behind
    <3>2. fd_[x] = fd_[s]
      BY <2>2, <3>1, SocketAssumption DEF Held
    <3> QED BY <2>1, <2>2, <3>2
  <2>5. ~shut'[x]
    BY <1>2, <2>2, <2>4
  <2>6. is_initialized_'[x] = is_initialized_[x]
    <3>1. is_initialized_'[x] = (is_initialized_[x] /\ x \notin S)
      BY Zenon DEF Close
    <3>2. is_initialized_[x] \in BOOLEAN
      BY DEF SocketTypeOK
    <3> QED BY <2>3, <3>1, <3>2
  <2> QED BY <2>1, <2>2, <2>3, <2>5, <2>6
<1>4. ASSUME NEW s \in Socket, Unopened(s) PROVE Unopened(s)'
  <2>1. fd_[s] = NoFd /\ ~shut[s] /\ \A f \in Fd : table[f] # s
    BY <1>4 DEF Unopened
  <2>2. \A r \in S : Behind(r) # s
    BY <1>1, <2>1, SocketAssumption DEF Behind
  <2>3. ~shut'[s]
    BY <1>2, <2>1, <2>2
  <2>4. \A f \in Fd : table'[f] # s
    BY <1>2, <2>1, SocketAssumption
  <2> QED BY <2>1, <2>3, <2>4 DEF Unopened
<1> QED BY <1>3, <1>4 DEF Shrinks

(* Where none of this changes.                                             *)
LEMMA SameShrinks ==
  ASSUME Held, UNCHANGED <<table, fd_, shut, is_initialized_>> PROVE Shrinks
  BY DEF Held, Shrinks, Unopened

LEMMA SendShrinks ==
  ASSUME SocketTypeOK, Held, NEW s \in Socket, NEW words, Send(s, words), fd_' = fd_
  PROVE  Shrinks
<1>1. CASE Close({s})
  BY <1>1, CloseShrinks
<1>2. CASE UNCHANGED <<table, is_initialized_, shut>>
  BY <1>2, SameShrinks
<1> QED BY <1>1, <1>2 DEF Send

LEMMA RecvShrinks ==
  ASSUME SocketInv, Held, NEW t \in Thread, Recv(t) PROVE Shrinks
<1>1. CASE RecvCall(t) \/ RecvSome(t) \/ RecvEnd(t)
  BY <1>1, SameShrinks DEF RecvCall, RecvSome, RecvEnd
<1>2. CASE RecvFail(t)
  <2>1. call[t].on \in Socket
    BY <1>2 DEF RecvFail, SocketInv, BufferFits, CallFits
  <2> QED BY <1>2, <2>1, CloseShrinks DEF RecvFail, SocketInv
<1> QED BY <1>1, <1>2 DEF Recv

(* A connection is opened.                                                 *)
LEMMA InstallOpens ==
  ASSUME SocketTypeOK, Held, NEW s \in Socket, Unopened(s), NEW b \in BOOLEAN,
         FreeFds # {}, Install(s, b), shut' = shut
  PROVE  /\ Held'
         /\ \A f \in Fd : \/ table'[f] = s
                          \/ table'[f] = table[f] /\ table[f] # s
         /\ is_initialized_'[s] = b
         /\ \A r \in Socket \ {s} : is_initialized_'[r] = is_initialized_[r]
         /\ \A r \in Socket \ {s} : Unopened(r) => Unopened(r)'
         /\ table'[fd_'[s]] = s /\ fd_'[s] \in Fd
         /\ \A r \in Socket \ {s} : fd_'[r] = fd_[r]
         /\ \A f \in Fd : table[f] # NoSocket => table'[f] = table[f]
<1>1. PICK g \in Fd : /\ table[g] = NoSocket /\ table' = [table EXCEPT ![g] = s]
                      /\ fd_' = [fd_ EXCEPT ![s] = g]
  BY InstallShows
<1>2. is_initialized_' = [is_initialized_ EXCEPT ![s] = b]
  BY InstallShows
<1>3. /\ table'[g] = s /\ \A f \in Fd \ {g} : table'[f] = table[f]
      /\ fd_'[s] = g /\ \A r \in Socket \ {s} : fd_'[r] = fd_[r]
      /\ \A f \in Fd : table[f] # s
      /\ \A f \in Fd : table[f] \in Socket \cup {NoSocket}
  BY <1>1 DEF SocketTypeOK, Unopened
<1>4. /\ is_initialized_'[s] = b
      /\ \A r \in Socket \ {s} : is_initialized_'[r] = is_initialized_[r]
  <2>1. is_initialized_ \in [Socket -> BOOLEAN]
    BY DEF SocketTypeOK
  <2> QED BY <1>2, <2>1, Zenon
<1>5. Held'
  <2>1. ASSUME NEW f \in Fd, table'[f] # NoSocket
        PROVE  fd_'[table'[f]] = f /\ ~shut'[table'[f]]
    <3>1. CASE f = g
      BY <1>3, <3>1 DEF Unopened
    <3>2. CASE f # g
      BY <1>3, <2>1, <3>2 DEF Held
    <3> QED BY <3>1, <3>2
  <2> QED BY <2>1 DEF Held
<1>6. ASSUME NEW r \in Socket \ {s}, Unopened(r) PROVE Unopened(r)'
  BY <1>3, <1>6 DEF Unopened
<1> QED BY <1>1, <1>3, <1>4, <1>5, <1>6

(* A step that opens nothing, and takes no owner away whose connection is  *)
(* still there.                                                            *)
LEMMA OwnerStays ==
  ASSUME TypeInv, OwnerInv, Shrinks,
         \A c \in Conn : eng'[c].role = "none" => eng[c].role = "none",
         \A f \in Fd, c \in Conn : table'[f] = c /\ eng'[c].role = "ended" =>
                                     eng[c].role = "ended",
         \A s \in Stub : Fresh(s)' => Fresh(s),
         \A f \in Fd, s \in Stub :
           table'[f] = s /\ is_initialized_[s] /\ Belongs(s) => Belongs(s)'
  PROVE  OwnerInv'
<1>1. /\ Conn \subseteq Socket /\ Stub \subseteq Socket /\ NoSocket \notin Socket
      /\ table \in [Fd -> Socket \cup {NoSocket}]
  BY Names, TypesKnown DEF SocketTypeOK
<1>2. Held'
  BY DEF OwnerInv, Held, Shrinks
<1>3. ToOpen'
  <2>1. \A c \in Conn : eng'[c].role = "none" => Unopened(c)'
    BY <1>1 DEF OwnerInv, ToOpen, Shrinks
  <2>2. \A s \in Stub : Fresh(s)' => Unopened(s)'
    BY <1>1 DEF OwnerInv, ToOpen, Shrinks
  <2> QED BY <2>1, <2>2 DEF ToOpen
<1>4. Owned'
  <2>1. ASSUME NEW f \in Fd, table'[f] \in Conn
        PROVE  is_initialized_'[table'[f]] /\ eng'[table'[f]].role # "ended"
    <3>1. PICK c \in Conn : c = table'[f]
      BY <2>1
    <3>2. c = table[f] /\ is_initialized_'[c] = is_initialized_[c]
      BY <1>1, <3>1 DEF Shrinks
    <3>3. is_initialized_[c] /\ eng[c].role # "ended"
      BY <3>2 DEF OwnerInv, Owned
    <3> QED BY <3>1, <3>2, <3>3
  <2>2. ASSUME NEW f \in Fd, table'[f] \in Stub, is_initialized_'[table'[f]]
        PROVE  Belongs(table[f])' /\ table'[f] = table[f]
    <3>1. PICK s \in Stub : s = table'[f]
      BY <2>2
    <3>2. s = table[f] /\ is_initialized_'[s] = is_initialized_[s]
      BY <1>1, <3>1 DEF Shrinks
    <3>3. Belongs(s)
      BY <2>2, <3>1, <3>2 DEF OwnerInv, Owned
    <3>4. Belongs(s)'
      BY <2>2, <3>1, <3>2, <3>3
    <3> QED BY <3>1, <3>2, <3>4 DEF Belongs
  <2> QED BY <2>1, <2>2 DEF Owned, Belongs
<1> QED BY <1>2, <1>3, <1>4 DEF OwnerInv

(* An engineer's step opens nothing, and closes its own object when the    *)
(* thread ends.                                                            *)
LEMMA EngineerOwns ==
  ASSUME TypeInv, OwnerInv, NEW c \in Conn, EngineerThread(c) PROVE OwnerInv'
<1>1. /\ SocketTypeOK /\ SocketInv /\ Held /\ c \in Socket /\ c \in Thread
      /\ eng \in [Conn -> Engineer] /\ call \in [Thread -> Call]
      /\ Expert \in Thread /\ Expert # c
      /\ eng[c] \in Engineer /\ EngineerCall(c, eng[c].role, call[c])
  BY TypesKnown, Names DEF OwnerInv
<1>2. /\ UNCHANGED <<replica_stubs, expert>>
      /\ \A d \in Conn \ {c} : eng'[d] = eng[d]
  BY EngineerRoles
<1>3. ASSUME Shrinks, call'[Expert] = call[Expert],
             eng'[c] = eng[c] \/ (eng'[c].role # "none" /\ eng'[c].role # "ended")
               \/ (eng'[c].role = "ended" /\ \A f \in Fd : table'[f] # c)
      PROVE  OwnerInv'
  <2>1. \A d \in Conn : eng'[d].role = "none" => eng[d].role = "none"
    BY <1>2, <1>3
  <2>2. \A f \in Fd, d \in Conn : table'[f] = d /\ eng'[d].role = "ended" =>
                                    eng[d].role = "ended"
    BY <1>2, <1>3
  <2>3. \A s \in Stub : Fresh(s)' => Fresh(s)
    BY <1>2 DEF Fresh
  <2>4. \A s \in Stub : Belongs(s) => Belongs(s)'
    BY <1>2, <1>3 DEF Belongs
  <2> QED BY <1>3, <2>1, <2>2, <2>3, <2>4, OwnerStays
<1>4. ASSUME NEW words, NEW role \in {"order", "backup"}, NEW laptop,
             Reply(c, words, role, laptop), UNCHANGED EngineerRest
      PROVE  OwnerInv'
  <2>1. Send(c, words) /\ fd_' = fd_
    BY <1>4 DEF Reply, EngineerRest
  <2>2. Shrinks
    BY <1>1, <2>1, SendShrinks
  <2>3. call'[Expert] = call[Expert]
    BY <1>1, <1>4 DEF Reply, Receive
  <2>4. PICK e : /\ e = [role |-> role, laptop |-> laptop]
                 /\ eng' = [eng EXCEPT ![c] = e]
    BY <1>4 DEF Reply
  <2>5. eng'[c].role = role
    BY <1>1, <2>4
  <2> QED BY <1>3, <2>2, <2>3, <2>5
<1>5. CASE EngineerEnd(c)
  <2>1. /\ Destroy({c}) /\ eng' = [eng EXCEPT ![c].role = "ended"] /\ fd_' = fd_
        /\ call' = Returned(c)
    BY <1>5 DEF EngineerEnd, EngineerRest
  <2>2. PICK S \in SUBSET Socket : /\ S = {s \in {c} : is_initialized_[s]} /\ Close(S)
    BY <1>1, <2>1 DEF Destroy
  <2>3. Shrinks /\ \A f \in Fd : table'[f] # NoSocket => table[f] \notin S
    BY <1>1, <2>1, <2>2, CloseShrinks
  <2>4. ASSUME NEW f \in Fd, table'[f] = c PROVE FALSE
    <3>1. table[f] = c
      BY <1>1, <2>3, <2>4, Names DEF Shrinks
    <3>2. is_initialized_[c]
      BY <3>1 DEF OwnerInv, Owned
    <3> QED BY <2>2, <2>3, <2>4, <1>1, <3>1, <3>2, Names
  <2>5. eng'[c].role = "ended" /\ call'[Expert] = call[Expert]
    BY <1>1, <2>1 DEF Engineer, Returned
  <2> QED BY <1>3, <2>3, <2>4, <2>5
<1>6. CASE CreateRegularLaptop(c)
  BY <1>4, <1>6 DEF CreateRegularLaptop
<1>7. CASE CreateCustomLaptop(c)
  <2>1. /\ UNCHANGED <<table, fd_, shut, is_initialized_>> /\ call' = Returned(c)
        /\ eng' = [eng EXCEPT ![c] = [role |-> "waiting", laptop |-> Laptop(c, Got(c), 0)]]
    BY <1>7 DEF CreateCustomLaptop, EngineerRest
  <2>2. eng'[c].role = "waiting" /\ call'[Expert] = call[Expert]
    BY <1>1, <2>1 DEF Returned
  <2> QED BY <1>1, <1>3, <2>1, <2>2, SameShrinks
<1>8. CASE DeliverCustomLaptop(c)
  BY <1>4, <1>8 DEF DeliverCustomLaptop
<1>9. CASE ReadRecord(c)
  BY <1>4, <1>9 DEF ReadRecord
<1>10. CASE Register(c)
  BY <1>4, <1>10 DEF Register
<1>11. CASE Status(c)
  BY <1>4, <1>11 DEF Status
<1>12. CASE LogEntry(c)
  BY <1>4, <1>12 DEF LogEntry
<1>13. CASE BackupAppend(c)
  BY <1>4, <1>13 DEF BackupAppend
<1>14. CASE Undefined(c)
  <2>1. /\ UNCHANGED <<table, fd_, shut, is_initialized_, eng>>
        /\ call' = Receive(c, c, RequestSize)
    BY <1>14 DEF Undefined, EngineerRest
  <2>2. call'[Expert] = call[Expert]
    BY <1>1, <2>1 DEF Receive
  <2> QED BY <1>1, <1>3, <2>1, <2>2, SameShrinks
<1>15. CASE BackupEnd(c)
  <2>1. /\ UNCHANGED <<table, fd_, shut, is_initialized_>>
        /\ eng' = [eng EXCEPT ![c].role = "order"] /\ call' = Receive(c, c, RequestSize)
    BY <1>15 DEF BackupEnd, EngineerRest
  <2>2. call'[Expert] = call[Expert] /\ eng'[c].role = "order"
    BY <1>1, <2>1 DEF Receive, Engineer
  <2> QED BY <1>1, <1>3, <2>1, <2>2, SameShrinks
<1>16. CASE Recv(c) /\ UNCHANGED servervars
  <2>1. Shrinks /\ call'[Expert] = call[Expert] /\ eng' = eng
    BY <1>1, <1>16, RecvShrinks, RecvType DEF servervars
  <2> QED BY <1>3, <2>1
<1> QED BY <1>5, <1>6, <1>7, <1>8, <1>9, <1>10, <1>11, <1>12, <1>13, <1>14, <1>15, <1>16
        DEF EngineerThread

(* A step of the expert that opens nothing.                                *)
LEMMA ExpertKeeps ==
  ASSUME TypeInv, OwnerInv, Shrinks,
         \A d \in Conn : eng'[d] = eng[d]
                         \/ (eng[d].role = "waiting" /\ eng'[d].role = "deliver"),
         \A s \in Stub : Fresh(s)' => Fresh(s),
         \A f \in Fd, s \in Stub :
           table'[f] = s /\ is_initialized_[s] /\ Belongs(s) => Belongs(s)'
  PROVE  OwnerInv'
<1>1. /\ \A c \in Conn : eng'[c].role = "none" => eng[c].role = "none"
      /\ \A f \in Fd, c \in Conn : table'[f] = c /\ eng'[c].role = "ended" =>
                                     eng[c].role = "ended"
  OBVIOUS
<1> QED BY <1>1, OwnerStays

(* A connect or an accept, of an object not opened before.                 *)
LEMMA OwnerOpens ==
  ASSUME TypeInv, OwnerInv, NEW s \in Socket, Unopened(s), NEW b \in BOOLEAN,
         FreeFds # {}, Install(s, b), shut' = shut,
         \A c \in Conn : eng'[c].role = "none" => eng[c].role = "none" /\ c # s,
         \A c \in Conn : eng'[c].role = "ended" => eng[c].role = "ended" /\ c # s,
         \A r \in Stub : Fresh(r)' => Fresh(r) /\ r # s,
         \A r \in Stub : Belongs(r) => Belongs(r)',
         s \in Conn => b, b /\ s \in Stub => Belongs(s)'
  PROVE  OwnerInv'
<1>1. /\ Conn \subseteq Socket /\ Stub \subseteq Socket /\ NoSocket \notin Socket
      /\ SocketTypeOK /\ Held
  BY Names, TypesKnown DEF OwnerInv
<1>2. /\ Held'
      /\ \A f \in Fd : \/ table'[f] = s
                       \/ table'[f] = table[f] /\ table[f] # s
      /\ is_initialized_'[s] = b
      /\ \A r \in Socket \ {s} : is_initialized_'[r] = is_initialized_[r]
      /\ \A r \in Socket \ {s} : Unopened(r) => Unopened(r)'
  BY <1>1, InstallOpens
<1>3. ToOpen'
  <2>1. \A c \in Conn : eng'[c].role = "none" => Unopened(c)'
    BY <1>1, <1>2 DEF OwnerInv, ToOpen
  <2>2. \A r \in Stub : Fresh(r)' => Unopened(r)'
    BY <1>1, <1>2 DEF OwnerInv, ToOpen
  <2> QED BY <2>1, <2>2 DEF ToOpen
<1>4. Owned'
  <2>1. ASSUME NEW f \in Fd, table'[f] \in Conn
        PROVE  is_initialized_'[table'[f]] /\ eng'[table'[f]].role # "ended"
    <3>1. PICK c \in Conn : c = table'[f]
      BY <2>1
    <3>2. is_initialized_'[c] /\ (c # s => table[f] = c /\ is_initialized_[c])
      BY <1>1, <1>2, <3>1 DEF OwnerInv, Owned
    <3>3. eng'[c].role # "ended"
      BY <3>2 DEF OwnerInv, Owned
    <3> QED BY <3>1, <3>2, <3>3
  <2>2. ASSUME NEW f \in Fd, NEW r \in Stub, r = table'[f], is_initialized_'[r]
        PROVE  Belongs(r)'
    <3>1. CASE r = s
      BY <1>2, <2>2, <3>1
    <3>2. CASE r # s
      <4>1. table[f] = r /\ is_initialized_[r]
        BY <1>1, <1>2, <2>2, <3>2
      <4> QED BY <4>1 DEF OwnerInv, Owned
    <3> QED BY <3>1, <3>2
  <2>3. \A f \in Fd : table'[f] \in Stub /\ is_initialized_'[table'[f]] =>
                        \/ table'[f] = call'[Expert].on
                        \/ \E i \in 1 .. Len(replica_stubs') : table'[f] = replica_stubs'[i]
    BY <2>2 DEF Belongs
  <2> QED BY <2>1, <2>3 DEF Owned, Belongs
<1> QED BY <1>2, <1>3, <1>4 DEF OwnerInv

LEMMA ExpertOwns ==
  ASSUME TypeInv, OwnerInv, ExpertThread PROVE OwnerInv'
<1>1. /\ SocketTypeOK /\ SocketInv /\ Held /\ expert \in ExpertState
      /\ expert.i \in Nat /\ expert.k \in Nat /\ expert.i >= 1
      /\ ExpertCall(expert, replica_stubs, call[Expert])
      /\ call \in [Thread -> Call] /\ Expert \in Thread
      /\ replica_stubs \in Seq(Stub) /\ Len(replica_stubs) \in Nat
      /\ (expert.pc \notin {"register", "await"} => call[Expert] = NoCall)
  <2>1. /\ SocketTypeOK /\ SocketInv /\ expert \in ExpertState
        /\ ExpertCall(expert, replica_stubs, call[Expert]) /\ BufferFits
    BY TypesKnown
  <2>2. CallFits(call[Expert])
    BY <2>1, Names DEF BufferFits
  <2> QED BY <2>1, <2>2, TypesKnown, Names
          DEF OwnerInv, ExpertState, ExpertCall, CallFits
<1>2. \A i \in 1 .. Len(replica_stubs) : replica_stubs[i] \in Stub
  BY <1>1, ElementOfSeq
<1>3. \A s \in Stub : s[2] \in Range(Peers) /\ s[3] \in Nat /\ s = <<"stub", s[2], s[3]>>
  BY ConnectionsAssumption DEF Stub
<1>4. \A d \in Conn : eng'[d] = eng[d]
                      \/ (eng[d].role = "waiting" /\ eng'[d].role = "deliver")
  BY ExpertRoles
<1>5. \A s \in Stub : s # NoSocket
  BY Names
<1>6. CASE ExpertTake
  <2>1. /\ expert.pc = "idle" /\ Destroy(Range(replica_stubs)) /\ fd_' = fd_
        /\ replica_stubs' = <<>> /\ call' = call
        /\ expert' = [pc |-> "connect", i |-> 1, order |-> Head(erq), k |-> expert.k + 1]
    BY <1>6 DEF ExpertTake
  <2>2. Range(replica_stubs) \subseteq Socket
    BY <1>1, <1>2, Names DEF Range
  <2>3. PICK S \in SUBSET Socket : /\ S = {s \in Range(replica_stubs) : is_initialized_[s]}
                                   /\ Close(S)
    BY <2>1, <2>2 DEF Destroy
  <2>4. Shrinks /\ \A f \in Fd : table'[f] # NoSocket => table[f] \notin S
    BY <1>1, <2>1, <2>3, CloseShrinks
  <2>5. \A s \in Stub : Fresh(s)' => Fresh(s)
    BY <1>1, <1>3, <2>1 DEF Fresh
  <2>6. ASSUME NEW f \in Fd, NEW s \in Stub, table'[f] = s, is_initialized_[s], Belongs(s)
        PROVE  FALSE
    <3>1. call[Expert].on = NoSocket
      BY <1>1, <2>1 DEF NoCall
    <3>2. s \in Range(replica_stubs)
      BY <1>1, <1>5, <2>6, <3>1 DEF Belongs, Range
    <3>3. s \in S
      BY <2>3, <2>6, <3>2
    <3> QED BY <1>5, <2>4, <2>6, <3>3 DEF Shrinks
  <2> QED BY <1>4, <2>4, <2>5, <2>6, ExpertKeeps
<1>7. CASE ExpertConnect
  <2>0. PICK s : s = <<"stub", Peers[expert.i], expert.k>>
    OBVIOUS
  <2>1. expert.pc = "connect" /\ expert.i \in 1 .. Len(Peers)
        /\ UNCHANGED <<shut, eng, replica_stubs>>
    BY <1>1, <1>7, PeersType DEF ExpertConnect
  <2>2. s \in Stub /\ s \in Socket /\ s[2] = Peers[expert.i] /\ s[3] = expert.k
    <3>1. expert.k \in 1 .. MaxOrders
      BY <1>1, <2>1, ConnectionsAssumption DEF ExpertCall
    <3> QED BY <2>0, <2>1, <3>1, StubType, Names
  <2>3. Unopened(s)
    BY <1>1, <2>1, <2>2 DEF OwnerInv, ToOpen, Fresh
  <2>4. /\ call[Expert].on = NoSocket
        /\ \A r \in Stub : Belongs(r) <=> \E i \in 1 .. Len(replica_stubs) :
                                              r = replica_stubs[i]
    BY <1>1, <1>5, <2>1 DEF NoCall, Belongs
  <2>5. ASSUME expert'.k = expert.k,
               \/ expert'.pc = "connect" /\ expert'.i = expert.i + 1
               \/ expert'.pc = "register" /\ expert'.i = expert.i
        PROVE  \A r \in Stub : Fresh(r)' => Fresh(r) /\ r # s
    <3>1. ASSUME NEW r \in Stub, Fresh(r)' PROVE Fresh(r) /\ r # s
      <4>1. CASE r[3] > expert.k
        BY <1>1, <2>2, <4>1 DEF Fresh
      <4>2. CASE /\ r[3] = expert.k
                 /\ \E j \in 1 .. Len(Peers) : r[2] = Peers[j] /\ j > expert.i
        <5>1. PICK j \in 1 .. Len(Peers) : r[2] = Peers[j] /\ j > expert.i
          BY <4>2
        <5>2. r[2] # s[2]
          BY <1>1, <2>1, <2>2, <5>1, PeersType
        <5> QED BY <1>1, <2>1, <4>2, <5>1, <5>2, PeersType DEF Fresh
      <4> QED BY <1>1, <2>5, <3>1, <4>1, <4>2, PeersType DEF Fresh
    <3> QED BY <3>1
  <2>6. CASE FreeFds = {}
    <3>1. UNCHANGED <<table, fd_, is_initialized_, call>>
          /\ expert' = [expert EXCEPT !.i = @ + 1]
      BY <1>7, <2>6 DEF ExpertConnect
    <3>2. expert'.k = expert.k /\ expert'.pc = "connect" /\ expert'.i = expert.i + 1
      BY <1>1, <2>1, <3>1 DEF ExpertState
    <3>3. \A r \in Stub : Belongs(r) => Belongs(r)'
      BY <2>1, <3>1 DEF Belongs
    <3>4. Shrinks
      BY <1>1, <2>1, <3>1, SameShrinks
    <3> QED BY <1>4, <2>5, <3>2, <3>3, <3>4, ExpertKeeps
  <2>7. ASSUME NEW b \in BOOLEAN, Install(s, b), FreeFds # {}, expert'.k = expert.k,
               \/ ~b /\ call' = call /\ expert'.pc = "connect" /\ expert'.i = expert.i + 1
               \/ b /\ call'[Expert].on = s /\ expert'.pc = "register"
                  /\ expert'.i = expert.i
        PROVE  OwnerInv'
    <3>1. \A r \in Stub : Belongs(r) => Belongs(r)'
      BY <2>1, <2>4 DEF Belongs
    <3>2. b => Belongs(s)'
      BY <2>7 DEF Belongs
    <3>3. \A r \in Stub : Fresh(r)' => Fresh(r) /\ r # s
      BY <2>5, <2>7
    <3>4. s \notin Conn
      BY <2>2, Names
    <3>5. /\ \A c \in Conn : eng'[c].role = "none" => eng[c].role = "none" /\ c # s
          /\ \A c \in Conn : eng'[c].role = "ended" => eng[c].role = "ended" /\ c # s
      BY <2>1, <3>4
    <3> QED BY <2>1, <2>2, <2>3, <2>7, <3>1, <3>2, <3>3, <3>4, <3>5, OwnerOpens
  <2>8. CASE /\ FreeFds # {} /\ Install(s, FALSE) /\ call' = call
             /\ expert' = [expert EXCEPT !.i = @ + 1]
    <3>1. expert'.k = expert.k /\ expert'.pc = "connect" /\ expert'.i = expert.i + 1
      BY <1>1, <2>1, <2>8 DEF ExpertState
    <3> QED BY <2>7, <2>8, <3>1
  <2>9. CASE /\ FreeFds # {} /\ Install(s, TRUE) /\ call' = Receive(Expert, s, LaptopSize)
             /\ expert' = [expert EXCEPT !.pc = "register"]
    <3>1. expert'.k = expert.k /\ expert'.pc = "register" /\ expert'.i = expert.i
      BY <1>1, <2>1, <2>9 DEF ExpertState
    <3>2. call'[Expert].on = s
      BY <1>1, <2>9 DEF Receive
    <3> QED BY <2>7, <2>9, <3>1, <3>2
  <2> QED BY <1>7, <2>0, <2>6, <2>8, <2>9 DEF ExpertConnect
<1>8. ASSUME Shrinks, expert'.k = expert.k, expert.pc # "idle",
             \/ expert'.pc \in {"send", "await", "idle"}
             \/ expert'.pc = expert.pc /\ expert'.i = expert.i
             \/ expert.pc = "register" /\ expert'.pc = "connect"
                /\ expert'.i = expert.i + 1,
             \A s \in Stub : Belongs(s) => Belongs(s)'
      PROVE  OwnerInv'
  <2>1. \A s \in Stub : Fresh(s)' => Fresh(s)
    BY <1>1, <1>8, PeersType DEF Fresh
  <2> QED BY <1>4, <1>8, <2>1, ExpertKeeps
<1>9. CASE ExpertRegistered
  <2>1. /\ expert.pc = "register" /\ replica_stubs' = Append(replica_stubs, call[Expert].on)
        /\ expert' = [expert EXCEPT !.pc = "connect", !.i = @ + 1]
        /\ UNCHANGED <<table, fd_, shut, is_initialized_>>
    BY <1>9 DEF ExpertRegistered
  <2>2. expert'.k = expert.k /\ expert'.pc = "connect" /\ expert'.i = expert.i + 1
    <3>1. PICK i \in Nat : i = expert.i + 1
      BY <1>1
    <3>2. expert' = [expert EXCEPT !.pc = "connect", !.i = i]
      BY <2>1, <3>1
    <3> QED BY <1>1, <3>1, <3>2, ExpertGoes
  <2>3. /\ Len(replica_stubs') = Len(replica_stubs) + 1
        /\ replica_stubs'[Len(replica_stubs) + 1] = call[Expert].on
        /\ \A i \in 1 .. Len(replica_stubs) : replica_stubs'[i] = replica_stubs[i]
    <3>1. call[Expert] \in Call
      BY <1>1
    <3>2. call[Expert].on \in Stub
      <4>1. expert.k \in 1 .. MaxOrders /\ expert.i \in 1 .. Len(Peers)
        BY <1>1, <2>1, ConnectionsAssumption DEF ExpertCall
      <4> QED BY <1>1, <2>1, <4>1, StubType DEF ExpertCall
    <3> QED BY <1>1, <2>1, <3>2, AppendProperties
  <2>4. \A s \in Stub : Belongs(s) => Belongs(s)'
    <3>1. ASSUME NEW s \in Stub, Belongs(s)
          PROVE  \E i \in 1 .. Len(replica_stubs') : s = replica_stubs'[i]
      <4>1. CASE s = call[Expert].on
        <5>1. Len(replica_stubs) + 1 \in 1 .. Len(replica_stubs')
          BY <1>1, <2>3
        <5> QED BY <2>3, <4>1, <5>1
      <4>2. CASE \E i \in 1 .. Len(replica_stubs) : s = replica_stubs[i]
        <5>1. PICK i \in 1 .. Len(replica_stubs) : s = replica_stubs[i]
          BY <4>2
        <5>2. i \in 1 .. Len(replica_stubs')
          BY <1>1, <2>3
        <5> QED BY <2>3, <5>1, <5>2
      <4> QED BY <3>1, <4>1, <4>2 DEF Belongs
    <3> QED BY <3>1 DEF Belongs
  <2>5. Shrinks
    BY <1>1, <2>1, SameShrinks
  <2> QED BY <1>8, <2>1, <2>2, <2>4, <2>5
<1>10. CASE ExpertConnected
  <2>1. /\ expert.pc = "connect" /\ expert' = [expert EXCEPT !.pc = "send", !.i = 1]
        /\ UNCHANGED <<table, fd_, shut, is_initialized_, call, replica_stubs>>
    BY <1>10 DEF ExpertConnected, sockvars
  <2>2. expert'.k = expert.k /\ expert'.pc = "send"
    BY <1>1, <2>1, ExpertGoes
  <2>3. Shrinks /\ \A s \in Stub : Belongs(s) => Belongs(s)'
    BY <1>1, <2>1, SameShrinks DEF Belongs
  <2> QED BY <1>8, <2>1, <2>2, <2>3
<1>11. CASE ExpertSend
  <2>1. PICK s : /\ s = replica_stubs[expert.i] /\ Send(s, Replicate(2, expert.k))
                 /\ IF ~Reaches(s)
                    THEN expert' = [expert EXCEPT !.i = @ + 1] /\ UNCHANGED call
                    ELSE /\ expert' = [expert EXCEPT !.pc = "await"]
                         /\ call' = Receive(Expert, s, ReplicaResponseSize)
    BY <1>11 DEF ExpertSend
  <2>2. /\ expert.pc = "send" /\ expert.i \in 1 .. Len(replica_stubs)
        /\ UNCHANGED <<fd_, replica_stubs>>
    BY <1>1, <1>11 DEF ExpertSend
  <2>3. s \in Socket
    BY <1>2, <2>1, <2>2, Names
  <2>4. Shrinks
    BY <1>1, <2>1, <2>2, <2>3, SendShrinks
  <2>5. expert'.k = expert.k /\ expert'.pc \in {"send", "await"}
    BY <1>1, <2>1, <2>2 DEF ExpertState
  <2>6. \A r \in Stub : Belongs(r) => Belongs(r)'
    BY <1>1, <1>5, <2>2 DEF NoCall, Belongs
  <2> QED BY <1>8, <2>2, <2>4, <2>5, <2>6
<1>12. CASE ExpertKilled
  <2>1. UNCHANGED <<table, fd_, shut, is_initialized_, call, expert, replica_stubs>>
        /\ expert.pc = "send"
    BY <1>12 DEF ExpertKilled, sockvars
  <2>2. Shrinks /\ \A s \in Stub : Belongs(s) => Belongs(s)'
    BY <1>1, <2>1, SameShrinks DEF Belongs
  <2> QED BY <1>8, <2>1, <2>2
<1>13. CASE ExpertAcked
  <2>1. /\ expert.pc = "await" /\ expert' = [expert EXCEPT !.pc = "send", !.i = @ + 1]
        /\ UNCHANGED <<table, fd_, shut, is_initialized_, replica_stubs>>
    BY <1>13 DEF ExpertAcked
  <2>2. expert'.k = expert.k /\ expert'.pc = "send"
    <3>1. PICK i \in Nat : i = expert.i + 1
      BY <1>1
    <3>2. expert' = [expert EXCEPT !.pc = "send", !.i = i]
      BY <2>1, <3>1
    <3> QED BY <1>1, <3>1, <3>2, ExpertGoes
  <2>3. call[Expert].on = replica_stubs[expert.i] /\ expert.i \in 1 .. Len(replica_stubs)
    BY <1>1, <2>1 DEF ExpertCall
  <2>4. Shrinks /\ \A s \in Stub : Belongs(s) => Belongs(s)'
    BY <1>1, <2>1, <2>3, SameShrinks DEF Belongs
  <2> QED BY <1>8, <2>1, <2>2, <2>4
<1>14. CASE ExpertFinish
  <2>1. /\ expert.pc = "send" /\ expert' = [expert EXCEPT !.pc = "idle", !.order = NoSocket]
        /\ UNCHANGED <<table, fd_, shut, is_initialized_, call, replica_stubs>>
    BY <1>14 DEF ExpertFinish, sockvars
  <2>2. expert'.k = expert.k /\ expert'.pc = "idle"
    BY <1>1, <2>1 DEF ExpertState
  <2>3. Shrinks /\ \A s \in Stub : Belongs(s) => Belongs(s)'
    BY <1>1, <2>1, SameShrinks DEF Belongs
  <2> QED BY <1>8, <2>1, <2>2, <2>3
<1>15. CASE Recv(Expert) /\ UNCHANGED servervars
  <2>1. /\ Shrinks /\ call'[Expert].on = call[Expert].on /\ UNCHANGED <<expert, replica_stubs>>
        /\ call[Expert].pc # "none"
    BY <1>1, <1>15, RecvShrinks, RecvType DEF servervars
  <2>2. expert.pc # "idle" /\ \A s \in Stub : Belongs(s) => Belongs(s)'
    BY <1>1, <2>1 DEF ExpertCall, Belongs
  <2> QED BY <1>8, <2>1, <2>2
<1> QED BY <1>6, <1>7, <1>9, <1>10, <1>11, <1>12, <1>13, <1>14, <1>15 DEF ExpertThread

LEMMA OwnerStep ==
  ASSUME TypeInv, ToAccept, OwnerInv, [Next]_vars PROVE OwnerInv'
<1>1. CASE Accept
  <2>1. PICK c \in Conn : /\ c = backlog[1] /\ Install(c, TRUE)
                          /\ eng' = [eng EXCEPT ![c].role = "order"]
                          /\ call' = Receive(c, c, RequestSize) /\ eng[c].role = "none"
    <3>1. backlog # <<>>
      BY <1>1 DEF Accept
    <3>2. eng[backlog[1]].role = "none"
      BY <3>1, HeadOfBacklog DEF ToAccept
    <3> QED BY <1>1, <3>1, <3>2, HeadOfBacklog DEF Accept
  <2>2. FreeFds # {} /\ UNCHANGED <<shut, expert, replica_stubs>>
    BY <1>1 DEF Accept
  <2>3. c \in Socket /\ Unopened(c) /\ c \notin Stub
    BY <2>1, Names DEF OwnerInv, ToOpen
  <2>4. /\ \A d \in Conn : eng'[d].role = "none" => eng[d].role = "none" /\ d # c
        /\ \A d \in Conn : eng'[d].role = "ended" => eng[d].role = "ended" /\ d # c
    <3>1. eng \in [Conn -> Engineer]
      BY TypesKnown
    <3>2. eng'[c].role = "order" /\ \A d \in Conn \ {c} : eng'[d] = eng[d]
      BY <2>1, <3>1 DEF Engineer
    <3> QED BY <3>2
  <2>5. call'[Expert] = call[Expert]
    BY <2>1, TypesKnown, Names DEF Receive
  <2>6. /\ \A r \in Stub : Fresh(r)' => Fresh(r) /\ r # c
        /\ \A r \in Stub : Belongs(r) => Belongs(r)'
    BY <2>2, <2>3, <2>5 DEF Fresh, Belongs
  <2> QED BY <2>1, <2>2, <2>3, <2>4, <2>6, OwnerOpens
<1>2. ASSUME UNCHANGED <<table, fd_, is_initialized_, shut, call, eng, expert,
                         replica_stubs>>
      PROVE  OwnerInv'
  BY <1>2 DEF OwnerInv, Held, ToOpen, Unopened, Fresh, Owned, Belongs
<1>3. CASE \/ AcceptFails \/ UNCHANGED vars
           \/ \E c \in Conn : \/ RemoteConnect(c) \/ RemoteAsk(c) \/ RemoteAnswered(c)
                              \/ RemoteClose(c) \/ RemoteDie(c)
           \/ \E s \in Stub : PeerAnswer(s)
           \/ \E p \in Range(Peers) : PeerDie(p)
  <2>1. UNCHANGED <<table, fd_, is_initialized_, shut, call, eng, expert, replica_stubs>>
    BY <1>3 DEF AcceptFails, vars, RemoteConnect, RemoteAsk, RemoteAnswered, RemoteClose,
                RemoteDie, PeerAnswer, PeerDie, sockvars, servervars
  <2> QED BY <1>2, <2>1
<1> QED BY <1>1, <1>3, EngineerOwns, ExpertOwns DEF Next, Main

LEMMA InitOwner == Init => OwnerInv
<1> SUFFICES ASSUME Init PROVE OwnerInv
  OBVIOUS
<1>1. /\ \A f \in Fd : table[f] = NoSocket
      /\ \A s \in Socket : fd_[s] = NoFd /\ ~shut[s]
  BY DEF Init, SocketInit
<1> QED BY <1>1, Names DEF OwnerInv, Held, ToOpen, Unopened, Owned

(* Whatever far ends and peers do, and in whatever order threads take      *)
(* their turns, an open descriptor is one its own Socket object will       *)
(* close, except that of a connect that failed (Socket.cpp,                *)
(* ClientSocket.cpp, ServerThread.cpp).                                    *)
THEOREM DescriptorsOwned == Spec => []OnlyFailedConnectsLeak
<1>1. Init => TypeInv /\ ToAccept /\ OwnerInv
  BY InitType, InitToAccept, InitOwner
<1>2. TypeInv /\ ToAccept /\ OwnerInv /\ [Next]_vars => (TypeInv /\ ToAccept /\ OwnerInv)'
  BY TypeStep, OwnerStep
<1>3. TypeInv /\ ToAccept /\ OwnerInv => OnlyFailedConnectsLeak
  <2> SUFFICES ASSUME TypeInv, OwnerInv, NEW f \in Fd, table[f] # NoSocket
               PROVE  LET s == table[f]
                      IN \/ /\ fd_[s] = f /\ is_initialized_[s]
                            /\ IF s \in Conn THEN eng[s].role # "ended"
                               ELSE s \in Range(replica_stubs) \/ s = call[Expert].on
                         \/ s \in Stub /\ ~is_initialized_[s] /\ ~shut[s]
    BY DEF OnlyFailedConnectsLeak
  <2>1. PICK s \in Conn \cup Stub : s = table[f] /\ fd_[s] = f /\ ~shut[s]
    BY TypesKnown, Names DEF SocketTypeOK, OwnerInv, Held
  <2>2. CASE s \in Conn
    BY <2>1, <2>2 DEF OwnerInv, Owned
  <2>3. CASE s \in Stub /\ is_initialized_[s]
    <3>1. Belongs(s) /\ s \notin Conn
      BY <2>1, <2>3, Names DEF OwnerInv, Owned
    <3>2. s \in Range(replica_stubs) \/ s = call[Expert].on
      <4>1. replica_stubs \in Seq(Stub)
        BY TypesKnown
      <4>2. DOMAIN replica_stubs = 1 .. Len(replica_stubs)
        BY <4>1, LenProperties
      <4> QED BY <3>1, <4>2 DEF Belongs, Range
    <3> QED BY <2>1, <2>3, <3>1, <3>2
  <2>4. CASE s \in Stub /\ ~is_initialized_[s]
    BY <2>1, <2>4
  <2> QED BY <2>1, <2>2, <2>3, <2>4
<1> QED BY <1>1, <1>2, <1>3, PTL DEF Spec

-----------------------------------------------------------------------------
(* One request, one answer.  From here on no other server replicates its   *)
(* orders to this one, and no peer dies under a registration: then the     *)
(* connections of customers and of recovering servers are what they seem.  *)

\* No server is about to replicate to this one.
Undisturbed == \A c \in Replication : remote[c].pc # "new"

(* The registration with a peer does not fail: if the peer dies, then      *)
(* before the expert connects to it or after it has answered.              *)
PeersRegister == expert.pc = "register" => call[Expert].pc # "failed"

\* Whether an answer is about what was asked, as AnswersMatch has it.
Right(r, words) ==
  LET asked == UnmarshalRequest(r.words)
  IN IF r.answer = RecordSize
     THEN UnmarshalRecord(words).customer_id = asked.customer_id
     ELSE LET laptop == UnmarshalLaptop(words)
          IN /\ laptop.customer_id = asked.customer_id
             /\ asked.request_type \in {0, 1} =>
                  /\ laptop.order_number = asked.order_number
                  /\ laptop.request_type = asked.request_type
                  /\ (laptop.admin_id = -1) <=> (asked.request_type = 0)

\* A far end x, its engineer e, and what is between them: buffer b and
\* arriving a on the way here, leaving l on the way back.  At most one
\* request, or its answer, is under way.
Exchange(c, x, e, b, a, l) ==
  LET r == Script[c][x.n]
  IN /\ x.n \in 0 .. Len(Script[c])
     /\ x.pc \in {"new", "ask", "done"} => b = <<>> /\ a = <<>> /\ l = <<>>
     /\ b \o a # <<>> => /\ x.n # 0 /\ l = <<>>
                         /\ \E rest \in Seq(Word) : (b \o a) \o rest = r.words
     /\ e.role \in {"waiting", "deliver"} =>
          /\ b = <<>> /\ a = <<>> /\ x.pc \in {"await", "closed"} /\ x.n # 0
          /\ x.pc = "await" => l = <<>>
          /\ UnmarshalRequest(r.words).request_type = 1
          /\ e.laptop = Laptop(c, UnmarshalRequest(r.words), 0)
     /\ l # <<>> /\ x.pc = "await" =>
          Len(l) <= r.answer /\ (c \in Customer /\ Len(l) = r.answer => Right(r, l))
     /\ c \in Customer /\ x.answer # <<>> => x.n # 0 /\ Right(r, x.answer)

(* Concatenation is associative.                                           *)
LEMMA Assoc ==
  ASSUME NEW s \in Seq(Word), NEW t \in Seq(Word), NEW u \in Seq(Word)
  PROVE  s \o (t \o u) = (s \o t) \o u
<1>1. PICK T : s \in Seq(T) /\ t \in Seq(T) /\ u \in Seq(T)
  OBVIOUS
<1> QED BY <1>1, ConcatAssociative

(* A sequence with a length is not empty.                                  *)
LEMMA NotEmpty == \A s : Len(s) > 0 => s # <<>>
<1>1. Len(<<>>) = 0
  BY EmptySeq
<1> QED BY <1>1

(* What may be asked, and how it reads.                                    *)
LEMMA AskedIs ==
  ASSUME NEW c \in Conn, c \notin Replication, NEW n \in 1 .. Len(Script[c])
  PROVE  LET r == Script[c][n]
         IN /\ r.words \in Seq(Word) /\ Len(r.words) = RequestSize
            /\ r.answer \in {RecordSize, LaptopSize}
            /\ \E m \in CustomerRequest :
                 /\ UnmarshalRequest(r.words) = m /\ m.request_type # 4
                 /\ m.request_type = 2 => r.answer = RecordSize
                 /\ m.request_type \notin {2, 6} => r.answer = LaptopSize
                 /\ c \in Customer /\ m.request_type = 6 => r.answer = LaptopSize
<1>1. PICK r : r = Script[c][n]
  OBVIOUS
<1>2. PICK m \in CustomerRequest :
        Fits(r, m) /\ (c \in Customer /\ m.request_type = 6 => r.answer = LaptopSize)
  <2>1. CASE c \in Customer
    <3>1. Script[c] \in Seq(CustomerAsk)
      BY <2>1, Scripts
    <3>2. r \in CustomerAsk
      BY <1>1, <3>1, ElementOfSeq
    <3> QED BY <3>2 DEF CustomerAsk
  <2>2. CASE c = Recovery
    <3> DEFINE T == {q \in Ask : \E m \in CustomerRequest : Fits(q, m)}
    <3>1. Script[c] \in Seq(T)
      BY <2>2, Scripts
    <3>2. r \in T
      <4> HIDE DEF T
      <4> QED BY <1>1, <3>1, ElementOfSeq
    <3>3. c \notin Customer
      BY <2>2 DEF Recovery, Customer
    <3> QED BY <3>2, <3>3
  <2> QED BY <2>1, <2>2 DEF Conn
<1>3. r.words = MarshalRequest(m) /\ UnmarshalRequest(MarshalRequest(m)) = m
  BY <1>2, RequestRoundTrip DEF Fits
<1>4. r.words \in Seq(Word) /\ Len(r.words) = RequestSize
  BY <1>3, SizesAgree
<1>5. /\ m.request_type # 4 /\ r.answer \in {RecordSize, LaptopSize}
      /\ m.request_type = 2 => r.answer = RecordSize
      /\ m.request_type \notin {2, 6} => r.answer = LaptopSize
  BY <1>2 DEF Fits
<1> QED BY <1>1, <1>2, <1>3, <1>4, <1>5

(* A whole request in the buffer is the one asked last.                    *)
LEMMA ExchangeWhole ==
  ASSUME NEW c \in Conn, c \notin Replication, NEW x \in Remote, NEW e \in Engineer,
         NEW b \in Seq(Word), NEW a \in Seq(Word), NEW l \in Seq(Word),
         Exchange(c, x, e, b, a, l), Len(b) = RequestSize
  PROVE  /\ x.n \in 1 .. Len(Script[c]) /\ b = Script[c][x.n].words
         /\ a = <<>> /\ l = <<>> /\ x.pc \in {"await", "closed"}
<1>1. b # <<>> /\ b \o a # <<>>
  <2>1. Len(b) > 0
    BY DEF RequestSize
  <2>2. b # <<>>
    BY <2>1, NotEmpty
  <2> QED BY <2>2, ConcatEqualIffEmpty
<1>2. /\ x.n \in 0 .. Len(Script[c]) /\ x.n # 0 /\ l = <<>>
      /\ x.pc \notin {"new", "ask", "done"}
      /\ \E rest \in Seq(Word) : (b \o a) \o rest = Script[c][x.n].words
  BY <1>1 DEF Exchange
<1>3. x.n \in 1 .. Len(Script[c]) /\ x.pc \in {"await", "closed"}
  BY <1>2, ScriptType DEF Remote
<1>4. PICK rest \in Seq(Word), w \in Seq(Word) :
        (b \o a) \o rest = w /\ w = Script[c][x.n].words /\ Len(w) = RequestSize
  BY <1>2, <1>3, AskedIs
<1>5. /\ Len(w) = Len(b) + Len(a) + Len(rest) /\ Len(a) \in Nat /\ Len(rest) \in Nat
      /\ Len(b) \in Nat /\ b \o a \in Seq(Word)
  BY <1>4, ConcatProperties, LenProperties
<1>6. Len(a) = 0 /\ Len(rest) = 0
  BY <1>4, <1>5 DEF RequestSize
<1>7. a = <<>> /\ rest = <<>>
  BY <1>6, EmptySeq
<1>8. b = w
  BY <1>4, <1>5, <1>7, ConcatEmptySeq
<1> QED BY <1>2, <1>3, <1>4, <1>7, <1>8

(* The far end closes; or dies, with a2 of what it sent never to arrive.   *)
LEMMA ExchangeEnds ==
  ASSUME NEW c \in Conn, NEW x \in Remote, NEW y \in Remote, NEW e \in Engineer,
         NEW b \in Seq(Word), NEW a1 \in Seq(Word), NEW a2 \in Seq(Word),
         NEW l \in Seq(Word), Exchange(c, x, e, b, a1 \o a2, l),
         y.pc = "closed", y.n = x.n, y.answer = x.answer
  PROVE  Exchange(c, y, e, b, a1, l)
<1>1. b \o a1 # <<>> => /\ x.n # 0 /\ l = <<>>
                        /\ \E rest \in Seq(Word) :
                             (b \o a1) \o rest = Script[c][x.n].words
  <2>1. b \o (a1 \o a2) = (b \o a1) \o a2 /\ b \o a1 \in Seq(Word)
    BY Assoc, ConcatProperties
  <2>2. b \o a1 # <<>> => b \o (a1 \o a2) # <<>>
    BY <2>1, ConcatEqualIffEmpty
  <2>3. ASSUME b \o a1 # <<>>
        PROVE  /\ x.n # 0 /\ l = <<>>
               /\ \E rest \in Seq(Word) : (b \o a1) \o rest = Script[c][x.n].words
    <3>1. x.n # 0 /\ l = <<>>
      BY <2>2, <2>3 DEF Exchange
    <3>2. PICK rest \in Seq(Word) : (b \o (a1 \o a2)) \o rest = Script[c][x.n].words
      BY <2>2, <2>3 DEF Exchange
    <3>3. (b \o a1) \o (a2 \o rest) = Script[c][x.n].words /\ a2 \o rest \in Seq(Word)
      <4>1. PICK p \in Seq(Word) : p = b \o a1
        BY <2>1
      <4>2. p \o (a2 \o rest) = (p \o a2) \o rest
        BY Assoc, Zenon
      <4>3. a2 \o rest \in Seq(Word)
        BY ConcatProperties
      <4> QED BY <2>1, <3>2, <4>1, <4>2, <4>3
    <3> QED BY <3>1, <3>3
  <2> QED BY <2>3
<1>2. a1 \o a2 = <<>> => a1 = <<>>
  BY ConcatEqualIffEmpty
<1> QED BY <1>1, <1>2 DEF Exchange

(* The next request is made, and may be lost.                              *)
LEMMA ExchangeAsks ==
  ASSUME NEW c \in Conn, c \notin Replication, NEW x \in Remote, NEW e \in Engineer,
         NEW b \in Seq(Word), NEW a \in Seq(Word), NEW l \in Seq(Word),
         Exchange(c, x, e, b, a, l), x.pc = "ask", x.n < Len(Script[c]),
         NEW y \in Remote, y.pc = "await", y.n = x.n + 1, y.answer = <<>>
  PROVE  /\ Exchange(c, y, e, b, a, l)
         /\ Exchange(c, y, e, b, a \o Script[c][x.n + 1].words, l)
<1>1. b = <<>> /\ a = <<>> /\ l = <<>> /\ e.role \notin {"waiting", "deliver"}
  BY DEF Exchange
<1>2. y.n \in 1 .. Len(Script[c]) /\ y.n \in 0 .. Len(Script[c]) /\ y.n # 0
  BY ScriptType DEF Remote
<1>3. PICK w \in Seq(Word) : w = Script[c][y.n].words
  BY <1>2, AskedIs
<1>4. b \o a = <<>> /\ a \o w = w /\ b \o w = w /\ w \o <<>> = w /\ <<>> \in Seq(Word)
  BY <1>1, <1>3, ConcatEmptySeq, EmptySeq
<1>5. Exchange(c, y, e, b, a, l)
  BY <1>1, <1>2, <1>4 DEF Exchange
<1>6. Exchange(c, y, e, b, w, l)
  BY <1>1, <1>2, <1>3, <1>4 DEF Exchange
<1> QED BY <1>3, <1>4, <1>5, <1>6

(* The answer is complete and is read.                                     *)
LEMMA ExchangeAnswered ==
  ASSUME NEW c \in Conn, c \notin Replication, NEW x \in Remote, NEW e \in Engineer,
         NEW b \in Seq(Word), NEW a \in Seq(Word), NEW l \in Seq(Word),
         Exchange(c, x, e, b, a, l), x.pc = "await", x.n \in 1 .. Len(Script[c]),
         NEW y \in Remote, y.pc \in {"ask", "done"}, y.n = x.n,
         NEW n \in Nat, n = Script[c][x.n].answer, Len(l) >= n, y.answer = SubSeq(l, 1, n)
  PROVE  Exchange(c, y, e, b, a, SubSeq(l, n + 1, Len(l)))
<1>1. n \in Nat /\ n > 0 /\ Len(l) \in Nat
  <2>1. n \in {RecordSize, LaptopSize}
    BY AskedIs
  <2> QED BY <2>1, LenProperties DEF RecordSize, LaptopSize
<1>2. l # <<>>
  BY <1>1
<1>3. /\ b \o a = <<>> /\ e.role \notin {"waiting", "deliver"}
      /\ Len(l) <= n /\ (c \in Customer /\ Len(l) = n => Right(Script[c][x.n], l))
  BY <1>2 DEF Exchange
<1>4. b = <<>> /\ a = <<>> /\ Len(l) = n
  BY <1>1, <1>3, ConcatEqualIffEmpty
<1>5. PICK p, q : p = SubSeq(l, 1, n) /\ q = SubSeq(l, n + 1, Len(l))
  OBVIOUS
<1>6. /\ p \in Seq(Word) /\ q \in Seq(Word) /\ Len(q) = 0 /\ p \o q = l
  <2>1. n \in 0 .. Len(l) /\ Len(l) - n = 0
    BY <1>1, <1>4
  <2>2. /\ SubSeq(l, 1, n) \in Seq(Word) /\ SubSeq(l, n + 1, Len(l)) \in Seq(Word)
        /\ Len(SubSeq(l, n + 1, Len(l))) = Len(l) - n
        /\ SubSeq(l, 1, n) \o SubSeq(l, n + 1, Len(l)) = l
    <3>1. PICK T, k : T = Word /\ l \in Seq(T) /\ k = n /\ k \in 0 .. Len(l)
      BY <2>1
    <3>2. PICK u, v : u = SubSeq(l, 1, k) /\ v = SubSeq(l, k + 1, Len(l))
      OBVIOUS
    <3>3. u \in Seq(T) /\ v \in Seq(T) /\ Len(v) = Len(l) - k /\ u \o v = l
      BY <3>1, <3>2, Parts, ZenonT(40)
    <3> QED BY <3>1, <3>2, <3>3
  <2> QED BY <1>5, <2>1, <2>2
<1>7. q = <<>> /\ p = l
  BY <1>6, EmptySeq, ConcatEmptySeq
<1>8. b \o a = <<>> /\ y.n \in 0 .. Len(Script[c]) /\ y.n # 0
  BY <1>3 DEF Exchange
<1>9. c \in Customer => Right(Script[c][y.n], y.answer)
  BY <1>3, <1>4, <1>5, <1>7
<1>10. y.pc # "await" /\ q = <<>>
  BY <1>7
<1>11. Exchange(c, y, e, b, a, q)
  BY <1>3, <1>4, <1>8, <1>9, <1>10, Zenon DEF Exchange
<1> QED BY <1>5, <1>11

(* A part of the request is received.                                      *)
LEMMA ExchangeReceives ==
  ASSUME NEW c \in Conn, NEW x \in Remote, NEW e \in Engineer, e.role = "order",
         NEW b \in Seq(Word), NEW a1 \in Seq(Word), NEW a2 \in Seq(Word),
         NEW l \in Seq(Word), Exchange(c, x, e, b, a1 \o a2, l)
  PROVE  Exchange(c, x, e, b \o a1, a2, l)
<1>1. b \o (a1 \o a2) = (b \o a1) \o a2
  BY Assoc, Zenon
<1>2. a1 \o a2 = <<>> /\ b = <<>> => a1 = <<>> /\ a2 = <<>> /\ b \o a1 = <<>>
  BY ConcatEqualIffEmpty
<1> QED BY <1>1, <1>2 DEF Exchange

(* What was received is dropped, and nothing more is there.                *)
LEMMA ExchangeDrops ==
  ASSUME NEW c \in Conn, NEW x \in Remote, NEW e, NEW e1,
         e1.role \notin {"waiting", "deliver"},
         NEW b \in Seq(Word), NEW l \in Seq(Word), Exchange(c, x, e, b, <<>>, l)
  PROVE  Exchange(c, x, e1, <<>>, <<>>, l)
<1>1. <<>> \o <<>> = <<>>
  BY EmptySeq, ConcatEmptySeq
<1> QED BY <1>1 DEF Exchange

(* The engineer's role changes between two requests.                       *)
LEMMA ExchangeRole ==
  ASSUME NEW c \in Conn, NEW x, NEW e, NEW e1,
         \/ e1.role \notin {"waiting", "deliver"}
         \/ e.role = "waiting" /\ e1.role = "deliver" /\ e1.laptop = e.laptop,
         NEW b, NEW a, NEW l, Exchange(c, x, e, b, a, l)
  PROVE  Exchange(c, x, e1, b, a, l)
  BY DEF Exchange

(* An answer is sent, or lost where nobody is there to receive it.         *)
LEMMA ExchangeReplies ==
  ASSUME NEW c \in Conn, NEW x \in Remote, NEW e, NEW e1,
         e1.role \notin {"waiting", "deliver"},
         NEW b \in Seq(Word), NEW l \in Seq(Word), Exchange(c, x, e, b, <<>>, l),
         x.n # 0, x.pc = "closed" \/ (x.pc = "await" /\ l = <<>>),
         NEW words \in Seq(Word), Len(words) <= Script[c][x.n].answer,
         c \in Customer /\ Len(words) = Script[c][x.n].answer
           => Right(Script[c][x.n], words),
         NEW l1, l1 = l \/ l1 = l \o words
  PROVE  Exchange(c, x, e1, <<>>, <<>>, l1)
<1>1. <<>> \o <<>> = <<>> /\ <<>> \o words = words
  BY EmptySeq, ConcatEmptySeq
<1>2. CASE x.pc = "closed"
  BY <1>1, <1>2 DEF Exchange
<1>3. CASE x.pc = "await" /\ l = <<>>
  <2>1. l1 = <<>> \/ l1 = words
    BY <1>1, <1>3
  <2> QED BY <1>1, <1>3, <2>1 DEF Exchange
<1> QED BY <1>2, <1>3
-----------------------------------------------------------------------------
(* Under these two, no step closes a number that another connection has:   *)
(* whose object closes still has the number it was given.                  *)

Quiet ==
  /\ \A c \in Replication : remote[c].pc # "new" /\ eng[c].role = "none"
  /\ \A i \in 1 .. Len(backlog) : backlog[i] \notin Replication

\* The connection opened for s is still there, under its number.
Own(s) == fd_[s] \in Fd /\ table[fd_[s]] = s

\* The stubs that the order is still to be sent on, and the one in use.
ToSend(s) ==
  /\ expert.pc # "idle"
  /\ \E j \in 1 .. Len(replica_stubs) :
       /\ s = replica_stubs[j]
       /\ expert.pc = "send" => j >= expert.i
       /\ expert.pc = "await" => j > expert.i

InUse(s) ==
  /\ s = call[Expert].on
  /\ expert.pc = "register" \/ call[Expert].pc # "returned"

StubsDiffer ==
  /\ \A i, j \in 1 .. Len(replica_stubs) : replica_stubs[i] = replica_stubs[j] => i = j
  /\ expert.pc = "register" =>
       \A i \in 1 .. Len(replica_stubs) : replica_stubs[i] # call[Expert].on

\* A stub whose peer has died is closed once, and not used again.
StubsOpen ==
  /\ call[Expert].pc = "blocked" => call[Expert].at = call[Expert].on
  /\ StubsDiffer
  /\ \A s \in Stub : /\ Belongs(s) /\ is_initialized_[s] => Own(s)
                     /\ ToSend(s) \/ InUse(s) => is_initialized_[s]
                     /\ call[Expert].pc = "failed" /\ s = call[Expert].on => over[s]

Lost(c) == call[c].pc = "returned" /\ call[c].buffer = <<>>

EngineerOpen(c) ==
  /\ eng[c].role # "backup"
  /\ call[c].pc = "blocked" => call[c].at = c
  /\ call[c].pc = "failed" \/ Lost(c) => over[c] /\ arriving[c] = <<>>
  /\ Lost(c) => ~is_initialized_[c]
  /\ eng[c].role \in {"order", "waiting", "deliver"} /\ ~Lost(c) => Own(c)
  /\ over[c] => remote[c].pc = "closed"

OneRequest(c) ==
  Exchange(c, remote[c], eng[c], call[c].buffer, arriving[c], leaving[c])

Served(c) == EngineerOpen(c) /\ (c \notin Replication => OneRequest(c))

CalmInv == Quiet /\ StubsOpen /\ \A c \in Conn : Served(c)

(* An object that still has its number reaches the connection.             *)
LEMMA OwnReaches ==
  ASSUME TypeInv, OwnerInv, NEW s \in Socket, Own(s)
  PROVE  /\ Behind(s) = s /\ ~shut[s]
         /\ s \in Conn => is_initialized_[s]
         /\ is_initialized_[s] => Reaches(s)
<1>1. /\ NoSocket \notin Socket /\ fd_[s] \in Fd /\ table[fd_[s]] = s
      /\ \A f \in Fd : f # NoFd
  BY Names DEF Own, Fd, NoFd
<1>2. Behind(s) = s
  BY <1>1 DEF Behind
<1>3. ~shut[s]
  BY <1>1 DEF OwnerInv, Held
<1>4. s \in Conn => is_initialized_[s]
  BY <1>1 DEF OwnerInv, Owned
<1> QED BY <1>1, <1>2, <1>3, <1>4 DEF Reaches, Unconnected

(* Closing objects that have their numbers spares all others.              *)
LEMMA CloseSpares ==
  ASSUME SocketTypeOK, NEW S \in SUBSET Socket, \A s \in S : Own(s), Close(S), fd_' = fd_
  PROVE  /\ \A x \in Socket \ S : /\ Own(x) => Own(x)'
                                  /\ is_initialized_'[x] = is_initialized_[x]
         /\ \A s \in S : ~is_initialized_'[s]
<1>1. /\ \A f \in Fd : table'[f] = IF \E s \in S : fd_[s] = f THEN NoSocket ELSE table[f]
      /\ \A s \in Socket : is_initialized_'[s] <=> is_initialized_[s] /\ s \notin S
  BY DEF Close
<1>2. ASSUME NEW x \in Socket \ S, Own(x) PROVE Own(x)'
  <2>1. fd_[x] \in Fd /\ table[fd_[x]] = x /\ fd_'[x] = fd_[x]
    BY <1>2 DEF Own
  <2>2. \A s \in S : fd_[s] # fd_[x]
    BY <2>1 DEF Own
  <2> QED BY <1>1, <2>1, <2>2 DEF Own
<1>3. ASSUME NEW x \in Socket \ S PROVE is_initialized_'[x] = is_initialized_[x]
  <2>1. is_initialized_'[x] = (is_initialized_[x] /\ x \notin S)
    BY <1>3, Zenon DEF Close
  <2>2. is_initialized_[x] \in BOOLEAN
    BY <1>3 DEF SocketTypeOK
  <2> QED BY <1>3, <2>1, <2>2
<1> QED BY <1>1, <1>2, <1>3

(* An object that has its number sends over its connection.                *)
LEMMA OwnSends ==
  ASSUME TypeInv, OwnerInv, NEW s \in Socket, Own(s), is_initialized_[s],
         NEW words, Send(s, words)
  PROVE  /\ UNCHANGED <<table, is_initialized_, shut>>
         /\ leaving' = IF over[s] THEN leaving ELSE [leaving EXCEPT ![s] = @ \o words]
<1>1. Behind(s) = s /\ Reaches(s)
  BY OwnReaches
<1> QED BY <1>1 DEF Send

(* What a connection is served with changes only with its own variables.   *)
LEMMA ServedStays ==
  ASSUME NEW c \in Conn, Served(c),
         eng'[c] = eng[c], call'[c] = call[c], over'[c] = over[c], remote'[c] = remote[c],
         arriving'[c] = arriving[c], leaving'[c] = leaving[c],
         Own(c) => Own(c)', is_initialized_'[c] => is_initialized_[c]
  PROVE  Served(c)'
<1>1. EngineerOpen(c)'
  <2>1. Lost(c)' <=> Lost(c)
    BY DEF Lost
  <2> QED BY <2>1 DEF Served, EngineerOpen
<1>2. c \notin Replication => OneRequest(c)'
  BY DEF Served, OneRequest
<1> QED BY <1>1, <1>2 DEF Served

LEMMA StubsStay ==
  ASSUME StubsOpen, call'[Expert] = call[Expert], UNCHANGED <<replica_stubs, expert>>,
         \A s \in Stub : /\ Own(s) => Own(s)'
                         /\ is_initialized_'[s] = is_initialized_[s]
                         /\ over[s] => over'[s]
  PROVE  StubsOpen'
<1>1. \A s \in Stub : /\ (Belongs(s)' <=> Belongs(s)) /\ (ToSend(s)' <=> ToSend(s))
                      /\ InUse(s)' <=> InUse(s)
  BY DEF Belongs, ToSend, InUse
<1>2. StubsDiffer'
  BY DEF StubsOpen, StubsDiffer
<1> QED BY <1>1, <1>2 DEF StubsOpen

(* A step of an engineer: of the rest only this can change.                *)
LEMMA EngineerSpares ==
  ASSUME TypeInv, CalmInv, NEW c \in Conn, EngineerThread(c),
         \A u \in Thread \ {c} : call'[u] = call[u],
         UNCHANGED <<over, fd_>>,
         \A s \in Socket \ {c} : /\ Own(s) => Own(s)'
                                 /\ is_initialized_'[s] = is_initialized_[s]
                                 /\ arriving'[s] = arriving[s] /\ leaving'[s] = leaving[s],
         Served(c)'
  PROVE  CalmInv'
<1>1. /\ Conn \subseteq Socket /\ Stub \subseteq Socket /\ Conn \subseteq Thread
      /\ Expert \in Thread /\ Expert # c /\ c \notin Stub
  BY Names
<1>2. /\ UNCHANGED <<backlog, remote, replica_stubs, expert>>
      /\ \A d \in Conn \ {c} : eng'[d] = eng[d]
      /\ eng[c].role = "none" => eng'[c].role = "none"
  BY EngineerRoles
<1>3. Quiet'
  <2>1. Replication \subseteq Conn
    BY DEF Conn
  <2> QED BY <1>2, <2>1 DEF CalmInv, Quiet
<1>4. StubsOpen'
  BY <1>1, <1>2, StubsStay DEF CalmInv
<1>5. ASSUME NEW d \in Conn \ {c} PROVE Served(d)'
  BY <1>1, <1>2, <1>5, ServedStays DEF CalmInv
<1> QED BY <1>3, <1>4, <1>5 DEF CalmInv

(* What an engineer serves is what its far end asked last.                 *)
LEMMA ServesAsked ==
  ASSUME TypeInv, CalmInv, NEW c \in Conn, Has(c, "order"), RequestIsValid(Got(c))
  PROVE  /\ c \notin Replication /\ Own(c) /\ arriving[c] = <<>> /\ leaving[c] = <<>>
         /\ remote[c].n # 0 /\ remote[c].pc \in {"await", "closed"}
         /\ LET r == Script[c][remote[c].n]
            IN /\ call[c].buffer = r.words /\ Got(c) = UnmarshalRequest(r.words)
               /\ Got(c) \in CustomerRequest /\ Got(c).request_type # 4
               /\ r.answer \in {RecordSize, LaptopSize}
               /\ Got(c).request_type = 2 => r.answer = RecordSize
               /\ Got(c).request_type \notin {2, 6} => r.answer = LaptopSize
               /\ c \in Customer /\ Got(c).request_type = 6 => r.answer = LaptopSize
<1>1. /\ c \in Socket /\ eng[c] \in Engineer /\ remote[c] \in Remote
      /\ arriving[c] \in Seq(Word) /\ leaving[c] \in Seq(Word)
  BY Names, TypesKnown DEF SocketTypeOK
<1>2. /\ eng[c].role = "order" /\ call[c].pc = "returned"
      /\ call[c].buffer \in Seq(Word) /\ Len(call[c].buffer) = RequestSize
      /\ call[c].buffer # <<>> /\ Got(c) \in CustomerRequest
  BY GotType DEF Has
<1>3. c \notin Replication
  BY <1>2 DEF CalmInv, Quiet
<1>4. Own(c) /\ Exchange(c, remote[c], eng[c], call[c].buffer, arriving[c], leaving[c])
  BY <1>2, <1>3 DEF CalmInv, Served, EngineerOpen, Lost, OneRequest
<1>5. /\ remote[c].n \in 1 .. Len(Script[c])
      /\ call[c].buffer = Script[c][remote[c].n].words
      /\ arriving[c] = <<>> /\ leaving[c] = <<>> /\ remote[c].pc \in {"await", "closed"}
  BY <1>1, <1>2, <1>3, <1>4, ExchangeWhole
<1>6. Got(c) = UnmarshalRequest(Script[c][remote[c].n].words)
  BY <1>2, <1>5 DEF Got
<1>7. remote[c].n # 0
  BY <1>5
<1>8. PICK r : r = Script[c][remote[c].n]
  OBVIOUS
<1>9. PICK m \in CustomerRequest :
        /\ UnmarshalRequest(r.words) = m /\ m.request_type # 4
        /\ r.answer \in {RecordSize, LaptopSize}
        /\ m.request_type = 2 => r.answer = RecordSize
        /\ m.request_type \notin {2, 6} => r.answer = LaptopSize
        /\ c \in Customer /\ m.request_type = 6 => r.answer = LaptopSize
  BY <1>3, <1>5, <1>8, AskedIs
<1> QED BY <1>2, <1>3, <1>4, <1>5, <1>6, <1>7, <1>8, <1>9

(* An answer to what was asked.                                            *)
LEMMA ReplyServes ==
  ASSUME TypeInv, OwnerInv, CalmInv, NEW c \in Conn, c \notin Replication,
         EngineerThread(c), Own(c), arriving[c] = <<>>, remote[c].n # 0,
         remote[c].pc = "closed" \/ (remote[c].pc = "await" /\ leaving[c] = <<>>),
         NEW words \in Seq(Word), NEW laptop \in LaptopInfo,
         Reply(c, words, "order", laptop), UNCHANGED EngineerRest,
         Len(words) <= Script[c][remote[c].n].answer,
         c \in Customer /\ Len(words) = Script[c][remote[c].n].answer
           => Right(Script[c][remote[c].n], words)
  PROVE  CalmInv'
<1>1. /\ c \in Socket /\ c \in Thread /\ SocketInv /\ eng \in [Conn -> Engineer]
      /\ arriving \in [Socket -> Seq(Word)] /\ leaving \in [Socket -> Seq(Word)]
      /\ eng[c] \in Engineer /\ remote[c] \in Remote /\ call[c].buffer \in Seq(Word)
  BY Names, TypesKnown DEF SocketTypeOK, Call
<1>2. /\ Send(c, words) /\ call' = Receive(c, c, RequestSize)
      /\ UNCHANGED <<fd_, over, arriving, remote>>
  BY DEF Reply, EngineerRest
<1>3. PICK e : e = [role |-> "order", laptop |-> laptop] /\ eng' = [eng EXCEPT ![c] = e]
  BY DEF Reply
<1>4. /\ UNCHANGED <<table, is_initialized_>>
      /\ leaving' = IF over[c] THEN leaving ELSE [leaving EXCEPT ![c] = @ \o words]
  BY <1>1, <1>2, OwnReaches, OwnSends
<1>5. RequestSize \in Nat \ {0}
  BY DEF RequestSize
<1>6. PICK k : /\ k = [pc |-> "receive", on |-> c, at |-> NoSocket, size |-> RequestSize,
                       buffer |-> <<>>]
               /\ call'[c] = k /\ \A u \in Thread \ {c} : call'[u] = call[u]
  BY <1>1, <1>2, <1>5, ReceiveType
<1>7. eng'[c] = e /\ e.role = "order" /\ call'[c].pc = "receive" /\ call'[c].buffer = <<>>
  BY <1>1, <1>3, <1>6
<1>8. PICK l1 : /\ l1 = leaving'[c] /\ (l1 = leaving[c] \/ l1 = leaving[c] \o words)
  BY <1>1, <1>4
<1>9. OneRequest(c)'
  <2>1. Exchange(c, remote[c], eng[c], call[c].buffer, <<>>, leaving[c])
    BY DEF CalmInv, Served, OneRequest
  <2>2. Exchange(c, remote[c], e, <<>>, <<>>, l1)
    <3>1. PICK x \in Remote, b \in Seq(Word), l \in Seq(Word) :
            x = remote[c] /\ b = call[c].buffer /\ l = leaving[c]
      BY <1>1
    <3>2. /\ Exchange(c, x, eng[c], b, <<>>, l) /\ x.n # 0
          /\ x.pc = "closed" \/ (x.pc = "await" /\ l = <<>>)
          /\ Len(words) <= Script[c][x.n].answer
          /\ c \in Customer /\ Len(words) = Script[c][x.n].answer
               => Right(Script[c][x.n], words)
          /\ l1 = l \/ l1 = l \o words
      BY <1>8, <2>1, <3>1
    <3>3. Exchange(c, x, e, <<>>, <<>>, l1)
      BY <1>7, <3>2, ExchangeReplies
    <3> QED BY <3>1, <3>3
  <2> QED BY <1>2, <1>7, <1>8, <2>2 DEF OneRequest
<1>10. EngineerOpen(c)'
  <2>1. over[c] => remote[c].pc = "closed"
    BY DEF CalmInv, Served, EngineerOpen
  <2> QED BY <1>2, <1>4, <1>7, <2>1 DEF EngineerOpen, Lost, Own
<1>11. \A s \in Socket \ {c} : /\ Own(s) => Own(s)'
                               /\ is_initialized_'[s] = is_initialized_[s]
                               /\ arriving'[s] = arriving[s] /\ leaving'[s] = leaving[s]
  BY <1>1, <1>2, <1>4 DEF Own
<1> QED BY <1>2, <1>6, <1>9, <1>10, <1>11, EngineerSpares DEF Served

(* What makes an answer right: a laptop, or a record.                      *)
LEMMA RightLaptop ==
  ASSUME NEW r, r.answer = LaptopSize, NEW laptop \in LaptopInfo,
         laptop.customer_id = UnmarshalRequest(r.words).customer_id,
         UnmarshalRequest(r.words).request_type \in {0, 1} =>
           /\ laptop.order_number = UnmarshalRequest(r.words).order_number
           /\ laptop.request_type = UnmarshalRequest(r.words).request_type
           /\ (laptop.admin_id = -1) <=> (UnmarshalRequest(r.words).request_type = 0)
  PROVE  /\ MarshalLaptop(laptop) \in Seq(Word)
         /\ Len(MarshalLaptop(laptop)) <= r.answer /\ Right(r, MarshalLaptop(laptop))
<1>1. UnmarshalLaptop(MarshalLaptop(laptop)) = laptop
  BY LaptopRoundTrip
<1>2. r.answer # RecordSize
  BY DEF LaptopSize, RecordSize
<1>3. Right(r, MarshalLaptop(laptop))
  BY <1>1, <1>2, Zenon DEF Right
<1>4. LaptopSize <= LaptopSize
  BY DEF LaptopSize
<1> QED BY <1>3, <1>4, LaptopWords

LEMMA RightRecord ==
  ASSUME NEW r, r.answer = RecordSize, NEW record \in CustomerRecord,
         record.customer_id = UnmarshalRequest(r.words).customer_id
  PROVE  /\ MarshalRecord(record) \in Seq(Word)
         /\ Len(MarshalRecord(record)) <= r.answer /\ Right(r, MarshalRecord(record))
<1>1. UnmarshalRecord(MarshalRecord(record)) = record
  BY RecordRoundTrip
<1>2. Right(r, MarshalRecord(record))
  BY <1>1, Zenon DEF Right
<1>3. MarshalRecord(record) \in Seq(Word) /\ Len(MarshalRecord(record)) = RecordSize
  BY SizesAgree
<1>4. RecordSize <= RecordSize
  BY DEF RecordSize
<1> QED BY <1>2, <1>3, <1>4

(* A request is served: an order at once, queued, or answered by the       *)
(* expert's engineer; a record, a status, an entry of the log.             *)
LEMMA AnswerServes ==
  ASSUME TypeInv, OwnerInv, CalmInv, NEW c \in Conn,
         \/ CreateRegularLaptop(c) \/ DeliverCustomLaptop(c) \/ ReadRecord(c)
         \/ Status(c) \/ LogEntry(c)
  PROVE  CalmInv'
<1>1. PICK r : r = Script[c][remote[c].n]
  OBVIOUS
<1>2. /\ eng[c].laptop \in LaptopInfo /\ EngineerThread(c)
      /\ \A x \in Payload : x \in Int32
  BY TypesKnown, ConnectionsAssumption DEF Engineer, EngineerThread
<1>3. ASSUME Has(c, "order"), RequestIsValid(Got(c)), UNCHANGED EngineerRest,
             NEW words \in Seq(Word), Len(words) <= r.answer,
             c \in Customer /\ Len(words) = r.answer => Right(r, words),
             NEW laptop \in LaptopInfo, Reply(c, words, "order", laptop)
      PROVE  CalmInv'
  BY <1>1, <1>2, <1>3, ServesAsked, ReplyServes
<1>4. ASSUME Has(c, "order"), RequestIsValid(Got(c))
      PROVE  /\ Got(c) = UnmarshalRequest(r.words) /\ Got(c) \in CustomerRequest
             /\ Got(c).customer_id \in Int32 /\ r.answer \in {RecordSize, LaptopSize}
             /\ Got(c).request_type = 2 => r.answer = RecordSize
             /\ Got(c).request_type \notin {2, 6} => r.answer = LaptopSize
             /\ c \in Customer /\ Got(c).request_type = 6 => r.answer = LaptopSize
  BY <1>1, <1>4, ServesAsked DEF CustomerRequest
<1>5. CASE CreateRegularLaptop(c)
  <2>1. PICK laptop : /\ laptop = Laptop(c, Got(c), -1) /\ UNCHANGED EngineerRest
                      /\ Reply(c, MarshalLaptop(laptop), "order", laptop)
                      /\ Has(c, "order") /\ RequestIsValid(Got(c))
                      /\ Got(c).request_type = 0
    BY <1>5 DEF CreateRegularLaptop
  <2>2. r.answer = LaptopSize /\ laptop \in LaptopInfo
    BY <1>4, <2>1, LaptopType
  <2>3. /\ MarshalLaptop(laptop) \in Seq(Word) /\ Len(MarshalLaptop(laptop)) <= r.answer
        /\ Right(r, MarshalLaptop(laptop))
    <3>1. /\ laptop.customer_id = Got(c).customer_id
          /\ laptop.order_number = Got(c).order_number
          /\ laptop.request_type = Got(c).request_type /\ laptop.admin_id = -1
      BY <2>1 DEF Laptop
    <3> QED BY <1>4, <2>1, <2>2, <3>1, RightLaptop
  <2> QED BY <1>3, <2>1, <2>2, <2>3
<1>6. CASE DeliverCustomLaptop(c)
  <2>1. /\ eng[c].role = "deliver" /\ UNCHANGED EngineerRest
        /\ Reply(c, MarshalLaptop(eng[c].laptop), "order", eng[c].laptop)
    BY <1>6 DEF DeliverCustomLaptop
  <2>2. c \notin Replication
    BY <2>1 DEF CalmInv, Quiet
  <2>3. call[c].pc = "none"
    BY <2>1, TypesKnown DEF EngineerCall
  <2>4. Own(c) /\ Exchange(c, remote[c], eng[c], call[c].buffer, arriving[c], leaving[c])
    BY <2>1, <2>2, <2>3 DEF CalmInv, Served, EngineerOpen, Lost, OneRequest
  <2>5. /\ arriving[c] = <<>> /\ remote[c].n # 0 /\ remote[c].pc \in {"await", "closed"}
        /\ remote[c].pc = "await" => leaving[c] = <<>>
        /\ remote[c].n \in 0 .. Len(Script[c])
        /\ UnmarshalRequest(r.words).request_type = 1
        /\ eng[c].laptop = Laptop(c, UnmarshalRequest(r.words), 0)
    BY <1>1, <2>1, <2>4 DEF Exchange
  <2>6. r.answer = LaptopSize
    <3>1. remote[c].n \in 1 .. Len(Script[c])
      BY <2>5, ScriptType, TypesKnown DEF Remote
    <3>2. PICK m \in CustomerRequest : /\ UnmarshalRequest(r.words) = m
                                       /\ m.request_type \notin {2, 6} => r.answer = LaptopSize
      BY <1>1, <2>2, <3>1, AskedIs
    <3> QED BY <2>5, <3>2
  <2>7. /\ MarshalLaptop(eng[c].laptop) \in Seq(Word)
        /\ Len(MarshalLaptop(eng[c].laptop)) <= r.answer
        /\ Right(r, MarshalLaptop(eng[c].laptop))
    <3>1. PICK laptop \in LaptopInfo : laptop = eng[c].laptop
      BY <1>2
    <3>2. PICK m : m = UnmarshalRequest(r.words)
      OBVIOUS
    <3>3. /\ laptop.customer_id = m.customer_id /\ laptop.order_number = m.order_number
          /\ laptop.request_type = m.request_type /\ laptop.admin_id = 0
          /\ m.request_type = 1
      BY <2>5, <3>1, <3>2 DEF Laptop
    <3>4. /\ MarshalLaptop(laptop) \in Seq(Word) /\ Len(MarshalLaptop(laptop)) <= r.answer
          /\ Right(r, MarshalLaptop(laptop))
      BY <2>6, <3>2, <3>3, RightLaptop
    <3> QED BY <3>1, <3>4
  <2> QED BY <1>1, <1>2, <2>1, <2>2, <2>4, <2>5, <2>7, ReplyServes
<1>7. CASE ReadRecord(c)
  <2>1. /\ Has(c, "order") /\ RequestIsValid(Got(c)) /\ Got(c).request_type = 2
        /\ UNCHANGED EngineerRest
    BY <1>7 DEF ReadRecord
  <2>2. PICK record : \E n \in Payload :
          /\ record = [customer_id |-> Got(c).customer_id, last_order |-> n]
          /\ Reply(c, MarshalRecord(record), "order", eng[c].laptop)
    BY <1>7 DEF ReadRecord
  <2>3. record \in CustomerRecord /\ record.customer_id = Got(c).customer_id
    BY <1>2, <1>4, <2>1, <2>2 DEF CustomerRecord
  <2>4. /\ MarshalRecord(record) \in Seq(Word) /\ Len(MarshalRecord(record)) <= r.answer
        /\ Right(r, MarshalRecord(record))
    BY <1>4, <2>1, <2>3, RightRecord
  <2> QED BY <1>2, <1>3, <2>1, <2>2, <2>4
<1>8. CASE Status(c)
  <2>1. /\ Has(c, "order") /\ RequestIsValid(Got(c)) /\ Got(c).request_type = 5
        /\ UNCHANGED EngineerRest
    BY <1>8 DEF Status
  <2>2. PICK laptop : \E last_index \in Payload, primary \in Payload :
          /\ laptop = [customer_id |-> Got(c).customer_id, order_number |-> last_index,
                       request_type |-> primary, engineer_id |-> 0, admin_id |-> 0]
          /\ Reply(c, MarshalLaptop(laptop), "order", laptop)
    BY <1>8 DEF Status
  <2>3. laptop \in LaptopInfo /\ laptop.customer_id = Got(c).customer_id
    BY <1>2, <1>4, <2>1, <2>2, Ints DEF LaptopInfo
  <2>4. /\ MarshalLaptop(laptop) \in Seq(Word) /\ Len(MarshalLaptop(laptop)) <= r.answer
        /\ Right(r, MarshalLaptop(laptop))
    BY <1>4, <2>1, <2>3, RightLaptop
  <2> QED BY <1>3, <2>1, <2>2, <2>3, <2>4
<1>9. CASE LogEntry(c)
  <2>1. /\ Has(c, "order") /\ RequestIsValid(Got(c)) /\ Got(c).request_type = 6
        /\ UNCHANGED EngineerRest
    BY <1>9 DEF LogEntry
  <2>2. PICK arg1 \in Payload, arg2 \in Payload :
          Reply(c, MarshalRecord([customer_id |-> arg1, last_order |-> arg2]),
                "order", eng[c].laptop)
    BY <1>9 DEF LogEntry
  <2>3. PICK words : /\ words = MarshalRecord([customer_id |-> arg1, last_order |-> arg2])
                     /\ words \in Seq(Word) /\ Len(words) = RecordSize
    BY <1>2, RecordWords
  <2>4. Len(words) <= r.answer /\ (c \in Customer => Len(words) # r.answer)
    <3>1. /\ r.answer \in {RecordSize, LaptopSize}
          /\ c \in Customer => r.answer = LaptopSize
      BY <1>4, <2>1
    <3>2. /\ RecordSize <= RecordSize /\ RecordSize <= LaptopSize
          /\ RecordSize # LaptopSize
      BY DEF RecordSize, LaptopSize
    <3> QED BY <2>3, <3>1, <3>2
  <2> QED BY <1>2, <1>3, <2>1, <2>2, <2>3, <2>4
<1> QED BY <1>5, <1>6, <1>7, <1>8, <1>9

(* The thread ends: nothing was received, or what it will not serve.       *)
LEMMA EndServes ==
  ASSUME TypeInv, OwnerInv, CalmInv, NEW c \in Conn, EngineerEnd(c) PROVE CalmInv'
<1>1. /\ c \in Socket /\ c \in Thread /\ SocketInv /\ SocketTypeOK
      /\ eng \in [Conn -> Engineer] /\ CallFits(call[c]) /\ call[c] \in Call
      /\ arriving[c] \in Seq(Word) /\ leaving[c] \in Seq(Word)
      /\ eng[c] \in Engineer /\ remote[c] \in Remote
      /\ EngineerCall(c, eng[c].role, call[c])
  BY Names, TypesKnown DEF SocketTypeOK, BufferFits
<1>2. /\ eng[c].role = "order" /\ call[c].pc = "returned" /\ Destroy({c})
      /\ call' = Returned(c) /\ eng' = [eng EXCEPT ![c].role = "ended"]
      /\ UNCHANGED <<fd_, over, arriving, leaving, remote>>
  BY DEF EngineerEnd, Has, EngineerRest
<1>3. c \notin Replication /\ Served(c)
  BY <1>2 DEF CalmInv, Quiet
<1>4. PICK S \in SUBSET Socket : S = {s \in {c} : is_initialized_[s]} /\ Close(S)
  BY <1>1, <1>2 DEF Destroy
<1>5. \A s \in S : Own(s)
  BY <1>2, <1>3, <1>4 DEF Served, EngineerOpen
<1>6. \A s \in Socket \ {c} : /\ Own(s) => Own(s)'
                              /\ is_initialized_'[s] = is_initialized_[s]
                              /\ arriving'[s] = arriving[s] /\ leaving'[s] = leaving[s]
  BY <1>1, <1>2, <1>4, <1>5, CloseSpares
<1>7. call'[c] = NoCall /\ \A u \in Thread \ {c} : call'[u] = call[u]
  BY <1>1, <1>2, ReturnedType
<1>8. PICK e : e = eng'[c] /\ e.role = "ended"
  BY <1>1, <1>2 DEF Engineer
<1>9. Served(c)'
  <2>1. EngineerOpen(c)'
    BY <1>2, <1>3, <1>7, <1>8 DEF Served, EngineerOpen, Lost, NoCall
  <2>2. arriving[c] = <<>>
    <3>1. CASE call[c].buffer = <<>>
      BY <1>2, <1>3, <3>1 DEF Served, EngineerOpen, Lost
    <3>2. CASE call[c].buffer # <<>>
      <4>1. Len(call[c].buffer) = RequestSize /\ call[c].buffer \in Seq(Word)
        BY <1>1, <1>2, <3>2 DEF CallFits, EngineerCall, Call
      <4> QED BY <1>1, <1>3, <4>1, ExchangeWhole DEF Served, OneRequest
    <3> QED BY <3>1, <3>2
  <2>3. PICK b \in Seq(Word) : b = call[c].buffer
    BY <1>1 DEF Call
  <2>4. Exchange(c, remote[c], eng[c], b, <<>>, leaving[c])
    BY <1>3, <2>2, <2>3 DEF Served, OneRequest
  <2>5. Exchange(c, remote[c], e, <<>>, <<>>, leaving[c])
    BY <1>1, <1>8, <2>4, ExchangeDrops
  <2>6. OneRequest(c)'
    BY <1>2, <1>7, <1>8, <2>2, <2>5 DEF OneRequest, NoCall
  <2> QED BY <2>1, <2>6 DEF Served
<1> QED BY <1>2, <1>6, <1>7, <1>9, EngineerSpares DEF EngineerThread

(* An order waits for the expert.                                          *)
LEMMA OrderServes ==
  ASSUME TypeInv, OwnerInv, CalmInv, NEW c \in Conn, CreateCustomLaptop(c)
  PROVE  CalmInv'
<1>1. /\ c \in Socket /\ c \in Thread /\ SocketInv /\ eng \in [Conn -> Engineer]
  BY Names, TypesKnown
<1>2. PICK e : /\ e = [role |-> "waiting", laptop |-> Laptop(c, Got(c), 0)]
               /\ eng' = [eng EXCEPT ![c] = e]
  BY DEF CreateCustomLaptop
<1>3. /\ Has(c, "order") /\ RequestIsValid(Got(c)) /\ Got(c).request_type = 1
      /\ call' = Returned(c)
      /\ UNCHANGED <<table, is_initialized_, leaving, fd_, over, arriving, remote>>
  BY DEF CreateCustomLaptop, EngineerRest
<1>4. /\ c \notin Replication /\ Own(c) /\ arriving[c] = <<>> /\ leaving[c] = <<>>
      /\ remote[c].n # 0 /\ remote[c].pc \in {"await", "closed"}
      /\ Got(c) = UnmarshalRequest(Script[c][remote[c].n].words)
  BY <1>3, ServesAsked
<1>5. eng'[c] = e /\ e.role = "waiting" /\ e.laptop = Laptop(c, Got(c), 0)
  BY <1>1, <1>2
<1>6. call'[c] = NoCall /\ \A u \in Thread \ {c} : call'[u] = call[u]
  BY <1>1, <1>3, ReturnedType
<1>7. Served(c)
  BY DEF CalmInv
<1>8. EngineerOpen(c)'
  BY <1>3, <1>4, <1>5, <1>6, <1>7 DEF Served, EngineerOpen, Lost, NoCall, Own
<1>9. OneRequest(c)'
  <2>1. Exchange(c, remote[c], eng[c], call[c].buffer, <<>>, <<>>)
    BY <1>4, <1>7 DEF Served, OneRequest
  <2>2. /\ remote[c].n \in 0 .. Len(Script[c])
        /\ c \in Customer /\ remote[c].answer # <<>> =>
             Right(Script[c][remote[c].n], remote[c].answer)
    BY <2>1 DEF Exchange
  <2>3. <<>> \o <<>> = <<>>
    BY EmptySeq, ConcatEmptySeq
  <2>4. Exchange(c, remote[c], e, <<>>, <<>>, <<>>)
    BY <1>3, <1>4, <1>5, <2>2, <2>3, Zenon DEF Exchange
  <2> QED BY <1>3, <1>4, <1>5, <1>6, <2>4 DEF OneRequest, NoCall
<1>10. \A s \in Socket \ {c} : /\ Own(s) => Own(s)'
                               /\ is_initialized_'[s] = is_initialized_[s]
                               /\ arriving'[s] = arriving[s] /\ leaving'[s] = leaving[s]
  BY <1>3 DEF Own
<1> QED BY <1>3, <1>6, <1>8, <1>9, <1>10, EngineerSpares DEF Served, EngineerThread

(* A request of a type without a case is dropped.                          *)
LEMMA UndefinedServes ==
  ASSUME TypeInv, OwnerInv, CalmInv, NEW c \in Conn, Undefined(c) PROVE CalmInv'
<1>1. /\ c \in Socket /\ c \in Thread /\ SocketInv /\ call[c].buffer \in Seq(Word)
      /\ eng[c] \in Engineer /\ remote[c] \in Remote /\ leaving[c] \in Seq(Word)
  BY Names, TypesKnown DEF SocketTypeOK, Call
<1>2. /\ Has(c, "order") /\ RequestIsValid(Got(c)) /\ call' = Receive(c, c, RequestSize)
      /\ UNCHANGED <<table, is_initialized_, leaving, fd_, over, arriving, remote, eng>>
  BY DEF Undefined, EngineerRest
<1>3. Own(c) /\ arriving[c] = <<>> /\ c \notin Replication
  BY <1>2, ServesAsked
<1>4. RequestSize \in Nat \ {0}
  BY DEF RequestSize
<1>5. PICK k : /\ k = [pc |-> "receive", on |-> c, at |-> NoSocket, size |-> RequestSize,
                       buffer |-> <<>>]
               /\ call'[c] = k /\ \A u \in Thread \ {c} : call'[u] = call[u]
  BY <1>1, <1>2, <1>4, ReceiveType
<1>6. Served(c) /\ eng[c].role = "order"
  BY <1>2 DEF CalmInv, Has
<1>7. EngineerOpen(c)'
  BY <1>2, <1>3, <1>5, <1>6 DEF Served, EngineerOpen, Lost, Own
<1>8. OneRequest(c)'
  <2>1. Exchange(c, remote[c], eng[c], call[c].buffer, <<>>, leaving[c])
    BY <1>3, <1>6 DEF Served, OneRequest
  <2>2. Exchange(c, remote[c], eng[c], <<>>, <<>>, leaving[c])
    BY <1>1, <1>6, <2>1, ExchangeDrops
  <2> QED BY <1>2, <1>3, <1>5, <2>2 DEF OneRequest
<1>9. \A s \in Socket \ {c} : /\ Own(s) => Own(s)'
                              /\ is_initialized_'[s] = is_initialized_[s]
                              /\ arriving'[s] = arriving[s] /\ leaving'[s] = leaving[s]
  BY <1>2 DEF Own
<1> QED BY <1>2, <1>5, <1>7, <1>8, <1>9, EngineerSpares DEF Served, EngineerThread

(* What a pass of the loop in Recv does, on a thread's own connection.     *)
LEMMA RecvShows ==
  ASSUME SocketInv, NEW t \in Thread, NEW s \in Socket, call[t].on = s,
         call[t].pc = "blocked" => call[t].at = s, Recv(t)
  PROVE  \/ /\ UNCHANGED <<table, is_initialized_, arriving>>
            /\ call'[t].buffer = call[t].buffer
            /\ \/ /\ call[t].pc = "receive" /\ Reaches(s)
                  /\ call'[t].pc = "blocked" /\ call'[t].at = Behind(s)
               \/ call[t].pc = "receive" /\ ~Reaches(s) /\ call'[t].pc = "failed"
               \/ /\ call[t].pc = "blocked" /\ arriving[s] = <<>> /\ (over[s] \/ shut[s])
                  /\ call'[t].pc = "failed"
         \/ /\ UNCHANGED <<table, is_initialized_>> /\ call[t].pc = "blocked"
            /\ call'[t].pc \in {"receive", "returned"}
            /\ \E a1 \in Seq(Word), a2 \in Seq(Word) :
                 /\ a1 # <<>> /\ arriving[s] = a1 \o a2
                 /\ arriving' = [arriving EXCEPT ![s] = a2]
                 /\ call'[t].buffer = call[t].buffer \o a1
         \/ /\ call[t].pc = "failed" /\ Close({s}) /\ arriving' = arriving
            /\ call'[t].pc = "returned" /\ call'[t].buffer = <<>>
<1>1. /\ call \in [Thread -> Call] /\ call[t] \in Call /\ CallFits(call[t])
      /\ arriving \in [Socket -> Seq(Word)]
  BY DEF SocketInv, SocketTypeOK, BufferFits
<1>2. CASE RecvCall(t)
  <2>1. PICK k : /\ k = call[t] /\ k.pc = "receive" /\ k.on = s
                 /\ call' = [call EXCEPT ![t] =
                      IF Reaches(s) THEN [k EXCEPT !.pc = "blocked", !.at = Behind(s)]
                      ELSE [k EXCEPT !.pc = "failed"]]
    BY <1>1, <1>2 DEF RecvCall
  <2>2. k \in Call /\ UNCHANGED <<table, is_initialized_, arriving>>
    BY <1>1, <1>2, <2>1 DEF RecvCall
  <2>3. CASE Reaches(s)
    <3>1. PICK b : b = Behind(s)
      OBVIOUS
    <3>2. call'[t] = [k EXCEPT !.pc = "blocked", !.at = b]
      BY <1>1, <2>1, <2>3, <3>1
    <3>3. call'[t].pc = "blocked" /\ call'[t].at = b /\ call'[t].buffer = k.buffer
      BY <2>2, <3>2 DEF Call
    <3> QED BY <2>1, <2>2, <2>3, <3>1, <3>3
  <2>4. CASE ~Reaches(s)
    <3>1. call'[t] = [k EXCEPT !.pc = "failed"]
      BY <1>1, <2>1, <2>4
    <3>2. call'[t].pc = "failed" /\ call'[t].buffer = k.buffer
      BY <2>2, <3>1 DEF Call
    <3> QED BY <2>1, <2>2, <2>4, <3>2
  <2> QED BY <2>3, <2>4
<1>3. CASE RecvSome(t)
  <2>0. PICK a, k, w :
          /\ a = arriving[s] /\ k = call[t] /\ w = k.size - Len(k.buffer)
          /\ k.pc = "blocked" /\ k.at = s
    BY <1>3 DEF RecvSome
  <2>1. PICK n \in 1 .. Min({Len(a), w}) :
               /\ arriving' = [arriving EXCEPT ![s] = SubSeq(a, n + 1, Len(a))]
               /\ call' = [call EXCEPT ![t] =
                            [pc |-> IF n = w THEN "returned" ELSE "receive",
                             on |-> k.on, at |-> NoSocket, size |-> k.size,
                             buffer |-> k.buffer \o SubSeq(a, 1, n)]]
    BY <1>3, <2>0 DEF RecvSome
  <2>2. /\ a \in Seq(Word) /\ Len(a) \in Nat /\ Len(k.buffer) \in Nat /\ k.size \in Nat
        /\ Len(k.buffer) < k.size
    BY <1>1, <2>0, LenProperties DEF Call, CallFits
  <2>3. w \in Nat
    BY <2>0, <2>2
  <2>4. n \in 1 .. Len(a)
    <3>1. Min({Len(a), w}) \in {Len(a), w} /\ \A y \in {Len(a), w} : y >= Min({Len(a), w})
      <4>1. {Len(a), w} \in SUBSET (0 .. Len(a) + w) /\ 0 \in Int /\ Len(a) + w \in Int
        BY <2>2, <2>3
      <4> QED BY <4>1, MinOfIndices
    <3>2. PICK mm \in Nat : mm = Min({Len(a), w}) /\ mm <= Len(a)
      BY <2>2, <2>3, <3>1
    <3> QED BY <2>1, <2>2, <3>2
  <2>5. PICK a1, a2 : a1 = SubSeq(a, 1, n) /\ a2 = SubSeq(a, n + 1, Len(a))
    OBVIOUS
  <2>6. /\ a1 \in Seq(Word) /\ a2 \in Seq(Word) /\ Len(a1) = n /\ a = a1 \o a2
    <3>1. n \in 0 .. Len(a)
      BY <2>2, <2>4
    <3>2. PICK T : T = Word
      OBVIOUS
    <3>3. a \in Seq(T)
      BY <2>2, <3>2
    <3>4. /\ SubSeq(a, 1, n) \in Seq(T) /\ SubSeq(a, n + 1, Len(a)) \in Seq(T)
          /\ Len(SubSeq(a, 1, n)) = n
          /\ SubSeq(a, 1, n) \o SubSeq(a, n + 1, Len(a)) = a
      BY <3>1, <3>3, Parts
    <3> QED BY <2>5, <3>2, <3>4
  <2>7. a1 # <<>>
    <3>1. Len(a1) > 0
      BY <2>2, <2>4, <2>6
    <3> QED BY <3>1, NotEmpty
  <2>8. PICK pc : pc = (IF n = w THEN "returned" ELSE "receive")
    OBVIOUS
  <2>9. /\ call' = [call EXCEPT ![t] = [pc |-> pc, on |-> k.on, at |-> NoSocket,
                                        size |-> k.size, buffer |-> k.buffer \o a1]]
        /\ arriving' = [arriving EXCEPT ![s] = a2] /\ pc \in {"receive", "returned"}
    BY <2>1, <2>5, <2>8
  <2>10. call'[t].pc = pc /\ call'[t].buffer = k.buffer \o a1
    BY <1>1, <2>9
  <2>11. UNCHANGED <<table, is_initialized_>>
    BY <1>3 DEF RecvSome
  <2> QED BY <2>0, <2>6, <2>7, <2>9, <2>10, <2>11
<1>4. CASE RecvEnd(t)
  <2>1. PICK k : /\ k = call[t] /\ k.pc = "blocked" /\ k \in Call
                 /\ call' = [call EXCEPT ![t] = [k EXCEPT !.pc = "failed", !.at = NoSocket]]
    BY <1>1, <1>4 DEF RecvEnd
  <2>2. call'[t] = [k EXCEPT !.pc = "failed", !.at = NoSocket]
    BY <1>1, <2>1
  <2>3. call'[t].pc = "failed" /\ call'[t].buffer = k.buffer
    <3>1. PICK q : q = [k EXCEPT !.pc = "failed"]
      OBVIOUS
    <3>2. q.pc = "failed" /\ q.buffer = k.buffer /\ DOMAIN q = DOMAIN k
      BY <2>1, <3>1 DEF Call
    <3>3. call'[t] = [q EXCEPT !.at = NoSocket]
      BY <2>2, <3>1
    <3> QED BY <3>2, <3>3
  <2>4. /\ UNCHANGED <<table, is_initialized_, arriving>> /\ arriving[s] = <<>>
        /\ over[s] \/ shut[s]
    BY <1>4 DEF RecvEnd
  <2> QED BY <2>1, <2>3, <2>4
<1>5. CASE RecvFail(t)
  <2>1. PICK k : /\ k = call[t] /\ k.pc = "failed" /\ k \in Call
                 /\ call' = [call EXCEPT ![t] = [k EXCEPT !.pc = "returned", !.buffer = <<>>]]
    BY <1>1, <1>5 DEF RecvFail
  <2>2. call'[t] = [k EXCEPT !.pc = "returned", !.buffer = <<>>]
    BY <1>1, <2>1
  <2>3. call'[t].pc = "returned" /\ call'[t].buffer = <<>>
    <3>1. PICK q : q = [k EXCEPT !.pc = "returned"]
      OBVIOUS
    <3>2. q.pc = "returned" /\ DOMAIN q = DOMAIN k /\ "buffer" \in DOMAIN q
      BY <2>1, <3>1 DEF Call
    <3>3. call'[t] = [q EXCEPT !.buffer = <<>>]
      BY <2>2, <3>1
    <3> QED BY <3>2, <3>3
  <2>4. Close({s}) /\ arriving' = arriving
    BY <1>5 DEF RecvFail
  <2> QED BY <2>1, <2>3, <2>4
<1> QED BY <1>2, <1>3, <1>4, <1>5 DEF Recv

(* An engineer receives what was asked, in parts, or learns that the far   *)
(* end has gone.                                                           *)
LEMMA RecvServes ==
  ASSUME TypeInv, OwnerInv, CalmInv, NEW c \in Conn, EngineerThread(c),
         Recv(c), UNCHANGED <<servervars, remote>>
  PROVE  CalmInv'
<1>1. /\ c \in Socket /\ c \in Thread /\ SocketInv /\ SocketTypeOK /\ call[c] \in Call
      /\ arriving \in [Socket -> Seq(Word)] /\ EngineerCall(c, eng[c].role, call[c])
      /\ eng[c] \in Engineer /\ remote[c] \in Remote /\ leaving[c] \in Seq(Word)
      /\ call[c].buffer \in Seq(Word)
  BY Names, TypesKnown DEF SocketTypeOK, Call
<1>2. /\ UNCHANGED <<fd_, leaving, over, eng>>
      /\ \A u \in Thread \ {c} : call'[u] = call[u]
      /\ call[c].pc \in {"receive", "blocked", "failed"}
  BY <1>1, RecvType DEF servervars
<1>3. /\ eng[c].role = "order" /\ c \notin Replication /\ Served(c) /\ call[c].on = c
  BY <1>1, <1>2 DEF EngineerCall, CalmInv, Quiet, Served, EngineerOpen
<1>4. call[c].pc = "blocked" => call[c].at = c
  BY <1>3 DEF Served, EngineerOpen
<1>5. Own(c) /\ Behind(c) = c /\ Reaches(c) /\ ~shut[c]
  BY <1>1, <1>2, <1>3, OwnReaches DEF Served, EngineerOpen, Lost
<1>6. OneRequest(c) /\ (over[c] => remote[c].pc = "closed")
  BY <1>3 DEF Served, EngineerOpen
<1>7. CASE call[c].pc = "receive"
  <2>1. /\ UNCHANGED <<table, is_initialized_, arriving>>
        /\ call'[c].buffer = call[c].buffer
        /\ call'[c].pc = "blocked" /\ call'[c].at = c
    BY <1>1, <1>3, <1>4, <1>5, <1>7, RecvShows
  <2>2. Own(c)' /\ \A s \in Socket : Own(s) => Own(s)'
    BY <1>2, <1>5, <2>1 DEF Own
  <2>3. EngineerOpen(c)'
    BY <1>2, <1>3, <1>6, <2>1, <2>2 DEF EngineerOpen, Lost
  <2>4. OneRequest(c)'
    BY <1>2, <1>6, <2>1 DEF OneRequest
  <2> QED BY <1>2, <2>1, <2>2, <2>3, <2>4, EngineerSpares DEF Served
<1>8. CASE call[c].pc = "blocked" /\ call'[c].pc = "failed"
  <2>1. /\ UNCHANGED <<table, is_initialized_, arriving>>
        /\ call'[c].buffer = call[c].buffer
        /\ arriving[c] = <<>> /\ over[c]
    BY <1>1, <1>3, <1>4, <1>5, <1>8, RecvShows
  <2>2. Own(c)' /\ \A s \in Socket : Own(s) => Own(s)'
    BY <1>2, <1>5, <2>1 DEF Own
  <2>3. EngineerOpen(c)'
    BY <1>2, <1>3, <1>6, <1>8, <2>1, <2>2 DEF EngineerOpen, Lost
  <2>4. OneRequest(c)'
    BY <1>2, <1>6, <2>1 DEF OneRequest
  <2> QED BY <1>2, <2>1, <2>2, <2>3, <2>4, EngineerSpares DEF Served
<1>9. CASE call[c].pc = "blocked" /\ call'[c].pc # "failed"
  <2>1. UNCHANGED <<table, is_initialized_>> /\ call'[c].pc \in {"receive", "returned"}
    BY <1>1, <1>3, <1>4, <1>5, <1>9, RecvShows
  <2>2. PICK a1 \in Seq(Word), a2 \in Seq(Word) :
          /\ a1 # <<>> /\ arriving[c] = a1 \o a2
          /\ arriving' = [arriving EXCEPT ![c] = a2]
          /\ call'[c].buffer = call[c].buffer \o a1
    BY <1>1, <1>3, <1>4, <1>5, <1>9, RecvShows
  <2>3. Own(c)' /\ \A s \in Socket : Own(s) => Own(s)'
    BY <1>2, <1>5, <2>1 DEF Own
  <2>4. call'[c].buffer # <<>>
    BY <1>1, <2>2, ConcatEqualIffEmpty
  <2>5. EngineerOpen(c)'
    BY <1>2, <1>3, <1>6, <2>1, <2>3, <2>4 DEF EngineerOpen, Lost
  <2>6. PICK b \in Seq(Word), e \in Engineer :
          b = call[c].buffer /\ e = eng[c] /\ e.role = "order"
    BY <1>1, <1>3
  <2>7. Exchange(c, remote[c], e, b, a1 \o a2, leaving[c])
    BY <1>6, <2>2, <2>6 DEF OneRequest
  <2>8. Exchange(c, remote[c], e, b \o a1, a2, leaving[c])
    BY <1>1, <2>6, <2>7, ExchangeReceives
  <2>9. arriving'[c] = a2 /\ \A s \in Socket \ {c} : arriving'[s] = arriving[s]
    BY <1>1, <2>2
  <2>10. OneRequest(c)'
    BY <1>2, <2>2, <2>6, <2>8, <2>9 DEF OneRequest
  <2> QED BY <1>2, <2>1, <2>3, <2>5, <2>9, <2>10, EngineerSpares DEF Served
<1>10. CASE call[c].pc = "failed"
  <2>1. /\ Close({c}) /\ arriving' = arriving
        /\ call'[c].pc = "returned" /\ call'[c].buffer = <<>>
    BY <1>1, <1>3, <1>4, <1>10, RecvShows
  <2>2. over[c] /\ arriving[c] = <<>>
    BY <1>3, <1>10 DEF Served, EngineerOpen
  <2>3. PICK S \in SUBSET Socket : S = {c} /\ Close(S) /\ \A s \in S : Own(s)
    BY <1>1, <1>5, <2>1
  <2>4. /\ \A x \in Socket \ {c} : /\ Own(x) => Own(x)'
                                   /\ is_initialized_'[x] = is_initialized_[x]
        /\ ~is_initialized_'[c]
    BY <1>1, <1>2, <2>3, CloseSpares
  <2>5. EngineerOpen(c)'
    BY <1>2, <1>3, <1>6, <2>1, <2>2, <2>4 DEF EngineerOpen, Lost
  <2>6. PICK b \in Seq(Word) : b = call[c].buffer
    BY <1>1
  <2>7. Exchange(c, remote[c], eng[c], b, <<>>, leaving[c])
    BY <1>6, <2>2, <2>6 DEF OneRequest
  <2>8. Exchange(c, remote[c], eng[c], <<>>, <<>>, leaving[c])
    BY <1>1, <1>3, <2>7, ExchangeDrops
  <2>9. OneRequest(c)'
    BY <1>2, <2>1, <2>2, <2>8 DEF OneRequest
  <2> QED BY <1>2, <2>1, <2>4, <2>5, <2>9, EngineerSpares DEF Served
<1> QED BY <1>2, <1>7, <1>8, <1>9, <1>10

(* Undisturbed, no engineer becomes a backup.                              *)
LEMMA EngineerServes ==
  ASSUME TypeInv, OwnerInv, CalmInv, NEW c \in Conn, EngineerThread(c) PROVE CalmInv'
<1>1. CASE Register(c)
  <2>1. Has(c, "order") /\ RequestIsValid(Got(c)) /\ Got(c).request_type = 4
    BY <1>1 DEF Register
  <2> QED BY <2>1, ServesAsked
<1>2. CASE BackupAppend(c) \/ BackupEnd(c)
  <2>1. eng[c].role = "backup"
    BY <1>2 DEF BackupAppend, BackupEnd, Has
  <2> QED BY <2>1 DEF CalmInv, Served, EngineerOpen
<1>3. CASE Recv(c) /\ UNCHANGED <<servervars, remote>>
  BY <1>3, RecvServes
<1> QED BY <1>1, <1>2, <1>3, AnswerServes, EndServes, OrderServes, UndefinedServes
        DEF EngineerThread

(* The expert receives from stubs only.                                    *)
LEMMA ExpertOn ==
  ASSUME TypeInv
  PROVE  /\ call[Expert].pc # "none" => call[Expert].on \in Stub
         /\ expert.pc \notin {"register", "await"} => call[Expert] = NoCall
<1>1. /\ ExpertCall(expert, replica_stubs, call[Expert]) /\ CallFits(call[Expert])
      /\ expert.i \in Nat /\ expert.k \in Nat
  BY TypesKnown, Names DEF BufferFits, ExpertState
<1>2. CASE expert.pc = "register"
  <2>1. expert.k \in 1 .. MaxOrders /\ expert.i \in 1 .. Len(Peers)
    BY <1>1, <1>2, ConnectionsAssumption, PeersType DEF ExpertCall
  <2> QED BY <1>1, <1>2, <2>1, StubType DEF ExpertCall
<1>3. CASE expert.pc = "await"
  <2>1. expert.i \in 1 .. Len(replica_stubs) /\ call[Expert].on = replica_stubs[expert.i]
    BY <1>1, <1>3, TypesKnown DEF ExpertCall
  <2>2. call[Expert].on \in Stub
    BY <2>1, TypesKnown, ElementOfSeq
  <2> QED BY <1>3, <2>2
<1>4. CASE expert.pc \notin {"register", "await"}
  BY <1>1, <1>4 DEF ExpertCall, CallFits
<1> QED BY <1>2, <1>3, <1>4

(* A step of the expert: of the rest only this can change.                 *)
LEMMA ExpertSpares ==
  ASSUME TypeInv, CalmInv, ExpertThread, UNCHANGED <<eng, over>>,
         \A c \in Conn : /\ call'[c] = call[c] /\ (Own(c) => Own(c)')
                         /\ is_initialized_'[c] = is_initialized_[c]
                         /\ arriving'[c] = arriving[c] /\ leaving'[c] = leaving[c],
         StubsOpen'
  PROVE  CalmInv'
<1>1. UNCHANGED <<backlog, remote>>
  BY ExpertRoles
<1>2. Quiet'
  BY <1>1 DEF CalmInv, Quiet
<1>3. ASSUME NEW c \in Conn PROVE Served(c)'
  <2>1. Served(c) /\ remote'[c] = remote[c] /\ eng'[c] = eng[c] /\ over'[c] = over[c]
    BY <1>1 DEF CalmInv
  <2> QED BY <2>1, ServedStays
<1> QED BY <1>2, <1>3 DEF CalmInv

(* The last order's stubs are closed.                                      *)
LEMMA TakeServes ==
  ASSUME TypeInv, OwnerInv, CalmInv, ExpertTake PROVE CalmInv'
<1>1. /\ SocketTypeOK /\ replica_stubs \in Seq(Stub) /\ Len(replica_stubs) \in Nat
      /\ \A i \in 1 .. Len(replica_stubs) : replica_stubs[i] \in Stub
      /\ Stub \subseteq Socket /\ Conn \subseteq Socket /\ NoSocket \notin Stub
      /\ \A c \in Conn : c \notin Stub
  BY TypesKnown, Names, ElementOfSeq
<1>2. /\ expert.pc = "idle" /\ Destroy(Range(replica_stubs)) /\ fd_' = fd_
      /\ replica_stubs' = <<>>
      /\ UNCHANGED <<call, eng, over, arriving, leaving>>
  BY DEF ExpertTake, ExpertRest
<1>3. Range(replica_stubs) \subseteq Stub /\ \A s \in Range(replica_stubs) : Belongs(s)
  <2>1. DOMAIN replica_stubs = 1 .. Len(replica_stubs)
    BY <1>1, LenProperties
  <2> QED BY <1>1, <2>1 DEF Range, Belongs
<1>4. PICK S \in SUBSET Socket : /\ S = {s \in Range(replica_stubs) : is_initialized_[s]}
                                 /\ Close(S) /\ S \subseteq Stub
  BY <1>1, <1>2, <1>3 DEF Destroy
<1>5. \A s \in S : Own(s)
  BY <1>3, <1>4 DEF CalmInv, StubsOpen
<1>6. \A c \in Conn : /\ call'[c] = call[c] /\ (Own(c) => Own(c)')
                      /\ is_initialized_'[c] = is_initialized_[c]
                      /\ arriving'[c] = arriving[c] /\ leaving'[c] = leaving[c]
  BY <1>1, <1>2, <1>4, <1>5, CloseSpares
<1>7. call[Expert] = NoCall
  BY <1>2, ExpertOn
<1>8. StubsOpen'
  <2>1. Len(replica_stubs') = 0 /\ call'[Expert] = NoCall
    BY <1>2, <1>7, EmptySeq
  <2>2. \A s \in Stub : ~Belongs(s)' /\ ~ToSend(s)' /\ ~InUse(s)'
    BY <1>1, <2>1 DEF Belongs, ToSend, InUse, NoCall
  <2>3. StubsDiffer'
    BY <2>1, <1>2 DEF StubsDiffer, ExpertTake
  <2> QED BY <2>1, <2>2, <2>3 DEF StubsOpen, NoCall
<1> QED BY <1>2, <1>6, <1>8, ExpertSpares DEF ExpertThread

(* A stub opened spares whatever is there.                                 *)
LEMMA ConnectServes ==
  ASSUME TypeInv, OwnerInv, CalmInv, ExpertConnect PROVE CalmInv'
<1>1. /\ SocketTypeOK /\ SocketInv /\ Held /\ expert \in ExpertState
      /\ expert.i \in Nat /\ expert.k \in Nat /\ expert.i >= 1
      /\ ExpertCall(expert, replica_stubs, call[Expert]) /\ Expert \in Thread
      /\ Conn \subseteq Socket /\ Stub \subseteq Socket /\ NoSocket \notin Stub
      /\ Conn \subseteq Thread /\ Expert \notin Conn /\ \A c \in Conn : c \notin Stub
      /\ leaving \in [Socket -> Seq(Word)]
  BY TypesKnown, Names DEF OwnerInv, ExpertState, ExpertCall, SocketTypeOK
<1>2. PICK s : s = <<"stub", Peers[expert.i], expert.k>>
  OBVIOUS
<1>3. /\ expert.pc = "connect" /\ expert.i \in 1 .. Len(Peers)
      /\ UNCHANGED <<shut, eng, over, arriving, replica_stubs>>
  BY <1>1, PeersType DEF ExpertConnect, ExpertRest
<1>4. s \in Stub /\ s \in Socket /\ s[2] = Peers[expert.i] /\ s[3] = expert.k
  <2>1. expert.k \in 1 .. MaxOrders
    BY <1>1, <1>3, ConnectionsAssumption DEF ExpertCall
  <2> QED BY <1>1, <1>2, <1>3, <2>1, StubType
<1>5. Unopened(s)
  BY <1>1, <1>3, <1>4 DEF OwnerInv, ToOpen, Fresh
<1>6. /\ call[Expert] = NoCall /\ StubsDiffer
      /\ \A r \in Stub : Belongs(r) <=> \E j \in 1 .. Len(replica_stubs) : r = replica_stubs[j]
      /\ \A r \in Stub : Belongs(r) => r # s /\ Own(r) /\ is_initialized_[r]
  <2>1. call[Expert] = NoCall /\ StubsDiffer
    BY <1>3, ExpertOn DEF CalmInv, StubsOpen
  <2>2. \A r \in Stub : Belongs(r) <=> \E j \in 1 .. Len(replica_stubs) : r = replica_stubs[j]
    BY <1>1, <2>1 DEF Belongs, NoCall
  <2>3. \A r \in Stub : Belongs(r) => ToSend(r)
    BY <1>3, <2>2 DEF ToSend
  <2>4. \A r \in Stub : Belongs(r) => Own(r) /\ is_initialized_[r]
    BY <2>3 DEF CalmInv, StubsOpen
  <2>5. ~Own(s)
    BY <1>5 DEF Unopened, Own
  <2> QED BY <2>1, <2>2, <2>4, <2>5
<1>7. CASE FreeFds = {}
  <2>1. /\ UNCHANGED <<table, fd_, is_initialized_, leaving, call>>
        /\ expert' = [expert EXCEPT !.i = @ + 1]
    BY <1>2, <1>7 DEF ExpertConnect
  <2>2. \A r \in Stub : Belongs(r)' => Own(r)' /\ is_initialized_'[r]
    BY <1>3, <1>6, <2>1 DEF Belongs, Own
  <2>3. \A c \in Conn : Own(c) => Own(c)'
    BY <2>1 DEF Own
  <2>4. StubsOpen'
    <3>1. expert'.pc = "connect"
      BY <1>1, <1>3, <2>1 DEF ExpertState
    <3>2. StubsDiffer'
      BY <1>3, <1>6, <3>1 DEF StubsDiffer
    <3>3. \A r \in Stub : ToSend(r)' \/ InUse(r)' => Belongs(r)'
      BY DEF ToSend, InUse, Belongs
    <3> QED BY <1>6, <2>1, <2>2, <3>2, <3>3 DEF StubsOpen, NoCall
  <2> QED BY <1>3, <2>1, <2>3, <2>4, ExpertSpares DEF ExpertThread
<1>8. ASSUME NEW b \in BOOLEAN, FreeFds # {}, Install(s, b),
             \A c \in Conn : call'[c] = call[c] /\ leaving'[c] = leaving[c],
             \/ ~b /\ call' = call /\ expert'.pc = "connect"
             \/ b /\ call'[Expert].on = s /\ call'[Expert].pc = "receive"
      PROVE  CalmInv'
  <2>1. /\ is_initialized_'[s] = b
        /\ \A r \in Socket \ {s} : is_initialized_'[r] = is_initialized_[r]
        /\ table'[fd_'[s]] = s /\ fd_'[s] \in Fd
        /\ \A r \in Socket \ {s} : fd_'[r] = fd_[r]
        /\ \A f \in Fd : table[f] # NoSocket => table'[f] = table[f]
    BY <1>1, <1>3, <1>4, <1>5, <1>8, InstallOpens
  <2>2. \A r \in Socket \ {s} : Own(r) => Own(r)'
    BY <1>1, <2>1, SocketAssumption DEF Own
  <2>3. Own(s)'
    BY <2>1 DEF Own
  <2>4. \A c \in Conn : c # s
    BY <1>1, <1>4
  <2>5. ASSUME NEW r \in Stub, Belongs(r)' PROVE Own(r)' /\ is_initialized_'[r]
    <3>1. CASE b /\ r = s
      BY <2>1, <2>3, <3>1
    <3>2. CASE ~(b /\ r = s)
      <4>1. Belongs(r)
        BY <1>1, <1>3, <1>6, <1>8, <2>5, <3>2 DEF Belongs
      <4> QED BY <1>1, <1>6, <2>1, <2>2, <4>1
    <3> QED BY <3>1, <3>2
  <2>6. StubsOpen'
    <3>1. call'[Expert].pc \notin {"blocked", "failed"}
      BY <1>6, <1>8 DEF NoCall
    <3>2. \A i \in 1 .. Len(replica_stubs) : replica_stubs[i] # s
      BY <1>4, <1>6
    <3>3. StubsDiffer'
      BY <1>3, <1>6, <1>8, <3>2 DEF StubsDiffer
    <3>4. \A r \in Stub : ToSend(r)' \/ InUse(r)' => Belongs(r)'
      BY DEF ToSend, InUse, Belongs
    <3> QED BY <2>5, <3>1, <3>3, <3>4 DEF StubsOpen
  <2> QED BY <1>1, <1>3, <1>8, <2>1, <2>2, <2>4, <2>6, ExpertSpares DEF ExpertThread
<1>9. CASE /\ FreeFds # {} /\ Install(s, FALSE) /\ UNCHANGED <<leaving, call>>
            /\ expert' = [expert EXCEPT !.i = @ + 1]
  <2>1. expert'.pc = "connect"
    BY <1>1, <1>3, <1>9 DEF ExpertState
  <2> QED BY <1>8, <1>9, <2>1
<1>10. CASE /\ FreeFds # {} /\ Install(s, TRUE) /\ call' = Receive(Expert, s, LaptopSize)
            /\ leaving' = [leaving EXCEPT ![s] = Request(2, 0, 4, LaptopSize).words]
  <2>1. LaptopSize \in Nat \ {0}
    BY DEF LaptopSize
  <2>2. PICK k : /\ k = [pc |-> "receive", on |-> s, at |-> NoSocket,
                         size |-> LaptopSize, buffer |-> <<>>]
                 /\ call'[Expert] = k /\ \A u \in Thread \ {Expert} : call'[u] = call[u]
    BY <1>1, <1>4, <1>10, <2>1, ReceiveType
  <2>3. call'[Expert].on = s /\ call'[Expert].pc = "receive"
    BY <2>2
  <2>4. \A c \in Conn : call'[c] = call[c] /\ leaving'[c] = leaving[c]
    BY <1>1, <1>4, <1>10, <2>2
  <2> QED BY <1>8, <1>10, <2>3, <2>4
<1> QED BY <1>2, <1>7, <1>9, <1>10 DEF ExpertConnect

(* The expert moves on with the stubs it has.                              *)
LEMMA ExpertMovesServes ==
  ASSUME TypeInv, OwnerInv, CalmInv,
         ExpertRegistered \/ ExpertConnected \/ ExpertKilled \/ ExpertAcked
  PROVE  CalmInv'
<1>1. /\ SocketInv /\ Expert \in Thread /\ Conn \subseteq Thread \ {Expert}
      /\ Conn \subseteq Socket /\ Stub \subseteq Socket /\ replica_stubs \in Seq(Stub)
      /\ Len(replica_stubs) \in Nat /\ NoSocket \notin Stub
      /\ expert \in ExpertState /\ expert.i \in Nat
      /\ ExpertCall(expert, replica_stubs, call[Expert]) /\ StubsDiffer
  BY TypesKnown, Names DEF ExpertState, CalmInv, StubsOpen
<1>2. ASSUME UNCHANGED <<table, fd_, is_initialized_, arriving, leaving, over, eng>>,
             \A c \in Conn : call'[c] = call[c],
             call'[Expert] = NoCall \/ call' = call,
             \A s \in Stub : /\ Belongs(s)' => Belongs(s)
                             /\ ToSend(s)' \/ InUse(s)' => ToSend(s) \/ InUse(s),
             StubsDiffer', ExpertThread
      PROVE  CalmInv'
  <2>1. \A c \in Conn : Own(c) => Own(c)'
    BY <1>2 DEF Own
  <2>2. \A s \in Stub : /\ Belongs(s)' /\ is_initialized_'[s] => Own(s)'
                        /\ ToSend(s)' \/ InUse(s)' => is_initialized_'[s]
    BY <1>2 DEF CalmInv, StubsOpen, Own
  <2>3. /\ call'[Expert].pc = "blocked" => call'[Expert].at = call'[Expert].on
        /\ \A s \in Stub : call'[Expert].pc = "failed" /\ s = call'[Expert].on => over'[s]
    BY <1>2 DEF CalmInv, StubsOpen, NoCall
  <2>4. StubsOpen'
    BY <1>2, <2>2, <2>3 DEF StubsOpen
  <2> QED BY <1>2, <2>1, <2>4, ExpertSpares
<1>3. CASE ExpertRegistered
  <2>1. /\ call' = Returned(Expert) /\ call[Expert].pc = "returned"
        /\ replica_stubs' = Append(replica_stubs, call[Expert].on)
        /\ UNCHANGED <<table, fd_, is_initialized_, arriving, leaving, over, eng>>
        /\ expert.pc = "register" /\ expert' = [expert EXCEPT !.pc = "connect", !.i = @ + 1]
    BY <1>3 DEF ExpertRegistered, ExpertRest
  <2>2. call'[Expert] = NoCall /\ \A c \in Conn : call'[c] = call[c]
    BY <1>1, <2>1, ReturnedType
  <2>3. PICK s \in Stub : s = call[Expert].on
    BY <2>1, ExpertOn
  <2>4. /\ Len(replica_stubs') = Len(replica_stubs) + 1
        /\ \A i \in 1 .. Len(replica_stubs) + 1 :
             IF i = Len(replica_stubs) + 1 THEN replica_stubs'[i] = s
             ELSE replica_stubs'[i] = replica_stubs[i]
    BY <1>1, <2>1, <2>3, AppendProperties
  <2>5. \A i \in 1 .. Len(replica_stubs) + 1 :
          i = Len(replica_stubs) + 1 \/ i \in 1 .. Len(replica_stubs)
    BY <1>1
  <2>6. \A r \in Stub : Belongs(r)' =>
          r = s \/ \E j \in 1 .. Len(replica_stubs) : r = replica_stubs[j]
    BY <1>1, <2>2, <2>4, <2>5 DEF Belongs, NoCall
  <2>7. \A r \in Stub : Belongs(r)' => Belongs(r) /\ (ToSend(r) \/ InUse(r))
    BY <2>1, <2>3, <2>6 DEF Belongs, ToSend, InUse
  <2>8. \A r \in Stub : ToSend(r)' \/ InUse(r)' => Belongs(r)'
    BY DEF ToSend, InUse, Belongs
  <2>9. StubsDiffer'
    <3>1. \A i \in 1 .. Len(replica_stubs) : replica_stubs[i] # s
      BY <1>1, <2>1, <2>3 DEF StubsDiffer
    <3>2. expert'.pc = "connect"
      BY <1>1, <2>1 DEF ExpertState
    <3>3. \A i, j \in 1 .. Len(replica_stubs) : replica_stubs[i] = replica_stubs[j] => i = j
      BY <1>1 DEF StubsDiffer
    <3>4. ASSUME NEW i \in 1 .. Len(replica_stubs) + 1, NEW j \in 1 .. Len(replica_stubs) + 1,
                 replica_stubs'[i] = replica_stubs'[j]
          PROVE  i = j
      BY <2>4, <2>5, <3>1, <3>3, <3>4
    <3> QED BY <2>4, <3>2, <3>4 DEF StubsDiffer
  <2> QED BY <1>2, <1>3, <2>1, <2>2, <2>7, <2>8, <2>9 DEF ExpertThread
<1>4. CASE ExpertConnected
  <2>1. /\ UNCHANGED <<sockvars, eng, replica_stubs>> /\ expert.pc = "connect"
        /\ expert' = [expert EXCEPT !.pc = "send", !.i = 1]
    BY <1>4 DEF ExpertConnected
  <2>2. expert'.pc = "send" /\ call[Expert] = NoCall
    BY <1>1, <2>1, ExpertOn DEF ExpertState
  <2>3. \A s \in Stub : /\ Belongs(s)' => Belongs(s)
                        /\ ToSend(s)' \/ InUse(s)' => ToSend(s) \/ InUse(s)
    BY <1>1, <2>1, <2>2 DEF Belongs, ToSend, InUse, sockvars, NoCall
  <2>4. StubsDiffer'
    BY <1>1, <2>1, <2>2 DEF StubsDiffer
  <2> QED BY <1>2, <1>4, <2>1, <2>3, <2>4 DEF sockvars, ExpertThread
<1>5. CASE ExpertKilled
  <2>1. UNCHANGED <<sockvars, eng, replica_stubs, expert>>
    BY <1>5 DEF ExpertKilled
  <2>2. \A s \in Stub : /\ Belongs(s)' => Belongs(s)
                        /\ ToSend(s)' \/ InUse(s)' => ToSend(s) \/ InUse(s)
    BY <2>1 DEF Belongs, ToSend, InUse, sockvars
  <2>3. StubsDiffer'
    BY <1>1, <2>1 DEF StubsDiffer, sockvars
  <2> QED BY <1>2, <1>5, <2>1, <2>2, <2>3 DEF sockvars, ExpertThread
<1>6. CASE ExpertAcked
  <2>1. /\ call' = Returned(Expert) /\ UNCHANGED replica_stubs /\ expert.pc = "await"
        /\ UNCHANGED <<table, fd_, is_initialized_, arriving, leaving, over, eng>>
        /\ expert' = [expert EXCEPT !.pc = "send", !.i = @ + 1]
    BY <1>6 DEF ExpertAcked, ExpertRest
  <2>2. /\ call'[Expert] = NoCall /\ \A c \in Conn : call'[c] = call[c]
        /\ expert'.pc = "send" /\ expert'.i = expert.i + 1
    BY <1>1, <2>1, ReturnedType DEF ExpertState
  <2>3. \A r \in Stub : /\ Belongs(r)' => Belongs(r)
                        /\ ~InUse(r)'
    BY <1>1, <2>1, <2>2 DEF Belongs, InUse, NoCall
  <2>4. \A r \in Stub : ToSend(r)' => ToSend(r)
    BY <1>1, <2>1, <2>2 DEF ToSend
  <2>5. StubsDiffer'
    BY <1>1, <2>1, <2>2 DEF StubsDiffer
  <2> QED BY <1>2, <1>6, <2>1, <2>2, <2>3, <2>4, <2>5 DEF ExpertThread
<1> QED BY <1>3, <1>4, <1>5, <1>6

(* The order goes out on a stub that is there.                             *)
LEMMA SendServes ==
  ASSUME TypeInv, OwnerInv, CalmInv, ExpertSend PROVE CalmInv'
<1>1. /\ SocketInv /\ Expert \in Thread /\ Conn \subseteq Thread \ {Expert}
      /\ Conn \subseteq Socket /\ Stub \subseteq Socket /\ replica_stubs \in Seq(Stub)
      /\ leaving \in [Socket -> Seq(Word)] /\ ExpertCall(expert, replica_stubs, call[Expert])
      /\ expert.i \in Nat /\ NoSocket \notin Stub /\ \A c \in Conn : c \notin Stub
      /\ expert \in ExpertState /\ Len(replica_stubs) \in Nat
  BY TypesKnown, Names DEF SocketTypeOK, ExpertState
<1>2. expert.i \in 1 .. Len(replica_stubs)
  BY <1>1, TypesKnown DEF ExpertSend, ExpertCall
<1>3. PICK s \in Stub : s = replica_stubs[expert.i]
  BY <1>1, <1>2, ElementOfSeq
<1>4. Belongs(s) /\ Own(s) /\ is_initialized_[s] /\ s \in Socket
  <2>1. Belongs(s) /\ ToSend(s)
    BY <1>1, <1>2, <1>3 DEF Belongs, ToSend, ExpertSend
  <2> QED BY <1>1, <2>1 DEF CalmInv, StubsOpen
<1>5. Reaches(s)
  BY <1>4, OwnReaches
<1>6. /\ Send(s, Replicate(2, expert.k)) /\ call' = Receive(Expert, s, ReplicaResponseSize)
      /\ UNCHANGED <<fd_, arriving, over, eng, replica_stubs>> /\ expert.pc = "send"
      /\ expert' = [expert EXCEPT !.pc = "await"]
  BY <1>3, <1>5 DEF ExpertSend, ExpertRest
<1>7. /\ UNCHANGED <<table, is_initialized_>>
      /\ \A c \in Conn : leaving'[c] = leaving[c]
  BY <1>1, <1>4, <1>6, OwnSends
<1>8. ReplicaResponseSize \in Nat \ {0}
  BY DEF ReplicaResponseSize
<1>9. PICK k : /\ k = [pc |-> "receive", on |-> s, at |-> NoSocket,
                       size |-> ReplicaResponseSize, buffer |-> <<>>]
               /\ call'[Expert] = k /\ \A u \in Thread \ {Expert} : call'[u] = call[u]
  BY <1>1, <1>4, <1>6, <1>8, ReceiveType
<1>10. call'[Expert].pc = "receive" /\ call'[Expert].on = s
  BY <1>9
<1>11. StubsOpen'
  <2>1. \A r \in Stub : Belongs(r)' => Belongs(r)
    BY <1>4, <1>6, <1>10 DEF Belongs
  <2>2. expert'.pc = "await" /\ expert'.i = expert.i
    BY <1>1, <1>6 DEF ExpertState
  <2>3. \A r \in Stub : InUse(r)' => r = s
    BY <1>10 DEF InUse
  <2>4. \A r \in Stub : ToSend(r)' => ToSend(r)
    BY <1>1, <1>6, <2>2 DEF ToSend
  <2>5. StubsDiffer'
    BY <1>6, <2>2 DEF CalmInv, StubsOpen, StubsDiffer
  <2>6. \A r \in Stub : /\ Belongs(r)' /\ is_initialized_'[r] => Own(r)'
                        /\ ToSend(r)' \/ InUse(r)' => is_initialized_'[r]
    BY <1>4, <1>6, <1>7, <2>1, <2>3, <2>4 DEF CalmInv, StubsOpen, Own
  <2> QED BY <1>10, <2>5, <2>6 DEF StubsOpen
<1>12. \A c \in Conn : Own(c) => Own(c)'
  BY <1>6, <1>7 DEF Own
<1> QED BY <1>1, <1>6, <1>7, <1>9, <1>11, <1>12, ExpertSpares DEF ExpertThread

(* The promise is kept: the engineer it was given to has what to deliver.  *)
LEMMA FinishServes ==
  ASSUME TypeInv, OwnerInv, CalmInv, ExpertFinish PROVE CalmInv'
<1>1. PICK c \in Conn : c = expert.order /\ eng[c].role = "waiting"
  BY DEF ExpertFinish, TypeInv, Queued
<1>2. /\ UNCHANGED <<sockvars, backlog, remote, replica_stubs>>
      /\ eng' = [eng EXCEPT ![c].role = "deliver"] /\ eng \in [Conn -> Engineer]
      /\ expert.pc = "send" /\ expert \in ExpertState
      /\ expert' = [expert EXCEPT !.pc = "idle", !.order = NoSocket]
  BY <1>1, TypesKnown DEF ExpertFinish, ExpertRest
<1>3. PICK e : e = eng'[c] /\ e.role = "deliver" /\ e.laptop = eng[c].laptop
  <2>1. eng[c] \in Engineer /\ eng'[c] = [eng[c] EXCEPT !.role = "deliver"]
    BY <1>2
  <2> QED BY <2>1 DEF Engineer
<1>4. \A d \in Conn \ {c} : eng'[d] = eng[d]
  BY <1>2
<1>5. UNCHANGED <<table, fd_, is_initialized_, arriving, leaving, over, call>>
  BY <1>2 DEF sockvars
<1>6. Quiet'
  <2>1. c \notin Replication
    BY <1>1 DEF CalmInv, Quiet
  <2> QED BY <1>2, <1>4, <2>1 DEF CalmInv, Quiet, Conn
<1>7. StubsOpen'
  <2>1. call[Expert] = NoCall /\ expert'.pc = "idle" /\ NoSocket \notin Stub
    BY <1>2, ExpertOn, Names DEF ExpertState
  <2>2. \A s \in Stub : (Belongs(s)' => Belongs(s)) /\ ~ToSend(s)' /\ ~InUse(s)'
    BY <1>2, <1>5, <2>1 DEF Belongs, ToSend, InUse, NoCall
  <2>3. StubsDiffer'
    BY <1>2, <2>1 DEF CalmInv, StubsOpen, StubsDiffer
  <2> QED BY <1>5, <2>1, <2>2, <2>3 DEF CalmInv, StubsOpen, Own, NoCall
<1>8. ASSUME NEW d \in Conn \ {c} PROVE Served(d)'
  BY <1>2, <1>4, <1>5, <1>8, ServedStays DEF CalmInv, Own
<1>9. Served(c)'
  <2>1. EngineerOpen(c)'
    BY <1>1, <1>2, <1>3, <1>5 DEF CalmInv, Served, EngineerOpen, Lost, Own
  <2>2. c \notin Replication
    BY <1>1 DEF CalmInv, Quiet
  <2>3. Exchange(c, remote[c], e, call[c].buffer, arriving[c], leaving[c])
    <3>1. PICK x, b, a, l : /\ x = remote[c] /\ b = call[c].buffer
                            /\ a = arriving[c] /\ l = leaving[c]
      OBVIOUS
    <3>2. Exchange(c, x, eng[c], b, a, l)
      BY <2>2, <3>1 DEF CalmInv, Served, OneRequest
    <3>3. Exchange(c, x, e, b, a, l)
      BY <1>1, <1>3, <3>2, ExchangeRole
    <3> QED BY <3>1, <3>3
  <2> QED BY <1>2, <1>3, <1>5, <2>1, <2>3 DEF Served, OneRequest
<1> QED BY <1>6, <1>7, <1>8, <1>9 DEF CalmInv

(* The expert receives on a stub that is open.  If its peer has died, the  *)
(* stub is closed and not used again.                                      *)
LEMMA ExpertRecvServes ==
  ASSUME TypeInv, OwnerInv, CalmInv, PeersRegister, Recv(Expert),
         UNCHANGED <<servervars, remote>>, ExpertThread
  PROVE  CalmInv'
<1>1. /\ SocketInv /\ SocketTypeOK /\ Expert \in Thread /\ Conn \subseteq Thread \ {Expert}
      /\ Conn \subseteq Socket /\ Stub \subseteq Socket /\ arriving \in [Socket -> Seq(Word)]
      /\ \A c \in Conn : c \notin Stub
      /\ ExpertCall(expert, replica_stubs, call[Expert]) /\ StubsDiffer /\ expert.i \in Nat
  BY TypesKnown, Names DEF SocketTypeOK, CalmInv, StubsOpen, ExpertState
<1>2. /\ UNCHANGED <<fd_, leaving, over, eng, replica_stubs, expert>>
      /\ \A u \in Conn : call'[u] = call[u]
      /\ call[Expert].pc \in {"receive", "blocked", "failed"}
      /\ call'[Expert].on = call[Expert].on
  BY <1>1, RecvType DEF servervars
<1>3. PICK s \in Stub : s = call[Expert].on
  BY <1>2, ExpertOn
<1>4. /\ Belongs(s) /\ InUse(s) /\ s \in Socket
      /\ call[Expert].pc = "blocked" => call[Expert].at = s
  BY <1>1, <1>2, <1>3 DEF CalmInv, StubsOpen, Belongs, InUse
<1>5. Own(s) /\ is_initialized_[s]
  BY <1>4 DEF CalmInv, StubsOpen
<1>6. Reaches(s) /\ Behind(s) = s /\ ~shut[s]
  BY <1>4, <1>5, OwnReaches
<1>7. StubsDiffer' /\ \A r \in Stub : (Belongs(r)' <=> Belongs(r)) /\ (ToSend(r)' <=> ToSend(r))
  BY <1>1, <1>2 DEF StubsDiffer, Belongs, ToSend
<1>8. CASE call[Expert].pc # "failed"
  <2>1. /\ UNCHANGED <<table, is_initialized_>>
        /\ call'[Expert].pc = "blocked" => call'[Expert].at = s
        /\ call'[Expert].pc = "failed" => over[s]
        /\ \A c \in Conn : arriving'[c] = arriving[c]
    <3>1. CASE call[Expert].pc = "receive"
      <4>1. /\ UNCHANGED <<table, is_initialized_, arriving>>
            /\ call'[Expert].pc = "blocked" /\ call'[Expert].at = s
        BY <1>1, <1>3, <1>4, <1>6, <3>1, RecvShows
      <4> QED BY <4>1
    <3>2. CASE call[Expert].pc = "blocked"
      <4>1. /\ UNCHANGED <<table, is_initialized_>>
            /\ \/ call'[Expert].pc \in {"receive", "returned"}
               \/ call'[Expert].pc = "failed" /\ over[s]
            /\ \/ arriving' = arriving
               \/ \E a2 \in Seq(Word) : arriving' = [arriving EXCEPT ![s] = a2]
        BY <1>1, <1>3, <1>4, <1>6, <3>2, RecvShows
      <4> QED BY <1>1, <1>3, <4>1
    <3> QED BY <1>2, <1>8, <3>1, <3>2
  <2>2. \A r \in Stub : InUse(r)' => InUse(r)
    BY <1>2, <1>8 DEF InUse
  <2>3. \A r \in Socket : Own(r) => Own(r)'
    BY <1>2, <2>1 DEF Own
  <2>4. StubsOpen'
    BY <1>1, <1>2, <1>3, <1>7, <2>1, <2>2, <2>3 DEF CalmInv, StubsOpen
  <2> QED BY <1>1, <1>2, <2>1, <2>3, <2>4, ExpertSpares
<1>9. CASE call[Expert].pc = "failed"
  <2>1. /\ Close({s}) /\ arriving' = arriving /\ call'[Expert].pc = "returned"
    BY <1>1, <1>3, <1>4, <1>9, RecvShows
  <2>2. PICK S \in SUBSET Socket : S = {s} /\ Close(S) /\ \A x \in S : Own(x)
    BY <1>4, <1>5, <2>1
  <2>3. /\ \A x \in Socket \ {s} : /\ Own(x) => Own(x)'
                                   /\ is_initialized_'[x] = is_initialized_[x]
        /\ ~is_initialized_'[s]
    BY <1>1, <1>2, <2>2, CloseSpares
  <2>4. expert.pc = "await" /\ expert.i \in 1 .. Len(replica_stubs) /\ s = replica_stubs[expert.i]
    <3>1. expert.pc # "register"
      BY <1>9 DEF PeersRegister
    <3>2. expert.pc = "await"
      BY <1>1, <1>9, <3>1 DEF ExpertCall
    <3> QED BY <1>1, <1>3, <3>2, TypesKnown DEF ExpertCall
  <2>5. ~ToSend(s)
    BY <1>1, <2>4 DEF ToSend, StubsDiffer
  <2>6. \A r \in Stub : ~InUse(r)'
    BY <1>2, <2>1, <2>4 DEF InUse
  <2>7. \A r \in Stub : /\ Belongs(r)' /\ is_initialized_'[r] => Own(r)'
                        /\ ToSend(r)' \/ InUse(r)' => is_initialized_'[r]
    BY <1>1, <1>7, <2>3, <2>5, <2>6 DEF CalmInv, StubsOpen
  <2>8. StubsOpen'
    BY <1>7, <2>1, <2>7 DEF StubsOpen
  <2>9. \A c \in Conn : /\ (Own(c) => Own(c)') /\ is_initialized_'[c] = is_initialized_[c]
    BY <1>1, <1>3, <2>3
  <2> QED BY <1>1, <1>2, <2>1, <2>8, <2>9, ExpertSpares
<1> QED BY <1>8, <1>9

LEMMA ExpertServes ==
  ASSUME TypeInv, OwnerInv, CalmInv, PeersRegister, ExpertThread PROVE CalmInv'
<1>1. CASE Recv(Expert) /\ UNCHANGED <<servervars, alive, registered, remote, mortal>>
  BY <1>1, ExpertRecvServes
<1> QED BY <1>1, TakeServes, ConnectServes, ExpertMovesServes, SendServes, FinishServes
        DEF ExpertThread

(* A connection is accepted; or none can be.                               *)
LEMMA MainServes ==
  ASSUME TypeInv, ToAccept, OwnerInv, CalmInv, Main PROVE CalmInv'
<1>1. /\ SocketInv /\ SocketTypeOK /\ Held /\ eng \in [Conn -> Engineer]
      /\ Conn \subseteq Thread /\ Expert \in Thread /\ Expert \notin Conn
      /\ Conn \subseteq Socket /\ Stub \subseteq Socket /\ \A c \in Conn : c \notin Stub
      /\ NoSocket \notin Socket /\ Replication \subseteq Conn
  BY TypesKnown, Names DEF OwnerInv, Conn
<1>2. CASE Accept
  <2>1. backlog # <<>> /\ Len(backlog) \in Nat /\ Len(backlog) >= 1
    BY <1>2, HeadOfBacklog DEF Accept
  <2>2. PICK c \in Conn : /\ c = backlog[1] /\ c = Head(backlog) /\ Install(c, TRUE)
                          /\ eng' = [eng EXCEPT ![c].role = "order"]
                          /\ call' = Receive(c, c, RequestSize)
    BY <1>2, HeadOfBacklog DEF Accept
  <2>3. /\ FreeFds # {} /\ backlog' = Tail(backlog)
        /\ UNCHANGED <<arriving, leaving, over, shut, replica_stubs, remote, expert>>
    BY <1>2 DEF Accept
  <2>4. eng[c].role = "none" /\ c \notin Replication
    BY <2>1, <2>2 DEF ToAccept, CalmInv, Quiet
  <2>5. Unopened(c)
    BY <2>4 DEF OwnerInv, ToOpen
  <2>6. /\ is_initialized_'[c] = TRUE
        /\ \A r \in Socket \ {c} : is_initialized_'[r] = is_initialized_[r]
        /\ table'[fd_'[c]] = c /\ fd_'[c] \in Fd
        /\ \A r \in Socket \ {c} : fd_'[r] = fd_[r]
        /\ \A f \in Fd : table[f] # NoSocket => table'[f] = table[f]
    BY <1>1, <2>2, <2>3, <2>5, InstallOpens
  <2>7. Own(c)' /\ \A r \in Socket \ {c} : Own(r) => Own(r)'
    BY <1>1, <2>6 DEF Own
  <2>8. PICK e : e = eng'[c] /\ e.role = "order"
    BY <1>1, <2>2 DEF Engineer
  <2>9. \A d \in Conn \ {c} : eng'[d] = eng[d]
    BY <1>1, <2>2
  <2>10. RequestSize \in Nat \ {0}
    BY DEF RequestSize
  <2>11. PICK k : /\ k = [pc |-> "receive", on |-> c, at |-> NoSocket,
                          size |-> RequestSize, buffer |-> <<>>]
                  /\ call'[c] = k /\ \A u \in Thread \ {c} : call'[u] = call[u]
    BY <1>1, <2>2, <2>10, ReceiveType
  <2>12. Quiet'
    <3>1. \A i \in 1 .. Len(backlog') : i + 1 \in 1 .. Len(backlog)
                                        /\ backlog'[i] = backlog[i + 1]
      BY <2>1, <2>3, HeadOfBacklog
    <3> QED BY <1>1, <2>3, <2>4, <2>9, <3>1 DEF CalmInv, Quiet
  <2>13. StubsOpen'
    <3>1. call'[Expert] = call[Expert]
      BY <1>1, <2>11
    <3>2. \A s \in Stub : /\ Own(s) => Own(s)'
                          /\ is_initialized_'[s] = is_initialized_[s]
      BY <1>1, <2>6, <2>7
    <3> QED BY <2>3, <3>1, <3>2, StubsStay DEF CalmInv
  <2>14. ASSUME NEW d \in Conn \ {c} PROVE Served(d)'
    <3>1. Served(d)
      BY DEF CalmInv
    <3> QED BY <1>1, <2>3, <2>6, <2>7, <2>9, <2>11, <2>14, <3>1, ServedStays
  <2>15. Served(c)'
    <3>1. Served(c)
      BY DEF CalmInv
    <3>2. EngineerOpen(c)'
      BY <2>3, <2>7, <2>8, <2>11, <3>1 DEF Served, EngineerOpen, Lost
    <3>3. call[c].buffer = <<>>
      <4>1. EngineerCall(c, eng[c].role, call[c]) /\ CallFits(call[c])
        BY <1>1, TypesKnown DEF BufferFits
      <4> QED BY <2>4, <4>1 DEF EngineerCall, CallFits, NoCall
    <3>4. PICK x, a, l : x = remote[c] /\ a = arriving[c] /\ l = leaving[c]
      OBVIOUS
    <3>5. Exchange(c, x, eng[c], <<>>, a, l)
      BY <2>4, <3>1, <3>3, <3>4 DEF Served, OneRequest
    <3>6. Exchange(c, x, e, <<>>, a, l)
      BY <2>8, <3>5, ExchangeRole
    <3> QED BY <2>3, <2>8, <2>11, <3>2, <3>4, <3>6 DEF Served, OneRequest
  <2> QED BY <2>12, <2>13, <2>14, <2>15 DEF CalmInv
<1>3. CASE AcceptFails
  <2>1. UNCHANGED <<sockvars, eng, backlog, replica_stubs, remote, expert>>
    BY <1>3 DEF AcceptFails
  <2>2. \A s \in Socket : Own(s) => Own(s)'
    BY <2>1 DEF Own, sockvars
  <2>3. StubsOpen'
    BY <1>1, <2>1, <2>2, StubsStay DEF CalmInv, sockvars
  <2>4. \A c \in Conn : Served(c)'
    BY <1>1, <2>1, <2>2, ServedStays DEF CalmInv, sockvars
  <2>5. Quiet'
    BY <2>1 DEF CalmInv, Quiet
  <2> QED BY <2>3, <2>4, <2>5 DEF CalmInv
<1> QED BY <1>2, <1>3 DEF Main

(* A step of a far end: of the rest nothing changes.                       *)
LEMMA FarSpares ==
  ASSUME CalmInv, NEW c \in Conn,
         UNCHANGED <<table, fd_, is_initialized_, call, eng, replica_stubs, expert>>,
         \A d \in Conn \ {c} : remote'[d] = remote[d],
         \A s \in Socket \ {c} : /\ over'[s] = over[s]
                                 /\ arriving'[s] = arriving[s] /\ leaving'[s] = leaving[s],
         remote'[c].pc # "new",
         c \notin Replication => \A i \in 1 .. Len(backlog') : backlog'[i] \notin Replication,
         c \in Replication => backlog' = backlog,
         EngineerOpen(c)', c \notin Replication => OneRequest(c)'
  PROVE  CalmInv'
<1>1. Conn \subseteq Socket /\ Stub \subseteq Socket \ {c} /\ Replication \subseteq Conn
  BY Names DEF Conn
<1>2. \A s \in Socket : Own(s) => Own(s)'
  BY DEF Own
<1>3. StubsOpen'
  BY <1>1, <1>2, StubsStay DEF CalmInv
<1>4. ASSUME NEW d \in Conn \ {c} PROVE Served(d)'
  <2>1. Served(d) /\ d \in Socket \ {c}
    BY <1>1 DEF CalmInv
  <2> QED BY <1>2, <2>1, ServedStays
<1>5. Quiet'
  BY <1>1 DEF CalmInv, Quiet
<1> QED BY <1>3, <1>4, <1>5 DEF CalmInv, Served

(* A far end connects, asks, reads the answer, closes or dies.             *)
LEMMA RemoteServes ==
  ASSUME TypeInv, ToAccept, CalmInv, NEW c \in Conn,
         \/ RemoteConnect(c) \/ RemoteAsk(c) \/ RemoteAnswered(c) \/ RemoteClose(c)
         \/ RemoteDie(c)
  PROVE  CalmInv'
<1>1. /\ c \in Socket /\ remote \in [Conn -> Remote] /\ remote[c] \in Remote
      /\ eng[c] \in Engineer /\ call[c].buffer \in Seq(Word)
      /\ arriving \in [Socket -> Seq(Word)] /\ leaving \in [Socket -> Seq(Word)]
      /\ over \in [Socket -> BOOLEAN] /\ backlog \in Seq(Conn) /\ Len(backlog) \in Nat
      /\ c \in Thread
  <2>1. backlog \in Seq(Conn) /\ c \in Socket /\ c \in Thread
    BY TypesKnown, Names
  <2>2. Len(backlog) \in Nat
    BY <2>1, LenProperties
  <2> QED BY <2>1, <2>2, TypesKnown DEF SocketTypeOK, Call
<1>2. PICK x \in Remote, e \in Engineer, b \in Seq(Word), a \in Seq(Word), l \in Seq(Word) :
        x = remote[c] /\ e = eng[c] /\ b = call[c].buffer /\ a = arriving[c] /\ l = leaving[c]
  BY <1>1
<1>3. EngineerOpen(c) /\ (c \notin Replication => Exchange(c, x, e, b, a, l))
  BY <1>2 DEF CalmInv, Served, OneRequest
<1>4. ASSUME UNCHANGED <<table, fd_, is_initialized_, call, eng, replica_stubs, expert>>,
             NEW y \in Remote, remote' = [remote EXCEPT ![c] = y], y.pc # "new",
             \/ backlog' = backlog
             \/ c \notin Replication /\ backlog' = Append(backlog, c),
             NEW a1 \in Seq(Word), NEW l1 \in Seq(Word), NEW o \in BOOLEAN,
             arriving' = [arriving EXCEPT ![c] = a1],
             leaving' = [leaving EXCEPT ![c] = l1],
             over' = [over EXCEPT ![c] = o], over[c] => o, o => y.pc = "closed",
             a = <<>> /\ over[c] => a1 = <<>>,
             c \notin Replication => Exchange(c, y, e, b, a1, l1)
      PROVE  CalmInv'
  <2>1. /\ remote'[c] = y /\ \A d \in Conn \ {c} : remote'[d] = remote[d]
        /\ arriving'[c] = a1 /\ leaving'[c] = l1 /\ over'[c] = o
        /\ \A s \in Socket \ {c} : /\ over'[s] = over[s]
                                   /\ arriving'[s] = arriving[s] /\ leaving'[s] = leaving[s]
    BY <1>1, <1>4
  <2>2. c \notin Replication => OneRequest(c)'
    BY <1>2, <1>4, <2>1 DEF OneRequest
  <2>3. EngineerOpen(c)'
    BY <1>2, <1>3, <1>4, <2>1 DEF EngineerOpen, Lost, Own
  <2>4. c \notin Replication => \A i \in 1 .. Len(backlog') : backlog'[i] \notin Replication
    <3>1. CASE backlog' = backlog
      BY <3>1 DEF CalmInv, Quiet
    <3>2. CASE c \notin Replication /\ backlog' = Append(backlog, c)
      <4>1. /\ Len(backlog') = Len(backlog) + 1
            /\ \A i \in 1 .. Len(backlog) + 1 :
                 backlog'[i] = c \/ (i \in 1 .. Len(backlog) /\ backlog'[i] = backlog[i])
        BY <1>1, <3>2, AppendProperties, SMTT(20)
      <4> QED BY <1>1, <3>2, <4>1 DEF CalmInv, Quiet
    <3> QED BY <1>4, <3>1, <3>2
  <2>5. c \in Replication => backlog' = backlog
    BY <1>4
  <2> QED BY <1>4, <2>1, <2>2, <2>3, <2>4, <2>5, FarSpares
<1>5. /\ arriving = [arriving EXCEPT ![c] = a] /\ leaving = [leaving EXCEPT ![c] = l]
      /\ over[c] \in BOOLEAN /\ over = [over EXCEPT ![c] = over[c]]
      /\ over[c] => x.pc = "closed"
  BY <1>1, <1>2, <1>3 DEF EngineerOpen
<1>6. CASE RemoteConnect(c)
  <2>1. /\ UNCHANGED <<sockvars, eng, replica_stubs, expert>>
        /\ x.pc = "new" /\ backlog' = Append(backlog, c)
        /\ remote' = [remote EXCEPT ![c] = [x EXCEPT !.pc = "ask"]]
    BY <1>2, <1>6 DEF RemoteConnect
  <2>2. c \notin Replication
    BY <1>2, <2>1 DEF CalmInv, Quiet
  <2>3. PICK y \in Remote : /\ y = [x EXCEPT !.pc = "ask"] /\ y.pc = "ask" /\ y.n = x.n
                            /\ y.answer = x.answer
    <3>1. PICK y : y = [x EXCEPT !.pc = "ask"]
      OBVIOUS
    <3>2. y \in Remote /\ y.pc = "ask" /\ y.n = x.n /\ y.answer = x.answer
      BY <3>1 DEF Remote
    <3> QED BY <3>1, <3>2
  <2>4. Exchange(c, y, e, b, a, l)
    <3>1. e.role \notin {"waiting", "deliver"} /\ b = <<>> /\ a = <<>> /\ l = <<>>
      BY <1>3, <2>1, <2>2 DEF Exchange
    <3>2. <<>> \o <<>> = <<>>
      BY EmptySeq, ConcatEmptySeq
    <3>3. /\ y.n \in 0 .. Len(Script[c])
          /\ c \in Customer /\ y.answer # <<>> => y.n # 0 /\ Right(Script[c][y.n], y.answer)
      BY <1>3, <2>2, <2>3 DEF Exchange
    <3> QED BY <2>3, <3>1, <3>2, <3>3, Zenon DEF Exchange
  <2>5. UNCHANGED <<table, fd_, is_initialized_, call, arriving, leaving, over>>
    BY <2>1 DEF sockvars
  <2>6. /\ arriving' = [arriving EXCEPT ![c] = a] /\ leaving' = [leaving EXCEPT ![c] = l]
        /\ over' = [over EXCEPT ![c] = over[c]]
    BY <1>5, <2>5
  <2>7. remote' = [remote EXCEPT ![c] = y] /\ y.pc # "new" /\ ~over[c]
    BY <1>5, <2>1, <2>3
  <2>8. UNCHANGED <<eng, replica_stubs, expert>> /\ backlog' = Append(backlog, c)
    BY <2>1
  <2> QED BY <1>4, <1>5, <2>2, <2>4, <2>5, <2>6, <2>7, <2>8
<1>7. CASE RemoteAsk(c)
  <2>1. /\ UNCHANGED <<table, fd_, is_initialized_, leaving, over, call, servervars>>
        /\ x.pc = "ask" /\ x.n < Len(Script[c])
        /\ remote' = [remote EXCEPT ![c] = [pc |-> "await", n |-> x.n + 1, answer |-> <<>>]]
    BY <1>1, <1>2, <1>7 DEF RemoteAsk
  <2>2. x.n + 1 \in 1 .. Len(Script[c])
    BY <2>1, ScriptType DEF Remote
  <2>3. PICK y \in Remote : /\ y = [pc |-> "await", n |-> x.n + 1, answer |-> <<>>]
                            /\ y.pc = "await" /\ y.n = x.n + 1 /\ y.answer = <<>>
    <3>1. PICK y : y = [pc |-> "await", n |-> x.n + 1, answer |-> <<>>]
      OBVIOUS
    <3>2. <<>> \in Seq(Word) /\ x.n + 1 \in Nat
      BY <2>2, EmptySeq DEF Remote
    <3>3. y \in Remote /\ y.pc = "await" /\ y.n = x.n + 1 /\ y.answer = <<>>
      BY <3>1, <3>2 DEF Remote
    <3> QED BY <3>1, <3>3
  <2>4. PICK w \in Seq(Word) : w = Script[c][x.n + 1].words
    BY <2>2, ScriptType, ElementOfSeq DEF Ask
  <2>5. PICK a1 \in Seq(Word) : /\ a1 = a \/ a1 = a \o w
                                /\ arriving' = [arriving EXCEPT ![c] = a1]
    <3>1. CASE shut[c] \/ ~running
      BY <1>5, <1>7, <3>1 DEF RemoteAsk
    <3>2. CASE ~(shut[c] \/ ~running)
      <4>1. arriving' = [arriving EXCEPT ![c] = a \o w] /\ a \o w \in Seq(Word)
        BY <1>1, <1>2, <1>7, <2>4, <3>2, ConcatProperties DEF RemoteAsk
      <4> QED BY <4>1
    <3> QED BY <3>1, <3>2
  <2>6. c \notin Replication => Exchange(c, y, e, b, a1, l)
    <3> SUFFICES ASSUME c \notin Replication PROVE Exchange(c, y, e, b, a1, l)
      OBVIOUS
    <3>1. Exchange(c, y, e, b, a, l) /\ Exchange(c, y, e, b, a \o Script[c][x.n + 1].words, l)
      BY <1>3, <2>1, <2>3, ExchangeAsks
    <3>2. Exchange(c, y, e, b, a \o w, l)
      BY <2>4, <3>1
    <3>3. CASE a1 = a
      BY <3>1, <3>3
    <3>4. CASE a1 = a \o w
      BY <3>2, <3>4
    <3> QED BY <2>5, <3>3, <3>4
  <2>7. ~over[c]
    BY <1>5, <2>1
  <2> QED BY <1>4, <1>5, <2>1, <2>3, <2>5, <2>6, <2>7 DEF servervars
<1>8. CASE RemoteAnswered(c)
  <2>1. /\ UNCHANGED <<table, fd_, is_initialized_, arriving, over, call, servervars>>
        /\ x.pc = "await" /\ Len(l) >= Wanted(c)
        /\ leaving' = [leaving EXCEPT ![c] = SubSeq(l, Wanted(c) + 1, Len(l))]
    BY <1>1, <1>2, <1>8 DEF RemoteAnswered
  <2>2. x.n \in 1 .. Len(Script[c])
    BY <1>2, <2>1 DEF TypeInv, Asking
  <2>3. PICK n \in Nat : n = Script[c][x.n].answer /\ n = Wanted(c)
    BY <1>2, <2>2, ScriptType, ElementOfSeq DEF Ask, Wanted
  <2>4. PICK a1, l1 : a1 = SubSeq(l, 1, n) /\ l1 = SubSeq(l, n + 1, Len(l))
    OBVIOUS
  <2>5. a1 \in Seq(Word) /\ l1 \in Seq(Word)
    <3>1. n \in 0 .. Len(l)
      BY <2>1, <2>3, LenProperties
    <3>2. PICK T, m : T = Word /\ l \in Seq(T) /\ m = n /\ m \in 0 .. Len(l)
      BY <3>1
    <3>3. SubSeq(l, 1, m) \in Seq(T) /\ SubSeq(l, m + 1, Len(l)) \in Seq(T)
      BY <3>2, Parts
    <3> QED BY <2>4, <3>2, <3>3
  <2>6. PICK pc \in {"ask", "done"} :
          remote' = [remote EXCEPT ![c] = [[x EXCEPT !.pc = pc] EXCEPT !.answer = a1]]
    <3>1. PICK stop : stop = (/\ Wanted(c) = LaptopSize /\ c \in Customer
                              /\ ~LaptopIsValid(UnmarshalLaptop(a1)))
      OBVIOUS
    <3>2. PICK pc \in {"ask", "done"} : pc = IF stop THEN "done" ELSE "ask"
      OBVIOUS
    <3>3. remote' = [remote EXCEPT ![c].pc = pc, ![c].answer = a1]
      BY <1>2, <1>8, <2>3, <2>4, <3>1, <3>2 DEF RemoteAnswered
    <3>4. remote' = [remote EXCEPT ![c] = [[x EXCEPT !.pc = pc] EXCEPT !.answer = a1]]
      BY <1>1, <1>2, <3>3
    <3> QED BY <3>4
  <2>7. PICK y \in Remote : /\ y = [[x EXCEPT !.pc = pc] EXCEPT !.answer = a1]
                            /\ y.pc = pc /\ y.n = x.n /\ y.answer = a1
    <3>1. PICK z : z = [x EXCEPT !.pc = pc]
      OBVIOUS
    <3>2. z \in Remote /\ z.pc = pc /\ z.n = x.n
      BY <3>1 DEF Remote
    <3>3. PICK y : y = [z EXCEPT !.answer = a1]
      OBVIOUS
    <3>4. y \in Remote /\ y.pc = pc /\ y.n = x.n /\ y.answer = a1
      BY <2>5, <3>2, <3>3 DEF Remote
    <3> QED BY <3>1, <3>3, <3>4
  <2>8. c \notin Replication => Exchange(c, y, e, b, a, l1)
    BY <1>3, <2>1, <2>2, <2>3, <2>4, <2>6, <2>7, ExchangeAnswered
  <2>9. ~over[c]
    BY <1>5, <2>1
  <2> QED BY <1>4, <1>5, <2>1, <2>3, <2>4, <2>5, <2>6, <2>7, <2>8, <2>9 DEF servervars
<1>9. ASSUME remote' = [remote EXCEPT ![c] = [x EXCEPT !.pc = "closed"]],
             over' = [over EXCEPT ![c] = TRUE],
             NEW a1 \in Seq(Word), NEW a2 \in Seq(Word), a = a1 \o a2,
             arriving' = [arriving EXCEPT ![c] = a1],
             UNCHANGED <<table, fd_, is_initialized_, leaving, call, servervars>>
      PROVE  CalmInv'
  <2>1. PICK y \in Remote : /\ y = [x EXCEPT !.pc = "closed"] /\ y.pc = "closed"
                            /\ y.n = x.n /\ y.answer = x.answer
    <3>1. PICK y : y = [x EXCEPT !.pc = "closed"]
      OBVIOUS
    <3>2. y \in Remote /\ y.pc = "closed" /\ y.n = x.n /\ y.answer = x.answer
      BY <3>1 DEF Remote
    <3> QED BY <3>1, <3>2
  <2>2. c \notin Replication => Exchange(c, y, e, b, a1, l)
    BY <1>3, <1>9, <2>1, ExchangeEnds
  <2>3. a = <<>> => a1 = <<>>
    <3>1. a1 \o a2 = <<>> => a1 = <<>>
      BY ConcatEqualIffEmpty
    <3> QED BY <1>9, <3>1
  <2> QED BY <1>4, <1>5, <1>9, <2>1, <2>2, <2>3 DEF servervars
<1>10. CASE RemoteClose(c)
  <2>1. /\ remote' = [remote EXCEPT ![c] = [x EXCEPT !.pc = "closed"]]
        /\ over' = [over EXCEPT ![c] = TRUE]
        /\ UNCHANGED <<table, fd_, is_initialized_, arriving, leaving, call, servervars>>
    BY <1>2, <1>10 DEF RemoteClose
  <2>2. a = a \o <<>> /\ <<>> \in Seq(Word)
    BY EmptySeq, ConcatEmptySeq
  <2> QED BY <1>5, <1>9, <2>1, <2>2
<1>11. CASE RemoteDie(c)
  <2>1. /\ remote' = [remote EXCEPT ![c] = [x EXCEPT !.pc = "closed"]]
        /\ over' = [over EXCEPT ![c] = TRUE]
        /\ UNCHANGED <<table, fd_, is_initialized_, leaving, call, servervars>>
    BY <1>2, <1>11 DEF RemoteDie
  <2>2. PICK n \in 0 .. Len(a) : arriving' = [arriving EXCEPT ![c] = SubSeq(a, 1, n)]
    BY <1>1, <1>2, <1>11 DEF RemoteDie
  <2>3. PICK a1 \in Seq(Word), a2 \in Seq(Word) : a1 = SubSeq(a, 1, n) /\ a = a1 \o a2
    <3>1. PICK T, m : T = Word /\ a \in Seq(T) /\ m = n /\ m \in 0 .. Len(a)
      OBVIOUS
    <3>2. PICK p, q : p = SubSeq(a, 1, m) /\ q = SubSeq(a, m + 1, Len(a))
      OBVIOUS
    <3>3. p \in Seq(T) /\ q \in Seq(T) /\ p \o q = a
      BY <3>1, <3>2, Parts
    <3> QED BY <3>1, <3>2, <3>3
  <2> QED BY <1>9, <2>1, <2>2, <2>3
<1> QED BY <1>6, <1>7, <1>8, <1>10, <1>11

(* A peer answers, or dies: no connection of an engineer is touched.       *)
LEMMA PeerServes ==
  ASSUME TypeInv, CalmInv,
         \/ \E s \in Stub : PeerAnswer(s)
         \/ \E p \in Range(Peers) : PeerDie(p)
  PROVE  CalmInv'
<1>1. SocketTypeOK /\ \A c \in Conn : c \in Socket /\ c \notin Stub
  BY TypesKnown, Names
<1>2. /\ UNCHANGED <<table, fd_, is_initialized_, call, servervars, remote>>
      /\ \A c \in Conn : /\ arriving'[c] = arriving[c] /\ leaving'[c] = leaving[c]
                         /\ over'[c] = over[c]
      /\ \A s \in Socket : over[s] => over'[s]
  <2>1. ASSUME NEW s \in Stub, PeerAnswer(s)
        PROVE  /\ UNCHANGED <<table, fd_, is_initialized_, call, servervars, remote>>
               /\ \A c \in Conn : /\ arriving'[c] = arriving[c] /\ leaving'[c] = leaving[c]
                                  /\ over'[c] = over[c]
               /\ \A r \in Socket : over[r] => over'[r]
    BY <1>1, <2>1 DEF PeerAnswer, SocketTypeOK
  <2>2. ASSUME NEW p \in Range(Peers), PeerDie(p)
        PROVE  /\ UNCHANGED <<table, fd_, is_initialized_, call, servervars, remote>>
               /\ \A c \in Conn : /\ arriving'[c] = arriving[c] /\ leaving'[c] = leaving[c]
                                  /\ over'[c] = over[c]
               /\ \A r \in Socket : over[r] => over'[r]
    <3>1. UNCHANGED <<table, fd_, is_initialized_, arriving, leaving, call, servervars, remote>>
      BY <2>2 DEF PeerDie
    <3>2. ASSUME NEW c \in Conn PROVE over'[c] = over[c]
      <4>1. over'[c] = (over[c] \/ (c \in Stub /\ c[2] = p)) /\ c \notin Stub
        BY <1>1, <2>2 DEF PeerDie
      <4>2. over[c] \in BOOLEAN
        BY <1>1 DEF SocketTypeOK
      <4> QED BY <4>1, <4>2
    <3>3. \A r \in Socket : over[r] => over'[r]
      BY <2>2 DEF PeerDie
    <3> QED BY <3>1, <3>2, <3>3
  <2> QED BY <2>1, <2>2
<1>3. \A r \in Socket : Own(r) => Own(r)'
  BY <1>2 DEF Own
<1>4. StubsOpen'
  BY <1>2, <1>3, Names, StubsStay DEF CalmInv, servervars
<1>5. ASSUME NEW c \in Conn PROVE Served(c)'
  <2>1. Served(c)
    BY DEF CalmInv
  <2> QED BY <1>1, <1>2, <1>3, <2>1, ServedStays DEF servervars
<1>6. Quiet'
  BY <1>2 DEF CalmInv, Quiet, servervars
<1> QED BY <1>4, <1>5, <1>6 DEF CalmInv

LEMMA CalmStep ==
  ASSUME TypeInv, ToAccept, OwnerInv, CalmInv, PeersRegister, [Next]_vars PROVE CalmInv'
<1>1. CASE Next
  BY <1>1, MainServes, ExpertServes, EngineerServes, RemoteServes, PeerServes DEF Next
<1>2. CASE UNCHANGED vars
  <2>1. UNCHANGED <<table, fd_, is_initialized_, arriving, leaving, over, call, eng, backlog,
                    replica_stubs, remote, expert>>
    BY <1>2 DEF vars, sockvars, servervars
  <2>2. \A s \in Socket : Own(s) => Own(s)'
    BY <2>1 DEF Own
  <2>3. StubsOpen'
    BY <2>1, <2>2, Names, StubsStay DEF CalmInv
  <2>4. \A c \in Conn : Served(c)'
    BY <2>1, <2>2, Names, ServedStays DEF CalmInv
  <2>5. Quiet'
    BY <2>1 DEF CalmInv, Quiet
  <2> QED BY <2>3, <2>4, <2>5 DEF CalmInv
<1> QED BY <1>1, <1>2

LEMMA InitCalm == Init /\ Undisturbed => CalmInv
<1> SUFFICES ASSUME Init, Undisturbed PROVE CalmInv
  OBVIOUS
<1>1. /\ Len(backlog) = 0 /\ Len(replica_stubs) = 0 /\ <<>> \o <<>> = <<>>
  BY EmptySeq, ConcatEmptySeq DEF Init
<1>2. \A c \in Conn : eng[c].role = "none" /\ remote[c].n = 0 /\ remote[c].answer = <<>>
  BY DEF Init
<1>3. /\ \A t \in Thread : call[t] = NoCall
      /\ \A s \in Socket : over[s] = FALSE /\ arriving[s] = <<>> /\ leaving[s] = <<>>
  BY DEF Init, SocketInit
<1>4. Quiet
  BY <1>1, <1>2 DEF Undisturbed, Quiet, Conn
<1>5. StubsOpen
  <2>1. \A s \in Stub : ~Belongs(s) /\ ~ToSend(s) /\ ~InUse(s)
    BY <1>1, <1>3, Names DEF Belongs, ToSend, InUse, NoCall
  <2>2. StubsDiffer
    BY <1>1 DEF Init, StubsDiffer
  <2> QED BY <1>3, <2>1, <2>2, Names DEF StubsOpen, NoCall
<1>6. ASSUME NEW c \in Conn PROVE Served(c)
  <2>1. /\ call[c] = NoCall /\ over[c] = FALSE /\ arriving[c] = <<>> /\ leaving[c] = <<>>
        /\ eng[c].role = "none" /\ remote[c].n = 0 /\ remote[c].answer = <<>>
    BY <1>2, <1>3, Names
  <2>2. EngineerOpen(c)
    BY <2>1 DEF EngineerOpen, Lost, NoCall
  <2>3. remote[c].n \in 0 .. Len(Script[c])
    BY <2>1, ScriptType
  <2>4. OneRequest(c)
    <3>1. call[c].buffer = <<>>
      BY <2>1 DEF NoCall
    <3>2. PICK x, e : /\ x = remote[c] /\ e = eng[c] /\ e.role = "none" /\ x.n = 0
                      /\ x.answer = <<>> /\ x.n \in 0 .. Len(Script[c])
      BY <2>1, <2>3
    <3>3. Exchange(c, x, e, <<>>, <<>>, <<>>)
      BY <1>1, <3>2 DEF Exchange
    <3> QED BY <2>1, <3>1, <3>2, <3>3 DEF OneRequest
  <2> QED BY <2>2, <2>4 DEF Served
<1> QED BY <1>4, <1>5, <1>6 DEF CalmInv

\* Everything above, as one invariant.
ServerInv == TypeInv /\ ToAccept /\ OwnerInv /\ CalmInv

LEMMA ServerInvInductive ==
  /\ Init /\ Undisturbed => ServerInv
  /\ ServerInv /\ PeersRegister /\ [Next]_vars => ServerInv'
<1>1. Init /\ Undisturbed => ServerInv
  BY InitType, InitToAccept, InitOwner, InitCalm DEF ServerInv
<1>2. ServerInv /\ PeersRegister /\ [Next]_vars => ServerInv'
  BY TypeStep, OwnerStep, CalmStep DEF ServerInv
<1> QED BY <1>1, <1>2

(* Where no peer dies no registration fails: those clusters are among the  *)
(* ones that the theorems are about.                                       *)
NoPeerDies == mortal \cap Range(Peers) = {}
PeersLive  == NoPeerDies /\ \A s \in Stub : ~over[s]

LEMMA LiveRegister ==
  ASSUME TypeInv, StubsOpen, PeersLive PROVE PeersRegister
<1> SUFFICES ASSUME call[Expert].pc = "failed" PROVE FALSE
  BY DEF PeersRegister
<1>1. call[Expert].on \in Stub
  BY ExpertOn
<1> QED BY <1>1 DEF StubsOpen, PeersLive

\* Only a death ends a stub's far end.
LEMMA PeersStayLive ==
  ASSUME TypeInv, PeersLive, [Next]_vars PROVE PeersLive'
<1>1. SocketTypeOK /\ \A c \in Conn : c \in Socket /\ c \notin Stub
  BY TypesKnown, Names
<1>2. CASE UNCHANGED <<over, mortal>>
  BY <1>2 DEF PeersLive, NoPeerDies
<1>3. ASSUME NEW c \in Conn, RemoteClose(c) \/ RemoteDie(c) PROVE PeersLive'
  <2>1. over' = [over EXCEPT ![c] = TRUE] /\ mortal' = mortal
    BY <1>3 DEF RemoteClose, RemoteDie
  <2>2. \A s \in Stub : over'[s] = over[s]
    BY <1>1, <2>1, Names DEF SocketTypeOK
  <2> QED BY <2>1, <2>2 DEF PeersLive, NoPeerDies
<1>4. ASSUME NEW c \in Conn, RemoteConnect(c) \/ RemoteAsk(c) \/ RemoteAnswered(c)
      PROVE  PeersLive'
  BY <1>2, <1>4 DEF RemoteConnect, RemoteAsk, RemoteAnswered, sockvars
<1>5. ASSUME NEW c \in Conn, EngineerThread(c) PROVE PeersLive'
  <2>1. over' = over
    BY <1>5 DEF EngineerThread, EngineerEnd, CreateRegularLaptop, CreateCustomLaptop,
                DeliverCustomLaptop, ReadRecord, Register, Status, LogEntry, Undefined,
                BackupAppend, BackupEnd, EngineerRest, Recv, RecvCall, RecvSome, RecvEnd,
                RecvFail
  <2>2. mortal' = mortal
    BY <1>5, EngineerRoles
  <2> QED BY <1>2, <2>1, <2>2
<1>6. CASE ExpertThread
  <2>1. over' = over
    BY <1>6 DEF ExpertThread, ExpertTake, ExpertConnect, ExpertRegistered, ExpertConnected,
                ExpertSend, ExpertKilled, ExpertAcked, ExpertFinish, ExpertRest, sockvars,
                Recv, RecvCall, RecvSome, RecvEnd, RecvFail
  <2>2. mortal' = mortal
    BY <1>6, ExpertRoles
  <2> QED BY <1>2, <2>1, <2>2
<1>7. CASE Main
  BY <1>2, <1>7 DEF Main, Accept, AcceptFails, sockvars
<1>8. ASSUME NEW s \in Stub, PeerAnswer(s) PROVE PeersLive'
  BY <1>2, <1>8 DEF PeerAnswer
<1>9. ASSUME NEW p \in Range(Peers), PeerDie(p) PROVE PeersLive'
  BY <1>9 DEF PeerDie, PeersLive, NoPeerDies
<1>10. CASE UNCHANGED vars
  BY <1>2, <1>10 DEF vars, sockvars
<1> QED BY <1>3, <1>4, <1>5, <1>6, <1>7, <1>8, <1>9, <1>10 DEF Next

LEMMA LivingPeersRegister == Spec /\ Undisturbed /\ NoPeerDies => []PeersRegister
<1>1. Init /\ NoPeerDies => PeersLive
  BY Names DEF Init, SocketInit, PeersLive
<1>2. ServerInv /\ PeersLive => PeersRegister
  BY LiveRegister DEF ServerInv, CalmInv
<1>3. ServerInv /\ PeersLive /\ [Next]_vars => PeersLive'
  BY PeersStayLive DEF ServerInv
<1> QED BY <1>1, <1>2, <1>3, ServerInvInductive, PTL DEF Spec

(* As long as no peer dies under its registration (ServerThread.cpp, lines *)
(* 249-263) and no other server replicates to this one, an engineer's recv *)
(* waits on the connection it was started for, though all threads open and *)
(* close descriptors of one table (Socket.cpp), and peers may die at any   *)
(* other moment: before an order connects to them, between two orders,     *)
(* while the order is sent to them or awaited, or while others register.   *)
THEOREM OwnConnectionOnly == Spec /\ Undisturbed /\ []PeersRegister => []EngineerPerConnection
<1>1. ServerInv => EngineerPerConnection
  BY DEF ServerInv, CalmInv, Served, EngineerOpen, EngineerPerConnection
<1> QED BY <1>1, ServerInvInductive, PTL DEF Spec

(* Under the same conditions no thread closes an engineer's connection     *)
(* under it: as long as the far end is there, so is the connection.        *)
THEOREM LiveConnectionsStayOpen == Spec /\ Undisturbed /\ []PeersRegister => []LiveConnectionOpen
<1>1. ServerInv => LiveConnectionOpen
  <2> SUFFICES ASSUME ServerInv, NEW c \in Conn,
                      eng[c].role \notin {"none", "ended"}, ~over[c]
               PROVE  Behind(c) = c
    BY DEF LiveConnectionOpen
  <2>1. TypeInv /\ OwnerInv /\ EngineerOpen(c) /\ c \in Socket
    BY Names DEF ServerInv, CalmInv, Served
  <2>2. eng[c].role \in {"order", "waiting", "deliver"} /\ ~Lost(c)
    BY <2>1, TypesKnown DEF EngineerOpen, Engineer
  <2> QED BY <2>1, <2>2, OwnReaches DEF EngineerOpen
<1> QED BY <1>1, ServerInvInductive, PTL DEF Spec

(* Under the same conditions the loop of Recv gives an engineer the        *)
(* request its far end made last, whole, or nothing, in however many       *)
(* pieces it comes and wherever it breaks off (Socket.cpp,                 *)
(* ServerStub.cpp).                                                        *)
THEOREM RequestsServedAsSent == Spec /\ Undisturbed /\ []PeersRegister => []ServedAsSent
<1>1. ServerInv => ServedAsSent
  <2> SUFFICES ASSUME ServerInv, NEW c \in Conn,
                      call[c].pc = "returned", call[c].buffer # <<>>
               PROVE  call[c].buffer = Script[c][remote[c].n].words
    BY DEF ServedAsSent
  <2>1. /\ EngineerCall(c, eng[c].role, call[c]) /\ CallFits(call[c])
        /\ call[c] \in Call /\ eng[c] \in Engineer /\ remote[c] \in Remote
        /\ arriving[c] \in Seq(Word) /\ leaving[c] \in Seq(Word)
    BY TypesKnown, Names DEF ServerInv, SocketTypeOK, BufferFits
  <2>2. Served(c) /\ eng[c].role = "order" /\ c \notin Replication
    BY <2>1 DEF ServerInv, CalmInv, Quiet, Served, EngineerOpen, EngineerCall
  <2>3. Len(call[c].buffer) = RequestSize /\ call[c].buffer \in Seq(Word)
    BY <2>1, <2>2 DEF EngineerCall, CallFits, Call
  <2> QED BY <2>1, <2>2, <2>3, ExchangeWhole DEF Served, OneRequest
<1> QED BY <1>1, ServerInvInductive, PTL DEF Spec

(* Under the same conditions the answer a customer reads is about the      *)
(* customer and the order it asked for last, with an expert's id where     *)
(* there was one (ServerThread.cpp, ServerStub.cpp, ClientStub.cpp).       *)
THEOREM AnswersAreToTheQuestion == Spec /\ Undisturbed /\ []PeersRegister => []AnswersMatch
<1>1. ServerInv => AnswersMatch
  <2> SUFFICES ASSUME ServerInv, NEW c \in Customer, remote[c].answer # <<>>
               PROVE  LET asked == UnmarshalRequest(Script[c][remote[c].n].words)
                      IN IF Wanted(c) = RecordSize
                         THEN UnmarshalRecord(remote[c].answer).customer_id
                                = asked.customer_id
                         ELSE LET laptop == UnmarshalLaptop(remote[c].answer)
                              IN /\ laptop.customer_id = asked.customer_id
                                 /\ asked.request_type \in {0, 1} =>
                                      /\ laptop.order_number = asked.order_number
                                      /\ laptop.request_type = asked.request_type
                                      /\ (laptop.admin_id = -1)
                                           <=> (asked.request_type = 0)
    BY Zenon DEF AnswersMatch
  <2>1. c \in Conn /\ c \notin Replication
    BY DEF Conn, Customer, Replication
  <2>2. Right(Script[c][remote[c].n], remote[c].answer)
    BY <2>1 DEF ServerInv, CalmInv, Served, OneRequest, Exchange
  <2> QED BY <2>2, Zenon DEF Right, Wanted
<1> QED BY <1>1, ServerInvInductive, PTL DEF Spec
=============================================================================
