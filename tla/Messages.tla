------------------------------- MODULE Messages -------------------------------
(***************************************************************************)
(* The five messages (Messages.cpp) and their form on the wire: fields of  *)
(* 32 bits, one after the other, each with its most significant byte       *)
(* first.  Marshal and Unmarshal name the fields separately, so that their *)
(* agreement is something to show, not something written in.               *)
(***************************************************************************)
EXTENDS Integers, Sequences

Byte  == 0 .. 255
Word  == Byte \X Byte \X Byte \X Byte
\* int: -2^31 .. 2^31 - 1, in the bounds TLC's own integers have.
INT_MIN == -2147483647 - 1
INT_MAX == 2147483647
Int32   == INT_MIN .. INT_MAX

CustomerRequest == [customer_id : Int32, order_number : Int32, request_type : Int32]
LaptopInfo      == [customer_id : Int32, order_number : Int32, request_type : Int32,
                    engineer_id : Int32, admin_id : Int32]
CustomerRecord  == [customer_id : Int32, last_order : Int32]
ReplicaRequest  == [factory_id : Int32, committed_index : Int32, last_index : Int32,
                    opcode : Int32, arg1 : Int32, arg2 : Int32]
ReplicaResponse == [status : Int32]

\* What the constructors make, and a stub returns when it received nothing.
NoCustomerRequest == [customer_id |-> -1, order_number |-> -1, request_type |-> -1]
NoLaptopInfo      == [customer_id |-> -1, order_number |-> -1, request_type |-> -1,
                      engineer_id |-> -1, admin_id |-> -1]
NoCustomerRecord  == [customer_id |-> -1, last_order |-> -1]
NoReplicaRequest  == [factory_id |-> -1, committed_index |-> -1, last_index |-> -1,
                      opcode |-> 0, arg1 |-> 0, arg2 |-> 0]
NoReplicaResponse == [status |-> 0]

\* Size(), in words.
RequestSize == 3
LaptopSize == 5
RecordSize == 2
ReplicaRequestSize == 6
ReplicaResponseSize == 1

-----------------------------------------------------------------------------
(* htonl followed by memcpy, and back.                                     *)
HtonlSigned(x) == <<x \div 16777216, (x \div 65536) % 256,    \* bug: a signed byte
                    (x \div 256) % 256, x % 256>>
Htonl(x) == <<(x \div 16777216) % 256, (x \div 65536) % 256,
              (x \div 256) % 256, x % 256>>
Ntohl(w) == (IF w[1] < 128 THEN w[1] ELSE w[1] - 256) * 16777216
              + w[2] * 65536 + w[3] * 256 + w[4]

MarshalRequest(m) ==
  <<Htonl(m.customer_id), Htonl(m.order_number), Htonl(m.request_type)>>
UnmarshalRequest(b) ==
  [customer_id |-> Ntohl(b[1]), order_number |-> Ntohl(b[2]),
   request_type |-> Ntohl(b[3])]

MarshalLaptopSwaps(m) ==        \* bug: two fields in the wrong order
  <<Htonl(m.order_number), Htonl(m.customer_id), Htonl(m.request_type),
    Htonl(m.engineer_id), Htonl(m.admin_id)>>
MarshalLaptop(m) ==
  <<Htonl(m.customer_id), Htonl(m.order_number), Htonl(m.request_type),
    Htonl(m.engineer_id), Htonl(m.admin_id)>>
UnmarshalLaptop(b) ==
  [customer_id |-> Ntohl(b[1]), order_number |-> Ntohl(b[2]),
   request_type |-> Ntohl(b[3]), engineer_id |-> Ntohl(b[4]),
   admin_id |-> Ntohl(b[5])]

MarshalRecord(m) == <<Htonl(m.customer_id), Htonl(m.last_order)>>
UnmarshalRecord(b) == [customer_id |-> Ntohl(b[1]), last_order |-> Ntohl(b[2])]

MarshalReplicaRequest(m) ==
  <<Htonl(m.factory_id), Htonl(m.committed_index), Htonl(m.last_index),
    Htonl(m.opcode), Htonl(m.arg1), Htonl(m.arg2)>>
UnmarshalReplicaRequest(b) ==
  [factory_id |-> Ntohl(b[1]), committed_index |-> Ntohl(b[2]),
   last_index |-> Ntohl(b[3]), opcode |-> Ntohl(b[4]),
   arg1 |-> Ntohl(b[5]), arg2 |-> Ntohl(b[6])]

MarshalReplicaResponse(m) == <<Htonl(m.status)>>
UnmarshalReplicaResponse(b) == [status |-> Ntohl(b[1])]

-----------------------------------------------------------------------------
(* IsValid: -1 where it looks means that nothing was received.             *)
RequestIsValid(m) == m.customer_id # -1
LaptopIsValid(m) == m.customer_id # -1
ReplicaRequestIsValid(m) == m.last_index # -1
=============================================================================
