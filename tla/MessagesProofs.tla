---------------------------- MODULE MessagesProofs ----------------------------
(* What one end marshals the other end reads back, field by field.         *)
EXTENDS Messages, TLAPS

(* The range of an int.                                                    *)
LEMMA Range32 ==
  ASSUME NEW x \in Int32 PROVE x \in Int /\ -2147483648 <= x /\ x <= 2147483647
<1>1. INT_MIN \in Int /\ INT_MAX \in Int
  BY SMT DEF INT_MIN, INT_MAX
<1>2. x \in Int /\ INT_MIN <= x /\ x <= INT_MAX
  BY <1>1, SMT DEF Int32
<1> QED BY <1>2, SMT DEF INT_MIN, INT_MAX

(* A field on the wire, byte by byte.                                      *)
LEMMA Bytes ==
  ASSUME NEW x \in Int32
  PROVE  /\ Htonl(x) \in Word
         /\ Htonl(x)[1] = (x \div 16777216) % 256
         /\ Htonl(x)[2] = (x \div 65536) % 256
         /\ Htonl(x)[3] = (x \div 256) % 256
         /\ Htonl(x)[4] = x % 256
<1>1. x \in Int
  BY Range32
<1>2. /\ (x \div 16777216) % 256 \in Byte /\ (x \div 65536) % 256 \in Byte
      /\ (x \div 256) % 256 \in Byte /\ x % 256 \in Byte
  BY <1>1, SMT DEF Byte
<1> QED BY <1>2, SMT DEF Htonl, Word

(* ntohl undoes htonl on every int: the sign of a negative one, which is   *)
(* in the most significant byte, is not lost.                              *)
THEOREM FieldRoundTrip == \A x \in Int32 : Ntohl(Htonl(x)) = x
<1> SUFFICES ASSUME NEW x \in Int32 PROVE Ntohl(Htonl(x)) = x
  OBVIOUS
<1> DEFINE y == x \div 16777216
<1>1. x \in Int /\ y \in -128 .. 127
  BY Range32, SMT
<1>2. (IF y % 256 < 128 THEN y % 256 ELSE (y % 256) - 256) = y
  <2> HIDE DEF y
  <2> QED BY <1>1, SMT
<1>3. x = y * 16777216 + ((x \div 65536) % 256) * 65536
            + ((x \div 256) % 256) * 256 + (x % 256)
  BY <1>1, SMT
<1>4. Ntohl(Htonl(x)) =
        (IF y % 256 < 128 THEN y % 256 ELSE (y % 256) - 256) * 16777216
          + ((x \div 65536) % 256) * 65536 + ((x \div 256) % 256) * 256 + (x % 256)
  BY Bytes, SMT DEF Ntohl
<1> QED BY <1>2, <1>3, <1>4, SMT
(* A request of a customer, or of a server to register or to recover,      *)
(* reaches the engineer thread as it was sent.                             *)
THEOREM RequestRoundTrip ==
  \A m \in CustomerRequest : UnmarshalRequest(MarshalRequest(m)) = m
  BY FieldRoundTrip DEF CustomerRequest, MarshalRequest, UnmarshalRequest

(* What a server answers to an order or a status request arrives unchanged.*)
THEOREM LaptopRoundTrip ==
  \A m \in LaptopInfo : UnmarshalLaptop(MarshalLaptop(m)) = m
  BY FieldRoundTrip DEF LaptopInfo, MarshalLaptop, UnmarshalLaptop

(* So does a customer's record, or an entry of the log.                    *)
THEOREM RecordRoundTrip ==
  \A m \in CustomerRecord : UnmarshalRecord(MarshalRecord(m)) = m
  BY FieldRoundTrip DEF CustomerRecord, MarshalRecord, UnmarshalRecord

(* A replica request reaches the backup with its indices and its operation.*)
THEOREM ReplicaRequestRoundTrip ==
  \A m \in ReplicaRequest :
    UnmarshalReplicaRequest(MarshalReplicaRequest(m)) = m
  BY FieldRoundTrip
     DEF ReplicaRequest, MarshalReplicaRequest, UnmarshalReplicaRequest

(* And the backup's response reaches the expert.                           *)
THEOREM ReplicaResponseRoundTrip ==
  \A m \in ReplicaResponse :
    UnmarshalReplicaResponse(MarshalReplicaResponse(m)) = m
  BY FieldRoundTrip
     DEF ReplicaResponse, MarshalReplicaResponse, UnmarshalReplicaResponse

(* A marshalled message has the size its reader waits for, Size(), so that *)
(* the next message begins where this one ends.                            *)
THEOREM SizesAgree ==
  /\ \A m \in CustomerRequest : MarshalRequest(m) \in Seq(Word)
                                /\ Len(MarshalRequest(m)) = RequestSize
  /\ \A m \in LaptopInfo : MarshalLaptop(m) \in Seq(Word)
                           /\ Len(MarshalLaptop(m)) = LaptopSize
  /\ \A m \in CustomerRecord : MarshalRecord(m) \in Seq(Word)
                               /\ Len(MarshalRecord(m)) = RecordSize
  /\ \A m \in ReplicaRequest :
       /\ MarshalReplicaRequest(m) \in Seq(Word)
       /\ Len(MarshalReplicaRequest(m)) = ReplicaRequestSize
  /\ \A m \in ReplicaResponse :
       /\ MarshalReplicaResponse(m) \in Seq(Word)
       /\ Len(MarshalReplicaResponse(m)) = ReplicaResponseSize
<1>1. \A m \in CustomerRequest : MarshalRequest(m) \in Seq(Word)
                                /\ Len(MarshalRequest(m)) = RequestSize
  BY Bytes DEF CustomerRequest, MarshalRequest, RequestSize
<1>2. \A m \in LaptopInfo : MarshalLaptop(m) \in Seq(Word)
                           /\ Len(MarshalLaptop(m)) = LaptopSize
  BY Bytes DEF LaptopInfo, MarshalLaptop, LaptopSize
<1>3. \A m \in CustomerRecord : MarshalRecord(m) \in Seq(Word)
                               /\ Len(MarshalRecord(m)) = RecordSize
  BY Bytes DEF CustomerRecord, MarshalRecord, RecordSize
<1>4. \A m \in ReplicaRequest :
       /\ MarshalReplicaRequest(m) \in Seq(Word)
       /\ Len(MarshalReplicaRequest(m)) = ReplicaRequestSize
  BY Bytes DEF ReplicaRequest, MarshalReplicaRequest, ReplicaRequestSize
<1>5. \A m \in ReplicaResponse :
       /\ MarshalReplicaResponse(m) \in Seq(Word)
       /\ Len(MarshalReplicaResponse(m)) = ReplicaResponseSize
  BY Bytes DEF ReplicaResponse, MarshalReplicaResponse, ReplicaResponseSize
<1> QED BY <1>1, <1>2, <1>3, <1>4, <1>5

===============================================================================
