------------------------- MODULE ReplicatedLogProofs -------------------------
(* The safety of ReplicatedLog, for any set of servers and any orders.     *)
EXTENDS ReplicatedLog, SequenceTheorems, TLAPS

(* Safety, with Settled to make it inductive.                              *)
Inv == TypeOK /\ Agreement /\ Settled /\ Durable /\ Fresh

(* Empty logs agree.                                                       *)
LEMMA InitInv == ASSUME Producer \in Server, Init PROVE Inv
  BY EmptySeq
     DEF Init, Inv, TypeOK, Agreement, Settled, Durable, Fresh, Entries

(* The producer's log grows while everybody has all of it.                 *)
LEMMA AcceptInv == ASSUME Producer \in Server, Inv, NEW o \in Command, Accept(o) PROVE Inv'
<1>1. /\ log[Producer] \in Seq(Command)
      /\ log'[Producer] = Append(log[Producer], o)
      /\ \A s \in Server \ {Producer} : log'[s] = log[s]
  BY DEF Inv, TypeOK, Accept
<1>2. /\ log'[Producer] \in Seq(Command)
      /\ Len(log'[Producer]) = Len(log[Producer]) + 1
      /\ \A i \in 1 .. Len(log[Producer]) : log'[Producer][i] = log[Producer][i]
      /\ log'[Producer][Len(log[Producer]) + 1] = o
  BY <1>1, AppendProperties
<1>3. TypeOK'
  BY <1>1, <1>2 DEF Inv, TypeOK, Accept, Apply
<1>4. \A s \in live : Len(log[s]) = Len(log[Producer])
  BY DEF Inv, Settled, Accept
<1>5. Agreement'
  <2> SUFFICES ASSUME NEW s \in Server
               PROVE  /\ Len(log'[s]) <= Len(log'[Producer])
                      /\ \A i \in 1 .. Len(log'[s]) : log'[s][i] = log'[Producer][i]
                      /\ s \in live' => Len(log'[Producer]) <= Len(log'[s]) + 1
    BY DEF Agreement
  <2>1. CASE s = Producer
    BY <2>1, <1>2
  <2>2. CASE s # Producer
    BY <2>2, <1>1, <1>2, <1>4, LenProperties DEF Inv, TypeOK, Agreement, Accept
  <2> QED BY <2>1, <2>2
<1>6. Settled'
  BY <1>2, LenProperties, <1>1 DEF Settled, Entries, Accept
<1>7. Durable'
  <2> SUFFICES ASSUME NEW s \in live', NEW a \in acked'
               PROVE  \E i \in 1 .. Len(log'[s]) : log'[s][i] = a
    BY DEF Durable, Entries
  <2>1. PICK i \in 1 .. Len(log[s]) : log[s][i] = a
    BY DEF Inv, Durable, Entries, Accept
  <2>2. s \in Server /\ Len(log[s]) \in Nat
    BY LenProperties DEF Inv, TypeOK, Accept
  <2>3. i \in 1 .. Len(log'[s]) /\ log'[s][i] = a
    <3>1. CASE s = Producer
      BY <2>1, <2>2, <1>2, <3>1
    <3>2. CASE s # Producer
      BY <2>1, <2>2, <1>1, <3>2
    <3> QED BY <3>1, <3>2
  <2> QED BY <2>3
<1>8. Fresh'
  BY <1>1, <1>2, LenProperties DEF Inv, TypeOK, Fresh, Accept, Apply
<1> QED BY <1>3, <1>5, <1>6, <1>7, <1>8 DEF Inv

(* A server that is behind copies: the last order is still unanswered.     *)
LEMMA CopyInv == ASSUME Producer \in Server, Inv, NEW s \in Server, Copy(s) PROVE Inv'
<1> DEFINE e == log[Producer][Len(log[s]) + 1]
<1>1. /\ log[s] \in Seq(Command) /\ log[Producer] \in Seq(Command)
      /\ Len(log[s]) \in Nat /\ Len(log[Producer]) \in Nat
      /\ s # Producer
  BY LenProperties DEF Inv, TypeOK, Copy
<1>2. Len(log[s]) + 1 = Len(log[Producer]) /\ e \in Command
  BY <1>1, ElementOfSeq DEF Inv, Agreement, Copy
<1>3. /\ log'[s] = Append(log[s], e)
      /\ \A t \in Server \ {s} : log'[t] = log[t]
      /\ log'[Producer] = log[Producer]
  BY <1>1 DEF Inv, TypeOK, Copy
<1>4. /\ log'[s] \in Seq(Command)
      /\ Len(log'[s]) = Len(log[s]) + 1
      /\ \A i \in 1 .. Len(log[s]) : log'[s][i] = log[s][i]
      /\ log'[s][Len(log[s]) + 1] = e
  <2> HIDE DEF e
  <2> QED BY <1>1, <1>2, <1>3, AppendProperties
<1>5. TypeOK'
  BY <1>3, <1>4 DEF Inv, TypeOK, Copy, Apply
<1>6. Agreement'
  BY <1>1, <1>2, <1>3, <1>4 DEF Inv, Agreement, Copy
<1>7. Settled'
  BY <1>1, <1>2, <1>3 DEF Inv, Settled, Entries, Copy
<1>8. Durable'
  <2> SUFFICES ASSUME NEW t \in live', NEW a \in acked'
               PROVE  \E i \in 1 .. Len(log'[t]) : log'[t][i] = a
    BY DEF Durable, Entries
  <2>1. PICK i \in 1 .. Len(log[t]) : log[t][i] = a
    BY DEF Inv, Durable, Entries, Copy
  <2>2. t \in Server
    BY DEF Inv, TypeOK, Copy
  <2>3. i \in 1 .. Len(log'[t]) /\ log'[t][i] = a
    <3> HIDE DEF e
    <3>1. CASE t = s
      BY <2>1, <1>1, <1>4, <3>1
    <3>2. CASE t # s
      BY <2>1, <2>2, <1>3, <3>2
    <3> QED BY <3>1, <3>2
  <2> QED BY <2>3
<1>9. Fresh'
  BY <1>1, <1>3, <1>4, LenProperties DEF Inv, TypeOK, Fresh, Copy, Apply
<1> QED BY <1>5, <1>6, <1>7, <1>8, <1>9 DEF Inv

(* When an order is answered every live server has it.                     *)
LEMMA AnswerInv == ASSUME Producer \in Server, Inv, Answer PROVE Inv'
<1> DEFINE e == log[Producer][Len(log[Producer])]
<1>1. /\ log[Producer] \in Seq(Command)
      /\ Len(log[Producer]) \in 1 .. Len(log[Producer])
      /\ e \in Command
  BY EmptySeq, LenProperties, ElementOfSeq
     DEF Inv, TypeOK, Answer
<1>2. TypeOK'
  BY <1>1, LenProperties DEF Inv, TypeOK, Answer
<1>3. Agreement' /\ Settled'
  BY DEF Inv, Agreement, Settled, Answer
<1>4. Durable'
  BY <1>1 DEF Inv, Durable, Entries, Answer
<1>5. Fresh'
  BY <1>1, LenProperties DEF Inv, TypeOK, Fresh, Answer
<1> QED BY <1>2, <1>3, <1>4, <1>5 DEF Inv

(* A failure only makes fewer servers live.                                *)
LEMMA FailInv == ASSUME Producer \in Server, Inv, NEW s \in Server, Fail(s) PROVE Inv'
  BY DEF Inv, TypeOK, Agreement, Settled, Durable, Fresh, Entries, Fail

(* In every reachable state the logs agree, answered orders are in the log *)
(* of every live server, and what a live server reports is at most one     *)
(* order old.                                                              *)
THEOREM ReplicatedLogSafe == ASSUME Producer \in Server PROVE Spec => []Safety
<1>0. Init => Inv
  BY InitInv
<1>1. Inv /\ [Next]_vars => Inv'
  <2> SUFFICES ASSUME Inv, [Next]_vars PROVE Inv'
    OBVIOUS
  <2>1. CASE UNCHANGED vars
    BY <2>1 DEF vars, Inv, TypeOK, Agreement, Settled, Durable, Fresh, Entries
  <2> QED BY <2>1, AcceptInv, CopyInv, AnswerInv, FailInv DEF Next
<1>2. Inv => Safety
  BY DEF Inv, Safety
<1> QED BY <1>0, <1>1, <1>2, PTL DEF Spec
=============================================================================
