---------------------------- MODULE ReplicatedLog ----------------------------
(***************************************************************************)
(* What a cluster with one production server promises, without threads,    *)
(* connections and messages: orders enter the producer's log one at a      *)
(* time, every live server copies that log entry by entry, and an order is *)
(* answered when every live server has it.  Servers may fail for good.     *)
(***************************************************************************)
EXTENDS Naturals, Sequences, FiniteSets

CONSTANTS
  Server,
  Producer,  \* the server the customers order from, one of Server
  Command    \* what a customer can order

VARIABLES
  log,      \* each server's log
  applied,  \* how many entries of it are in the server's customer record
  live,     \* the servers that have not failed
  acked     \* the orders answered

vars == <<log, applied, live, acked>>

Entries(s) == {log[s][i] : i \in 1 .. Len(log[s])}

Init ==
  /\ log = [s \in Server |-> <<>>]
  /\ applied = [s \in Server |-> 0]
  /\ live = Server
  /\ acked = {}

(* s applies entries of its log, in order: all of them, or all but the     *)
(* last.                                                                   *)
Apply(s) ==
  \E n \in applied[s] .. Len(log'[s]) :
    /\ Len(log'[s]) <= n + 1
    /\ applied' = [applied EXCEPT ![s] = n]

(* The producer logs a new order once all earlier ones are answered.       *)
Accept(o) ==
  /\ Producer \in live
  /\ Entries(Producer) \subseteq acked /\ o \notin acked
  /\ log' = [log EXCEPT ![Producer] = Append(@, o)]
  /\ Apply(Producer)
  /\ UNCHANGED <<live, acked>>

(* A live server copies the next entry of the producer's log.              *)
Copy(s) ==
  /\ s \in live /\ Len(log[s]) < Len(log[Producer])
  /\ log' = [log EXCEPT ![s] = Append(@, log[Producer][Len(log[s]) + 1])]
  /\ Apply(s)
  /\ UNCHANGED <<live, acked>>

(* The last order is answered: every live server has it.                   *)
Answer ==
  /\ Producer \in live /\ log[Producer] # <<>>
  /\ \A s \in live : log[s] = log[Producer]
  /\ acked' = acked \cup {log[Producer][Len(log[Producer])]}
  /\ applied' = [applied EXCEPT ![Producer] = Len(log[Producer])]
  /\ UNCHANGED <<log, live>>

Fail(s) ==
  /\ live' = live \ {s}
  /\ UNCHANGED <<log, applied, acked>>

Next ==
  \/ \E o \in Command : Accept(o)
  \/ \E s \in Server : Copy(s) \/ Fail(s)
  \/ Answer

Spec == Init /\ [][Next]_vars
-----------------------------------------------------------------------------
(* Every variable has its type.                                            *)
TypeOK ==
  /\ log \in [Server -> Seq(Command)]
  /\ applied \in [Server -> Nat]
  /\ live \subseteq Server
  /\ acked \subseteq Command

(* Every log is the producer's, up to some point, and a live server is at  *)
(* most one entry behind.                                                  *)
Agreement ==
  \A s \in Server :
    /\ Len(log[s]) <= Len(log[Producer])
    /\ \A i \in 1 .. Len(log[s]) : log[s][i] = log[Producer][i]
    /\ s \in live => Len(log[Producer]) <= Len(log[s]) + 1

(* An answered order is in the log of every live server.                   *)
Durable == \A s \in live : acked \subseteq Entries(s)

(* What a live server reports is at most one order older than its log.     *)
Fresh ==
  \A s \in live : applied[s] <= Len(log[s]) /\ Len(log[s]) <= applied[s] + 1

(* Once the last order is answered nobody is behind: what makes the next   *)
(* order safe to accept.                                                   *)
Settled ==
  Entries(Producer) \subseteq acked =>
    \A s \in live : Len(log[s]) = Len(log[Producer])

(* The three together: what a cluster with one production server promises. *)
Safety == Agreement /\ Durable /\ Fresh
=============================================================================
