---------------------------- MODULE MCConnections ----------------------------
(* Constant values for checking Connections: a server with the peers p and *)
(* q, of which q may be down from the start.                               *)
EXTENDS Connections

CONSTANTS p, q

MCSocket == Conn \cup Stub
MCThread == Conn \cup {Expert}
PeersPQ  == <<p, q>>

\* Threads of clients started with request types 1, 3, 0, 7 and 4.
CustomerTypes == 0 :> 1 @@ 1 :> 3 @@ 2 :> 0 @@ 3 :> 7 @@ 4 :> 4
C(i) == <<"customer", i>>
R(k) == <<"replication", k>>

\* An order and a read, the two customers dying at any moment; an order whose
\* peers die at any moment; a recovering server; a server that replicates to
\* this one; and customers of the other types.
Customers == [connects |-> {C(0), C(1)}, dies |-> {C(0), C(1)}]
PeersDie  == [connects |-> {C(0)}, dies |-> {p, q}]
Recovers  == [connects |-> {Recovery, C(1)}, dies |-> {Recovery}]
Backup    == [connects |-> {R(0)}, dies |-> {R(0)}]
Others    == [connects |-> {C(2), C(3)}, dies |-> {C(2)}]
Readers   == [connects |-> {C(4)}, dies |-> {}]
AllScenarios == {Customers, PeersDie, Recovers, Backup, Others, Readers}

\* An order replicated by another server, and a customer of this one.
BackupAndCustomer == {[connects |-> {R(0), C(0)}, dies |-> {}]}
=============================================================================
