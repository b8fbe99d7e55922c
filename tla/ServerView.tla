------------------------------ MODULE ServerView -----------------------------
(***************************************************************************)
(* What the load balancer sees of the servers when it reads a record, in   *)
(* System, against what LoadFactory assumes of it.  LoadFactory keeps the  *)
(* orders that experts have taken and, for every server, how many of them  *)
(* its record shows; here the first is kept beside System's steps, and the *)
(* second is compared with customer_record.                                *)
(*                                                                         *)
(* history, producer and cluster are LoadFactory's, and so is the moment   *)
(* at which each changes: an order is sent (LbSend), taken (ExpertTake),   *)
(* executed (ExpertFinish), and a server dies (Crash).                     *)
(***************************************************************************)
EXTENDS System

VARIABLES history, producer, cluster

viewvars == <<allvars, history, producer, cluster>>

Live == {s \in Server : Up(s)}

\* The orders that a live server has been sent and has not executed.
OnWay == {c \in Customer : at[c] # NoServer}

\* The customers whose order this step sends, the servers whose expert takes
\* one, and the servers that die in it.
Sends == {c \in OnWay' : at[c] = NoServer}
Takes == {s \in Server : ~Locked(s) /\ Locked(s)'}
Dies  == Live \ Live'

ViewInit ==
  /\ SystemInit
  /\ history = <<>> /\ producer = NoServer /\ cluster = "agreed"

(* The logs come apart for good: an order is sent after a death that left  *)
(* them open or to a second live server, or a server dies that is not the  *)
(* only one with orders on their way.                                      *)
ComeApart ==
  \/ Sends # {} /\ (cluster = "split" \/ producer \in Live \ {producer'})
  \/ Dies # {} /\ ~ \A c \in OnWay : cluster = "agreed" /\ at[c] \in Dies

\* Nothing is claimed once the logs are apart, and history is given up.
ViewNext ==
  /\ SystemNext
  /\ producer' = IF Sends = {} THEN producer
                 ELSE at'[CHOOSE c \in Sends : TRUE]
  /\ cluster' = IF cluster = "apart" \/ ComeApart THEN "apart"
                ELSE IF Dies # {} /\ OnWay # {} THEN "split" ELSE cluster
  /\ history' = IF cluster' = "apart" THEN <<>>
                ELSE IF Takes = {} THEN history
                ELSE Append(history, expert'[CHOOSE s \in Takes : TRUE].op)

ViewSpec == ViewInit /\ [][ViewNext]_viewvars
FairView == ViewSpec /\ SystemFairness
-----------------------------------------------------------------------------
\* LoadFactory's Record, in the orders of LaptopFactory.
Record(k, id) ==
  LET writes == {i \in 1 .. k : history[i].arg1 = id}
  IN  IF writes = {} THEN -1 ELSE history[Max(writes)].arg2

\* Server s would report, for every customer, the record after k orders.
Shows(s, k) == \A id \in Customer : customer_record[s][id] = Record(k, id)

(* Until the logs come apart, a server that can be asked (nobody holds its *)
(* cr_lock) shows all the orders taken, or all but the last one; and all   *)
(* but the last two only while the last one is in execution or its server  *)
(* has died over it.  This is what LoadFactory's applied stands for.       *)
RecordsAsAssumed ==
  cluster # "apart" =>
    \A s \in Server : Up(s) /\ ~Locked(s) =>
      \E k \in Len(history) - 2 .. Len(history) :
        /\ k >= 0 /\ Shows(s, k)
        /\ k = Len(history) - 2 =>
             cluster = "split" \/ \E r \in Server : Locked(r)
=============================================================================
