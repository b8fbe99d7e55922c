---------------------------- MODULE MCLoadFactory ----------------------------
(* Constant values for checking LoadFactory with up to three servers.      *)
EXTENDS LoadFactory

CONSTANTS s1, s2, s3

Servers2 == <<s1, s2>>
Servers3 == <<s1, s2, s3>>

(* A bound: customer 0 orders up to NumOrders times, customer 1 once at    *)
(* any time, and customer 2 once before them; and what comes after the     *)
(* logs have come apart is left out.                                       *)
FewOrders ==
  /\ cluster # "apart"
  /\ sent[1] <= 1 /\ sent[2] <= 1
  /\ sent[0] + sent[1] > 0 => answered[2] = 0
=============================================================================
