------------------------------ MODULE MCSystem -------------------------------
(* Constant values for checking System with two and three servers.         *)
EXTENDS System, TLC

CONSTANTS s1, s2, s3

Peers2   == s1 :> <<s2>> @@ s2 :> <<s1>>
Peers3   == s1 :> <<s2, s3>> @@ s2 :> <<s1, s3>> @@ s3 :> <<s1, s2>>
Servers2 == <<s1, s2>>
Servers3 == <<s1, s2, s3>>
=============================================================================
