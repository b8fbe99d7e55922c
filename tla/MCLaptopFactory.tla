--------------------------- MODULE MCLaptopFactory ---------------------------
(* Constant values for checking LaptopFactory on clusters of 2 and 3.      *)
EXTENDS LaptopFactory, TLC

CONSTANTS s1, s2, s3

Peers2 == s1 :> <<s2>> @@ s2 :> <<s1>>
Peers3 == s1 :> <<s2, s3>> @@ s2 :> <<s1, s3>> @@ s3 :> <<s1, s2>>
=============================================================================
