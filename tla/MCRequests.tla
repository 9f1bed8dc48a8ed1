------------------------------ MODULE MCRequests ------------------------------
EXTENDS Requests, TLC
CONSTANTS k1, k2, k3

\* A sale, an order that only its charge protects, and a disposal.
OneOfEach == k1 :> "LOOKS" @@ k2 :> "SPENDS" @@ k3 :> "CONSUMES"
===============================================================================
