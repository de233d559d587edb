---------------------------- MODULE MCOnceToken ----------------------------
(* Instances of OnceToken for TLC: calls k1 to k3 by threads of the program,  *)
(* n1 made from inside the callable of k1 and n2 from inside that of k2.      *)
EXTENDS OnceToken

CONSTANTS k1, k2, k3, n1, n2, f, g

NestedCalls ==
    [k \in Calls |-> IF k = n1 THEN k1 ELSE IF k = n2 THEN k2 ELSE NoOne]
ByThread == [k \in Calls |-> IF k \in {k1, n2} THEN f ELSE g]
=============================================================================
