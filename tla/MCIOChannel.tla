---------------------------- MODULE MCIOChannel ----------------------------
(* Instances of IOChannel for TLC: the read r may have a partial result, the  *)
(* write w has none.                                                          *)
EXTENDS IOChannel

CONSTANTS c1, c2, r, w, b

OnePart == [o \in Ops |-> IF o = r THEN 1 ELSE 0]
=============================================================================
