---------------------------- MODULE MCMouseRead ----------------------------
(* TLC instance of MouseRead: two reads of different addresses and a write. *)
EXTENDS MouseRead

CONSTANTS c1, c2, c3

MCCommand == [c \in {c1, c2, c3} |-> IF c = c3 THEN "write" ELSE "read"]
MCAddress == [c \in {c1, c2, c3} |-> IF c = c1 THEN 169 ELSE 171]
=============================================================================
