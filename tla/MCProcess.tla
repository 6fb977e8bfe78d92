----------------------------- MODULE MCProcess ------------------------------
(* A small instance of Process: two enabled nodes and a disabled one.      *)
EXTENDS Process, TLC

CONSTANTS n1, n2, n3

MCNodes == {n1, n2, n3}
MCEnabled == {n1, n2}
=============================================================================
