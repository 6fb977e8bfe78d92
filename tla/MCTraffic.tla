------------------------------ MODULE MCTraffic ------------------------------
(***************************************************************************)
(* Small instances of module Traffic: one user; a stream and a packet      *)
(* connection, or two streams; all of them on the first node.              *)
(***************************************************************************)
EXTENDS Traffic, TLC

CONSTANTS n1, n2, u1, c1, c2, p1

OneStream == {c1}
TwoStreams == {c1, c2}
StreamAndPacket == {c1, p1}

SameNode == [c \in Conns |-> n1]
UserOfOne == [c \in Conns |-> u1]
=============================================================================
