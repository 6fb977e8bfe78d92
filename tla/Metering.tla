------------------------------ MODULE Metering ------------------------------
(***************************************************************************)
(* What traffic reporting promises, without connections, flushers or HTTP: *)
(* a byte entered in the ledger of a node is billed once.  unbilled is     *)
(* what the node still owes the panel, billed what the panel has been told.*)
(***************************************************************************)
EXTENDS Integers

CONSTANTS Nodes, Users

VARIABLES unbilled, billed

vars == <<unbilled, billed>>

Ledger == [Nodes -> [Users -> Nat]]

Init ==
  /\ unbilled = [n \in Nodes |-> [u \in Users |-> 0]]
  /\ billed = [n \in Nodes |-> [u \in Users |-> 0]]

\* Traffic of one user on one node is entered in the ledger.
Meter(n, u) ==
  /\ unbilled' \in Ledger
  /\ unbilled'[n][u] > unbilled[n][u]
  /\ \A m \in Nodes, v \in Users : <<m, v>> # <<n, u>> => unbilled'[m][v] = unbilled[m][v]
  /\ UNCHANGED billed

\* One report of node n bills some of what its users owe, and exactly that.
Bill(n) ==
  /\ unbilled' \in Ledger
  /\ billed' \in Ledger
  /\ \A u \in Users :
        /\ unbilled'[n][u] <= unbilled[n][u]
        /\ billed'[n][u] - billed[n][u] = unbilled[n][u] - unbilled'[n][u]
  /\ \A m \in Nodes \ {n} : unbilled'[m] = unbilled[m] /\ billed'[m] = billed[m]

Next == \E n \in Nodes : Bill(n) \/ \E u \in Users : Meter(n, u)

Spec == Init /\ [][Next]_vars
=============================================================================
