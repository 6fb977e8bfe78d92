---------------------------- MODULE MCUserStore ----------------------------
(***************************************************************************)
(* Small instances of module UserStore.                                    *)
(***************************************************************************)
EXTENDS UserStore, TLC

CONSTANTS u1, u2, n1, n2, s1, s2, c1, c2

\* Two lists that agree on the limit of the user they share.
StableLists == {(u1 :> 1), (u1 :> 1) @@ (u2 :> 0)}
OneDevice == {(u1 :> 1)}
DisjointLists == {(u1 :> 0), (u2 :> 0)}
SourceSymmetry == Permutations(Sources) \cup Permutations(Conns)
=============================================================================
