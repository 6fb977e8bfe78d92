----------------------------- MODULE MCNodeSync -----------------------------
(***************************************************************************)
(* Small instances of module NodeSync: two configurations, two user lists. *)
(* At most two instances are open at a time; a third identity shows a leak.*)
(***************************************************************************)
EXTENDS NodeSync

CONSTANTS c1, c2, bad, u1, u2, i1, i2, i3

AllOrRecoverable == {{"config", "users", "create", "start", "reload"}, {"config", "reload"}}
UsersOnly == {{"users"}}
=============================================================================
