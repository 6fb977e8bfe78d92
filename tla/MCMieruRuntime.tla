--------------------------- MODULE MCMieruRuntime ---------------------------
(***************************************************************************)
(* A small instance of module MieruRuntime.                                *)
(***************************************************************************)
EXTENDS MieruRuntime, TLC

CONSTANTS c1, c2, p1

OneOfEach == (c1 :> "connect") @@ (c2 :> "bind") @@ (p1 :> "associate")
=============================================================================
