------------------------------- MODULE MCAccess -------------------------------
(***************************************************************************)
(* An instance of the API keys for TLC: a service X, which a second may    *)
(* join or succeed; an admin's key, a service key attached to the first,   *)
(* and a key still to be made.                                             *)
(***************************************************************************)
EXTENDS Access, TLC

CONSTANTS X, Y, Root, Caller, Fresh, A1, A2

MCNames == {X, Y}
MCKeys == {Root, Caller, Fresh}
MCStarting == 1 :> X
MCGranted == Root :> "admin" @@ Caller :> "service"
MCAttached == {<<Caller, 1>>}
MCHandlers == {A1, A2}
MCSymmetry == Permutations(MCHandlers)
=============================================================================
