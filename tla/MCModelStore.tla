----------------------------- MODULE MCModelStore -----------------------------
(***************************************************************************)
(* Instances of the model registry for TLC: a model X that is registered   *)
(* and a name Y that is free.  One bundle holds a version 0.               *)
(***************************************************************************)
EXTENDS ModelStore

CONSTANTS X, Y

MCNames == {X, Y}
MCRegistered == {X}
MCShipped == {1}
MCBundles == {<<{X}, {1, 2}>>, <<{X, Y}, {2}>>, <<{X}, {0}>>}
=============================================================================
