----------------------------- MODULE MCAzureStore -----------------------------
(***************************************************************************)
(* An instance of the Azure backend for TLC: a model X with a config and a *)
(* file of version 1, a version 2 to come, and a free name Y.              *)
(***************************************************************************)
EXTENDS AzureStore, TLC

CONSTANTS X, Y, Conf, F1, F2

MCNames == {X, Y}
MCFiles == {Conf, F1, F2}
MCVersionOf == F1 :> 1 @@ F2 :> 2
MCRegistered == {X}
MCShipped == {Conf, F1}
=============================================================================
