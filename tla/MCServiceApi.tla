----------------------------- MODULE MCServiceApi -----------------------------
(***************************************************************************)
(* An instance of the service API for TLC: a service X that is there, a    *)
(* name Y that is free, and asks for more than one GPU and for part of one *)
(* (0.55, which the code rounds up to 56 hundredths).                      *)
(***************************************************************************)
EXTENDS ServiceApi, TLC

CONSTANTS X, Y, M1, M2, D1, D2, D3, W1, W2

MCNames == {X, Y}
MCFirst == [name |-> X, ask |-> [models |-> {M1}, gpus |-> 55]]
MCAsks == {[models |-> {M1}, gpus |-> 55], [models |-> {M2}, gpus |-> 150]}
MCDevices == {D1, D2, D3}
MCModels == {M1, M2}
MCWorkers == {W1, W2}
MCSymmetry == Permutations(MCDevices) \cup Permutations(MCWorkers)
=============================================================================
