------------------------------- MODULE ImageLife ------------------------------
(***************************************************************************)
(* What the build path promises to everyone who reads service_images: the  *)
(* status of a managed image as observe() sees it (PENDING and BUILDING    *)
(* are both "a build is on its way") only takes these steps, and a row     *)
(* never stays pending for good.  The Reconciler relies on nothing else.   *)
(***************************************************************************)
CONSTANT Images
VARIABLE status

Init == status = [h \in Images |-> "absent"]

Moves(h, from, to) ==
    /\ status[h] \in from
    /\ \E next \in to : status' = [status EXCEPT ![h] = next]

Resolved(h)   == Moves(h, {"absent"}, {"pending"})
Settled(h)    == Moves(h, {"pending"}, {"ready", "failed"})
Restarted(h)  == Moves(h, {"failed"}, {"pending"})
Overturned(h) == Moves(h, {"ready"}, {"pending", "failed"})

(* One reaper pass may settle several rows at once.                        *)
Swept ==
    \E S \in SUBSET {h \in Images : status[h] = "pending"} :
        status' = [h \in Images |-> IF h \in S THEN "failed" ELSE status[h]]

Next ==
    \/ Swept
    \/ \E h \in Images : Resolved(h) \/ Settled(h) \/ Restarted(h) \/ Overturned(h)

Spec == Init /\ [][Next]_status

(* Nothing is asked of a pending row but that it does not stay so.         *)
FairSpec == Spec /\ \A h \in Images : WF_status(Settled(h))
=============================================================================
