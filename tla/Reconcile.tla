------------------------------ MODULE Reconcile ------------------------------
(***************************************************************************)
(* The pure part of reconciliation: the fact one look at the image row and *)
(* at the Docker daemon establishes (observe.py) and the matrix that maps  *)
(* intent, fact, scale and budget to one action (reconcile.py).  Nothing   *)
(* here has state; Reconciler runs these operators inside its pass.        *)
(***************************************************************************)
EXTENDS Naturals

DesiredState == {"available", "suspended", "retired"}

RuntimeStatus == {"ready", "warming", "idle", "recovering", "failed",
                  "suspended", "retired"}

(* PENDING and BUILDING are one value here: both mean "a build is on its   *)
(* way".  A service on an unmanaged image counts as "ready".               *)
ImageStatus == {"pending", "ready", "failed"}

ObservedState == {"running", "booting", "created", "exited_ok", "crashed",
                  "absent", "image_missing", "image_pending", "image_failed"}

Action == {"none", "start", "recreate", "stop", "remove", "pull", "finalize",
           "mark_failed"}

Decision == [action: Action, status: RuntimeStatus,
             increment_attempt: BOOLEAN, reset_attempts: BOOLEAN]

(* What Docker can hold under a service's name.  "up" and "unhealthy" are  *)
(* both running processes; they differ in what the healthcheck says.       *)
ContainerState == {"none", "created", "booting", "up", "unhealthy",
                   "exited", "crashed"}

(***************************************************************************)
(* Observation                                                             *)
(***************************************************************************)

(* Mutant: a never-started shell passes for a container that boots.        *)
ContainerFactShellBoots(state) ==
    CASE state = "up"                        -> "running"
      [] state \in {"booting", "created"}    -> "booting"
      [] state = "exited"                    -> "exited_ok"
      [] state \in {"unhealthy", "crashed"}  -> "crashed"

(* The verdict on a container that exists.  An unhealthy container is      *)
(* reported CRASHED although its process is still there.                   *)
ContainerFact(state) ==
    CASE state = "up"                        -> "running"
      [] state = "booting"                   -> "booting"
      [] state = "created"                   -> "created"
      [] state = "exited"                    -> "exited_ok"
      [] state \in {"unhealthy", "crashed"}  -> "crashed"

(* The image row is consulted first and hides the daemon.                  *)
Observed(image, state, imagePresent) ==
    CASE image = "pending" -> "image_pending"
      [] image = "failed"  -> "image_failed"
      [] image = "ready" /\ state = "none" ->
            IF imagePresent THEN "absent" ELSE "image_missing"
      [] image = "ready" /\ state # "none" -> ContainerFact(state)

(* The label is only compared when a container was looked up.              *)
Drifted(image, state, label, spec) ==
    image = "ready" /\ state # "none" /\ label # spec

(***************************************************************************)
(* Decision                                                                *)
(***************************************************************************)

Do(action, status) ==
    [action |-> action, status |-> status,
     increment_attempt |-> FALSE, reset_attempts |-> FALSE]

Spending(decision) == [decision EXCEPT !.increment_attempt = TRUE]

Resetting(decision) == [decision EXCEPT !.reset_attempts = TRUE]

(* Mutant: a spent budget only refuses what is seen crashing.              *)
RefusedOnlyCrashed(observed, exhausted) ==
    observed = "image_failed" \/ (exhausted /\ observed = "crashed")

(* A failed build, or a spent budget on a service that is neither up nor   *)
(* waiting for a build.                                                    *)
Refused(observed, exhausted) ==
    \/ observed = "image_failed"
    \/ exhausted /\ observed \notin {"running", "booting", "image_pending"}

ScaledDown(observed, refused) ==
    LET status == IF refused THEN "failed" ELSE "idle"
    IN  CASE observed \in {"running", "booting"} -> Do("stop", status)
          [] observed = "created"                -> Do("remove", status)
          [] OTHER                               -> Do("none", status)

BringUp(observed) ==
    CASE observed = "running"                      -> Do("none", "ready")
      [] observed \in {"booting", "image_pending"} -> Do("none", "warming")
      [] observed = "exited_ok"                    -> Do("start", "warming")
      [] observed = "absent"                       -> Do("recreate", "warming")
      [] observed \in {"crashed", "created"}       -> Spending(Do("recreate", "recovering"))
      [] observed = "image_missing"                -> Spending(Do("pull", "warming"))

Available(observed, drifted, target, exhausted) ==
    LET refused == Refused(observed, exhausted)
    IN  CASE target = 0 -> ScaledDown(observed, refused)
          [] target # 0 /\ drifted /\ observed \notin {"image_pending", "image_failed"} ->
                Resetting(Do("recreate", "warming"))
          [] target # 0 /\ ~(drifted /\ observed \notin {"image_pending", "image_failed"}) ->
                IF refused THEN Do("mark_failed", "failed") ELSE BringUp(observed)

Suspended(observed) ==
    CASE observed \in {"running", "booting"} -> Do("stop", "suspended")
      [] observed = "created"                -> Do("remove", "suspended")
      [] OTHER                               -> Do("none", "suspended")

(* Mutant: containers that are already stopped are left behind.            *)
RetiredStopsOnly(observed) ==
    IF observed \in {"running", "booting", "created"}
    THEN Do("remove", "retired")
    ELSE Do("finalize", "retired")

Retired(observed) ==
    IF observed \in {"running", "booting", "exited_ok", "crashed", "created"}
    THEN Do("remove", "retired")
    ELSE Do("finalize", "retired")

Decide(desired, observed, drifted, target, exhausted) ==
    CASE desired = "available" -> Available(observed, drifted, target, exhausted)
      [] desired = "suspended" -> Suspended(observed)
      [] desired = "retired"   -> Retired(observed)

=============================================================================
