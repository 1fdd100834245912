------------------------------ MODULE Reconciler -----------------------------
(***************************************************************************)
(* The reconciliation loop of triton-serve: the Celery task                *)
(* update_service_status drives every service row towards the container    *)
(* its operator asked for, while request handlers, the image builder and   *)
(* Docker itself change rows and containers under it.                      *)
(*                                                                         *)
(* A pass holds the advisory lock, loads every unretired row at once and   *)
(* then works from those loaded copies, one service after another:         *)
(* observe and decide, act on Docker, commit.  A commit writes only the    *)
(* columns whose value differs from the copy, so what a handler committed  *)
(* in between survives unless both wrote the same column.                  *)
(***************************************************************************)
EXTENDS Reconcile, FiniteSets

CONSTANTS
    Services,      \* service rows, ids are never reused
    NameOf,        \* the service_name of each row; a deleted row frees its name
    Clients,       \* request handlers that may be in flight at the same time
    Specs,         \* container specs a row can ask for, told apart by fingerprint
    NoSpec,        \* the label of a name that holds no container
    MaxAttempts,   \* settings.service_max_restart_attempts
    AttemptCap,    \* bound: restart_attempts is not counted beyond it
    Window,        \* inactivity_timeout, in ticks of the activity clock
    MaxChanges,    \* bound: mutating requests in a behaviour
    MaxFaults,     \* bound: faults in a behaviour
    Operations,    \* the mutating endpoints in play
    FaultKinds,    \* the faults in play
    Expired, Nobody, NoRequest  \* "attribute expired", "no subject", "idle handler"

Names == {NameOf[s] : s \in Services}
AllOperations == {"suspend", "resume", "retry", "delete", "edit"}
AllFaults == {"exit", "crash", "vanish", "unhealthy", "no_image", "build",
              "docker", "worker"}

(* When last_attempt_at lies: unset, inside the backoff, past the backoff, *)
(* past service_restart_cooldown.  _backoff_seconds is capped by that same *)
(* setting, so the grades are passed in this order.                        *)
Stamp == {"unset", "hot", "cool", "old"}

Row == [desired: DesiredState, deleted: BOOLEAN, status: RuntimeStatus,
        attempts: 0 .. AttemptCap, stamp: Stamp, window: 0 .. Window,
        spec: Specs, image: ImageStatus]

Request == [op: AllOperations, service: Services, read: Row]

ASSUME CountsAssumption ==
    /\ MaxAttempts \in Nat /\ AttemptCap \in Nat /\ MaxAttempts < AttemptCap
    /\ Window \in Nat /\ MaxChanges \in Nat /\ MaxFaults \in Nat
ASSUME NamesAssumption == DOMAIN NameOf = Services
ASSUME SetsAssumption ==
    /\ Specs # {} /\ NoSpec \notin Specs
    /\ Operations \subseteq AllOperations /\ FaultKinds \subseteq AllFaults
ASSUME MarkersAssumption ==
    Expired \notin Row /\ Nobody \notin Services /\ NoRequest \notin Request

VARIABLES
    known,         \* rows that exist
    rows,          \* the services table (and the status of the row's image)
    container,     \* what Docker holds under each name
    imagePresent,  \* whether the row's image is on the daemon
    pc,            \* the reconciler task: idle, scan, act, commit, undo
    todo,          \* services the pass has yet to handle
    loaded,        \* the pass's copies of the rows; Expired after a rollback
    subject,       \* the service in hand
    decision,      \* what was decided for it
    request,       \* the handlers in flight, each with the row it has read
    changes, faults, \* counters behind MaxChanges and MaxFaults
    pulled         \* history: rows whose last attempt was a pull that succeeded

taskVars == <<pc, todo, loaded, subject, decision>>
envVars == <<known, request, changes, pulled>>
vars == <<known, rows, container, imagePresent, pc, todo, loaded, subject,
          decision, request, changes, faults, pulled>>

NoContainer == [state |-> "none", spec |-> NoSpec]
Container == [state: ContainerState, spec: Specs \cup {NoSpec}]
Idle == Do("none", "idle")
BringUpActions == {"recreate", "pull", "start"}
Live(state) == state \in {"booting", "up", "unhealthy"}

Of(s) == container[NameOf[s]]

-----------------------------------------------------------------------------
(* Writing a row *)

(* A column is written when the new value differs from the one read.       *)
Column(now, read, new) == IF new # read THEN new ELSE now

(* The row after an ORM commit of new by a session that had loaded read.   *)
(* A timestamp in stamped was set to the present and always differs.       *)
Saved(now, read, new, stamped) ==
    [desired  |-> Column(now.desired, read.desired, new.desired),
     deleted  |-> Column(now.deleted, read.deleted, new.deleted),
     status   |-> Column(now.status, read.status, new.status),
     attempts |-> Column(now.attempts, read.attempts, new.attempts),
     stamp    |-> IF "stamp" \in stamped THEN "hot"
                  ELSE Column(now.stamp, read.stamp, new.stamp),
     window   |-> IF "window" \in stamped THEN Window ELSE now.window,
     spec     |-> Column(now.spec, read.spec, new.spec),
     image    |-> Column(now.image, read.image, new.image)]

Spent(row) ==
    [row EXCEPT !.attempts = IF @ < AttemptCap THEN @ + 1 ELSE @,
                !.stamp = "hot"]

BudgetReturned(row) == [row EXCEPT !.attempts = 0, !.stamp = "unset"]

(* Mutant: the budget comes back without waiting for the cooldown.         *)
EarnsBudgetAtOnce(row) == row.attempts > 0

(* A READY service whose last attempt is older than the cooldown.          *)
EarnsBudget(row) == row.attempts > 0 /\ row.stamp = "old"

(* What execute() leaves on its copy of the row once the action succeeded. *)
Projected(row, d) ==
    LET budgeted ==
            CASE d.increment_attempt -> Spent(row)
              [] ~d.increment_attempt /\ d.reset_attempts -> BudgetReturned(row)
              [] ~d.increment_attempt /\ ~d.reset_attempts ->
                    IF d.status = "ready" /\ EarnsBudget(row)
                    THEN BudgetReturned(row) ELSE row
    IN  [budgeted EXCEPT !.status = d.status]

(* Mutant: a failed bring-up is counted but does not enter the backoff.    *)
ChargedNotGated(row) == Spent(row)

(* What it leaves when a bring-up raised.                                  *)
Charged(row) == [Spent(row) EXCEPT !.status = "recovering"]

-----------------------------------------------------------------------------
(* Whether an image a row newly points at is already on the daemon.        *)
Presence == IF "no_image" \in FaultKinds THEN BOOLEAN ELSE {TRUE}

(* A row before its service is created, when the spec and image are set.   *)
Unborn ==
    [desired |-> "available", deleted |-> FALSE, status |-> "warming", attempts |-> 0,
     stamp |-> "unset", window |-> Window, spec |-> CHOOSE spec \in Specs : TRUE,
     image |-> "ready"]

Init ==
    /\ known = {}
    /\ rows = [s \in Services |-> Unborn]
    /\ container = [n \in Names |-> NoContainer]
    /\ imagePresent = [s \in Services |-> TRUE]
    /\ pc = "idle" /\ todo = {} /\ subject = Nobody /\ decision = Idle
    /\ loaded = [s \in Services |-> Expired]
    /\ request = [c \in Clients |-> NoRequest]
    /\ changes = 0 /\ faults = 0
    /\ pulled = [s \in Services |-> FALSE]

Fault(kind) ==
    /\ kind \in FaultKinds /\ faults < MaxFaults
    /\ faults' = faults + 1

-----------------------------------------------------------------------------
(* The pass *)

(* Mutant: every row is loaded, tombstones included.                       *)
BeginPassAllRows ==
    /\ pc = "idle" /\ known # {}
    /\ todo' = known
    /\ loaded' = [s \in Services |-> IF s \in known THEN rows[s] ELSE Expired]
    /\ pc' = "scan"
    /\ UNCHANGED <<rows, container, imagePresent, subject, decision, envVars, faults>>

(* Mutant: deleted rows are not loaded.                                    *)
BeginPassLiveRows ==
    /\ pc = "idle"
    /\ todo' = {s \in known : rows[s].status # "retired" /\ ~rows[s].deleted}
    /\ todo' # {}
    /\ loaded' = [s \in Services |-> IF s \in todo' THEN rows[s] ELSE Expired]
    /\ pc' = "scan"
    /\ UNCHANGED <<rows, container, imagePresent, subject, decision, envVars, faults>>

(* The lock is taken and every row that is not retired is loaded.          *)
BeginPass ==
    /\ pc = "idle"
    /\ todo' = {s \in known : rows[s].status # "retired"}
    /\ todo' # {}
    /\ loaded' = [s \in Services |-> IF s \in todo' THEN rows[s] ELSE Expired]
    /\ pc' = "scan"
    /\ UNCHANGED <<rows, container, imagePresent, subject, decision, envVars, faults>>

(* The session's copy of a row; an expired one is read again on access.    *)
Copy(s) == IF loaded[s] = Expired THEN rows[s] ELSE loaded[s]

(* Mutant: the age of the last attempt is not looked at.                   *)
InBackoffForGood(row) == row.status = "recovering" /\ row.attempts > 0

InBackoff(row) ==
    row.status = "recovering" /\ row.attempts > 0 /\ row.stamp = "hot"

(* Mutant: the boundary of the inactivity window is on the wrong side.     *)
ReplicaTargetInclusive(row) == IF row.window >= 0 THEN 1 ELSE 0

ReplicaTarget(row) == IF row.window > 0 THEN 1 ELSE 0

SkipBackoff(s) ==
    /\ pc = "scan" /\ s \in todo /\ InBackoff(Copy(s))
    /\ todo' = todo \ {s}
    /\ loaded' = [loaded EXCEPT ![s] = Expired]
    /\ UNCHANGED <<rows, container, imagePresent, pc, subject, decision, envVars, faults>>

DecisionFor(s, row) ==
    Decide(row.desired,
           Observed(row.image, Of(s).state, imagePresent[s]),
           Drifted(row.image, Of(s).state, Of(s).spec, row.spec),
           IF row.desired = "available" THEN ReplicaTarget(row) ELSE 0,
           row.attempts >= MaxAttempts)

(* Observe Docker and decide from the copy.  Actions without a Docker call *)
(* go straight to the commit.                                              *)
ObserveAndDecide(s) ==
    /\ pc = "scan" /\ s \in todo /\ ~InBackoff(Copy(s))
    /\ subject' = s
    /\ decision' = DecisionFor(s, Copy(s))
    /\ loaded' = [loaded EXCEPT ![s] = Copy(s)]
    /\ todo' = todo \ {s}
    /\ pc' = IF decision'.action \in {"none", "finalize", "mark_failed"}
             THEN "commit" ELSE "act"
    /\ UNCHANGED <<rows, container, imagePresent, envVars, faults>>

(* The daemon errors during the observation: rolled back, next service.    *)
ObserveFails(s) ==
    /\ pc = "scan" /\ s \in todo /\ ~InBackoff(Copy(s)) /\ Copy(s).image = "ready"
    /\ Fault("docker")
    /\ todo' = todo \ {s}
    /\ loaded' = [t \in Services |-> Expired]
    /\ UNCHANGED <<rows, container, imagePresent, pc, subject, decision, envVars>>

Stopped(c) == [c EXCEPT !.state = IF Live(@) THEN "exited" ELSE @]
Started(c) == [c EXCEPT !.state = IF Live(@) THEN @ ELSE "booting"]

(* STOP and REMOVE look the container up by name and tolerate its absence. *)
StopContainer ==
    /\ pc = "act" /\ decision.action = "stop"
    /\ container' = [container EXCEPT ![NameOf[subject]] = Stopped(@)]
    /\ pc' = "commit"
    /\ UNCHANGED <<rows, imagePresent, todo, loaded, subject, decision, envVars, faults>>

RemoveContainer ==
    /\ pc = "act" /\ decision.action = "remove"
    /\ container' = [container EXCEPT ![NameOf[subject]] = NoContainer]
    /\ pc' = "commit"
    /\ UNCHANGED <<rows, imagePresent, todo, loaded, subject, decision, envVars, faults>>

StartContainer ==
    /\ pc = "act" /\ decision.action = "start" /\ Of(subject).state # "none"
    /\ container' = [container EXCEPT ![NameOf[subject]] = Started(@)]
    /\ pc' = "commit"
    /\ UNCHANGED <<rows, imagePresent, todo, loaded, subject, decision, envVars, faults>>

Recreates ==
    \/ decision.action \in {"recreate", "pull"}
    \/ decision.action = "start" /\ Of(subject).state = "none"

(* Remove what holds the name, get the image, run a container labelled     *)
(* with the spec of the copy, then commit its id and refresh the copy.     *)
RecreateContainer ==
    /\ pc = "act" /\ Recreates
    /\ container' = [container EXCEPT ![NameOf[subject]] =
                        [state |-> "booting", spec |-> loaded[subject].spec]]
    /\ imagePresent' = [imagePresent EXCEPT ![subject] = TRUE]
    /\ loaded' = [loaded EXCEPT ![subject] = rows[subject]]
    /\ pc' = "commit"
    /\ UNCHANGED <<rows, todo, subject, decision, envVars, faults>>

(* What an action that does not return may leave under the name: the old   *)
(* container; nothing; a shell that was never started; or all it does.     *)
Leftovers ==
    {left \in Container :
        \/ left = Of(subject)
        \/ Recreates /\ left.state \in {"created", "booting"} /\ left.spec = loaded[subject].spec
        \/ (Recreates \/ decision.action = "remove") /\ left = NoContainer
        \/ decision.action = "stop" /\ left = Stopped(Of(subject))
        \/ ~Recreates /\ decision.action = "start" /\ left = Started(Of(subject))}

(* A new container has its image; a recreate that left none may have got   *)
(* as far as the pull.                                                     *)
BreaksOff ==
    \E left \in Leftovers :
        /\ container' = [container EXCEPT ![NameOf[subject]] = left]
        /\ IF Recreates /\ (left = NoContainer \/ left # Of(subject))
           THEN \E present \in {imagePresent[subject], TRUE} :
                   /\ left # NoContainer => present
                   /\ imagePresent' = [imagePresent EXCEPT ![subject] = present]
           ELSE UNCHANGED imagePresent

(* Mutant: after the rollback execution falls through to the projection.   *)
ActionFailsFallsThrough ==
    /\ pc = "act" /\ Fault("docker") /\ BreaksOff
    /\ loaded' = [s \in Services |-> Expired]
    /\ pc' = "commit"
    /\ UNCHANGED <<rows, todo, subject, decision, envVars>>

(* The action raised.  The rollback expires every copy; a bring-up goes on *)
(* to charge an attempt, any other action is simply given up.              *)
ActionFails ==
    /\ pc = "act" /\ Fault("docker") /\ BreaksOff
    /\ loaded' = [s \in Services |-> Expired]
    /\ IF decision.action \in BringUpActions
       THEN pc' = "undo" /\ UNCHANGED <<subject, decision>>
       ELSE pc' = "scan" /\ subject' = Nobody /\ decision' = Idle
    /\ UNCHANGED <<rows, todo, envVars>>

HandDown(copies) ==
    /\ pc' = "scan" /\ subject' = Nobody /\ decision' = Idle
    /\ loaded' = copies

(* The bring-up failed: the attempt is charged to the row as it is now.    *)
ChargeFailure ==
    /\ pc = "undo"
    /\ rows' = [rows EXCEPT ![subject] = Charged(@)]
    /\ pulled' = [pulled EXCEPT ![subject] = FALSE]
    /\ HandDown(loaded)
    /\ UNCHANGED <<known, container, imagePresent, todo, request, changes, faults>>

CommitProjection ==
    /\ pc = "commit"
    /\ rows' = [rows EXCEPT ![subject] =
                   Saved(@, loaded[subject],
                         Projected(loaded[subject], decision),
                         IF decision.increment_attempt THEN {"stamp"} ELSE {})]
    /\ pulled' = [pulled EXCEPT ![subject] =
                     IF decision.increment_attempt THEN decision.action = "pull" ELSE @]
    /\ HandDown([loaded EXCEPT ![subject] = Expired])
    /\ UNCHANGED <<known, container, imagePresent, todo, request, changes, faults>>

EndPass ==
    /\ pc = "scan" /\ todo = {}
    /\ pc' = "idle"
    /\ loaded' = [s \in Services |-> Expired]
    /\ UNCHANGED <<rows, container, imagePresent, todo, subject, decision, envVars, faults>>

(* The worker process dies, perhaps half-way through an action; Postgres   *)
(* drops its lock with the connection.                                     *)
WorkerDies ==
    /\ pc # "idle" /\ Fault("worker")
    /\ pc' = "idle" /\ todo' = {} /\ subject' = Nobody /\ decision' = Idle
    /\ loaded' = [s \in Services |-> Expired]
    /\ IF pc = "act" THEN BreaksOff ELSE UNCHANGED <<container, imagePresent>>
    /\ UNCHANGED <<rows, envVars>>

PassStep ==
    \/ BeginPass \/ EndPass
    \/ \E s \in Services : SkipBackoff(s) \/ ObserveAndDecide(s)
    \/ StopContainer \/ RemoveContainer \/ StartContainer \/ RecreateContainer
    \/ ChargeFailure \/ CommitProjection

PassFault == WorkerDies \/ ActionFails \/ \E s \in Services : ObserveFails(s)

-----------------------------------------------------------------------------
(* Request handlers *)

Unread == UNCHANGED <<container, taskVars, faults, pulled>>

(* The partial unique index: a name has at most one undeleted row.         *)
CreateService(s) ==
    /\ s \notin known
    /\ \A t \in known : NameOf[t] = NameOf[s] => rows[t].deleted
    /\ known' = known \cup {s}
    /\ \E spec \in Specs, image \in ImageStatus :
          rows' = [rows EXCEPT ![s].spec = spec, ![s].image = image]
    /\ \E present \in Presence : imagePresent' = [imagePresent EXCEPT ![s] = present]
    /\ Unread /\ UNCHANGED <<request, changes>>

(* A copy of row with the columns op is about to set; the others never     *)
(* reach its commit.                                                       *)
ReadBy(op, row) ==
    CASE op \in {"suspend", "resume", "delete"} -> [Unborn EXCEPT !.desired = row.desired]
      [] op = "retry" -> [Unborn EXCEPT !.status = row.status, !.attempts = row.attempts,
                                        !.stamp = row.stamp, !.image = row.image]
      [] op = "edit"  -> [Unborn EXCEPT !.spec = row.spec, !.image = row.image]

(* Mutant: deleted rows are handed out like live ones.                     *)
ReadForRequestAny(c, op, s) ==
    /\ request[c] = NoRequest /\ changes < MaxChanges /\ op \in Operations
    /\ s \in known
    /\ request' = [request EXCEPT ![c] =
                      [op |-> op, service |-> s, read |-> ReadBy(op, rows[s])]]
    /\ changes' = changes + 1
    /\ Unread /\ UNCHANGED <<known, rows, imagePresent>>

(* get_service_or_not_found: the handler has its own copy of a live row.   *)
ReadForRequest(c, op, s) ==
    /\ request[c] = NoRequest /\ changes < MaxChanges /\ op \in Operations
    /\ s \in known /\ ~rows[s].deleted
    /\ request' = [request EXCEPT ![c] =
                      [op |-> op, service |-> s, read |-> ReadBy(op, rows[s])]]
    /\ changes' = changes + 1
    /\ Unread /\ UNCHANGED <<known, rows, imagePresent>>

Answered(c) ==
    /\ request' = [request EXCEPT ![c] = NoRequest]
    /\ Unread /\ UNCHANGED <<known, changes>>

Asks(c, op) == request[c] # NoRequest /\ request[c].op = op

Write(c, new, stamped) ==
    rows' = [rows EXCEPT ![request[c].service] =
                Saved(@, request[c].read, new, stamped)]

Suspend(c) ==
    /\ Asks(c, "suspend")
    /\ Write(c, [request[c].read EXCEPT !.desired = "suspended"], {})
    /\ Answered(c) /\ UNCHANGED imagePresent

Resume(c) ==
    /\ Asks(c, "resume")
    /\ Write(c, [request[c].read EXCEPT !.desired = "available"], {"window"})
    /\ Answered(c) /\ UNCHANGED imagePresent

(* A managed image that is not READY is queued again; an unmanaged one is  *)
(* always READY.                                                           *)
Retry(c) ==
    /\ Asks(c, "retry")
    /\ Write(c, [BudgetReturned(request[c].read) EXCEPT
                    !.status = "recovering",
                    !.image = IF @ = "ready" THEN "ready" ELSE "pending"], {"window"})
    /\ Answered(c) /\ UNCHANGED imagePresent

Delete(c) ==
    /\ Asks(c, "delete")
    /\ Write(c, [request[c].read EXCEPT !.deleted = TRUE, !.desired = "retired"], {})
    /\ Answered(c) /\ UNCHANGED imagePresent

(* A new spec may resolve to another image row, in any status, present on  *)
(* the daemon or not.                                                      *)
Edit(c) ==
    /\ Asks(c, "edit")
    /\ \E spec \in Specs, image \in ImageStatus :
          Write(c, [request[c].read EXCEPT !.spec = spec, !.image = image], {})
    /\ \E present \in Presence :
          imagePresent' = [imagePresent EXCEPT ![request[c].service] = present]
    /\ Answered(c)

(* The handler fails before its commit and rolls back.                     *)
GiveUp(c) ==
    /\ request[c] # NoRequest
    /\ Answered(c) /\ UNCHANGED <<rows, imagePresent>>

(* GET /status of a service that is not down for good stamps the activity  *)
(* clock, unless it was stamped so recently that the write is coalesced.   *)
ReachStatus(s) ==
    /\ s \in known /\ ~rows[s].deleted
    /\ rows[s].status \in {"ready", "idle", "warming", "recovering"}
    /\ rows[s].window < Window
    /\ rows' = [rows EXCEPT ![s].window = Window]
    /\ Unread /\ UNCHANGED <<envVars, imagePresent>>

Commit(c) == Suspend(c) \/ Resume(c) \/ Retry(c) \/ Delete(c) \/ Edit(c)

ApiStep ==
    \/ \E s \in Services : CreateService(s) \/ ReachStatus(s)
    \/ \E c \in Clients, op \in AllOperations, s \in Services : ReadForRequest(c, op, s)
    \/ \E c \in Clients : Commit(c) \/ GiveUp(c)

-----------------------------------------------------------------------------
(* Docker, the builder, and time *)

DockerMoves(n, from, to) ==
    /\ container[n].state \in from
    /\ container' = [container EXCEPT ![n].state = to]
    /\ UNCHANGED <<rows, imagePresent, taskVars, envVars>>

BootSucceeds(n) == DockerMoves(n, {"booting"}, "up") /\ UNCHANGED faults
Recovers(n)     == DockerMoves(n, {"unhealthy"}, "up") /\ UNCHANGED faults
Exits(n)        == DockerMoves(n, {"booting", "up"}, "exited") /\ Fault("exit")
Crashes(n)      == DockerMoves(n, {"booting", "up", "unhealthy"}, "crashed") /\ Fault("crash")
TurnsUnhealthy(n) == DockerMoves(n, {"booting", "up"}, "unhealthy") /\ Fault("unhealthy")

Vanishes(n) ==
    /\ container[n].state # "none" /\ Fault("vanish")
    /\ container' = [container EXCEPT ![n] = NoContainer]
    /\ UNCHANGED <<rows, imagePresent, taskVars, envVars>>

ImagePruned(s) ==
    /\ imagePresent[s] /\ Of(s).state = "none" /\ Fault("no_image")
    /\ imagePresent' = [imagePresent EXCEPT ![s] = FALSE]
    /\ UNCHANGED <<rows, container, taskVars, envVars>>

BuildEnds(s, status) ==
    /\ s \in known /\ rows[s].image = "pending"
    /\ rows' = [rows EXCEPT ![s].image = status]
    /\ UNCHANGED <<container, imagePresent, taskVars, envVars>>

BuildSucceeds(s) == BuildEnds(s, "ready") /\ UNCHANGED faults
BuildFails(s)    == BuildEnds(s, "failed") /\ Fault("build")

(* A redelivered message, or /retry of another service on the same image,  *)
(* puts a failed build back to work.                                       *)
BuildRestarts(s) ==
    /\ s \in known /\ rows[s].image = "failed" /\ Fault("build")
    /\ rows' = [rows EXCEPT ![s].image = "pending"]
    /\ UNCHANGED <<container, imagePresent, taskVars, envVars>>

(* A second attempt that overlaps, or a /retry that read the row before    *)
(* the build ended, takes a READY image back (ImageLife!Overturned).       *)
BuildOverturned(s) ==
    /\ s \in known /\ rows[s].image = "ready" /\ Fault("build")
    /\ \E status \in {"pending", "failed"} : rows' = [rows EXCEPT ![s].image = status]
    /\ UNCHANGED <<container, imagePresent, taskVars, envVars>>

(* Time ages a timestamp in the row and in the copy the pass holds of it.  *)
Aged(stamp) ==
    CASE stamp = "hot" -> "cool" [] stamp = "cool" -> "old" [] OTHER -> stamp

AgeCopy(s, row) == IF loaded[s] = Expired THEN loaded ELSE [loaded EXCEPT ![s] = row]

Cool(s) ==
    /\ s \in known /\ rows[s].stamp \in {"hot", "cool"}
    /\ rows' = [rows EXCEPT ![s].stamp = Aged(@)]
    /\ loaded' = AgeCopy(s, [loaded[s] EXCEPT !.stamp = Aged(@)])
    /\ UNCHANGED <<container, imagePresent, pc, todo, subject, decision, envVars, faults>>

Lapse(s) ==
    /\ s \in known /\ rows[s].window > 0
    /\ rows' = [rows EXCEPT ![s].window = @ - 1]
    /\ loaded' = AgeCopy(s, [loaded[s] EXCEPT !.window = IF @ > 0 THEN @ - 1 ELSE 0])
    /\ UNCHANGED <<container, imagePresent, pc, todo, subject, decision, envVars, faults>>

WorldStep ==
    \/ \E n \in Names : \/ BootSucceeds(n) \/ Recovers(n) \/ Exits(n) \/ Crashes(n)
                        \/ TurnsUnhealthy(n) \/ Vanishes(n)
    \/ \E s \in Services : \/ ImagePruned(s) \/ BuildSucceeds(s) \/ BuildFails(s)
                           \/ BuildRestarts(s) \/ BuildOverturned(s)
                           \/ Cool(s) \/ Lapse(s)

-----------------------------------------------------------------------------
Next == PassStep \/ PassFault \/ ApiStep \/ WorldStep

(* The beat schedule runs the task forever; handlers answer; a container   *)
(* that meets no fault boots; a build that meets none ends; clocks run.    *)
Fairness ==
    /\ WF_vars(PassStep)
    /\ \A c \in Clients : WF_vars(Commit(c) \/ GiveUp(c))
    /\ \A n \in Names : WF_vars(BootSucceeds(n))
    /\ \A s \in Services : /\ WF_vars(BuildSucceeds(s) \/ BuildFails(s))
                           /\ WF_vars(Cool(s)) /\ WF_vars(Lapse(s))

Spec == Init /\ [][Next]_vars
FairSpec == Spec /\ Fairness

-----------------------------------------------------------------------------
(* Properties *)

TypeOK ==
    /\ known \subseteq Services /\ rows \in [Services -> Row]
    /\ container \in [Names -> Container]
    /\ imagePresent \in [Services -> BOOLEAN]
    /\ pc \in {"idle", "scan", "act", "commit", "undo"}
    /\ todo \subseteq Services
    /\ loaded \in [Services -> Row \cup {Expired}]
    /\ subject \in Services \cup {Nobody}
    /\ decision \in Decision
    /\ pc \in {"act", "commit", "undo"} => subject \in Services
    /\ pc \in {"act", "commit"} => loaded[subject] \in Row
    /\ request \in [Clients -> Request \cup {NoRequest}]
    /\ changes \in 0 .. MaxChanges /\ faults \in 0 .. MaxFaults
    /\ pulled \in [Services -> BOOLEAN]

(* Only a row stamped deleted is ever projected RETIRED, although the      *)
(* projection is decided on a copy loaded before the deletion, or a        *)
(* suspend or resume read the row before it (delete_service,               *)
(* update_service_status).  As an inductive invariant: the intent and the  *)
(* deletion stamp are committed together and never taken apart in the row, *)
(* in the pass's copies, in a pending projection, or in a handler's copy;  *)
(* and the pass only ever works on rows that are not retired yet.          *)
TombstoneInv ==
    /\ \A s \in Services :
          rows[s].desired = "retired" \/ rows[s].status = "retired" => rows[s].deleted
    /\ \A s \in Services :
          loaded[s] # Expired /\ loaded[s].desired = "retired" => rows[s].deleted
    /\ pc \in {"act", "commit"} /\ decision.status = "retired" => rows[subject].deleted
    /\ \A c \in Clients : request[c] # NoRequest =>
          ~request[c].read.deleted /\ request[c].read.desired # "retired"
    /\ \A s \in todo : rows[s].status # "retired"
    /\ pc \in {"act", "commit", "undo"} =>
          subject \notin todo /\ rows[subject].status # "retired"

(* The reconciler never takes a row out of RETIRED: a copy loaded before   *)
(* the tombstone was projected is never committed over it.                 *)
RetiredNotRevived ==
    [][\A s \in Services :
          rows[s].status = "retired" /\ rows'[s].status # "retired" => pc' = pc]_vars

(* A row is projected RETIRED only once its container is gone, provided    *)
(* its image was READY when the pass loaded it: nothing the deleted        *)
(* service still had to come up with is forgotten (_retired, execute).     *)
RetiredLeavesNoContainer ==
    [][\A s \in Services :
          (/\ rows[s].status # "retired" /\ rows'[s].status = "retired"
           /\ loaded[s].image = "ready") => Of(s).state = "none"]_vars

(* Attempts are given back in three ways only: an operator's /retry, an    *)
(* edit that reached the container, or a READY projection after the        *)
(* cooldown (_maybe_reset_budget, reset_and_wake).                         *)
BudgetReturnedOnlyWhenEarned ==
    [][\A s \in Services : rows'[s].attempts < rows[s].attempts =>
          \/ \E c \in Clients : Asks(c, "retry") /\ request[c].service = s
          \/ pc = "commit" /\ subject = s /\ decision.reset_attempts
          \/ pc = "commit" /\ subject = s /\ rows[s].stamp = "old" /\ decision.status = "ready"]_vars

(* Attempts on one budget are a backoff apart unless the earlier one was a *)
(* pull that succeeded: every other attempt leaves the row RECOVERING, and *)
(* no request, build, stale copy or dead worker takes it out of that       *)
(* before it has cooled (execute, update_service_status).                  *)
OtherAttemptsAreSpaced ==
    [][\A s \in Services :
          rows'[s].attempts > rows[s].attempts /\ rows[s].attempts > 0 /\ ~pulled[s]
             => rows[s].stamp # "hot"]_vars

(* A pass does not bring up a service whose budget is spent, not even      *)
(* after its dead container is gone: only an edit that recreates the       *)
(* container does that, and /retry gives the budget back first (_refused). *)
SpentBudgetStopsBringUps ==
    [][\A s \in Services :
          (/\ subject = s /\ rows[s].attempts >= MaxAttempts
           /\ ~Live(Of(s).state) /\ Live(Of(s)'.state)) => decision.reset_attempts]_vars

Wanted(s) == s \in known /\ rows[s].desired = "available" /\ Copy(s).window > 0
Buildable(s) == rows[s].image = "ready"

(* A service that stays wanted (in its row and in the copies the passes    *)
(* hold of it), on an image that stays ready, is served again and again or *)
(* ends up refused for a spent budget: no stale copy, dead worker, lost    *)
(* container, backoff or same-named predecessor parks it.                  *)
WantedIsServed ==
    \A s \in Services :
        <>[](Wanted(s) /\ rows[s].window > 0 /\ Buildable(s)) =>
        []<>(\/ rows[s].status = "ready" /\ Of(s).spec = rows[s].spec
             \/ rows[s].status = "failed" /\ rows[s].attempts >= MaxAttempts)

(* A service whose deletion stands is retired for good.                    *)
DeletedIsRetired ==
    \A s \in Services :
        <>[](rows[s].desired = "retired") => <>[](rows[s].status = "retired")

(* A service that stays unwanted on a ready image has no container that    *)
(* boots or serves: scale-to-zero and suspension take effect.              *)
UnwantedGoesDown ==
    \A s \in Services :
        <>[](/\ s \in known /\ Buildable(s)
             /\ \/ rows[s].desired = "suspended"
                \/ rows[s].desired = "available" /\ rows[s].window = 0) =>
        <>[](Of(s).state \notin {"booting", "up"})

-----------------------------------------------------------------------------
(* What the documentation says and the code does not do *)

(* update_service_status: "RECOVERING is the status the executor persists  *)
(* after any spent attempt (crash recreate or image pull)", so its gate    *)
(* keeps any two attempts on one budget a backoff apart.                   *)
BackoffSeparatesAttempts ==
    [][\A s \in Services :
          rows'[s].attempts > rows[s].attempts /\ rows[s].attempts > 0
             => rows[s].stamp # "hot"]_vars

(* delete_service: "The reconciler removes the container out of band on    *)
(* its next tick".                                                         *)
RetiredHasNoContainer ==
    \A s \in Services : rows[s].status = "retired" => Of(s).state = "none"

(* delete_service "marks the service RETIRED": a deletion is not undone.   *)
DeletionStands ==
    \A s \in Services : rows[s].deleted => rows[s].desired = "retired"

=============================================================================
