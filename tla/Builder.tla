-------------------------------- MODULE Builder -------------------------------
(***************************************************************************)
(* The build path of managed runtime images: request handlers insert or    *)
(* requeue a service_images row and send a message once that committed,    *)
(* Celery delivers the message at least once, build_image claims the row,  *)
(* builds, pushes and reports, and reap_stale_builds fails whatever waited *)
(* too long.  Claiming a row is a read and a later commit without a lock;  *)
(* reporting and reaping hold the row lock.                                *)
(***************************************************************************)
EXTENDS Naturals

CONSTANTS
    Images,      \* image hashes that need a build
    Workers,     \* build processes
    Handlers,    \* request handlers in flight
    MaxRetries,  \* max_retries of build_image
    StaleAfter,  \* build_stale_after, in ticks
    MaxAsks,     \* bound: builds asked for in a behaviour
    MaxFaults,   \* bound: faults in a behaviour
    FaultKinds   \* the faults in play

AllFaults == {"error", "timeout", "death", "redelivery", "broker", "enqueue"}

ASSUME BuilderCounts ==
    /\ MaxRetries \in Nat /\ StaleAfter \in Nat /\ MaxAsks \in Nat /\ MaxFaults \in Nat
ASSUME BuilderFaults == FaultKinds \subseteq AllFaults

Status == {"absent", "pending", "building", "ready", "failed"}
Waiting == {"pending", "building"}

(* ask tells the messages of one request from those of another.            *)
Message == [image: Images, retries: 0 .. MaxRetries, ask: 1 .. MaxAsks]

VARIABLES
    row,       \* status of each service_images row
    age,       \* ticks since status_changed_at, up to StaleAfter
    patience,  \* history: ticks since a handler last asked for the build
    registry,  \* images that were pushed
    queue,     \* messages the broker would deliver
    attempt,   \* what each worker does: pc, message, status it read
    handler,   \* what each handler does: pc, image, status it read
    asks, faults \* counters behind MaxAsks and MaxFaults

rowVars == <<row, age, patience>>
vars == <<row, age, patience, registry, queue, attempt, handler, asks, faults>>

Free == [pc |-> "idle"]
Attempt ==
    {Free} \cup [pc: {"claim"}, message: Message, seen: Status]
           \cup [pc: {"build", "report", "fail"}, message: Message]
Handler ==
    {Free} \cup [pc: {"requeue"}, image: Images, ask: 1 .. MaxAsks, seen: Status]
           \cup [pc: {"enqueue"}, image: Images, ask: 1 .. MaxAsks]

Init ==
    /\ row = [h \in Images |-> "absent"]
    /\ age = [h \in Images |-> 0] /\ patience = [h \in Images |-> 0]
    /\ registry = {} /\ queue = {}
    /\ attempt = [w \in Workers |-> Free]
    /\ handler = [a \in Handlers |-> Free]
    /\ asks = 0 /\ faults = 0

Fault(kind) ==
    /\ kind \in FaultKinds /\ faults < MaxFaults
    /\ faults' = faults + 1

(* transition(): the stamp restarts only when the status it read changes.  *)
Transition(h, seen, status) ==
    /\ row' = [row EXCEPT ![h] = IF seen # status THEN status ELSE @]
    /\ age' = [age EXCEPT ![h] = IF seen # status THEN 0 ELSE @]

-----------------------------------------------------------------------------
(* Request handlers *)

(* resolve_service_image and commit: only a hash nobody has resolved yet   *)
(* gets a row and, later, a message.                                       *)
Resolve(a, h) ==
    /\ handler[a] = Free /\ asks < MaxAsks /\ row[h] = "absent"
    /\ row' = [row EXCEPT ![h] = "pending"]
    /\ age' = [age EXCEPT ![h] = 0] /\ patience' = [patience EXCEPT ![h] = 0]
    /\ handler' = [handler EXCEPT ![a] =
                      [pc |-> "enqueue", image |-> h, ask |-> asks + 1]]
    /\ asks' = asks + 1
    /\ UNCHANGED <<registry, queue, attempt, faults>>

(* /retry reads the row; a READY image is left alone.                      *)
RetryReads(a, h) ==
    /\ handler[a] = Free /\ asks < MaxAsks /\ row[h] \in Status \ {"absent", "ready"}
    /\ handler' = [handler EXCEPT ![a] =
                      [pc |-> "requeue", image |-> h, ask |-> asks + 1, seen |-> row[h]]]
    /\ asks' = asks + 1
    /\ UNCHANGED <<rowVars, registry, queue, attempt, faults>>

(* Mutant: a row that is already PENDING keeps its stamp.                  *)
RetryCommitsUnstamped(a) ==
    /\ handler[a].pc = "requeue"
    /\ LET h == handler[a].image IN
          /\ Transition(h, handler[a].seen, "pending")
          /\ patience' = [patience EXCEPT ![h] = 0]
          /\ handler' = [handler EXCEPT ![a] =
                            [pc |-> "enqueue", image |-> h, ask |-> handler[a].ask]]
    /\ UNCHANGED <<registry, queue, attempt, asks, faults>>

(* transition(PENDING, restamp=True) against the status that was read.     *)
RetryCommits(a) ==
    /\ handler[a].pc = "requeue"
    /\ LET h == handler[a].image IN
          /\ row' = [row EXCEPT ![h] = IF handler[a].seen # "pending" THEN "pending" ELSE @]
          /\ age' = [age EXCEPT ![h] = 0] /\ patience' = [patience EXCEPT ![h] = 0]
          /\ handler' = [handler EXCEPT ![a] =
                            [pc |-> "enqueue", image |-> h, ask |-> handler[a].ask]]
    /\ UNCHANGED <<registry, queue, attempt, asks, faults>>

Enqueue(a) ==
    /\ handler[a].pc = "enqueue"
    /\ queue' = queue \cup {[image |-> handler[a].image, retries |-> 0, ask |-> handler[a].ask]}
    /\ handler' = [handler EXCEPT ![a] = Free]
    /\ UNCHANGED <<rowVars, registry, attempt, asks, faults>>

(* The process dies, or the broker refuses, between commit and send_task.  *)
EnqueueLost(a) ==
    /\ handler[a].pc = "enqueue" /\ Fault("enqueue")
    /\ handler' = [handler EXCEPT ![a] = Free]
    /\ UNCHANGED <<rowVars, registry, queue, attempt, asks>>

-----------------------------------------------------------------------------
(* build_image *)

Becomes(w, next) == attempt' = [attempt EXCEPT ![w] = next]

(* Delivered, and the row is read without a lock: nothing to do when it is *)
(* READY, otherwise it is about to be claimed.                             *)
Deliver(w, m) ==
    /\ attempt[w] = Free /\ m \in queue
    /\ queue' = queue \ {m}
    /\ Becomes(w, IF row[m.image] \in {"absent", "ready"} THEN Free
                  ELSE [pc |-> "claim", message |-> m, seen |-> row[m.image]])
    /\ UNCHANGED <<rowVars, registry, handler, asks, faults>>

Claim(w) ==
    /\ attempt[w].pc = "claim"
    /\ Transition(attempt[w].message.image, attempt[w].seen, "building")
    /\ Becomes(w, [pc |-> "build", message |-> attempt[w].message])
    /\ UNCHANGED <<patience, registry, queue, handler, asks, faults>>

BuildAndPush(w) ==
    /\ attempt[w].pc = "build"
    /\ registry' = registry \cup {attempt[w].message.image}
    /\ Becomes(w, [pc |-> "report", message |-> attempt[w].message])
    /\ UNCHANGED <<rowVars, queue, handler, asks, faults>>

(* Mutant: the retry budget is checked one attempt too late.               *)
BuildFailsLate(w) ==
    /\ attempt[w].pc = "build" /\ Fault("error")
    /\ IF attempt[w].message.retries > MaxRetries
       THEN /\ Becomes(w, [pc |-> "fail", message |-> attempt[w].message])
            /\ UNCHANGED queue
       ELSE /\ queue' = queue \cup {[attempt[w].message EXCEPT !.retries = @ + 1]}
            /\ Becomes(w, Free)
    /\ UNCHANGED <<rowVars, registry, handler, asks>>

(* Mutant: an error streamed by the push is not noticed.                   *)
BuildFailsSilently(w) ==
    /\ attempt[w].pc = "build" /\ Fault("error")
    /\ Becomes(w, [pc |-> "report", message |-> attempt[w].message])
    /\ UNCHANGED <<rowVars, registry, queue, handler, asks>>

(* Any exception, a streamed push error included: published again with one *)
(* retry more, or failed once the budget is spent.                         *)
BuildFails(w) ==
    /\ attempt[w].pc = "build" /\ Fault("error")
    /\ IF attempt[w].message.retries >= MaxRetries
       THEN /\ Becomes(w, [pc |-> "fail", message |-> attempt[w].message])
            /\ UNCHANGED queue
       ELSE /\ queue' = queue \cup {[attempt[w].message EXCEPT !.retries = @ + 1]}
            /\ Becomes(w, Free)
    /\ UNCHANGED <<rowVars, registry, handler, asks>>

BuildTimesOut(w) ==
    /\ attempt[w].pc = "build" /\ Fault("timeout")
    /\ Becomes(w, [pc |-> "fail", message |-> attempt[w].message])
    /\ UNCHANGED <<rowVars, registry, queue, handler, asks>>

(* _mark_failed, under the row lock, whatever the row says by now.         *)
MarkFailed(w) ==
    /\ attempt[w].pc = "fail"
    /\ LET h == attempt[w].message.image IN Transition(h, row[h], "failed")
    /\ Becomes(w, Free)
    /\ UNCHANGED <<patience, registry, queue, handler, asks, faults>>

(* Mutant: finishing is taken for a claim on the row.                      *)
ReportAnyway(w) ==
    /\ attempt[w].pc = "report"
    /\ LET h == attempt[w].message.image IN Transition(h, row[h], "ready")
    /\ Becomes(w, Free)
    /\ UNCHANGED <<patience, registry, queue, handler, asks, faults>>

(* Under the row lock: READY unless the row has moved on from BUILDING.    *)
Report(w) ==
    /\ attempt[w].pc = "report"
    /\ LET h == attempt[w].message.image IN
          IF row[h] = "building" THEN Transition(h, row[h], "ready")
          ELSE UNCHANGED <<row, age>>
    /\ Becomes(w, Free)
    /\ UNCHANGED <<patience, registry, queue, handler, asks, faults>>

(* The process dies in the middle.  A lost worker rejects its message and  *)
(* the broker delivers it again; the hard limit acknowledges it.           *)
AttemptDies(w) ==
    /\ attempt[w] # Free /\ Fault("death")
    /\ \E again \in SUBSET {attempt[w].message} : queue' = queue \cup again
    /\ Becomes(w, Free)
    /\ UNCHANGED <<rowVars, registry, handler, asks>>

-----------------------------------------------------------------------------
(* The broker, the reaper, and time *)

(* At-least-once: a message in a worker's hands is handed out again.       *)
Redeliver(w) ==
    /\ attempt[w] # Free /\ Fault("redelivery")
    /\ queue' = queue \cup {attempt[w].message}
    /\ UNCHANGED <<rowVars, registry, attempt, handler, asks>>

(* Redis keeps nothing on disk.                                            *)
BrokerRestarts ==
    /\ queue # {} /\ Fault("broker")
    /\ queue' = {}
    /\ UNCHANGED <<rowVars, registry, attempt, handler, asks>>

(* Mutant: rows whose worker died while building are overlooked.           *)
StalePendingOnly == {h \in Images : row[h] = "pending" /\ age[h] >= StaleAfter}

Stale == {h \in Images : row[h] \in Waiting /\ age[h] >= StaleAfter}

Reap ==
    /\ Stale # {}
    /\ row' = [h \in Images |-> IF h \in Stale THEN "failed" ELSE row[h]]
    /\ age' = [h \in Images |-> IF h \in Stale THEN 0 ELSE age[h]]
    /\ UNCHANGED <<patience, registry, queue, attempt, handler, asks, faults>>

(* Only the clock of a row that waits is read.                             *)
Tick(h) ==
    /\ row[h] \in Waiting /\ age[h] < StaleAfter
    /\ age' = [age EXCEPT ![h] = @ + 1]
    /\ patience' = [patience EXCEPT ![h] = IF @ < StaleAfter THEN @ + 1 ELSE @]
    /\ UNCHANGED <<row, registry, queue, attempt, handler, asks, faults>>

-----------------------------------------------------------------------------
HandlerStep ==
    \/ \E a \in Handlers, h \in Images : Resolve(a, h) \/ RetryReads(a, h)
    \/ \E a \in Handlers : RetryCommits(a) \/ Enqueue(a) \/ EnqueueLost(a)

BuildStep(w) ==
    \/ \E m \in queue : Deliver(w, m)
    \/ Claim(w) \/ BuildAndPush(w) \/ MarkFailed(w) \/ Report(w)

BuildFault(w) == BuildFails(w) \/ BuildTimesOut(w) \/ AttemptDies(w) \/ Redeliver(w)

Next ==
    \/ HandlerStep
    \/ \E w \in Workers : BuildStep(w) \/ BuildFault(w)
    \/ BrokerRestarts \/ Reap
    \/ \E h \in Images : Tick(h)

(* Only the beat schedule and the clock are needed: the reaper settles     *)
(* whatever the workers and the broker do not.                             *)
Fairness == WF_vars(Reap) /\ \A h \in Images : WF_vars(Tick(h))

Spec == Init /\ [][Next]_vars
FairSpec == Spec /\ Fairness

-----------------------------------------------------------------------------
(* Properties *)

TypeOK ==
    /\ row \in [Images -> Status]
    /\ age \in [Images -> 0 .. StaleAfter] /\ patience \in [Images -> 0 .. StaleAfter]
    /\ registry \subseteq Images
    /\ queue \subseteq Message
    /\ attempt \in [Workers -> Attempt]
    /\ handler \in [Handlers -> Handler]
    /\ asks \in 0 .. MaxAsks /\ faults \in 0 .. MaxFaults

(* A READY row has its image in the registry, so the reconciler's pull can *)
(* succeed, whatever attempts overlapped or came late (build_image, _push).*)
ReadyIsPushed == \A h \in Images : row[h] = "ready" => h \in registry

(* The reaper fails a row only StaleAfter ticks after the last request for *)
(* its build: /retry restarts the clock even of a row that is PENDING      *)
(* already (reset_and_wake, transition, reap_stale_builds).                *)
AskedBuildIsNotReaped ==
    [][Reap => \A h \in Stale : patience[h] >= StaleAfter]_vars

(* The statuses the rest of the platform sees.                             *)
SeenStatus == [h \in Images |-> IF row[h] = "building" THEN "pending" ELSE row[h]]
Life == INSTANCE ImageLife WITH status <- SeenStatus

(* The build path implements ImageLife: a failed image is never READY      *)
(* without a new claim, and no row waits for ever, not even when its       *)
(* message, its worker or the whole broker is lost.                        *)
BuilderImplementsImageLife == Life!FairSpec

=============================================================================
