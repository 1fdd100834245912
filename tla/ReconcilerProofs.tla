--------------------------- MODULE ReconcilerProofs --------------------------
(***************************************************************************)
(* What TLAPS establishes about Reconciler for every set of services,      *)
(* handlers and specs and every bound: type correctness; that only deleted *)
(* rows are projected RETIRED, none is revived, and a retired one has left *)
(* no container; and of the restart budget that it is given back only when *)
(* it was earned, holds once it is spent, and is spent one backoff apart   *)
(* but for pulls.                                                          *)
(***************************************************************************)
EXTENDS Reconciler, TLAPS

-----------------------------------------------------------------------------
(* The operators of the pure part stay within their types.                 *)

LEMMA ObservedType ==
    ASSUME NEW image \in ImageStatus, NEW state \in ContainerState,
           NEW present \in BOOLEAN
    PROVE  Observed(image, state, present) \in ObservedState
<1>1. CASE image = "pending"
  BY <1>1 DEF Observed, ObservedState
<1>2. CASE image = "failed"
  BY <1>2 DEF Observed, ObservedState
<1>3. CASE image = "ready"
  BY <1>3 DEF Observed, ObservedState, ContainerFact, ContainerState
<1> QED BY <1>1, <1>2, <1>3 DEF ImageStatus

LEMMA DoType ==
    ASSUME NEW a \in Action, NEW st \in RuntimeStatus
    PROVE  /\ Do(a, st) \in Decision
           /\ Spending(Do(a, st)) \in Decision
           /\ Resetting(Do(a, st)) \in Decision
BY DEF Do, Spending, Resetting, Decision

LEMMA DecideType ==
    ASSUME NEW desired \in DesiredState, NEW observed \in ObservedState,
           NEW drifted \in BOOLEAN, NEW target \in {0, 1}, NEW exhausted \in BOOLEAN
    PROVE  Decide(desired, observed, drifted, target, exhausted) \in Decision
<1>1. ScaledDown(observed, Refused(observed, exhausted)) \in Decision
  BY DoType DEF ScaledDown, Action, RuntimeStatus
<1>2. observed # "image_failed" => BringUp(observed) \in Decision
  BY DoType DEF BringUp, ObservedState, Action, RuntimeStatus
<1>3. Available(observed, drifted, target, exhausted) \in Decision
  <2>1. CASE target = 0
    BY <1>1, <2>1 DEF Available
  <2>2. CASE target # 0 /\ drifted /\ observed \notin {"image_pending", "image_failed"}
    BY <2>2, DoType DEF Available, Action, RuntimeStatus
  <2>3. CASE target # 0 /\ ~(drifted /\ observed \notin {"image_pending", "image_failed"})
    <3>1. Available(observed, drifted, target, exhausted)
             = IF Refused(observed, exhausted) THEN Do("mark_failed", "failed")
                                               ELSE BringUp(observed)
      BY <2>3 DEF Available
    <3>2. ~Refused(observed, exhausted) => observed # "image_failed"
      BY DEF Refused
    <3> QED BY <3>1, <3>2, <1>2, DoType DEF Action, RuntimeStatus
  <2> QED BY <2>1, <2>2, <2>3
<1>4. Suspended(observed) \in Decision
  BY DoType DEF Suspended, Action, RuntimeStatus
<1>5. Retired(observed) \in Decision
  BY DoType DEF Retired, Action, RuntimeStatus
<1> QED BY <1>3, <1>4, <1>5 DEF Decide, DesiredState

(* RETIRED is decided for retired services only, and the other way round.  *)
LEMMA DecideRetired ==
    ASSUME NEW desired \in DesiredState, NEW observed \in ObservedState,
           NEW drifted \in BOOLEAN, NEW target \in {0, 1}, NEW exhausted \in BOOLEAN
    PROVE  Decide(desired, observed, drifted, target, exhausted).status = "retired"
               <=> desired = "retired"
<1>1. Available(observed, drifted, target, exhausted).status # "retired"
  <2>1. ScaledDown(observed, Refused(observed, exhausted)).status # "retired"
    BY DEF ScaledDown, Do
  <2>2. observed # "image_failed" => BringUp(observed).status # "retired"
    BY DEF BringUp, Do, Spending, ObservedState
  <2>3. Resetting(Do("recreate", "warming")).status # "retired"
    BY DEF Resetting, Do
  <2>4. ~Refused(observed, exhausted) => observed # "image_failed"
    BY DEF Refused
  <2> QED BY <2>1, <2>2, <2>3, <2>4 DEF Available, Do
<1>2. Suspended(observed).status # "retired"
  BY DEF Suspended, Do
<1>3. Retired(observed).status = "retired"
  BY DEF Retired, Do
<1> QED BY <1>1, <1>2, <1>3 DEF Decide, DesiredState

-----------------------------------------------------------------------------
(* What a commit can write.                                                *)

LEMMA RowBounds == 0 \in 0 .. AttemptCap /\ 0 \in 0 .. Window /\ Window \in 0 .. Window
BY CountsAssumption

LEMMA SavedType ==
    ASSUME NEW now \in Row, NEW read \in Row, NEW new \in Row, NEW stamped
    PROVE  Saved(now, read, new, stamped) \in Row
BY RowBounds DEF Saved, Column, Row, Stamp

LEMMA ChargeType ==
    ASSUME NEW row \in Row
    PROVE  /\ Spent(row) \in Row
           /\ Charged(row) \in Row
           /\ BudgetReturned(row) \in Row
<1> DEFINE n == IF row.attempts < AttemptCap THEN row.attempts + 1 ELSE row.attempts
<1>0. n \in 0 .. AttemptCap
  <2>1. row.attempts \in 0 .. AttemptCap
    BY DEF Row
  <2> QED BY <2>1, CountsAssumption
<1>1. Spent(row) \in Row
  <2>1. Spent(row) = [row EXCEPT !.attempts = n, !.stamp = "hot"]
    BY DEF Spent
  <2> HIDE DEF n
  <2> QED BY <1>0, <2>1 DEF Row, Stamp
<1>2. Charged(row) \in Row
  BY <1>1 DEF Charged, Row, RuntimeStatus
<1>3. BudgetReturned(row) \in Row
  BY RowBounds DEF BudgetReturned, Row, Stamp
<1> QED BY <1>1, <1>2, <1>3

LEMMA ProjectedType ==
    ASSUME NEW row \in Row, NEW d \in Decision
    PROVE  Projected(row, d) \in Row
<1> DEFINE budgeted ==
      CASE d.increment_attempt -> Spent(row)
        [] ~d.increment_attempt /\ d.reset_attempts -> BudgetReturned(row)
        [] ~d.increment_attempt /\ ~d.reset_attempts ->
              IF d.status = "ready" /\ EarnsBudget(row) THEN BudgetReturned(row) ELSE row
<1>1. budgeted \in Row
  BY ChargeType DEF Decision
<1>2. Projected(row, d) = [budgeted EXCEPT !.status = d.status]
  BY DEF Projected
<1>3. d.status \in RuntimeStatus
  BY DEF Decision
<1> HIDE DEF budgeted
<1> QED BY <1>1, <1>2, <1>3 DEF Row

(* The columns a projection leaves to the handlers.                        *)
LEMMA ProjectedKeeps ==
    ASSUME NEW row \in Row, NEW d \in Decision
    PROVE  /\ Projected(row, d).desired = row.desired
           /\ Projected(row, d).deleted = row.deleted
           /\ Projected(row, d).status = d.status
<1> DEFINE budgeted ==
      CASE d.increment_attempt -> Spent(row)
        [] ~d.increment_attempt /\ d.reset_attempts -> BudgetReturned(row)
        [] ~d.increment_attempt /\ ~d.reset_attempts ->
              IF d.status = "ready" /\ EarnsBudget(row) THEN BudgetReturned(row) ELSE row
<1>1. budgeted \in Row /\ budgeted.desired = row.desired /\ budgeted.deleted = row.deleted
  <2>1. /\ Spent(row).desired = row.desired /\ Spent(row).deleted = row.deleted
        /\ BudgetReturned(row).desired = row.desired
        /\ BudgetReturned(row).deleted = row.deleted
    BY DEF Spent, BudgetReturned, Row
  <2> QED BY <2>1, ChargeType DEF Decision
<1>2. Projected(row, d) = [budgeted EXCEPT !.status = d.status]
  BY DEF Projected
<1> HIDE DEF budgeted
<1> QED BY <1>1, <1>2 DEF Row

-----------------------------------------------------------------------------
(* Type correctness                                                        *)

LEMMA IdleType == Idle \in Decision
BY DoType DEF Idle, Action, RuntimeStatus

(* What the row of a service that does not exist yet holds.                *)
LEMMA UnbornType ==
    /\ Unborn \in Row
    /\ Unborn.desired = "available" /\ ~Unborn.deleted /\ Unborn.status = "warming"
    /\ Unborn.attempts = 0 /\ Unborn.stamp = "unset"
<1>1. (CHOOSE spec \in Specs : TRUE) \in Specs
  BY SetsAssumption
<1> QED BY <1>1, RowBounds DEF Unborn, Row, DesiredState, RuntimeStatus, Stamp, ImageStatus

LEMMA InitType == Init => TypeOK
<1> SUFFICES ASSUME Init PROVE TypeOK
  OBVIOUS
<1>1. rows \in [Services -> Row]
  BY UnbornType DEF Init
<1>2. container \in [Names -> Container]
  BY DEF Init, Container, ContainerState, NoContainer
<1>3. imagePresent \in [Services -> BOOLEAN]
  BY DEF Init
<1>4. changes \in 0 .. MaxChanges /\ faults \in 0 .. MaxFaults
  BY CountsAssumption DEF Init
<1>5. decision \in Decision
  BY IdleType DEF Init
<1> QED BY <1>1, <1>2, <1>3, <1>4, <1>5 DEF Init, TypeOK

LEMMA CopyType ==
    ASSUME TypeOK, NEW s \in Services
    PROVE  Copy(s) \in Row
BY DEF TypeOK, Copy

LEMMA DecisionForType ==
    ASSUME TypeOK, NEW s \in Services, NEW row \in Row
    PROVE  /\ DecisionFor(s, row) \in Decision
           /\ DecisionFor(s, row).status = "retired" <=> row.desired = "retired"
<1> DEFINE o == Observed(row.image, Of(s).state, imagePresent[s])
           d == Drifted(row.image, Of(s).state, Of(s).spec, row.spec)
           n == IF row.desired = "available" THEN ReplicaTarget(row) ELSE 0
           x == row.attempts >= MaxAttempts
<1>1. o \in ObservedState
  BY ObservedType DEF TypeOK, Of, Names, Container, Row
<1>2. d \in BOOLEAN /\ x \in BOOLEAN /\ n \in {0, 1} /\ row.desired \in DesiredState
  BY DEF Drifted, ReplicaTarget, Row
<1>3. DecisionFor(s, row) = Decide(row.desired, o, d, n, x)
  BY DEF DecisionFor
<1> HIDE DEF o, d, n, x
<1> QED BY <1>1, <1>2, <1>3, DecideType, DecideRetired

(* Stopping and starting a container keep its label.                       *)
LEMMA StoppedStarted ==
    ASSUME NEW c \in Container
    PROVE  /\ Stopped(c) \in Container /\ ~Live(Stopped(c).state)
           /\ Started(c) \in Container
BY DEF Stopped, Started, Live, Container, ContainerState

LEMMA PassType == TypeOK /\ PassStep => TypeOK'
<1> SUFFICES ASSUME TypeOK, PassStep PROVE TypeOK'
  OBVIOUS
<1> USE IdleType
<1>1. CASE BeginPass
  BY <1>1 DEF TypeOK, BeginPass, envVars
<1>2. CASE EndPass
  BY <1>2 DEF TypeOK, EndPass, envVars
<1>3. ASSUME NEW s \in Services, SkipBackoff(s) PROVE TypeOK'
  BY <1>3 DEF TypeOK, SkipBackoff, envVars
<1>4. ASSUME NEW s \in Services, ObserveAndDecide(s) PROVE TypeOK'
  BY <1>4, CopyType, DecisionForType DEF TypeOK, ObserveAndDecide, envVars
<1>5. CASE StopContainer
  BY <1>5, StoppedStarted DEF TypeOK, StopContainer, envVars, Names
<1>6. CASE RemoveContainer
  BY <1>6 DEF TypeOK, RemoveContainer, envVars, Container, ContainerState, NoContainer
<1>7. CASE StartContainer
  BY <1>7, StoppedStarted DEF TypeOK, StartContainer, envVars, Names
<1>8. CASE RecreateContainer
  <2>1. [state |-> "booting", spec |-> loaded[subject].spec] \in Container
    BY <1>8 DEF TypeOK, RecreateContainer, Container, ContainerState, Row
  <2> QED BY <1>8, <2>1 DEF TypeOK, RecreateContainer, envVars
<1>9. CASE ChargeFailure
  BY <1>9, ChargeType DEF TypeOK, ChargeFailure, HandDown, envVars
<1>10. CASE CommitProjection
  <2> DEFINE st == IF decision.increment_attempt THEN {"stamp"} ELSE {}
             new == Saved(rows[subject], loaded[subject],
                          Projected(loaded[subject], decision), st)
  <2>1. new \in Row
    BY <1>10, SavedType, ProjectedType DEF TypeOK, CommitProjection
  <2>2. rows' = [rows EXCEPT ![subject] = new]
    BY <1>10 DEF CommitProjection
  <2> HIDE DEF new
  <2> QED BY <1>10, <2>1, <2>2 DEF TypeOK, CommitProjection, HandDown, envVars
<1> QED BY <1>1, <1>2, <1>3, <1>4, <1>5, <1>6, <1>7, <1>8, <1>9, <1>10 DEF PassStep

(* An action that breaks off leaves a container only a bring-up can start. *)
LEMMA BreaksOffType ==
    ASSUME TypeOK, pc = "act", BreaksOff
    PROVE  /\ container' \in [Names -> Container]
           /\ imagePresent' \in [Services -> BOOLEAN]
           /\ decision.action \notin BringUpActions => \A s \in Services :
                 Live(Of(s)'.state) => Live(Of(s).state)
<1>1. PICK left \in Leftovers : container' = [container EXCEPT ![NameOf[subject]] = left]
  BY Zenon DEF BreaksOff
<1>2. left \in Container
  BY DEF Leftovers
<1>3. imagePresent' \in [Services -> BOOLEAN]
  <2>1. CASE UNCHANGED imagePresent
    BY <2>1 DEF TypeOK
  <2>2. CASE \E present \in {imagePresent[subject], TRUE} :
               imagePresent' = [imagePresent EXCEPT ![subject] = present]
    BY <2>2 DEF TypeOK
  <2> QED BY <2>1, <2>2 DEF BreaksOff
<1>4. ASSUME decision.action \notin BringUpActions
      PROVE  Live(left.state) => Live(Of(subject).state)
  <2>1. Of(subject) \in Container
    BY DEF TypeOK, Of, Names
  <2>2. left \in {Of(subject), NoContainer, Stopped(Of(subject))}
    BY <1>4 DEF Leftovers, Recreates, BringUpActions
  <2> QED BY <2>1, <2>2, StoppedStarted DEF NoContainer, Live
<1>5. \A s \in Services : Of(s)' = IF NameOf[s] = NameOf[subject] THEN left ELSE Of(s)
  BY <1>1 DEF TypeOK, Of, Names
<1> QED BY <1>1, <1>2, <1>3, <1>4, <1>5 DEF TypeOK, Of

LEMMA FaultType == TypeOK /\ PassFault => TypeOK'
<1> SUFFICES ASSUME TypeOK, PassFault PROVE TypeOK'
  OBVIOUS
<1> USE IdleType
<1>1. ASSUME NEW kind, Fault(kind) PROVE faults' \in 0 .. MaxFaults
  BY <1>1, CountsAssumption DEF TypeOK, Fault
<1>2. CASE WorkerDies
  BY <1>2, <1>1, BreaksOffType DEF TypeOK, WorkerDies, envVars
<1>3. CASE ActionFails
  BY <1>3, <1>1, BreaksOffType DEF TypeOK, ActionFails, envVars
<1>4. ASSUME NEW s \in Services, ObserveFails(s) PROVE TypeOK'
  BY <1>4, <1>1 DEF TypeOK, ObserveFails, envVars
<1> QED BY <1>2, <1>3, <1>4 DEF PassFault

(* What a handler leaves on its copy.                                      *)
LEMMA WriteType ==
    ASSUME TypeOK, NEW c \in Clients, request[c] # NoRequest,
           NEW new \in Row, NEW stamped, Write(c, new, stamped)
    PROVE  rows' \in [Services -> Row]
<1>1. request[c].service \in Services /\ request[c].read \in Row
  BY DEF TypeOK, Request
<1>2. Saved(rows[request[c].service], request[c].read, new, stamped) \in Row
  BY <1>1, SavedType DEF TypeOK
<1> QED BY <1>1, <1>2 DEF Write, TypeOK

(* A service comes into being with a spec and an image.                    *)
LEMMA CreateColumns ==
    ASSUME TypeOK, NEW s \in Services, CreateService(s)
    PROVE  /\ rows' \in [Services -> Row] /\ imagePresent' \in [Services -> BOOLEAN]
           /\ \A t \in Services : /\ rows'[t].desired = rows[t].desired
                                  /\ rows'[t].deleted = rows[t].deleted
                                  /\ rows'[t].status = rows[t].status
                                  /\ rows'[t].attempts = rows[t].attempts
                                  /\ rows'[t].stamp = rows[t].stamp
<1>1. PICK spec \in Specs, image \in ImageStatus :
        rows' = [rows EXCEPT ![s].spec = spec, ![s].image = image]
  BY Zenon DEF CreateService
<1>2. /\ rows[s] \in Row /\ rows' = [rows EXCEPT ![s] = [rows[s] EXCEPT !.spec = spec, !.image = image]]
  BY <1>1 DEF TypeOK
<1>3. [rows[s] EXCEPT !.spec = spec, !.image = image] \in Row
  BY <1>2 DEF Row
<1>4. imagePresent' \in [Services -> BOOLEAN]
  BY DEF CreateService, Presence, TypeOK
<1> QED BY <1>2, <1>3, <1>4 DEF TypeOK, Row

(* What a handler's copy of a row holds.                                   *)
LEMMA ReadByColumns ==
    ASSUME NEW op \in AllOperations, NEW row \in Row
    PROVE  /\ ReadBy(op, row) \in Row
           /\ ReadBy(op, row).desired \in {"available", row.desired} /\ ~ReadBy(op, row).deleted
           /\ \/ ReadBy(op, row).attempts = 0 /\ ReadBy(op, row).stamp = "unset"
              \/ ReadBy(op, row).attempts = row.attempts /\ ReadBy(op, row).stamp = row.stamp
BY UnbornType DEF ReadBy, AllOperations, Row

LEMMA ApiType == TypeOK /\ ApiStep => TypeOK'
<1> SUFFICES ASSUME TypeOK, ApiStep PROVE TypeOK'
  OBVIOUS
<1>1. ASSUME NEW s \in Services, CreateService(s) PROVE TypeOK'
  BY <1>1, CreateColumns DEF TypeOK, CreateService, Unread, taskVars
<1>2. ASSUME NEW s \in Services, ReachStatus(s) PROVE TypeOK'
  <2>1. [rows[s] EXCEPT !.window = Window] \in Row
    BY RowBounds DEF TypeOK, Row
  <2> QED BY <1>2, <2>1 DEF TypeOK, ReachStatus, Unread, taskVars, envVars
<1>3. ASSUME NEW c \in Clients, NEW op \in AllOperations, NEW s \in Services,
             ReadForRequest(c, op, s)
      PROVE  TypeOK'
  <2>1. [op |-> op, service |-> s, read |-> ReadBy(op, rows[s])] \in Request
    BY ReadByColumns DEF TypeOK, Request
  <2>2. changes' \in 0 .. MaxChanges
    BY <1>3, CountsAssumption DEF TypeOK, ReadForRequest
  <2> QED BY <1>3, <2>1, <2>2 DEF TypeOK, ReadForRequest, Unread, taskVars
<1>4. ASSUME NEW c \in Clients, Commit(c) PROVE TypeOK'
  <2>1. request[c] # NoRequest /\ request[c].service \in Services /\ request[c].read \in Row
    BY <1>4 DEF TypeOK, Request, Commit, Suspend, Resume, Retry, Delete, Edit, Asks
  <2>2. rows' \in [Services -> Row] /\ imagePresent' \in [Services -> BOOLEAN]
    <3>1. CASE Suspend(c)
      <4>1. [request[c].read EXCEPT !.desired = "suspended"] \in Row
        BY <2>1 DEF Row, DesiredState
      <4> QED BY <2>1, <3>1, <4>1, WriteType DEF Suspend, TypeOK
    <3>2. CASE Resume(c)
      <4>1. [request[c].read EXCEPT !.desired = "available"] \in Row
        BY <2>1 DEF Row, DesiredState
      <4> QED BY <2>1, <3>2, <4>1, WriteType DEF Resume, TypeOK
    <3>3. CASE Retry(c)
      <4>1. [BudgetReturned(request[c].read) EXCEPT
                !.status = "recovering",
                !.image = IF @ = "ready" THEN "ready" ELSE "pending"] \in Row
        BY <2>1, ChargeType DEF Row, RuntimeStatus, ImageStatus
      <4> QED BY <2>1, <3>3, <4>1, WriteType DEF Retry, TypeOK
    <3>4. CASE Delete(c)
      <4>1. [request[c].read EXCEPT !.deleted = TRUE, !.desired = "retired"] \in Row
        BY <2>1 DEF Row, DesiredState
      <4> QED BY <2>1, <3>4, <4>1, WriteType DEF Delete, TypeOK
    <3>5. CASE Edit(c)
      <4>1. PICK spec \in Specs, image \in ImageStatus :
              Write(c, [request[c].read EXCEPT !.spec = spec, !.image = image], {})
        BY <3>5 DEF Edit
      <4>2. [request[c].read EXCEPT !.spec = spec, !.image = image] \in Row
        BY <2>1 DEF Row
      <4>3. rows' \in [Services -> Row]
        BY <2>1, <4>1, <4>2, WriteType
      <4>4. PICK present \in Presence :
              imagePresent' = [imagePresent EXCEPT ![request[c].service] = present]
        BY <3>5 DEF Edit
      <4>5. present \in BOOLEAN
        BY DEF Presence
      <4> QED BY <4>3, <4>4, <4>5 DEF TypeOK
    <3> QED BY <1>4, <3>1, <3>2, <3>3, <3>4, <3>5 DEF Commit
  <2>3. Answered(c)
    BY <1>4 DEF Commit, Suspend, Resume, Retry, Delete, Edit
  <2> QED BY <2>2, <2>3 DEF TypeOK, Answered, Unread, taskVars
<1>5. ASSUME NEW c \in Clients, GiveUp(c) PROVE TypeOK'
  BY <1>5 DEF TypeOK, GiveUp, Answered, Unread, taskVars
<1> QED BY <1>1, <1>2, <1>3, <1>4, <1>5 DEF ApiStep

LEMMA WorldType == TypeOK /\ WorldStep => TypeOK'
<1> SUFFICES ASSUME TypeOK, WorldStep PROVE TypeOK'
  OBVIOUS
<1>1. ASSUME NEW kind, Fault(kind) PROVE faults' \in 0 .. MaxFaults
  BY <1>1, CountsAssumption DEF TypeOK, Fault
<1>2. ASSUME NEW n \in Names, NEW from, NEW to \in ContainerState, DockerMoves(n, from, to),
             faults' \in 0 .. MaxFaults
      PROVE  TypeOK'
  <2>1. container' \in [Names -> Container]
    BY <1>2 DEF DockerMoves, TypeOK, Container
  <2> QED BY <1>2, <2>1 DEF DockerMoves, TypeOK, taskVars, envVars
<1>3. ASSUME NEW n \in Names,
             \/ BootSucceeds(n) \/ Recovers(n) \/ Exits(n) \/ Crashes(n) \/ TurnsUnhealthy(n)
      PROVE  TypeOK'
  <2>1. {"up", "exited", "crashed", "unhealthy"} \subseteq ContainerState
    BY DEF ContainerState
  <2>2. UNCHANGED faults => faults' \in 0 .. MaxFaults
    BY DEF TypeOK
  <2> QED BY <1>1, <1>2, <1>3, <2>1, <2>2
          DEF BootSucceeds, Recovers, Exits, Crashes, TurnsUnhealthy
<1>4. ASSUME NEW n \in Names, Vanishes(n) PROVE TypeOK'
  BY <1>1, <1>4 DEF Vanishes, TypeOK, Container, NoContainer, ContainerState, taskVars, envVars
<1>5. ASSUME NEW s \in Services, ImagePruned(s) PROVE TypeOK'
  BY <1>1, <1>5 DEF ImagePruned, TypeOK, taskVars, envVars
<1>6. ASSUME NEW s \in Services, NEW status \in ImageStatus,
             rows' = [rows EXCEPT ![s].image = status],
             UNCHANGED <<container, imagePresent, taskVars, envVars>>,
             faults' \in 0 .. MaxFaults
      PROVE  TypeOK'
  <2>1. [rows[s] EXCEPT !.image = status] \in Row
    BY DEF TypeOK, Row
  <2> QED BY <1>6, <2>1 DEF TypeOK, taskVars, envVars
<1>7. ASSUME NEW s \in Services, BuildSucceeds(s) \/ BuildFails(s) \/ BuildRestarts(s)
             \/ BuildOverturned(s)
      PROVE  TypeOK'
  <2>1. {"pending", "ready", "failed"} \subseteq ImageStatus
    BY DEF ImageStatus
  <2>2. UNCHANGED faults => faults' \in 0 .. MaxFaults
    BY DEF TypeOK
  <2> QED BY <1>1, <1>6, <1>7, <2>1, <2>2
          DEF BuildSucceeds, BuildFails, BuildRestarts,
          BuildOverturned, BuildEnds
<1>8. ASSUME NEW s \in Services, Cool(s) PROVE TypeOK'
  <2>1. ASSUME NEW row \in Row PROVE [row EXCEPT !.stamp = Aged(@)] \in Row
    BY DEF Row, Aged, Stamp
  <2>2. rows' \in [Services -> Row]
    BY <1>8, <2>1 DEF Cool, TypeOK
  <2>3. /\ loaded' \in [Services -> Row \cup {Expired}]
        /\ \A t \in Services : loaded[t] \in Row => loaded'[t] \in Row
    BY <1>8, <2>1 DEF Cool, TypeOK, AgeCopy
  <2> QED BY <1>8, <2>2, <2>3 DEF Cool, TypeOK, envVars
<1>9. ASSUME NEW s \in Services, Lapse(s) PROVE TypeOK'
  <2>1. ASSUME NEW row \in Row
        PROVE  [row EXCEPT !.window = IF @ > 0 THEN @ - 1 ELSE 0] \in Row
    BY CountsAssumption DEF Row
  <2>2. rows' \in [Services -> Row]
    BY <1>9, CountsAssumption DEF Lapse, TypeOK, Row
  <2>3. /\ loaded' \in [Services -> Row \cup {Expired}]
        /\ \A t \in Services : loaded[t] \in Row => loaded'[t] \in Row
    BY <1>9, <2>1 DEF Lapse, TypeOK, AgeCopy
  <2> QED BY <1>9, <2>2, <2>3 DEF Lapse, TypeOK, envVars
<1> QED BY <1>3, <1>4, <1>5, <1>7, <1>8, <1>9 DEF WorldStep

LEMMA StepType == TypeOK /\ [Next]_vars => TypeOK'
<1>1. TypeOK /\ UNCHANGED vars => TypeOK'
  BY DEF TypeOK, vars
<1> QED BY <1>1, PassType, FaultType, ApiType, WorldType DEF Next

(* Every reachable state is well typed; in particular the pass holds a     *)
(* copy of the row whenever it acts or commits, because the executor       *)
(* returns after a rollback instead of projecting from expired attributes. *)
THEOREM TypeCorrect == Spec => []TypeOK
BY InitType, StepType, PTL DEF Spec

-----------------------------------------------------------------------------
(* Tombstones                                                              *)

LEMMA InitTombstone == Init => TombstoneInv
BY UnbornType DEF Init, TombstoneInv

(* How a commit moves the three columns the invariant is about.            *)
LEMMA SavedColumns ==
    ASSUME NEW now \in Row, NEW read \in Row, NEW new \in Row, NEW stamped
    PROVE  LET row == Saved(now, read, new, stamped) IN
           /\ row.desired = Column(now.desired, read.desired, new.desired)
           /\ row.deleted = Column(now.deleted, read.deleted, new.deleted)
           /\ row.status = Column(now.status, read.status, new.status)
BY DEF Saved

LEMMA PassTombstone == TypeOK /\ TombstoneInv /\ PassStep => TombstoneInv'
<1> SUFFICES ASSUME TypeOK, TombstoneInv, PassStep PROVE TombstoneInv'
  OBVIOUS
<1>1. CASE BeginPass
  BY <1>1 DEF TypeOK, TombstoneInv, BeginPass, envVars
<1>2. CASE EndPass
  BY <1>2 DEF TypeOK, TombstoneInv, EndPass, envVars
<1>3. ASSUME NEW s \in Services, SkipBackoff(s) PROVE TombstoneInv'
  BY <1>3 DEF TypeOK, TombstoneInv, SkipBackoff, envVars
<1>4. ASSUME NEW s \in Services, ObserveAndDecide(s) PROVE TombstoneInv'
  <2>1. decision'.status = "retired" => Copy(s).desired = "retired"
    BY <1>4, CopyType, DecisionForType DEF ObserveAndDecide
  <2>2. Copy(s).desired = "retired" => rows[s].deleted
    BY DEF TombstoneInv, Copy
  <2> QED BY <1>4, <2>1, <2>2 DEF TypeOK, TombstoneInv, ObserveAndDecide, envVars
<1>5. CASE StopContainer \/ RemoveContainer \/ StartContainer
  BY <1>5 DEF TypeOK, TombstoneInv, StopContainer, RemoveContainer, StartContainer, envVars
<1>6. CASE RecreateContainer
  BY <1>6 DEF TypeOK, TombstoneInv, RecreateContainer, envVars
<1>7. CASE ChargeFailure
  <2>1. /\ Charged(rows[subject]).desired = rows[subject].desired
        /\ Charged(rows[subject]).deleted = rows[subject].deleted
        /\ Charged(rows[subject]).status = "recovering"
    BY <1>7 DEF ChargeFailure, TypeOK, Charged, Spent, Row
  <2> QED BY <1>7, <2>1 DEF TypeOK, TombstoneInv, ChargeFailure, HandDown, envVars
<1>8. CASE CommitProjection
  <2> DEFINE read == loaded[subject]
             proj == Projected(read, decision)
             st == IF decision.increment_attempt THEN {"stamp"} ELSE {}
             new == Saved(rows[subject], read, proj, st)
  <2>1. /\ read \in Row /\ proj \in Row /\ rows[subject] \in Row /\ subject \in Services
        /\ proj.desired = read.desired /\ proj.deleted = read.deleted
        /\ proj.status = decision.status
    BY <1>8, ProjectedType, ProjectedKeeps DEF TypeOK, CommitProjection
  <2>2. /\ new.desired = rows[subject].desired /\ new.deleted = rows[subject].deleted
        /\ new.status \in {rows[subject].status, decision.status}
    BY <2>1, SavedColumns DEF Column
  <2>3. rows' = [rows EXCEPT ![subject] = new]
    BY <1>8 DEF CommitProjection
  <2> HIDE DEF new, proj, read
  <2> QED BY <1>8, <2>1, <2>2, <2>3 DEF TypeOK, TombstoneInv, CommitProjection, HandDown, envVars
<1> QED BY <1>1, <1>2, <1>3, <1>4, <1>5, <1>6, <1>7, <1>8 DEF PassStep

LEMMA FaultTombstone == TypeOK /\ TombstoneInv /\ PassFault => TombstoneInv'
<1> SUFFICES ASSUME TypeOK, TombstoneInv, PassFault PROVE TombstoneInv'
  OBVIOUS
<1>1. CASE WorkerDies
  BY <1>1 DEF TypeOK, TombstoneInv, WorkerDies, envVars
<1>2. CASE ActionFails
  BY <1>2 DEF TypeOK, TombstoneInv, ActionFails, envVars
<1>3. ASSUME NEW s \in Services, ObserveFails(s) PROVE TombstoneInv'
  BY <1>3 DEF TypeOK, TombstoneInv, ObserveFails, envVars
<1> QED BY <1>1, <1>2, <1>3 DEF PassFault

(* A handler's commit neither retires a row nor takes a deletion back.     *)
LEMMA CommitColumns ==
    ASSUME TypeOK, TombstoneInv, NEW c \in Clients, Commit(c)
    PROVE  /\ request[c] # NoRequest /\ request[c].service \in Services
           /\ \A s \in Services :
                 /\ rows[s].deleted => rows'[s].deleted
                 /\ rows'[s].desired = "retired" => rows'[s].deleted
                 /\ rows'[s].status \in {rows[s].status, "recovering"}
<1> DEFINE s == request[c].service
           read == request[c].read
<1>1. /\ request[c] # NoRequest /\ s \in Services /\ read \in Row
      /\ rows[s] \in Row /\ ~read.deleted /\ read.desired # "retired"
  BY DEF TypeOK, TombstoneInv, Request, Commit, Suspend, Resume, Retry, Delete, Edit, Asks
<1>2. ASSUME NEW new \in Row, NEW stamped, Write(c, new, stamped),
             new.desired # "retired" \/ new.deleted # read.deleted,
             new.status \in {read.status, "recovering"}
      PROVE  \A t \in Services :
                 /\ rows[t].deleted => rows'[t].deleted
                 /\ rows'[t].desired = "retired" => rows'[t].deleted
                 /\ rows'[t].status \in {rows[t].status, "recovering"}
  <2> DEFINE row == Saved(rows[s], read, new, stamped)
  <2>1. /\ row.desired = Column(rows[s].desired, read.desired, new.desired)
        /\ row.deleted = Column(rows[s].deleted, read.deleted, new.deleted)
        /\ row.status = Column(rows[s].status, read.status, new.status)
    BY <1>1, <1>2, SavedColumns
  <2>2. /\ rows[s].deleted => row.deleted
        /\ row.desired = "retired" => row.deleted
        /\ row.status \in {rows[s].status, "recovering"}
    BY <1>1, <1>2, <2>1 DEF Column, TombstoneInv, Row
  <2>3. rows' = [rows EXCEPT ![s] = row]
    BY <1>2 DEF Write
  <2> HIDE DEF row, s
  <2> QED BY <1>1, <2>2, <2>3 DEF TypeOK, TombstoneInv
<1>3. CASE Suspend(c)
  <2>1. LET new == [read EXCEPT !.desired = "suspended"] IN
           new \in Row /\ new.deleted = read.deleted /\ new.desired = "suspended" /\ new.status = read.status
    BY <1>1 DEF Row, DesiredState
  <2> QED BY <1>1, <1>2, <1>3, <2>1 DEF Suspend
<1>4. CASE Resume(c)
  <2>1. LET new == [read EXCEPT !.desired = "available"] IN
           new \in Row /\ new.deleted = read.deleted /\ new.desired = "available" /\ new.status = read.status
    BY <1>1 DEF Row, DesiredState
  <2> QED BY <1>1, <1>2, <1>4, <2>1 DEF Resume
<1>5. CASE Retry(c)
  <2>1. LET new == [BudgetReturned(read) EXCEPT
                      !.status = "recovering",
                      !.image = IF @ = "ready" THEN "ready" ELSE "pending"] IN
           /\ new \in Row /\ new.deleted = read.deleted /\ new.desired = read.desired
           /\ new.status = "recovering"
    BY <1>1, RowBounds DEF BudgetReturned, Row, RuntimeStatus, ImageStatus, Stamp
  <2> QED BY <1>1, <1>2, <1>5, <2>1 DEF Retry
<1>6. CASE Delete(c)
  <2> DEFINE new == [read EXCEPT !.deleted = TRUE, !.desired = "retired"]
  <2>1. new \in Row /\ new.deleted # read.deleted /\ new.status = read.status
    BY <1>1 DEF Row, DesiredState
  <2>2. Write(c, new, {})
    BY <1>6 DEF Delete
  <2> HIDE DEF new
  <2> QED BY <1>1, <1>2, <2>1, <2>2
<1>7. CASE Edit(c)
  <2>1. PICK spec \in Specs, image \in ImageStatus :
          Write(c, [read EXCEPT !.spec = spec, !.image = image], {})
    BY <1>7 DEF Edit
  <2>2. LET new == [read EXCEPT !.spec = spec, !.image = image] IN
           /\ new \in Row /\ new.deleted = read.deleted /\ new.desired = read.desired
           /\ new.status = read.status
    BY <1>1 DEF Row
  <2> QED BY <1>1, <1>2, <2>1, <2>2
<1> QED BY <1>1, <1>3, <1>4, <1>5, <1>6, <1>7 DEF Commit

LEMMA ApiTombstone == TypeOK /\ TombstoneInv /\ ApiStep => TombstoneInv'
<1> SUFFICES ASSUME TypeOK, TombstoneInv, ApiStep PROVE TombstoneInv'
  OBVIOUS
<1>1. ASSUME NEW s \in Services, CreateService(s) PROVE TombstoneInv'
  BY <1>1, CreateColumns DEF TypeOK, TombstoneInv, CreateService, Unread, taskVars
<1>2. ASSUME NEW s \in Services, ReachStatus(s) PROVE TombstoneInv'
  <2>1. \A t \in Services : /\ rows'[t].deleted = rows[t].deleted
                            /\ rows'[t].desired = rows[t].desired
                            /\ rows'[t].status = rows[t].status
    BY <1>2 DEF ReachStatus, TypeOK, Row
  <2> QED BY <1>2, <2>1 DEF TypeOK, TombstoneInv, ReachStatus, Unread, taskVars, envVars
<1>3. ASSUME NEW c \in Clients, NEW op \in AllOperations, NEW s \in Services,
             ReadForRequest(c, op, s)
      PROVE  TombstoneInv'
  <2>1. ReadBy(op, rows[s]).desired \in {"available", rows[s].desired} /\ ~ReadBy(op, rows[s]).deleted
    BY ReadByColumns DEF TypeOK
  <2> QED BY <1>3, <2>1 DEF TypeOK, TombstoneInv, ReadForRequest, Unread, taskVars
<1>4. ASSUME NEW c \in Clients, Commit(c) PROVE TombstoneInv'
  <2>1. Answered(c)
    BY <1>4 DEF Commit, Suspend, Resume, Retry, Delete, Edit
  <2> QED BY <1>4, <2>1, CommitColumns DEF TypeOK, TombstoneInv, Answered, Unread, taskVars
<1>5. ASSUME NEW c \in Clients, GiveUp(c) PROVE TombstoneInv'
  BY <1>5 DEF TypeOK, TombstoneInv, GiveUp, Answered, Unread, taskVars
<1> QED BY <1>1, <1>2, <1>3, <1>4, <1>5 DEF ApiStep

(* Docker, the builder and the clocks touch none of the three columns.     *)
LEMMA WorldColumns ==
    ASSUME TypeOK, WorldStep
    PROVE  /\ \A s \in Services : /\ rows'[s].deleted = rows[s].deleted
                                   /\ rows'[s].desired = rows[s].desired
                                   /\ rows'[s].status = rows[s].status
           /\ \A s \in Services : loaded'[s] # Expired =>
                 loaded[s] # Expired /\ loaded'[s].desired = loaded[s].desired
           /\ UNCHANGED <<pc, todo, subject, decision, request>>
<1>1. ASSUME NEW n \in Names, NEW from, NEW to, DockerMoves(n, from, to)
      PROVE  UNCHANGED <<rows, taskVars, request>>
  BY <1>1 DEF DockerMoves, envVars
<1>2. ASSUME NEW n \in Names,
             \/ BootSucceeds(n) \/ Recovers(n) \/ Exits(n) \/ Crashes(n)
             \/ TurnsUnhealthy(n) \/ Vanishes(n)
      PROVE  UNCHANGED <<rows, taskVars, request>>
  BY <1>1, <1>2 DEF BootSucceeds, Recovers, Exits, Crashes, TurnsUnhealthy, Vanishes, envVars
<1>3. ASSUME NEW s \in Services, ImagePruned(s)
      PROVE  UNCHANGED <<rows, taskVars, request>>
  BY <1>3 DEF ImagePruned, envVars
<1>4. ASSUME NEW s \in Services, BuildSucceeds(s) \/ BuildFails(s) \/ BuildRestarts(s)
             \/ BuildOverturned(s)
      PROVE  /\ UNCHANGED <<taskVars, request>>
             /\ \A t \in Services : /\ rows'[t].deleted = rows[t].deleted
                                    /\ rows'[t].desired = rows[t].desired
                                    /\ rows'[t].status = rows[t].status
  BY <1>4 DEF BuildSucceeds, BuildFails, BuildRestarts,
          BuildOverturned, BuildEnds, TypeOK, Row, envVars
<1>5. ASSUME NEW s \in Services, Cool(s) \/ Lapse(s)
      PROVE  /\ UNCHANGED <<pc, todo, subject, decision, request>>
             /\ \A t \in Services : /\ rows'[t].deleted = rows[t].deleted
                                    /\ rows'[t].desired = rows[t].desired
                                    /\ rows'[t].status = rows[t].status
             /\ \A t \in Services : loaded'[t] # Expired =>
                   loaded[t] # Expired /\ loaded'[t].desired = loaded[t].desired
  <2>1. CASE Cool(s)
    <3>1. /\ rows' = [rows EXCEPT ![s].stamp = Aged(@)]
          /\ loaded' = AgeCopy(s, [loaded[s] EXCEPT !.stamp = Aged(@)])
          /\ UNCHANGED <<pc, todo, subject, decision, request>>
      BY <2>1 DEF Cool, envVars
    <3> QED BY <3>1 DEF AgeCopy, TypeOK, Row
  <2>2. CASE Lapse(s)
    <3>1. /\ rows' = [rows EXCEPT ![s].window = @ - 1]
          /\ loaded' = AgeCopy(s, [loaded[s] EXCEPT !.window = IF @ > 0 THEN @ - 1 ELSE 0])
          /\ UNCHANGED <<pc, todo, subject, decision, request>>
      BY <2>2 DEF Lapse, envVars
    <3> QED BY <3>1 DEF AgeCopy, TypeOK, Row
  <2> QED BY <1>5, <2>1, <2>2
<1> QED BY <1>2, <1>3, <1>4, <1>5 DEF WorldStep, taskVars

LEMMA WorldTombstone == TypeOK /\ TombstoneInv /\ WorldStep => TombstoneInv'
<1> SUFFICES ASSUME TypeOK, TombstoneInv, WorldStep PROVE TombstoneInv'
  OBVIOUS
<1> QED BY WorldColumns DEF TypeOK, TombstoneInv

LEMMA StepTombstone == TypeOK /\ TombstoneInv /\ [Next]_vars => TombstoneInv'
<1>1. TombstoneInv /\ UNCHANGED vars => TombstoneInv'
  BY DEF TombstoneInv, vars
<1> QED BY <1>1, PassTombstone, FaultTombstone, ApiTombstone, WorldTombstone DEF Next

(* The inductive invariant itself.                                         *)
THEOREM TombstonesHold == Spec => []TombstoneInv
BY InitType, InitTombstone, StepType, StepTombstone, PTL DEF Spec

(* No step of the reconciler takes a row out of RETIRED.                   *)
THEOREM ReconcilerNeverRevives == Spec => RetiredNotRevived
<1> DEFINE A == \A s \in Services :
                  rows[s].status = "retired" /\ rows'[s].status # "retired" => pc' = pc
<1>1. TypeOK /\ TombstoneInv /\ [Next]_vars => [A]_vars
  <2> SUFFICES ASSUME TypeOK, TombstoneInv, Next PROVE A
    OBVIOUS
  <2>1. CASE PassStep
    <3>1. ASSUME pc \in {"undo", "commit"}, subject \in Services,
                 NEW row, rows' = [rows EXCEPT ![subject] = row]
          PROVE  A
      BY <3>1 DEF TypeOK, TombstoneInv
    <3>2. CASE ChargeFailure
      BY <3>1, <3>2 DEF ChargeFailure, TypeOK
    <3>3. CASE CommitProjection
      BY <3>1, <3>3 DEF CommitProjection, TypeOK
    <3>4. CASE ~ChargeFailure /\ ~CommitProjection
      <4>1. UNCHANGED rows
        BY <2>1, <3>4 DEF PassStep, BeginPass, EndPass, SkipBackoff, ObserveAndDecide,
                StopContainer, RemoveContainer, StartContainer, RecreateContainer
      <4> QED BY <4>1
    <3> QED BY <3>2, <3>3, <3>4
  <2>2. CASE PassFault
    BY <2>2 DEF PassFault, WorkerDies, ActionFails, ObserveFails
  <2>3. CASE ApiStep
    BY <2>3, Zenon DEF ApiStep, CreateService, ReachStatus, ReadForRequest, Commit, Suspend,
                       Resume, Retry, Delete, Edit, GiveUp, Answered, Unread, taskVars
  <2>4. CASE WorldStep
    BY <2>4, WorldColumns
  <2> QED BY <2>1, <2>2, <2>3, <2>4 DEF Next
<1> QED BY <1>1, TypeCorrect, TombstonesHold, PTL DEF Spec, RetiredNotRevived


-----------------------------------------------------------------------------
(* The restart budget                                                      *)

(* No attempts, no time of the last one.                                   *)
Budgeted(row) == row.attempts = 0 <=> row.stamp = "unset"

(* The budget of the row is the copy's, or has been given back since.      *)
SameBudget(row, copy) ==
    \/ row.attempts = copy.attempts /\ row.stamp = copy.stamp
    \/ row.attempts = 0 /\ row.stamp = "unset"

(* Until a pass that has loaded a row spends or returns its budget, others *)
(* only give it back; and what is about to be brought up or charged was    *)
(* not refused, so it has budget left.                                     *)
BudgetInv ==
    /\ \A s \in Services : Budgeted(rows[s])
    /\ \A s \in Services : loaded[s] # Expired =>
          Budgeted(loaded[s]) /\ SameBudget(rows[s], loaded[s])
    /\ \A c \in Clients : request[c] # NoRequest => Budgeted(request[c].read)
    /\ pc \in {"act", "commit"} /\ decision.increment_attempt =>
          loaded[subject].attempts < MaxAttempts
    /\ pc = "act" /\ decision.action \in BringUpActions /\ ~decision.reset_attempts =>
          loaded[subject].attempts < MaxAttempts
    /\ pc = "undo" => loaded[subject] = Expired

(* What the matrix decides about the budget, and how it retires.           *)
LEMMA DecideBudget ==
    ASSUME NEW desired \in DesiredState, NEW observed \in ObservedState,
           NEW drifted \in BOOLEAN, NEW target \in {0, 1}, NEW exhausted \in BOOLEAN
    PROVE  LET d == Decide(desired, observed, drifted, target, exhausted) IN
           /\ d.increment_attempt =>
                 d.action \in BringUpActions /\ ~d.reset_attempts /\ ~exhausted
           /\ d.action \in BringUpActions /\ ~d.reset_attempts => ~exhausted
           /\ d.increment_attempt /\ d.action # "pull" => d.status = "recovering"
           /\ d.status = "retired" => d.action \in {"remove", "finalize"}
           /\ d.action = "finalize" => observed \notin {"running", "booting", "exited_ok",
                                                        "crashed", "created"}
<1> DEFINE Sound(d) ==
      /\ d.increment_attempt =>
            d.action \in BringUpActions /\ ~d.reset_attempts /\ ~exhausted
      /\ d.action \in BringUpActions /\ ~d.reset_attempts => ~exhausted
      /\ d.increment_attempt /\ d.action # "pull" => d.status = "recovering"
      /\ d.status = "retired" => d.action \in {"remove", "finalize"}
      /\ d.action = "finalize" => observed \notin {"running", "booting", "exited_ok",
                                                   "crashed", "created"}
<1>1. Sound(ScaledDown(observed, Refused(observed, exhausted)))
  BY DEF ScaledDown, Do, BringUpActions
<1>2. Sound(Resetting(Do("recreate", "warming")))
  BY DEF Resetting, Do, BringUpActions
<1>3. Sound(Do("mark_failed", "failed"))
  BY DEF Do, BringUpActions
<1>4. ~Refused(observed, exhausted) => Sound(BringUp(observed))
  BY DEF BringUp, Refused, Spending, Do, BringUpActions, ObservedState
<1>5. Sound(Available(observed, drifted, target, exhausted))
  BY <1>1, <1>2, <1>3, <1>4 DEF Available
<1>6. Sound(Suspended(observed))
  BY DEF Suspended, Do, BringUpActions
<1>7. Sound(Retired(observed))
  BY DEF Retired, Do, BringUpActions
<1> HIDE DEF Sound
<1>8. Sound(Decide(desired, observed, drifted, target, exhausted))
  BY <1>5, <1>6, <1>7 DEF Decide, DesiredState
<1> QED BY <1>8 DEF Sound

LEMMA DecisionForBudget ==
    ASSUME TypeOK, NEW s \in Services, NEW row \in Row
    PROVE  LET d == DecisionFor(s, row) IN
           /\ d.increment_attempt => d.action \in BringUpActions /\ ~d.reset_attempts
           /\ d.increment_attempt => row.attempts < MaxAttempts
           /\ d.action \in BringUpActions /\ ~d.reset_attempts => row.attempts < MaxAttempts
           /\ d.increment_attempt /\ d.action # "pull" => d.status = "recovering"
           /\ d.status = "retired" => d.action \in {"remove", "finalize"}
           /\ d.action = "finalize" /\ row.image = "ready" => Of(s).state = "none"
<1> DEFINE o == Observed(row.image, Of(s).state, imagePresent[s])
           d == Drifted(row.image, Of(s).state, Of(s).spec, row.spec)
           n == IF row.desired = "available" THEN ReplicaTarget(row) ELSE 0
           x == row.attempts >= MaxAttempts
<1>1. Of(s).state \in ContainerState /\ imagePresent[s] \in BOOLEAN /\ row.image \in ImageStatus
  BY DEF TypeOK, Of, Names, Container, Row
<1>2. o \in ObservedState
  BY <1>1, ObservedType
<1>4. row.image = "ready" /\ o \notin {"running", "booting", "exited_ok", "crashed", "created"}
         => Of(s).state = "none"
  BY <1>1 DEF Observed, ContainerFact, ContainerState
<1>5. d \in BOOLEAN /\ x \in BOOLEAN /\ n \in {0, 1} /\ row.desired \in DesiredState
  BY DEF Drifted, ReplicaTarget, Row
<1>6. ~x => row.attempts < MaxAttempts
  BY CountsAssumption DEF Row
<1>7. DecisionFor(s, row) = Decide(row.desired, o, d, n, x)
  BY DEF DecisionFor
<1> HIDE DEF o, d, n, x
<1> QED BY <1>2, <1>4, <1>5, <1>6, <1>7, DecideBudget

(* A projection spends an attempt, or leaves the budget, or gives it back. *)
LEMMA ProjectedBudget ==
    ASSUME NEW row \in Row, NEW d \in Decision
    PROVE  LET new == Projected(row, d) IN
           /\ d.increment_attempt /\ row.attempts < AttemptCap =>
                 new.attempts = row.attempts + 1 /\ new.stamp = "hot"
           /\ ~d.increment_attempt => SameBudget(new, row)
           /\ ~d.increment_attempt /\ ~d.reset_attempts /\ new.attempts # row.attempts =>
                 d.status = "ready" /\ row.stamp = "old"
<1> DEFINE budgeted ==
      CASE d.increment_attempt -> Spent(row)
        [] ~d.increment_attempt /\ d.reset_attempts -> BudgetReturned(row)
        [] ~d.increment_attempt /\ ~d.reset_attempts ->
              IF d.status = "ready" /\ EarnsBudget(row) THEN BudgetReturned(row) ELSE row
<1>1. /\ Spent(row).attempts = IF row.attempts < AttemptCap THEN row.attempts + 1 ELSE row.attempts
      /\ Spent(row).stamp = "hot"
      /\ BudgetReturned(row).attempts = 0 /\ BudgetReturned(row).stamp = "unset"
  BY DEF Spent, BudgetReturned, Row
<1>2. Projected(row, d) = [budgeted EXCEPT !.status = d.status]
  BY DEF Projected
<1>3. budgeted \in Row
  BY ChargeType DEF Decision
<1>4. Projected(row, d).attempts = budgeted.attempts /\ Projected(row, d).stamp = budgeted.stamp
  <2> HIDE DEF budgeted
  <2> QED BY <1>2, <1>3 DEF Row
<1>5. CASE d.increment_attempt
  BY <1>1, <1>4, <1>5
<1>6. CASE ~d.increment_attempt /\ d.reset_attempts
  BY <1>1, <1>4, <1>6 DEF SameBudget
<1>7. CASE ~d.increment_attempt /\ ~d.reset_attempts
  BY <1>1, <1>4, <1>7 DEF SameBudget, EarnsBudget
<1> QED BY <1>5, <1>6, <1>7

(* How the pass's commit moves the budget of the row as it is by then.     *)
LEMMA CommitBudget ==
    ASSUME NEW now \in Row, NEW read \in Row, NEW d \in Decision, NEW stamped,
           stamped = IF d.increment_attempt THEN {"stamp"} ELSE {},
           Budgeted(now), Budgeted(read), SameBudget(now, read),
           d.increment_attempt => read.attempts < MaxAttempts
    PROVE  LET new == Saved(now, read, Projected(read, d), stamped) IN
           /\ d.increment_attempt => new.attempts = read.attempts + 1 /\ new.stamp = "hot"
           /\ ~d.increment_attempt => SameBudget(new, now)
           /\ ~d.increment_attempt /\ ~d.reset_attempts /\ new.attempts # now.attempts =>
                 d.status = "ready" /\ now.stamp = "old"
           /\ new.status \in {now.status, d.status}
           /\ now.status \in {read.status, d.status} => new.status = d.status
<1> DEFINE proj == Projected(read, d)
           new == Saved(now, read, proj, stamped)
<1>1. /\ new.attempts = Column(now.attempts, read.attempts, proj.attempts)
      /\ new.stamp = IF d.increment_attempt THEN "hot"
                     ELSE Column(now.stamp, read.stamp, proj.stamp)
      /\ new.status = Column(now.status, read.status, d.status)
  <2>1. proj.status = d.status
    BY ProjectedKeeps
  <2> QED BY <2>1 DEF Saved
<1>2. /\ d.increment_attempt => proj.attempts = read.attempts + 1
      /\ ~d.increment_attempt => SameBudget(proj, read)
      /\ ~d.increment_attempt /\ ~d.reset_attempts /\ proj.attempts # read.attempts =>
            d.status = "ready" /\ read.stamp = "old"
  <2>1. read.attempts < MaxAttempts => read.attempts < AttemptCap
    BY CountsAssumption DEF Row
  <2> QED BY <2>1, ProjectedBudget
<1>3. read.attempts \in Nat
  BY CountsAssumption DEF Row
<1> HIDE DEF proj, new
<1>4. d.increment_attempt => new.attempts = read.attempts + 1 /\ new.stamp = "hot"
  BY <1>1, <1>2, <1>3 DEF Column
<1>5. ~d.increment_attempt => SameBudget(new, now)
  BY <1>1, <1>2 DEF Column, SameBudget, Budgeted
<1>6. ~d.increment_attempt /\ ~d.reset_attempts /\ new.attempts # now.attempts =>
         d.status = "ready" /\ now.stamp = "old"
  BY <1>1, <1>2 DEF Column, SameBudget, Budgeted
<1>7. /\ new.status \in {now.status, d.status}
      /\ now.status \in {read.status, d.status} => new.status = d.status
  BY <1>1 DEF Column
<1> QED BY <1>4, <1>5, <1>6, <1>7 DEF new, proj

(* What a failed bring-up is charged.                                      *)
LEMMA ChargedColumns ==
    ASSUME NEW row \in Row
    PROVE  /\ Charged(row).attempts > 0 /\ Charged(row).attempts >= row.attempts
           /\ Charged(row).stamp = "hot" /\ Charged(row).status = "recovering"
<1>1. /\ Charged(row).attempts = IF row.attempts < AttemptCap THEN row.attempts + 1 ELSE row.attempts
      /\ Charged(row).stamp = "hot" /\ Charged(row).status = "recovering"
  BY DEF Charged, Spent, Row
<1>2. row.attempts \in Nat /\ AttemptCap \in Nat /\ AttemptCap > 0
  BY CountsAssumption DEF Row
<1> QED BY <1>1, <1>2

(* A handler's commit leaves the budget or, for a /retry, gives it back.   *)
LEMMA HandlerBudget ==
    ASSUME TypeOK, BudgetInv, NEW c \in Clients, Commit(c)
    PROVE  \A t \in Services :
              /\ SameBudget(rows'[t], rows[t])
              /\ rows'[t].status \in {rows[t].status, "recovering"}
              /\ rows'[t].attempts # rows[t].attempts =>
                    Asks(c, "retry") /\ request[c].service = t
<1> DEFINE s == request[c].service
           read == request[c].read
<1>0. request[c] # NoRequest
  BY Zenon DEF Commit, Suspend, Resume, Retry, Delete, Edit, Asks
<1>1. s \in Services /\ read \in Row /\ rows[s] \in Row /\ Budgeted(read)
  BY <1>0 DEF TypeOK, BudgetInv, Request
<1>2. ASSUME NEW new \in Row, NEW stamped, Write(c, new, stamped), "stamp" \notin stamped,
             SameBudget(new, read), new.status \in {read.status, "recovering"},
             new.attempts # read.attempts => Asks(c, "retry")
      PROVE  \A t \in Services :
                /\ SameBudget(rows'[t], rows[t])
                /\ rows'[t].status \in {rows[t].status, "recovering"}
                /\ rows'[t].attempts # rows[t].attempts => Asks(c, "retry") /\ s = t
  <2> DEFINE row == Saved(rows[s], read, new, stamped)
  <2>1. /\ row.attempts = Column(rows[s].attempts, read.attempts, new.attempts)
        /\ row.stamp = Column(rows[s].stamp, read.stamp, new.stamp)
        /\ row.status = Column(rows[s].status, read.status, new.status)
    BY <1>2 DEF Saved
  <2>2. rows' = [rows EXCEPT ![s] = row]
    BY <1>2 DEF Write
  <2> HIDE DEF row, s, read
  <2>3. SameBudget(row, rows[s]) /\ row.status \in {rows[s].status, "recovering"}
    BY <1>1, <1>2, <2>1 DEF Column, SameBudget, Budgeted
  <2>4. row.attempts # rows[s].attempts => Asks(c, "retry")
    BY <1>2, <2>1 DEF Column
  <2>5. \A t \in Services : rows'[t] = IF t = s THEN row ELSE rows[t]
    BY <2>2 DEF TypeOK
  <2>6. \A t \in Services : SameBudget(rows[t], rows[t])
    BY DEF SameBudget
  <2> QED BY <2>3, <2>4, <2>5, <2>6
<1>3. CASE Suspend(c)
  <2>1. LET new == [read EXCEPT !.desired = "suspended"] IN
           new \in Row /\ SameBudget(new, read) /\ new.attempts = read.attempts /\ new.status = read.status
    BY <1>1 DEF Row, DesiredState, SameBudget
  <2> QED BY <1>2, <1>3, <2>1 DEF Suspend
<1>4. CASE Resume(c)
  <2>1. LET new == [read EXCEPT !.desired = "available"] IN
           new \in Row /\ SameBudget(new, read) /\ new.attempts = read.attempts /\ new.status = read.status
    BY <1>1 DEF Row, DesiredState, SameBudget
  <2> QED BY <1>2, <1>4, <2>1 DEF Resume
<1>5. CASE Retry(c)
  <2> DEFINE new == [BudgetReturned(read) EXCEPT
                        !.status = "recovering",
                        !.image = IF @ = "ready" THEN "ready" ELSE "pending"]
  <2>1. new \in Row /\ SameBudget(new, read) /\ new.status = "recovering"
    BY <1>1, RowBounds DEF BudgetReturned, Row, RuntimeStatus, ImageStatus, Stamp, SameBudget
  <2>2. Write(c, new, {"window"}) /\ Asks(c, "retry")
    BY <1>5 DEF Retry
  <2> HIDE DEF new
  <2> QED BY <1>2, <2>1, <2>2
<1>6. CASE Delete(c)
  <2> DEFINE new == [read EXCEPT !.deleted = TRUE, !.desired = "retired"]
  <2>1. new \in Row /\ SameBudget(new, read) /\ new.attempts = read.attempts /\ new.status = read.status
    BY <1>1 DEF Row, DesiredState, SameBudget
  <2>2. Write(c, new, {})
    BY <1>6 DEF Delete
  <2> HIDE DEF new
  <2> QED BY <1>2, <2>1, <2>2
<1>7. CASE Edit(c)
  <2>1. PICK spec \in Specs, image \in ImageStatus :
          Write(c, [read EXCEPT !.spec = spec, !.image = image], {})
    BY <1>7, Zenon DEF Edit
  <2>2. LET new == [read EXCEPT !.spec = spec, !.image = image] IN
           new \in Row /\ SameBudget(new, read) /\ new.attempts = read.attempts /\ new.status = read.status
    BY <1>1 DEF Row, SameBudget
  <2> QED BY <1>2, <2>1, <2>2
<1> QED BY <1>3, <1>4, <1>5, <1>6, <1>7 DEF Commit

(* Docker and the builder leave the budget alone; the clock ages the stamp *)
(* of a row and of the pass's copy together.                               *)
LEMMA WorldBudget ==
    ASSUME TypeOK, WorldStep
    PROVE  /\ UNCHANGED <<pc, todo, subject, decision, request>>
           /\ \A t \in Services :
                 /\ rows'[t].attempts = rows[t].attempts /\ rows'[t].status = rows[t].status
                 /\ loaded'[t] # Expired =>
                       /\ loaded[t] # Expired
                       /\ loaded'[t].attempts = loaded[t].attempts
                       /\ loaded'[t].status = loaded[t].status
                       /\ loaded'[t].image = loaded[t].image
                 /\ loaded[t] = Expired => loaded'[t] = Expired
                 /\ \/ /\ rows'[t].stamp = rows[t].stamp
                       /\ loaded'[t] # Expired => loaded'[t].stamp = loaded[t].stamp
                    \/ /\ rows[t].stamp \in {"hot", "cool"} /\ rows'[t].stamp = Aged(rows[t].stamp)
                       /\ loaded'[t] # Expired => loaded'[t].stamp = Aged(loaded[t].stamp)
           /\ \A n \in Names : container[n].state = "none" => container'[n].state = "none"
<1> USE MarkersAssumption
<1>1. ASSUME NEW n \in Names, NEW from, NEW to, DockerMoves(n, from, to), "none" \notin from
      PROVE  /\ UNCHANGED <<rows, taskVars, request, imagePresent>>
             /\ \A m \in Names : container[m].state = "none" => container'[m].state = "none"
  <2>1. /\ container[n].state # "none"
        /\ container' = [container EXCEPT ![n].state = to]
        /\ UNCHANGED <<rows, taskVars, request, imagePresent>>
    BY <1>1 DEF DockerMoves, envVars
  <2> QED BY <2>1 DEF TypeOK
<1>2. ASSUME NEW n \in Names,
             \/ BootSucceeds(n) \/ Recovers(n) \/ Exits(n) \/ Crashes(n)
             \/ TurnsUnhealthy(n)
      PROVE  /\ UNCHANGED <<rows, taskVars, request, imagePresent>>
             /\ \A m \in Names : container[m].state = "none" => container'[m].state = "none"
  BY <1>1, <1>2 DEF BootSucceeds, Recovers, Exits, Crashes, TurnsUnhealthy
<1>3. ASSUME NEW n \in Names, Vanishes(n)
      PROVE  /\ UNCHANGED <<rows, taskVars, request, imagePresent>>
             /\ \A m \in Names : container[m].state = "none" => container'[m].state = "none"
  BY <1>3 DEF Vanishes, envVars, TypeOK, NoContainer
<1>4. ASSUME NEW s \in Services, ImagePruned(s)
      PROVE  UNCHANGED <<rows, taskVars, request, container>>
  BY <1>4 DEF ImagePruned, Fault, envVars
<1>5. ASSUME NEW s \in Services, BuildSucceeds(s) \/ BuildFails(s) \/ BuildRestarts(s)
             \/ BuildOverturned(s)
      PROVE  /\ UNCHANGED <<taskVars, request, container, imagePresent>>
             /\ \A t \in Services : /\ rows'[t].attempts = rows[t].attempts
                                    /\ rows'[t].stamp = rows[t].stamp
                                    /\ rows'[t].status = rows[t].status
  BY <1>5 DEF BuildSucceeds, BuildFails, BuildRestarts,
          BuildOverturned, BuildEnds, TypeOK, Row, envVars
<1>6. ASSUME NEW s \in Services, Cool(s)
      PROVE  /\ UNCHANGED <<pc, todo, subject, decision, request, container, imagePresent>>
             /\ \A t \in Services : t # s => rows'[t] = rows[t] /\ loaded'[t] = loaded[t]
             /\ rows'[s].attempts = rows[s].attempts /\ rows'[s].status = rows[s].status
             /\ rows[s].stamp \in {"hot", "cool"} /\ rows'[s].stamp = Aged(rows[s].stamp)
             /\ loaded[s] = Expired <=> loaded'[s] = Expired
             /\ loaded[s] # Expired =>
                   /\ loaded'[s].attempts = loaded[s].attempts
                   /\ loaded'[s].status = loaded[s].status
                   /\ loaded'[s].image = loaded[s].image
                   /\ loaded'[s].stamp = Aged(loaded[s].stamp)
  <2>1. /\ rows' = [rows EXCEPT ![s].stamp = Aged(@)] /\ rows[s].stamp \in {"hot", "cool"}
        /\ loaded' = AgeCopy(s, [loaded[s] EXCEPT !.stamp = Aged(@)])
        /\ UNCHANGED <<pc, todo, subject, decision, request, container, imagePresent>>
    BY <1>6 DEF Cool, envVars
  <2>2. loaded[s] # Expired => [loaded[s] EXCEPT !.stamp = Aged(@)] \in Row
    BY DEF TypeOK, Row, Stamp, Aged
  <2> QED BY <2>1, <2>2 DEF AgeCopy, TypeOK, Row
<1>7. ASSUME NEW s \in Services, Lapse(s)
      PROVE  /\ UNCHANGED <<pc, todo, subject, decision, request, container, imagePresent>>
             /\ \A t \in Services : t # s => rows'[t] = rows[t] /\ loaded'[t] = loaded[t]
             /\ rows'[s].attempts = rows[s].attempts /\ rows'[s].status = rows[s].status
             /\ rows'[s].stamp = rows[s].stamp
             /\ loaded[s] = Expired <=> loaded'[s] = Expired
             /\ loaded[s] # Expired =>
                   /\ loaded'[s].attempts = loaded[s].attempts
                   /\ loaded'[s].status = loaded[s].status
                   /\ loaded'[s].image = loaded[s].image
                   /\ loaded'[s].stamp = loaded[s].stamp
  <2> DEFINE lapsed == [loaded[s] EXCEPT !.window = IF @ > 0 THEN @ - 1 ELSE 0]
  <2>1. /\ rows' = [rows EXCEPT ![s].window = @ - 1]
        /\ loaded' = AgeCopy(s, lapsed)
        /\ UNCHANGED <<pc, todo, subject, decision, request, container, imagePresent>>
    BY <1>7 DEF Lapse, envVars
  <2>2. loaded[s] # Expired => lapsed \in Row
    <3>1. \A w \in 0 .. Window : (IF w > 0 THEN w - 1 ELSE 0) \in 0 .. Window
      BY CountsAssumption
    <3> QED BY <3>1 DEF TypeOK, Row
  <2>3. loaded[s] # Expired => /\ lapsed.attempts = loaded[s].attempts
                               /\ lapsed.status = loaded[s].status
                               /\ lapsed.image = loaded[s].image
                               /\ lapsed.stamp = loaded[s].stamp
    BY DEF TypeOK, Row
  <2>4. /\ \A t \in Services : t # s => rows'[t] = rows[t]
        /\ rows'[s].attempts = rows[s].attempts /\ rows'[s].status = rows[s].status
        /\ rows'[s].stamp = rows[s].stamp
    BY <2>1 DEF TypeOK, Row
  <2> HIDE DEF lapsed
  <2> QED BY <2>1, <2>2, <2>3, <2>4 DEF AgeCopy, TypeOK
<1>8. CASE \E n \in Names : \/ BootSucceeds(n) \/ Recovers(n) \/ Exits(n) \/ Crashes(n)
                            \/ TurnsUnhealthy(n) \/ Vanishes(n)
  BY <1>2, <1>3, <1>8 DEF taskVars
<1>9. CASE \E s \in Services : ImagePruned(s)
  BY <1>4, <1>9 DEF taskVars
<1>10. CASE \E s \in Services : BuildSucceeds(s) \/ BuildFails(s) \/ BuildRestarts(s)
                                \/ BuildOverturned(s)
  BY <1>5, <1>10 DEF taskVars
<1>11. CASE \E s \in Services : Cool(s)
  <2>1. PICK s \in Services : Cool(s)
    BY <1>11
  <2> QED BY <1>6, <2>1
<1>12. CASE \E s \in Services : Lapse(s)
  <2>1. PICK s \in Services : Lapse(s)
    BY <1>12
  <2> QED BY <1>7, <2>1
<1> QED BY <1>8, <1>9, <1>10, <1>11, <1>12 DEF WorldStep

LEMMA InitBudget == Init => BudgetInv
BY UnbornType DEF Init, BudgetInv, Budgeted

(* The pass's commit, in terms of the row before and after.                *)
LEMMA CommitsBudget ==
    ASSUME TypeOK, BudgetInv, CommitProjection
    PROVE  /\ subject \in Services /\ rows'[subject] \in Row
           /\ \A s \in Services : s # subject => rows'[s] = rows[s]
           /\ decision.increment_attempt =>
                 /\ rows'[subject].attempts = loaded[subject].attempts + 1
                 /\ rows'[subject].stamp = "hot"
           /\ ~decision.increment_attempt => SameBudget(rows'[subject], rows[subject])
           /\ ~decision.increment_attempt /\ ~decision.reset_attempts
              /\ rows'[subject].attempts # rows[subject].attempts =>
                    decision.status = "ready" /\ rows[subject].stamp = "old"
           /\ rows'[subject].status \in {rows[subject].status, decision.status}
           /\ rows[subject].status \in {loaded[subject].status, decision.status} =>
                 rows'[subject].status = decision.status
<1> DEFINE now == rows[subject]
           read == loaded[subject]
           stamped == IF decision.increment_attempt THEN {"stamp"} ELSE {}
           new == Saved(now, read, Projected(read, decision), stamped)
<1>1. /\ pc = "commit" /\ subject \in Services /\ decision \in Decision
      /\ now \in Row /\ read \in Row /\ read # Expired
      /\ rows' = [rows EXCEPT ![subject] = new]
  BY MarkersAssumption DEF CommitProjection, TypeOK
<1>2. /\ Budgeted(now) /\ Budgeted(read) /\ SameBudget(now, read)
      /\ decision.increment_attempt => read.attempts < MaxAttempts
  BY <1>1 DEF BudgetInv
<1>3. new \in Row
  BY <1>1, ProjectedType, SavedType
<1>4. /\ decision.increment_attempt => new.attempts = read.attempts + 1 /\ new.stamp = "hot"
      /\ ~decision.increment_attempt => SameBudget(new, now)
      /\ ~decision.increment_attempt /\ ~decision.reset_attempts /\ new.attempts # now.attempts =>
            decision.status = "ready" /\ now.stamp = "old"
      /\ new.status \in {now.status, decision.status}
      /\ now.status \in {read.status, decision.status} => new.status = decision.status
  BY <1>1, <1>2, CommitBudget
<1>5. rows'[subject] = new /\ \A s \in Services : s # subject => rows'[s] = rows[s]
  BY <1>1 DEF TypeOK
<1> HIDE DEF new, now, read, stamped
<1> QED BY <1>1, <1>3, <1>4, <1>5 DEF now, read

LEMMA PassBudget == TypeOK /\ BudgetInv /\ PassStep => BudgetInv'
<1> SUFFICES ASSUME TypeOK, BudgetInv, PassStep PROVE BudgetInv'
  OBVIOUS
<1> USE MarkersAssumption
<1>0. \A s \in Services : SameBudget(rows[s], rows[s])
  BY DEF SameBudget
<1>1. CASE BeginPass
  BY <1>0, <1>1 DEF TypeOK, BudgetInv, BeginPass, envVars
<1>2. CASE EndPass
  BY <1>2 DEF TypeOK, BudgetInv, EndPass, envVars
<1>3. ASSUME NEW s \in Services, SkipBackoff(s) PROVE BudgetInv'
  BY <1>3 DEF TypeOK, BudgetInv, SkipBackoff, envVars
<1>4. ASSUME NEW s \in Services, ObserveAndDecide(s) PROVE BudgetInv'
  <2>1. /\ decision'.increment_attempt => Copy(s).attempts < MaxAttempts
        /\ decision'.action \in BringUpActions /\ ~decision'.reset_attempts =>
              Copy(s).attempts < MaxAttempts
    BY <1>4, CopyType, DecisionForBudget DEF ObserveAndDecide
  <2>2. Budgeted(Copy(s)) /\ SameBudget(rows[s], Copy(s))
    BY <1>0 DEF BudgetInv, Copy
  <2>3. /\ loaded' = [loaded EXCEPT ![s] = Copy(s)] /\ subject' = s
        /\ pc' \in {"act", "commit"} /\ UNCHANGED <<rows, request>>
    BY <1>4 DEF ObserveAndDecide, envVars
  <2> QED BY <2>1, <2>2, <2>3 DEF TypeOK, BudgetInv
<1>5. CASE StopContainer \/ RemoveContainer \/ StartContainer
  BY <1>5 DEF TypeOK, BudgetInv, StopContainer, RemoveContainer, StartContainer, envVars
<1>6. CASE RecreateContainer
  <2>1. /\ pc = "act" /\ pc' = "commit" /\ loaded' = [loaded EXCEPT ![subject] = rows[subject]]
        /\ UNCHANGED <<rows, subject, decision, request>>
    BY <1>6 DEF RecreateContainer, envVars
  <2>2. decision.increment_attempt => rows[subject].attempts < MaxAttempts
    BY <2>1, CountsAssumption DEF TypeOK, BudgetInv, SameBudget, Row
  <2> QED BY <1>0, <2>1, <2>2 DEF TypeOK, BudgetInv
<1>7. CASE ChargeFailure
  <2>1. /\ Charged(rows[subject]).attempts > 0 /\ Charged(rows[subject]).stamp = "hot"
    BY <1>7, ChargedColumns DEF TypeOK, ChargeFailure
  <2>2. Budgeted(Charged(rows[subject]))
    BY <2>1 DEF Budgeted
  <2>3. /\ rows' = [rows EXCEPT ![subject] = Charged(@)] /\ loaded' = loaded
        /\ loaded[subject] = Expired /\ pc' = "scan" /\ request' = request
    BY <1>7 DEF ChargeFailure, HandDown, BudgetInv, envVars
  <2> QED BY <2>2, <2>3 DEF TypeOK, BudgetInv
<1>8. CASE CommitProjection
  <2>1. Budgeted(rows'[subject])
    <3>1. CASE decision.increment_attempt
      <4>1. loaded[subject].attempts \in Nat
        BY <1>8, CountsAssumption DEF TypeOK, CommitProjection, Row
      <4> QED BY <1>8, <3>1, <4>1, CommitsBudget DEF Budgeted
    <3>2. CASE ~decision.increment_attempt
      BY <1>8, <3>2, CommitsBudget DEF Budgeted, SameBudget, BudgetInv
    <3> QED BY <3>1, <3>2
  <2>2. /\ loaded' = [loaded EXCEPT ![subject] = Expired] /\ pc' = "scan" /\ request' = request
    BY <1>8 DEF CommitProjection, HandDown, envVars
  <2>3. subject \in Services /\ \A s \in Services : s # subject => rows'[s] = rows[s]
    BY <1>8, CommitsBudget
  <2> QED BY <2>1, <2>2, <2>3 DEF TypeOK, BudgetInv
<1> QED BY <1>1, <1>2, <1>3, <1>4, <1>5, <1>6, <1>7, <1>8 DEF PassStep

LEMMA FaultBudget == TypeOK /\ BudgetInv /\ PassFault => BudgetInv'
<1> SUFFICES ASSUME TypeOK, BudgetInv, PassFault PROVE BudgetInv'
  OBVIOUS
<1>1. CASE WorkerDies
  BY <1>1 DEF TypeOK, BudgetInv, WorkerDies, envVars
<1>2. CASE ActionFails
  BY <1>2 DEF TypeOK, BudgetInv, ActionFails, envVars
<1>3. ASSUME NEW s \in Services, ObserveFails(s) PROVE BudgetInv'
  BY <1>3 DEF TypeOK, BudgetInv, ObserveFails, envVars
<1> QED BY <1>1, <1>2, <1>3 DEF PassFault

LEMMA ApiBudget == TypeOK /\ BudgetInv /\ ApiStep => BudgetInv'
<1> SUFFICES ASSUME TypeOK, BudgetInv, ApiStep PROVE BudgetInv'
  OBVIOUS
<1> USE MarkersAssumption
<1>1. ASSUME NEW s \in Services, CreateService(s) PROVE BudgetInv'
  <2>1. \A t \in Services : /\ rows'[t].attempts = rows[t].attempts
                            /\ rows'[t].stamp = rows[t].stamp
    BY <1>1, CreateColumns
  <2> QED BY <1>1, <2>1 DEF TypeOK, BudgetInv, Budgeted, SameBudget, CreateService, Unread,
                            taskVars
<1>2. ASSUME NEW s \in Services, ReachStatus(s) PROVE BudgetInv'
  <2>1. \A t \in Services : /\ rows'[t].attempts = rows[t].attempts
                            /\ rows'[t].stamp = rows[t].stamp
    BY <1>2 DEF ReachStatus, TypeOK, Row
  <2> QED BY <1>2, <2>1 DEF TypeOK, BudgetInv, Budgeted, SameBudget, ReachStatus, Unread,
                            taskVars, envVars
<1>3. ASSUME NEW c \in Clients, NEW op \in AllOperations, NEW s \in Services,
             ReadForRequest(c, op, s)
      PROVE  BudgetInv'
  <2>1. Budgeted(ReadBy(op, rows[s]))
    BY ReadByColumns DEF TypeOK, BudgetInv, Budgeted
  <2> QED BY <1>3, <2>1 DEF TypeOK, BudgetInv, ReadForRequest, Unread, taskVars
<1>4. ASSUME NEW c \in Clients, Commit(c) PROVE BudgetInv'
  <2>1. Answered(c)
    BY <1>4, Zenon DEF Commit, Suspend, Resume, Retry, Delete, Edit
  <2>2. \A t \in Services : SameBudget(rows'[t], rows[t])
    BY <1>4, HandlerBudget
  <2>3. \A t \in Services :
           /\ Budgeted(rows'[t])
           /\ loaded[t] # Expired => SameBudget(rows'[t], loaded[t])
    BY <2>2 DEF BudgetInv, Budgeted, SameBudget
  <2> QED BY <2>1, <2>3 DEF TypeOK, BudgetInv, Answered, Unread, taskVars
<1>5. ASSUME NEW c \in Clients, GiveUp(c) PROVE BudgetInv'
  BY <1>5 DEF TypeOK, BudgetInv, GiveUp, Answered, Unread, taskVars
<1> QED BY <1>1, <1>2, <1>3, <1>4, <1>5 DEF ApiStep

LEMMA WorldKeepsBudget == TypeOK /\ BudgetInv /\ WorldStep => BudgetInv'
<1> SUFFICES ASSUME TypeOK, BudgetInv, WorldStep PROVE BudgetInv'
  OBVIOUS
<1>1. ASSUME NEW t \in Services
      PROVE  /\ Budgeted(rows'[t])
             /\ loaded'[t] # Expired => Budgeted(loaded'[t]) /\ SameBudget(rows'[t], loaded'[t])
  BY WorldBudget DEF BudgetInv, Budgeted, SameBudget, Aged
<1>2. /\ UNCHANGED <<pc, subject, decision, request>>
      /\ \A t \in Services : /\ loaded[t] = Expired => loaded'[t] = Expired
                             /\ loaded'[t] # Expired => loaded'[t].attempts = loaded[t].attempts
  BY WorldBudget
<1>3. /\ pc \in {"act", "commit"} => subject \in Services /\ loaded'[subject] # Expired
      /\ pc = "undo" => subject \in Services
  BY <1>2, StepType, MarkersAssumption DEF TypeOK, Next
<1> QED BY <1>1, <1>2, <1>3 DEF BudgetInv

LEMMA StepBudget == TypeOK /\ BudgetInv /\ [Next]_vars => BudgetInv'
<1>1. BudgetInv /\ UNCHANGED vars => BudgetInv'
  BY DEF BudgetInv, vars
<1> QED BY <1>1, PassBudget, FaultBudget, ApiBudget, WorldKeepsBudget DEF Next

(* What the budget properties follow from.                                 *)
THEOREM BudgetsHold == Spec => []BudgetInv
BY InitType, InitBudget, StepType, StepBudget, PTL DEF Spec

(* Only two steps of the task write rows.                                  *)
LEMMA TaskWrites ==
    ASSUME PassStep \/ PassFault, ~ChargeFailure, ~CommitProjection
    PROVE  UNCHANGED rows
BY DEF PassStep, BeginPass, EndPass, SkipBackoff, ObserveAndDecide, StopContainer,
       RemoveContainer, StartContainer, RecreateContainer, PassFault, WorkerDies,
       ActionFails, ObserveFails

(* Attempts are given back by an operator's /retry, an edit that reached   *)
(* the container, or the cooldown, and in no other way.                    *)
THEOREM BudgetsAreEarned == Spec => BudgetReturnedOnlyWhenEarned
<1> DEFINE A == \A s \in Services : rows'[s].attempts < rows[s].attempts =>
          \/ \E c \in Clients : Asks(c, "retry") /\ request[c].service = s
          \/ pc = "commit" /\ subject = s /\ decision.reset_attempts
          \/ pc = "commit" /\ subject = s /\ rows[s].stamp = "old" /\ decision.status = "ready"
<1>1. TypeOK /\ TypeOK' /\ BudgetInv /\ [Next]_vars => [A]_vars
  <2> SUFFICES ASSUME TypeOK, TypeOK', BudgetInv, Next PROVE A
    OBVIOUS
  <2>0. \A s \in Services : rows[s].attempts \in Nat /\ rows'[s].attempts \in Nat
    BY CountsAssumption DEF TypeOK, Row
  <2>1. CASE PassStep \/ PassFault
    <3>1. CASE ChargeFailure
      <4>1. /\ subject \in Services /\ rows[subject] \in Row
            /\ rows' = [rows EXCEPT ![subject] = Charged(@)]
        BY <3>1 DEF ChargeFailure, TypeOK
      <4>2. Charged(rows[subject]).attempts >= rows[subject].attempts
        BY <4>1, ChargedColumns
      <4>3. \A s \in Services : rows'[s] = IF s = subject THEN Charged(rows[s]) ELSE rows[s]
        BY <4>1 DEF TypeOK
      <4> QED BY <2>0, <4>2, <4>3
    <3>2. CASE CommitProjection
      <4>1. pc = "commit" /\ loaded[subject] # Expired /\ loaded[subject].attempts \in Nat
        BY <3>2, MarkersAssumption, CountsAssumption DEF CommitProjection, TypeOK, Row
      <4>2. rows[subject].attempts <= loaded[subject].attempts
        BY <4>1, <3>2, CommitsBudget DEF BudgetInv, SameBudget
      <4>3. rows'[subject].attempts < rows[subject].attempts =>
                \/ decision.reset_attempts
                \/ rows[subject].stamp = "old" /\ decision.status = "ready"
        BY <2>0, <3>2, <4>1, <4>2, CommitsBudget
      <4> QED BY <2>0, <3>2, <4>1, <4>3, CommitsBudget
    <3>3. CASE ~ChargeFailure /\ ~CommitProjection
      BY <2>0, <2>1, <3>3, TaskWrites
    <3> QED BY <3>1, <3>2, <3>3
  <2>2. CASE ApiStep
    <3>1. ASSUME NEW c \in Clients, Commit(c) PROVE A
      BY <2>0, <3>1, HandlerBudget
    <3>2. ASSUME NEW s \in Services, ReachStatus(s) PROVE A
      <4>1. \A t \in Services : rows'[t].attempts = rows[t].attempts
        BY <3>2 DEF ReachStatus, TypeOK, Row
      <4> QED BY <2>0, <4>1
    <3>3. ASSUME NEW s \in Services, CreateService(s) PROVE A
      BY <2>0, <3>3, CreateColumns
    <3>4. CASE UNCHANGED rows
      BY <2>0, <3>4
    <3> QED BY <2>2, <3>1, <3>2, <3>3, <3>4 DEF ApiStep, ReadForRequest, GiveUp
  <2>3. CASE WorldStep
    BY <2>0, <2>3, WorldBudget
  <2> QED BY <2>1, <2>2, <2>3 DEF Next
<1> QED BY <1>1, TypeCorrect, BudgetsHold, PTL DEF Spec, BudgetReturnedOnlyWhenEarned

(* A spent budget keeps the pass from bringing the service up, whatever    *)
(* handlers and the builder did to its row since the pass loaded it.       *)
THEOREM SpentBudgetsHold == Spec => SpentBudgetStopsBringUps
<1> DEFINE A == \A s \in Services :
          (/\ subject = s /\ rows[s].attempts >= MaxAttempts
           /\ ~Live(Of(s).state) /\ Live(Of(s)'.state)) => decision.reset_attempts
<1>1. TypeOK /\ BudgetInv /\ [Next]_vars => [A]_vars
  <2> SUFFICES ASSUME TypeOK, BudgetInv, Next PROVE A
    OBVIOUS
  <2>1. CASE \E n \in Names : BootSucceeds(n) \/ Recovers(n) \/ Exits(n) \/ Crashes(n)
                              \/ TurnsUnhealthy(n)
    <3>1. PICK n \in Names, to \in ContainerState :
             /\ container[n].state \in {"booting", "up", "unhealthy"}
             /\ container' = [container EXCEPT ![n].state = to]
      BY <2>1 DEF BootSucceeds, Recovers, Exits, Crashes, TurnsUnhealthy, DockerMoves,
                  ContainerState
    <3> QED BY <3>1 DEF TypeOK, Of, Live, Names
  <2>2. ASSUME pc = "act", decision.action \in BringUpActions
        PROVE  A
    <3>1. subject \in Services /\ loaded[subject] # Expired
      BY <2>2, MarkersAssumption DEF TypeOK
    <3>2. ~decision.reset_attempts => loaded[subject].attempts < MaxAttempts
      BY <2>2 DEF BudgetInv
    <3>3. SameBudget(rows[subject], loaded[subject]) /\ loaded[subject].attempts \in Nat
      BY <2>2, <3>1, CountsAssumption DEF BudgetInv, TypeOK, Row
    <3>4. ~decision.reset_attempts => ~(rows[subject].attempts >= MaxAttempts)
      BY <3>2, <3>3, CountsAssumption DEF SameBudget
    <3> QED BY <3>4
  <2>3. CASE StartContainer \/ RecreateContainer
    BY <2>2, <2>3 DEF StartContainer, RecreateContainer, Recreates, BringUpActions
  <2>10. CASE pc = "act" /\ BreaksOff
    <3>1. CASE decision.action \notin BringUpActions
      BY <2>10, <3>1, BreaksOffType
    <3> QED BY <2>2, <2>10, <3>1
  <2>4. CASE StopContainer \/ RemoveContainer \/ \E n \in Names : Vanishes(n)
    <3>1. ASSUME StopContainer PROVE A
      <4>1. /\ subject \in Services /\ Of(subject) \in Container
            /\ container' = [container EXCEPT ![NameOf[subject]] = Stopped(Of(subject))]
        BY <3>1 DEF StopContainer, TypeOK, Of, Names
      <4>2. ~Live(Stopped(Of(subject)).state)
        BY <4>1, StoppedStarted
      <4> QED BY <4>1, <4>2 DEF TypeOK, Of, Names
    <3>2. ASSUME NEW n, container' = [container EXCEPT ![n] = NoContainer]
          PROVE  A
      BY <3>2 DEF TypeOK, Of, Live, Names, NoContainer
    <3> QED BY <2>4, <3>1, <3>2 DEF RemoveContainer, Vanishes
  <2>5. CASE UNCHANGED container
    BY <2>5 DEF Of
  <2>6. CASE PassStep
    BY <2>6, <2>3, <2>4, <2>5 DEF PassStep, BeginPass, EndPass, SkipBackoff, ObserveAndDecide,
                                 ChargeFailure, CommitProjection
  <2>7. CASE PassFault
    BY <2>7, <2>10, <2>5, Zenon DEF PassFault, WorkerDies, ActionFails, ObserveFails
  <2>8. CASE ApiStep
    <3>1. UNCHANGED container
      BY <2>8, Zenon DEF ApiStep, CreateService, ReachStatus, ReadForRequest, Commit, Suspend,
                         Resume, Retry, Delete, Edit, GiveUp, Answered, Unread
    <3> QED BY <3>1, <2>5
  <2>9. CASE WorldStep
    <3>1. ASSUME NEW s \in Services, \/ ImagePruned(s) \/ BuildSucceeds(s) \/ BuildFails(s)
                                     \/ BuildRestarts(s) \/ BuildOverturned(s)
                                     \/ Cool(s) \/ Lapse(s)
          PROVE  UNCHANGED container
      BY <3>1 DEF ImagePruned, BuildSucceeds, BuildFails, BuildRestarts, BuildOverturned,
                  BuildEnds, Cool, Lapse
    <3> QED BY <2>9, <2>1, <2>4, <2>5, <3>1 DEF WorldStep
  <2> QED BY <2>6, <2>7, <2>8, <2>9 DEF Next
<1> QED BY <1>1, TypeCorrect, BudgetsHold, PTL DEF Spec, SpentBudgetStopsBringUps

-----------------------------------------------------------------------------
(* The backoff                                                             *)

Hot(row) == row.attempts > 0 /\ row.stamp = "hot"
Gated(row) == Hot(row) => row.status = "recovering"

(* Every attempt but a successful pull leaves its row RECOVERING until it  *)
(* has cooled, so a row in hand is not hot.  A pull leaves it WARMING,     *)
(* where the gate does not look.                                           *)
BackoffInv ==
    /\ \A s \in Services : ~pulled[s] => Gated(rows[s])
    /\ \A s \in Services : loaded[s] # Expired =>
          /\ ~pulled[s] => Gated(loaded[s])
          /\ rows[s].status \in {loaded[s].status, "recovering"}
    /\ pc \in {"act", "commit", "undo"} => (~pulled[subject] => ~Hot(rows[subject]))
    /\ pc \in {"act", "commit"} /\ decision.increment_attempt /\ decision.action # "pull" =>
          decision.status = "recovering"

LEMMA InitBackoff == Init => BackoffInv
<1> SUFFICES ASSUME Init PROVE BackoffInv
  OBVIOUS
<1>1. \A s \in Services : rows[s].attempts = 0 /\ loaded[s] = Expired
  BY UnbornType DEF Init
<1> QED BY <1>1 DEF Init, BackoffInv, Gated, Hot

LEMMA PassBackoff == TypeOK /\ BudgetInv /\ BackoffInv /\ PassStep => BackoffInv'
<1> SUFFICES ASSUME TypeOK, BudgetInv, BackoffInv, PassStep PROVE BackoffInv'
  OBVIOUS
<1> USE MarkersAssumption
<1>1. CASE BeginPass
  BY <1>1 DEF TypeOK, BackoffInv, BeginPass, envVars
<1>2. CASE EndPass
  BY <1>2 DEF TypeOK, BackoffInv, EndPass, envVars
<1>3. ASSUME NEW s \in Services, SkipBackoff(s) PROVE BackoffInv'
  BY <1>3 DEF TypeOK, BackoffInv, SkipBackoff, envVars
<1>4. ASSUME NEW s \in Services, ObserveAndDecide(s) PROVE BackoffInv'
  <2>1. /\ ~InBackoff(Copy(s)) /\ loaded' = [loaded EXCEPT ![s] = Copy(s)] /\ subject' = s
        /\ pc' \in {"act", "commit"} /\ UNCHANGED <<rows, pulled>>
    BY <1>4 DEF ObserveAndDecide, envVars
  <2>2. /\ ~pulled[s] => Gated(Copy(s))
        /\ rows[s].status \in {Copy(s).status, "recovering"}
    BY DEF BackoffInv, Copy
  <2>3. SameBudget(rows[s], Copy(s))
    BY DEF BudgetInv, Copy, SameBudget
  <2>4. ~pulled[s] => ~Hot(rows[s])
    BY <2>1, <2>2, <2>3 DEF InBackoff, Gated, Hot, SameBudget
  <2>5. decision'.increment_attempt /\ decision'.action # "pull" =>
            decision'.status = "recovering"
    BY <1>4, CopyType, DecisionForBudget DEF ObserveAndDecide
  <2> QED BY <2>1, <2>2, <2>4, <2>5 DEF TypeOK, BackoffInv
<1>5. CASE StopContainer \/ RemoveContainer \/ StartContainer
  BY <1>5 DEF TypeOK, BackoffInv, StopContainer, RemoveContainer, StartContainer, envVars
<1>6. CASE RecreateContainer
  BY <1>6 DEF TypeOK, BackoffInv, RecreateContainer, envVars
<1>7. CASE ChargeFailure
  <2>1. Charged(rows[subject]).status = "recovering"
    BY <1>7, ChargedColumns DEF TypeOK, ChargeFailure
  <2>2. Gated(Charged(rows[subject]))
    BY <2>1 DEF Gated
  <2>3. /\ rows' = [rows EXCEPT ![subject] = Charged(@)] /\ loaded' = loaded
        /\ loaded[subject] = Expired /\ pc' = "scan"
    BY <1>7 DEF ChargeFailure, HandDown, BudgetInv
  <2>4. \A s \in Services : s # subject => rows'[s] = rows[s] /\ pulled'[s] = pulled[s]
    BY <1>7 DEF ChargeFailure, TypeOK
  <2> QED BY <2>2, <2>3, <2>4 DEF TypeOK, BackoffInv
<1>8. CASE CommitProjection
  <2>1. /\ pc = "commit" /\ loaded[subject] # Expired /\ subject \in Services
        /\ loaded' = [loaded EXCEPT ![subject] = Expired] /\ pc' = "scan"
    BY <1>8 DEF CommitProjection, HandDown, TypeOK
  <2>2. ~pulled'[subject] => Gated(rows'[subject])
    <3>1. CASE decision.increment_attempt
      <4>1. /\ rows'[subject].attempts = loaded[subject].attempts + 1
            /\ SameBudget(rows[subject], loaded[subject]) /\ loaded[subject].attempts \in Nat
        BY <1>8, <2>1, <3>1, CommitsBudget, CountsAssumption DEF BudgetInv, TypeOK, Row
      <4>2. ~pulled'[subject] => decision.action # "pull"
        BY <1>8, <2>1, <3>1 DEF CommitProjection, TypeOK
      <4> QED BY <1>8, <2>1, <3>1, <4>1, <4>2, CommitsBudget DEF BackoffInv, Gated
    <3>2. CASE ~decision.increment_attempt
      <4>1. SameBudget(rows'[subject], rows[subject])
        BY <1>8, <3>2, CommitsBudget
      <4>2. pulled'[subject] = pulled[subject]
        BY <1>8, <2>1, <3>2 DEF CommitProjection, TypeOK
      <4> QED BY <2>1, <4>1, <4>2 DEF BackoffInv, Gated, Hot, SameBudget
    <3> QED BY <3>1, <3>2
  <2>3. \A s \in Services : s # subject => rows'[s] = rows[s]
    BY <1>8, CommitsBudget
  <2>4. \A s \in Services : s # subject => pulled'[s] = pulled[s]
    BY <1>8 DEF CommitProjection, TypeOK
  <2> QED BY <2>1, <2>2, <2>3, <2>4 DEF TypeOK, BackoffInv
<1> QED BY <1>1, <1>2, <1>3, <1>4, <1>5, <1>6, <1>7, <1>8 DEF PassStep

LEMMA FaultBackoff == TypeOK /\ BackoffInv /\ PassFault => BackoffInv'
<1> SUFFICES ASSUME TypeOK, BackoffInv, PassFault PROVE BackoffInv'
  OBVIOUS
<1>0. /\ UNCHANGED <<rows, pulled>>
      /\ \/ pc' \in {"idle", "scan"}
         \/ pc = "act" /\ pc' = "undo" /\ UNCHANGED subject
      /\ \A s \in Services : loaded'[s] = Expired
  BY DEF PassFault, WorkerDies, ActionFails, ObserveFails, envVars
<1> QED BY <1>0 DEF TypeOK, BackoffInv

LEMMA ApiBackoff == TypeOK /\ BudgetInv /\ BackoffInv /\ ApiStep => BackoffInv'
<1> SUFFICES ASSUME TypeOK, BudgetInv, BackoffInv, ApiStep PROVE BackoffInv'
  OBVIOUS
<1> USE MarkersAssumption
<1>1. UNCHANGED <<taskVars, pulled>>
  BY Zenon DEF ApiStep, CreateService, ReachStatus, ReadForRequest, Commit, Suspend, Resume,
               Retry, Delete, Edit, GiveUp, Answered, Unread
<1>2. ASSUME NEW t \in Services
      PROVE  /\ SameBudget(rows'[t], rows[t])
             /\ rows'[t].status \in {rows[t].status, "recovering"}
  <2>1. CASE UNCHANGED rows
    BY <2>1 DEF SameBudget
  <2>2. ASSUME NEW s \in Services, CreateService(s)
        PROVE  SameBudget(rows'[t], rows[t]) /\ rows'[t].status = rows[t].status
    BY <2>2, CreateColumns DEF SameBudget
  <2>3. ASSUME NEW s \in Services, ReachStatus(s)
        PROVE  SameBudget(rows'[t], rows[t]) /\ rows'[t].status = rows[t].status
    BY <2>3 DEF ReachStatus, TypeOK, Row, SameBudget
  <2>4. ASSUME NEW c \in Clients, Commit(c)
        PROVE  /\ SameBudget(rows'[t], rows[t])
               /\ rows'[t].status \in {rows[t].status, "recovering"}
    BY <2>4, HandlerBudget
  <2> QED BY <2>1, <2>2, <2>3, <2>4 DEF ApiStep, ReadForRequest, GiveUp
<1>3. \A t \in Services : Hot(rows'[t]) => Hot(rows[t])
  BY <1>2 DEF Hot, SameBudget
<1> QED BY <1>1, <1>2, <1>3 DEF TypeOK, BackoffInv, Gated, taskVars

LEMMA WorldBackoff == TypeOK /\ BackoffInv /\ WorldStep => BackoffInv'
<1> SUFFICES ASSUME TypeOK, BackoffInv, WorldStep PROVE BackoffInv'
  OBVIOUS
<1>0. UNCHANGED pulled
  BY DEF WorldStep, BootSucceeds, Recovers, Exits, Crashes, TurnsUnhealthy, DockerMoves, Vanishes,
         ImagePruned, BuildSucceeds, BuildFails, BuildEnds, BuildRestarts, BuildOverturned,
         Cool, Lapse, envVars
<1>1. ASSUME NEW t \in Services
      PROVE  /\ Hot(rows'[t]) => Hot(rows[t])
             /\ ~pulled[t] => Gated(rows'[t])
             /\ loaded'[t] # Expired =>
                   /\ ~pulled[t] => Gated(loaded'[t])
                   /\ rows'[t].status \in {loaded'[t].status, "recovering"}
  BY WorldBudget DEF BackoffInv, Gated, Hot, Aged
<1>2. UNCHANGED <<pc, subject, decision>>
  BY WorldBudget
<1> QED BY <1>0, <1>1, <1>2 DEF TypeOK, BackoffInv

LEMMA StepBackoff == TypeOK /\ BudgetInv /\ BackoffInv /\ [Next]_vars => BackoffInv'
<1>1. BackoffInv /\ UNCHANGED vars => BackoffInv'
  BY DEF BackoffInv, vars
<1> QED BY <1>1, PassBackoff, FaultBackoff, ApiBackoff, WorldBackoff DEF Next

(* Two attempts on one budget are a backoff apart unless the earlier one   *)
(* was a pull that succeeded, whatever faults, handlers, builds and worker *)
(* deaths come in between.                                                 *)
THEOREM AttemptsAreSpaced == Spec => OtherAttemptsAreSpaced
<1> DEFINE A == \A s \in Services :
          rows'[s].attempts > rows[s].attempts /\ rows[s].attempts > 0 /\ ~pulled[s] => rows[s].stamp # "hot"
<1>1. TypeOK /\ BudgetInv /\ BackoffInv /\ [Next]_vars => [A]_vars
  <2> SUFFICES ASSUME TypeOK, BudgetInv, BackoffInv, Next PROVE A
    OBVIOUS
  <2>0. \A s \in Services : rows[s].attempts \in Nat
    BY CountsAssumption DEF TypeOK, Row
  <2>1. ASSUME pc \in {"commit", "undo"},
               \A s \in Services : s # subject => rows'[s] = rows[s]
        PROVE  A
    BY <2>0, <2>1 DEF BackoffInv, Hot
  <2>2. ASSUME \A s \in Services : SameBudget(rows'[s], rows[s])
        PROVE  A
    BY <2>0, <2>2 DEF SameBudget
  <2>3. ASSUME \A s \in Services : rows'[s].attempts = rows[s].attempts
        PROVE  A
    BY <2>0, <2>3
  <2>4. CASE PassStep \/ PassFault
    <3>1. CASE ChargeFailure
      BY <2>1, <3>1 DEF ChargeFailure, TypeOK
    <3>2. CASE CommitProjection
      BY <2>1, <3>2, CommitsBudget DEF CommitProjection
    <3> QED BY <2>3, <2>4, <3>1, <3>2, TaskWrites
  <2>5. CASE ApiStep
    <3>1. ASSUME NEW s \in Services, ReachStatus(s) PROVE A
      BY <2>3, <3>1 DEF ReachStatus, TypeOK, Row
    <3>2. ASSUME NEW s \in Services, CreateService(s) PROVE A
      BY <2>3, <3>2, CreateColumns
    <3> QED BY <2>2, <2>3, <2>5, <3>1, <3>2, HandlerBudget
            DEF ApiStep, ReadForRequest, GiveUp
  <2>6. CASE WorldStep
    BY <2>3, <2>6, WorldBudget
  <2> QED BY <2>4, <2>5, <2>6 DEF Next
<1> QED BY <1>1, TypeCorrect, BudgetsHold, InitBackoff, StepBackoff, PTL
        DEF Spec, OtherAttemptsAreSpaced

-----------------------------------------------------------------------------
(* Retiring                                                                *)

(* A RETIRED projection waits for the removal of the container, if one was *)
(* seen; and what is gone before the commit is gone at the commit.         *)
GoneInv ==
    pc \in {"act", "commit"} /\ decision.status = "retired" =>
        /\ pc = "act" => decision.action = "remove"
        /\ pc = "commit" /\ loaded[subject].image = "ready" => Of(subject).state = "none"

LEMMA StepGone == TypeOK /\ GoneInv /\ [Next]_vars => GoneInv'
<1> SUFFICES ASSUME TypeOK, GoneInv, [Next]_vars PROVE GoneInv'
  OBVIOUS
<1> USE MarkersAssumption
<1>1. ASSUME NEW s \in Services, ObserveAndDecide(s) PROVE GoneInv'
  <2>1. /\ decision' = DecisionFor(s, Copy(s)) /\ loaded' = [loaded EXCEPT ![s] = Copy(s)]
        /\ subject' = s /\ UNCHANGED container
        /\ pc' = IF decision'.action \in {"none", "finalize", "mark_failed"}
                 THEN "commit" ELSE "act"
    BY <1>1 DEF ObserveAndDecide
  <2>2. /\ decision'.status = "retired" => decision'.action \in {"remove", "finalize"}
        /\ decision'.action = "finalize" /\ Copy(s).image = "ready" => Of(s).state = "none"
    BY <2>1, CopyType, DecisionForBudget
  <2> QED BY <2>1, <2>2 DEF TypeOK, GoneInv, Of
<1>2. CASE RemoveContainer
  <2>1. /\ container' = [container EXCEPT ![NameOf[subject]] = NoContainer]
        /\ subject \in Services /\ subject' = subject /\ pc' = "commit"
    BY <1>2 DEF RemoveContainer, TypeOK
  <2> QED BY <2>1 DEF TypeOK, GoneInv, Of, Names, NoContainer
<1>3. CASE StopContainer \/ StartContainer \/ RecreateContainer
  BY <1>3 DEF GoneInv, StopContainer, StartContainer, RecreateContainer, Recreates
<1>4. CASE PassStep
  <2>1. CASE \/ BeginPass \/ EndPass \/ ChargeFailure \/ CommitProjection
             \/ \E s \in Services : SkipBackoff(s)
    BY <2>1 DEF GoneInv, BeginPass, EndPass, ChargeFailure, CommitProjection, SkipBackoff,
                HandDown
  <2> QED BY <1>1, <1>2, <1>3, <1>4, <2>1 DEF PassStep
<1>5. CASE PassFault
  BY <1>5 DEF PassFault, WorkerDies, ActionFails, ObserveFails, GoneInv
<1>6. CASE ApiStep
  <2>1. UNCHANGED <<container, taskVars>>
    BY <1>6, Zenon DEF ApiStep, CreateService, ReachStatus, ReadForRequest, Commit, Suspend,
                       Resume, Retry, Delete, Edit, GiveUp, Answered, Unread
  <2> QED BY <2>1 DEF GoneInv, Of, taskVars
<1>7. CASE WorldStep
  <2>1. /\ UNCHANGED <<pc, subject, decision>>
        /\ \A n \in Names : container[n].state = "none" => container'[n].state = "none"
        /\ \A t \in Services : loaded'[t] # Expired => loaded'[t].image = loaded[t].image
    BY <1>7, WorldBudget
  <2>2. pc \in {"act", "commit"} => subject \in Services /\ loaded'[subject] # Expired
    BY <1>7, <2>1, StepType DEF TypeOK, Next
  <2> QED BY <2>1, <2>2 DEF GoneInv, Of, Names
<1>8. CASE UNCHANGED vars
  BY <1>8 DEF GoneInv, Of, vars
<1> QED BY <1>4, <1>5, <1>6, <1>7, <1>8 DEF Next

(* A service whose image was READY leaves no container behind when it is   *)
(* projected RETIRED, whichever container its name held and whatever       *)
(* Docker and the handlers did since the pass looked.                      *)
THEOREM RetiredAreGone == Spec => RetiredLeavesNoContainer
<1> DEFINE A == \A s \in Services :
          (/\ rows[s].status # "retired" /\ rows'[s].status = "retired"
           /\ loaded[s].image = "ready") => Of(s).state = "none"
<1>1. TypeOK /\ BudgetInv /\ GoneInv /\ [Next]_vars => [A]_vars
  <2> SUFFICES ASSUME TypeOK, BudgetInv, GoneInv, Next PROVE A
    OBVIOUS
  <2>1. ASSUME \A s \in Services : rows'[s].status \in {rows[s].status, "recovering"}
        PROVE  A
    BY <2>1
  <2>2. CASE PassStep \/ PassFault
    <3>1. CASE ChargeFailure
      <4>1. subject \in Services /\ Charged(rows[subject]).status = "recovering"
        BY <3>1, ChargedColumns DEF ChargeFailure, TypeOK
      <4> QED BY <2>1, <3>1, <4>1 DEF ChargeFailure, TypeOK
    <3>2. CASE CommitProjection
      BY <3>2, CommitsBudget DEF CommitProjection, GoneInv
    <3> QED BY <2>1, <2>2, <3>1, <3>2, TaskWrites
  <2>3. CASE ApiStep
    <3>1. ASSUME NEW s \in Services, ReachStatus(s) PROVE A
      BY <2>1, <3>1 DEF ReachStatus, TypeOK, Row
    <3>2. ASSUME NEW s \in Services, CreateService(s) PROVE A
      BY <2>1, <3>2, CreateColumns
    <3> QED BY <2>1, <2>3, <3>1, <3>2, HandlerBudget DEF ApiStep, ReadForRequest, GiveUp
  <2>4. CASE WorldStep
    BY <2>1, <2>4, WorldBudget
  <2> QED BY <2>2, <2>3, <2>4 DEF Next
<1>2. Init => GoneInv
  BY DEF Init, GoneInv
<1> QED BY <1>1, <1>2, StepGone, TypeCorrect, BudgetsHold, PTL
        DEF Spec, RetiredLeavesNoContainer
=============================================================================
