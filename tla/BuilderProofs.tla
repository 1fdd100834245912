----------------------------- MODULE BuilderProofs ----------------------------
(***************************************************************************)
(* What TLAPS proves of the build path for any number of images, workers   *)
(* and handlers and any bound: type correctness, that READY means pushed,  *)
(* that the reaper respects the last request, and that every step is a     *)
(* step of ImageLife.                                                      *)
(***************************************************************************)
EXTENDS Builder, TLAPS

-----------------------------------------------------------------------------
(* Type correctness *)

LEMMA TransitionType ==
    ASSUME TypeOK, NEW h \in Images, NEW seen, NEW status \in Status,
           Transition(h, seen, status)
    PROVE  row' \in [Images -> Status] /\ age' \in [Images -> 0 .. StaleAfter]
BY BuilderCounts DEF TypeOK, Transition

LEMMA FaultType ==
    ASSUME TypeOK, NEW kind, Fault(kind)
    PROVE  faults' \in 0 .. MaxFaults
BY BuilderCounts DEF TypeOK, Fault

LEMMA AskType ==
    ASSUME TypeOK, asks < MaxAsks
    PROVE  asks + 1 \in 1 .. MaxAsks /\ asks + 1 \in 0 .. MaxAsks
BY BuilderCounts DEF TypeOK

LEMMA HandlerType == TypeOK /\ HandlerStep => TypeOK'
<1> SUFFICES ASSUME TypeOK, HandlerStep PROVE TypeOK'
  OBVIOUS
<1>1. ASSUME NEW a \in Handlers, NEW h \in Images, Resolve(a, h) PROVE TypeOK'
  BY <1>1, AskType, BuilderCounts DEF Resolve, TypeOK, Handler, Status
<1>2. ASSUME NEW a \in Handlers, NEW h \in Images, RetryReads(a, h) PROVE TypeOK'
  BY <1>2, AskType DEF RetryReads, TypeOK, Handler, Status, rowVars
<1>3. ASSUME NEW a \in Handlers, RetryCommits(a) PROVE TypeOK'
  <2>1. handler[a].image \in Images /\ handler[a].ask \in 1 .. MaxAsks
    BY <1>3 DEF RetryCommits, TypeOK, Handler, Free
  <2> QED BY <1>3, <2>1, BuilderCounts DEF RetryCommits, TypeOK, Handler, Status
<1>4. ASSUME NEW a \in Handlers, Enqueue(a) PROVE TypeOK'
  <2>1. handler[a].image \in Images /\ handler[a].ask \in 1 .. MaxAsks
    BY <1>4 DEF Enqueue, TypeOK, Handler, Free
  <2>2. [image |-> handler[a].image, retries |-> 0, ask |-> handler[a].ask] \in Message
    BY <2>1, BuilderCounts DEF Message
  <2> QED BY <1>4, <2>2 DEF Enqueue, TypeOK, Handler, rowVars
<1>5. ASSUME NEW a \in Handlers, EnqueueLost(a) PROVE TypeOK'
  BY <1>5, FaultType DEF EnqueueLost, TypeOK, Handler, rowVars
<1> QED BY <1>1, <1>2, <1>3, <1>4, <1>5 DEF HandlerStep

LEMMA HeldMessage ==
    ASSUME TypeOK, NEW w \in Workers, attempt[w] # Free
    PROVE  attempt[w].message \in Message /\ attempt[w].message.image \in Images
BY DEF TypeOK, Attempt, Free, Message

LEMMA NextAttempt ==
    ASSUME TypeOK, NEW w \in Workers, NEW next \in Attempt, Becomes(w, next)
    PROVE  attempt' \in [Workers -> Attempt]
BY DEF TypeOK, Becomes

LEMMA AttemptForms ==
    /\ Free \in Attempt
    /\ \A m \in Message, seen \in Status :
          [pc |-> "claim", message |-> m, seen |-> seen] \in Attempt
    /\ \A m \in Message, pc \in {"build", "report", "fail"} :
          [pc |-> pc, message |-> m] \in Attempt
BY DEF Attempt

LEMMA BuildType ==
    ASSUME TypeOK, NEW w \in Workers, BuildStep(w) \/ BuildFault(w)
    PROVE  TypeOK'
<1>1. ASSUME NEW m \in queue, Deliver(w, m) PROVE TypeOK'
  <2>1. m \in Message /\ row[m.image] \in Status
    BY <1>1 DEF TypeOK, Message
  <2>2. attempt' \in [Workers -> Attempt]
    BY <1>1, <2>1, AttemptForms, NextAttempt DEF Deliver
  <2> QED BY <1>1, <2>2 DEF Deliver, TypeOK, rowVars
<1>2. CASE Claim(w)
  <2>1. attempt[w].message \in Message /\ attempt[w].message.image \in Images
    BY <1>2, HeldMessage DEF Claim, Free
  <2>2. attempt' \in [Workers -> Attempt]
    BY <1>2, <2>1, AttemptForms, NextAttempt DEF Claim
  <2>3. row' \in [Images -> Status] /\ age' \in [Images -> 0 .. StaleAfter]
    BY <1>2, <2>1, TransitionType DEF Claim, Status
  <2> QED BY <1>2, <2>2, <2>3 DEF Claim, TypeOK
<1>3. CASE BuildAndPush(w)
  <2>1. attempt[w].message \in Message /\ attempt[w].message.image \in Images
    BY <1>3, HeldMessage DEF BuildAndPush, Free
  <2>2. attempt' \in [Workers -> Attempt]
    BY <1>3, <2>1, AttemptForms, NextAttempt DEF BuildAndPush
  <2> QED BY <1>3, <2>1, <2>2 DEF BuildAndPush, TypeOK, rowVars
<1>4. CASE MarkFailed(w)
  <2>1. attempt[w].message.image \in Images
    BY <1>4, HeldMessage DEF MarkFailed, Free
  <2>2. attempt' \in [Workers -> Attempt]
    BY <1>4, AttemptForms, NextAttempt DEF MarkFailed
  <2>3. row' \in [Images -> Status] /\ age' \in [Images -> 0 .. StaleAfter]
    BY <1>4, <2>1, TransitionType DEF MarkFailed, Status
  <2> QED BY <1>4, <2>2, <2>3 DEF MarkFailed, TypeOK
<1>5. CASE Report(w)
  <2>1. attempt[w].message.image \in Images
    BY <1>5, HeldMessage DEF Report, Free
  <2>2. attempt' \in [Workers -> Attempt]
    BY <1>5, AttemptForms, NextAttempt DEF Report
  <2>3. row' \in [Images -> Status] /\ age' \in [Images -> 0 .. StaleAfter]
    BY <1>5, <2>1, TransitionType DEF Report, Status, TypeOK
  <2> QED BY <1>5, <2>2, <2>3 DEF Report, TypeOK
<1>6. CASE BuildFails(w)
  <2>1. attempt[w].message \in Message
    BY <1>6, HeldMessage DEF BuildFails, Free
  <2>2. attempt' \in [Workers -> Attempt]
    BY <1>6, <2>1, AttemptForms, NextAttempt DEF BuildFails
  <2>3. attempt[w].message.retries < MaxRetries =>
           [attempt[w].message EXCEPT !.retries = @ + 1] \in Message
    BY <2>1, BuilderCounts DEF Message
  <2>4. queue' \subseteq Message
    BY <1>6, <2>1, <2>3, BuilderCounts DEF BuildFails, TypeOK, Message
  <2> QED BY <1>6, <2>2, <2>4, FaultType DEF BuildFails, TypeOK, rowVars
<1>7. CASE BuildTimesOut(w)
  <2>1. attempt[w].message \in Message
    BY <1>7, HeldMessage DEF BuildTimesOut, Free
  <2>2. attempt' \in [Workers -> Attempt]
    BY <1>7, <2>1, AttemptForms, NextAttempt DEF BuildTimesOut
  <2> QED BY <1>7, <2>2, FaultType DEF BuildTimesOut, TypeOK, rowVars
<1>8. CASE AttemptDies(w)
  <2>1. attempt[w].message \in Message
    BY <1>8, HeldMessage DEF AttemptDies
  <2>2. attempt' \in [Workers -> Attempt]
    BY <1>8, AttemptForms, NextAttempt DEF AttemptDies
  <2>3. queue' \subseteq Message
    BY <1>8, <2>1 DEF AttemptDies, TypeOK
  <2> QED BY <1>8, <2>2, <2>3, FaultType DEF AttemptDies, TypeOK, rowVars
<1>9. CASE Redeliver(w)
  <2>1. attempt[w].message \in Message
    BY <1>9, HeldMessage DEF Redeliver
  <2> QED BY <1>9, <2>1, FaultType DEF Redeliver, TypeOK, rowVars
<1> QED BY <1>1, <1>2, <1>3, <1>4, <1>5, <1>6, <1>7, <1>8, <1>9 DEF BuildStep, BuildFault

LEMMA TypeInductive == TypeOK /\ [Next]_vars => TypeOK'
<1> SUFFICES ASSUME TypeOK, [Next]_vars PROVE TypeOK'
  OBVIOUS
<1>1. CASE HandlerStep
  BY <1>1, HandlerType
<1>2. ASSUME NEW w \in Workers, BuildStep(w) \/ BuildFault(w) PROVE TypeOK'
  BY <1>2, BuildType
<1>3. CASE BrokerRestarts
  BY <1>3, FaultType DEF BrokerRestarts, TypeOK, rowVars
<1>4. CASE Reap
  BY <1>4, BuilderCounts DEF Reap, TypeOK, Status
<1>5. ASSUME NEW h \in Images, Tick(h) PROVE TypeOK'
  BY <1>5, BuilderCounts DEF Tick, TypeOK
<1>6. CASE UNCHANGED vars
  BY <1>6 DEF TypeOK, vars
<1> QED BY <1>1, <1>2, <1>3, <1>4, <1>5, <1>6 DEF Next

LEMMA TypeInit == Init => TypeOK
BY BuilderCounts DEF Init, TypeOK, Status, Attempt, Handler

(* The rows, the messages and the processes of the build path keep their   *)
(* types; in particular no message is retried past max_retries.            *)
THEOREM BuilderTypeCorrect == Spec => []TypeOK
<1>1. TypeOK /\ [Next]_vars => TypeOK'
  BY TypeInductive
<1> QED BY <1>1, TypeInit, PTL DEF Spec

-----------------------------------------------------------------------------
(* READY means pushed *)

(* Only an attempt that pushed gets to report; nothing leaves the registry.*)
PushedInv ==
    /\ ReadyIsPushed
    /\ \A w \in Workers :
          attempt[w].pc = "report" => attempt[w].message.image \in registry

LEMMA PushedInductive == TypeOK /\ PushedInv /\ [Next]_vars => PushedInv'
<1> SUFFICES ASSUME TypeOK, PushedInv, [Next]_vars PROVE PushedInv'
  OBVIOUS
<1> USE DEF PushedInv, ReadyIsPushed
<1>1. CASE HandlerStep
  BY <1>1 DEF HandlerStep, Resolve, RetryReads, RetryCommits, Enqueue, EnqueueLost,
              TypeOK, rowVars
<1>2. ASSUME NEW w \in Workers, NEW m \in queue, Deliver(w, m) PROVE PushedInv'
  <2>1. attempt'[w].pc # "report"
    BY <1>2 DEF Deliver, Becomes, TypeOK, Free
  <2> QED BY <1>2, <2>1 DEF Deliver, Becomes, TypeOK, rowVars
<1>3. ASSUME NEW w \in Workers, Claim(w) PROVE PushedInv'
  BY <1>3 DEF Claim, Becomes, Transition, TypeOK
<1>4. ASSUME NEW w \in Workers, BuildAndPush(w) PROVE PushedInv'
  BY <1>4 DEF BuildAndPush, Becomes, TypeOK, rowVars
<1>5. ASSUME NEW w \in Workers, MarkFailed(w) PROVE PushedInv'
  BY <1>5 DEF MarkFailed, Becomes, Transition, TypeOK, Free
<1>6. ASSUME NEW w \in Workers, Report(w) PROVE PushedInv'
  BY <1>6 DEF Report, Becomes, Transition, TypeOK, Free
<1>7. ASSUME NEW w \in Workers, BuildFault(w) PROVE PushedInv'
  BY <1>7 DEF BuildFault, BuildFails, BuildTimesOut, AttemptDies, Redeliver, Becomes,
              TypeOK, Free, rowVars
<1>8. CASE BrokerRestarts \/ Reap
  BY <1>8 DEF BrokerRestarts, Reap, TypeOK, rowVars
<1>9. ASSUME NEW h \in Images, Tick(h) PROVE PushedInv'
  BY <1>9 DEF Tick
<1>10. CASE UNCHANGED vars
  BY <1>10 DEF vars
<1> QED BY <1>1, <1>2, <1>3, <1>4, <1>5, <1>6, <1>7, <1>8, <1>9, <1>10 DEF Next, BuildStep

(* A READY row's image is in the registry, for any overlap of attempts.    *)
THEOREM ReadyMeansPushed == Spec => []ReadyIsPushed
<1>1. Init => PushedInv
  BY DEF Init, PushedInv, ReadyIsPushed, Free
<1>2. TypeOK /\ PushedInv /\ [Next]_vars => PushedInv'
  BY PushedInductive
<1>3. PushedInv => ReadyIsPushed
  BY DEF PushedInv
<1> QED BY <1>1, <1>2, <1>3, BuilderTypeCorrect, PTL DEF Spec

-----------------------------------------------------------------------------
(* The reaper waits for the last request *)

(* The clock the reaper reads never runs ahead of the last request.        *)
PatienceInv == \A h \in Images : age[h] <= patience[h]

LEMMA PatienceInductive == TypeOK /\ PatienceInv /\ [Next]_vars => PatienceInv'
<1> SUFFICES ASSUME TypeOK, PatienceInv, [Next]_vars PROVE PatienceInv'
  OBVIOUS
<1>1. ASSUME NEW h \in Images, NEW seen, NEW status,
             Transition(h, seen, status), UNCHANGED patience
      PROVE  PatienceInv'
  BY <1>1 DEF Transition, TypeOK, PatienceInv
<1>2. ASSUME UNCHANGED rowVars PROVE PatienceInv'
  BY <1>2 DEF rowVars, PatienceInv
<1>3. CASE HandlerStep
  <2>1. ASSUME NEW a \in Handlers, NEW h \in Images, Resolve(a, h) PROVE PatienceInv'
    BY <2>1 DEF Resolve, TypeOK, PatienceInv
  <2>2. ASSUME NEW a \in Handlers, RetryCommits(a) PROVE PatienceInv'
    BY <2>2 DEF RetryCommits, TypeOK, PatienceInv
  <2> QED BY <1>2, <1>3, <2>1, <2>2 DEF HandlerStep, RetryReads, Enqueue, EnqueueLost
<1>4. ASSUME NEW w \in Workers, BuildStep(w) PROVE PatienceInv'
  <2>1. ASSUME attempt[w] # Free PROVE attempt[w].message.image \in Images
    BY <2>1, HeldMessage
  <2>2. CASE Claim(w)
    BY <1>1, <2>1, <2>2 DEF Claim, Free
  <2>3. CASE MarkFailed(w)
    BY <1>1, <2>1, <2>3 DEF MarkFailed, Free
  <2>4. CASE Report(w)
    BY <1>1, <1>2, <2>1, <2>4 DEF Report, Free, rowVars
  <2> QED BY <1>2, <1>4, <2>2, <2>3, <2>4 DEF BuildStep, Deliver, BuildAndPush
<1>5. ASSUME NEW w \in Workers, BuildFault(w) PROVE PatienceInv'
  BY <1>2, <1>5 DEF BuildFault, BuildFails, BuildTimesOut, AttemptDies, Redeliver
<1>6. CASE BrokerRestarts
  BY <1>2, <1>6 DEF BrokerRestarts
<1>7. CASE Reap
  BY <1>7 DEF Reap, TypeOK, PatienceInv
<1>8. ASSUME NEW h \in Images, Tick(h) PROVE PatienceInv'
  BY <1>8, BuilderCounts DEF Tick, TypeOK, PatienceInv
<1>9. CASE UNCHANGED vars
  BY <1>2, <1>9 DEF vars, rowVars
<1> QED BY <1>3, <1>4, <1>5, <1>6, <1>7, <1>8, <1>9 DEF Next

(* No row is reaped before StaleAfter ticks have passed since the last     *)
(* request for its build.                                                  *)
THEOREM AskedBuildsAreSpared == Spec => AskedBuildIsNotReaped
<1>1. Init => PatienceInv
  <2> SUFFICES ASSUME Init, NEW h \in Images PROVE age[h] <= patience[h]
    BY DEF PatienceInv
  <2>1. age[h] = 0 /\ patience[h] = 0
    BY DEF Init
  <2> QED BY <2>1
<1>2. TypeOK /\ PatienceInv /\ [Next]_vars => PatienceInv'
  BY PatienceInductive
<1>3. TypeOK /\ PatienceInv => (Reap => \A h \in Stale : patience[h] >= StaleAfter)
  <2> SUFFICES ASSUME TypeOK, PatienceInv, NEW h \in Stale
               PROVE  patience[h] >= StaleAfter
    OBVIOUS
  <2>1. h \in Images /\ age[h] >= StaleAfter
    BY DEF Stale
  <2>2. age[h] \in Nat /\ patience[h] \in Nat
    BY <2>1, BuilderCounts DEF TypeOK
  <2>3. age[h] <= patience[h]
    BY <2>1 DEF PatienceInv
  <2> QED BY <2>1, <2>2, <2>3, BuilderCounts
<1> QED BY <1>1, <1>2, <1>3, BuilderTypeCorrect, PTL DEF Spec, AskedBuildIsNotReaped

-----------------------------------------------------------------------------
(* The build path implements ImageLife *)

Seen(status) == IF status = "building" THEN "pending" ELSE status

(* Nobody works for a row that was never inserted.                         *)
KnownInv ==
    /\ \A m \in queue : row[m.image] # "absent"
    /\ \A w \in Workers : attempt[w] # Free => row[attempt[w].message.image] # "absent"
    /\ \A a \in Handlers : handler[a] # Free => row[handler[a].image] # "absent"

LEMMA RowsStay ==
    TypeOK /\ [Next]_vars =>
        \A h \in Images : row[h] # "absent" => row'[h] # "absent"
<1> SUFFICES ASSUME TypeOK, [Next]_vars
             PROVE  \A h \in Images : row[h] # "absent" => row'[h] # "absent"
  OBVIOUS
<1>1. CASE HandlerStep
  BY <1>1 DEF HandlerStep, Resolve, RetryReads, RetryCommits, Enqueue, EnqueueLost, TypeOK,
              rowVars
<1>2. ASSUME NEW w \in Workers, BuildStep(w)
      PROVE  \A h \in Images : row[h] # "absent" => row'[h] # "absent"
  BY <1>2 DEF BuildStep, Deliver, Claim, BuildAndPush, MarkFailed, Report, Transition, TypeOK,
              rowVars
<1>3. ASSUME NEW w \in Workers, BuildFault(w)
      PROVE  \A h \in Images : row[h] # "absent" => row'[h] # "absent"
  BY <1>3 DEF BuildFault, BuildFails, BuildTimesOut, AttemptDies, Redeliver, rowVars
<1>4. CASE BrokerRestarts \/ Reap \/ UNCHANGED vars
  BY <1>4 DEF BrokerRestarts, Reap, TypeOK, vars, rowVars
<1>5. ASSUME NEW t \in Images, Tick(t)
      PROVE  \A h \in Images : row[h] # "absent" => row'[h] # "absent"
  BY <1>5 DEF Tick
<1> QED BY <1>1, <1>2, <1>3, <1>4, <1>5 DEF Next

LEMMA KnownInductive == TypeOK /\ KnownInv /\ [Next]_vars => KnownInv'
<1> SUFFICES ASSUME TypeOK, KnownInv, [Next]_vars PROVE KnownInv'
  OBVIOUS
<1>0. \A h \in Images : row[h] # "absent" => row'[h] # "absent"
  BY RowsStay
<1>1. /\ \A m \in queue : m.image \in Images
      /\ \A w \in Workers : attempt[w] # Free => attempt[w].message.image \in Images
      /\ \A a \in Handlers : handler[a] # Free => handler[a].image \in Images
  BY HeldMessage DEF TypeOK, Message, Handler
<1>2. ASSUME NEW a \in Handlers, NEW h \in Images, Resolve(a, h) \/ RetryReads(a, h)
      PROVE  KnownInv'
  BY <1>0, <1>1, <1>2 DEF KnownInv, Resolve, RetryReads, TypeOK, rowVars
<1>3. ASSUME NEW a \in Handlers, RetryCommits(a) \/ Enqueue(a) \/ EnqueueLost(a)
      PROVE  KnownInv'
  <2>1. handler[a] # Free /\ row[handler[a].image] # "absent" /\ handler[a].image \in Images
    BY <1>1, <1>3 DEF KnownInv, RetryCommits, Enqueue, EnqueueLost, Free
  <2>2. CASE RetryCommits(a)
    BY <1>0, <1>1, <2>1, <2>2 DEF KnownInv, RetryCommits, TypeOK
  <2>3. CASE Enqueue(a)
    BY <1>0, <1>1, <2>1, <2>3 DEF KnownInv, Enqueue, TypeOK, rowVars
  <2>4. CASE EnqueueLost(a)
    BY <1>0, <1>1, <2>4 DEF KnownInv, EnqueueLost, TypeOK, rowVars
  <2> QED BY <1>3, <2>2, <2>3, <2>4
<1>4. ASSUME NEW w \in Workers, NEW m \in queue, Deliver(w, m) PROVE KnownInv'
  <2>1. attempt'[w] # Free => attempt'[w].message = m
    BY <1>4 DEF Deliver, Becomes, TypeOK
  <2> QED BY <1>0, <1>1, <1>4, <2>1 DEF KnownInv, Deliver, Becomes, TypeOK, rowVars
<1>5. ASSUME NEW w \in Workers, Claim(w) \/ BuildAndPush(w) \/ MarkFailed(w) \/ Report(w)
      PROVE  KnownInv'
  <2>1. attempt[w] # Free
    BY <1>5 DEF Claim, BuildAndPush, MarkFailed, Report, Free
  <2>2. attempt'[w] # Free => attempt'[w].message = attempt[w].message
    BY <1>5 DEF Claim, BuildAndPush, MarkFailed, Report, Becomes, TypeOK
  <2>3. /\ UNCHANGED <<queue, handler>>
        /\ \A v \in Workers : v # w => attempt'[v] = attempt[v]
    BY <1>5 DEF Claim, BuildAndPush, MarkFailed, Report, Becomes, TypeOK
  <2> QED BY <1>0, <1>1, <2>1, <2>2, <2>3 DEF KnownInv
<1>6. ASSUME NEW w \in Workers, BuildFault(w) PROVE KnownInv'
  <2>1. attempt[w] # Free
    BY <1>6 DEF BuildFault, BuildFails, BuildTimesOut, AttemptDies, Redeliver, Free
  <2>2. attempt'[w] # Free => attempt'[w].message = attempt[w].message
    BY <1>6 DEF BuildFault, BuildFails, BuildTimesOut, AttemptDies, Redeliver, Becomes, TypeOK
  <2>3. /\ UNCHANGED handler
        /\ \A v \in Workers : v # w => attempt'[v] = attempt[v]
        /\ \A m \in queue' : m \in queue \/ m.image = attempt[w].message.image
    <3>1. CASE BuildFails(w)
      <4>1. attempt[w].message \in Message
        BY <2>1, HeldMessage
      <4>2. [attempt[w].message EXCEPT !.retries = @ + 1].image = attempt[w].message.image
        BY <4>1 DEF Message
      <4> QED BY <3>1, <4>2 DEF BuildFails, Becomes, TypeOK
    <3>2. CASE BuildTimesOut(w) \/ AttemptDies(w) \/ Redeliver(w)
      BY <3>2 DEF BuildTimesOut, AttemptDies, Redeliver, Becomes, TypeOK
    <3> QED BY <1>6, <3>1, <3>2 DEF BuildFault
  <2> QED BY <1>0, <1>1, <2>1, <2>2, <2>3 DEF KnownInv
<1>7. CASE BrokerRestarts
  BY <1>0, <1>1, <1>7 DEF KnownInv, BrokerRestarts
<1>8. CASE Reap \/ UNCHANGED vars
  BY <1>0, <1>1, <1>8 DEF KnownInv, Reap, vars
<1>9. ASSUME NEW h \in Images, Tick(h) PROVE KnownInv'
  BY <1>0, <1>1, <1>9 DEF KnownInv, Tick
<1> QED BY <1>2, <1>3, <1>4, <1>5, <1>6, <1>7, <1>8, <1>9 DEF Next, HandlerStep, BuildStep

LEMMA OneRowMoves ==
    ASSUME TypeOK, NEW h \in Images, NEW status, row' = [row EXCEPT ![h] = status]
    PROVE  SeenStatus' = [SeenStatus EXCEPT ![h] = Seen(status)]
BY DEF TypeOK, SeenStatus, Seen

(* Back to work: from any status a row may become pending.                 *)
LEMMA ToPending ==
    ASSUME TypeOK, NEW h \in Images, NEW status \in Waiting,
           row' = [row EXCEPT ![h] = status]
    PROVE  [Life!Next]_SeenStatus
<1>1. SeenStatus' = [SeenStatus EXCEPT ![h] = "pending"]
  BY OneRowMoves DEF Seen, Waiting
<1>2. SeenStatus \in [Images -> {"absent", "pending", "ready", "failed"}]
  BY DEF TypeOK, SeenStatus, Status
<1>3. CASE SeenStatus[h] = "pending"
  BY <1>1, <1>2, <1>3
<1>4. CASE SeenStatus[h] = "absent"
  BY <1>1, <1>4 DEF Life!Next, Life!Resolved, Life!Moves
<1>5. CASE SeenStatus[h] = "ready"
  BY <1>1, <1>5 DEF Life!Next, Life!Overturned, Life!Moves
<1>6. CASE SeenStatus[h] = "failed"
  BY <1>1, <1>6 DEF Life!Next, Life!Restarted, Life!Moves
<1> QED BY <1>2, <1>3, <1>4, <1>5, <1>6

LEMMA ToFailed ==
    ASSUME TypeOK, NEW h \in Images, row[h] # "absent",
           row' = [row EXCEPT ![h] = "failed"]
    PROVE  [Life!Next]_SeenStatus
<1>1. SeenStatus' = [SeenStatus EXCEPT ![h] = "failed"]
  BY OneRowMoves DEF Seen
<1>2. /\ SeenStatus \in [Images -> {"absent", "pending", "ready", "failed"}]
      /\ SeenStatus[h] # "absent"
  BY DEF TypeOK, SeenStatus, Status
<1>3. CASE SeenStatus[h] = "failed"
  BY <1>1, <1>2, <1>3
<1>4. CASE SeenStatus[h] = "pending"
  BY <1>1, <1>4 DEF Life!Next, Life!Settled, Life!Moves
<1>5. CASE SeenStatus[h] = "ready"
  BY <1>1, <1>5 DEF Life!Next, Life!Overturned, Life!Moves
<1> QED BY <1>2, <1>3, <1>4, <1>5

LEMMA StepRefines == TypeOK /\ KnownInv /\ [Next]_vars => [Life!Next]_SeenStatus
<1> SUFFICES ASSUME TypeOK, KnownInv, [Next]_vars PROVE [Life!Next]_SeenStatus
  OBVIOUS
<1>1. ASSUME UNCHANGED row PROVE [Life!Next]_SeenStatus
  BY <1>1 DEF SeenStatus
<1>2. ASSUME NEW a \in Handlers, NEW h \in Images, Resolve(a, h)
      PROVE  [Life!Next]_SeenStatus
  BY <1>2, ToPending DEF Resolve, Waiting
<1>3. ASSUME NEW a \in Handlers, RetryCommits(a) PROVE [Life!Next]_SeenStatus
  <2>1. handler[a].image \in Images
    BY <1>3 DEF RetryCommits, TypeOK, Handler, Free
  <2>2. row' = row \/ row' = [row EXCEPT ![handler[a].image] = "pending"]
    BY <1>3, <2>1 DEF RetryCommits, TypeOK
  <2> QED BY <1>1, <2>1, <2>2, ToPending DEF Waiting
<1>4. ASSUME NEW w \in Workers, BuildStep(w) PROVE [Life!Next]_SeenStatus
  <2>1. ASSUME attempt[w] # Free
        PROVE  /\ attempt[w].message.image \in Images
               /\ row[attempt[w].message.image] # "absent"
    BY <2>1, HeldMessage DEF KnownInv
  <2>2. CASE Claim(w)
    <3>1. \/ row' = row
          \/ row' = [row EXCEPT ![attempt[w].message.image] = "building"]
      BY <2>1, <2>2 DEF Claim, Transition, Free, TypeOK
    <3> QED BY <1>1, <2>1, <2>2, <3>1, ToPending DEF Claim, Free, Waiting
  <2>3. CASE MarkFailed(w)
    <3>1. \/ row' = row
          \/ row' = [row EXCEPT ![attempt[w].message.image] = "failed"]
      BY <2>1, <2>3 DEF MarkFailed, Transition, Free, TypeOK
    <3> QED BY <1>1, <2>1, <2>3, <3>1, ToFailed DEF MarkFailed, Free
  <2>4. CASE Report(w)
    <3> DEFINE h == attempt[w].message.image
    <3>1. h \in Images
      BY <2>1, <2>4 DEF Report, Free
    <3>2. CASE row[h] = "building"
      <4>1. row' = [row EXCEPT ![h] = "ready"] /\ SeenStatus[h] = "pending"
        BY <2>4, <3>1, <3>2 DEF Report, Transition, SeenStatus, TypeOK
      <4>2. SeenStatus' = [SeenStatus EXCEPT ![h] = "ready"]
        BY <3>1, <4>1, OneRowMoves DEF Seen
      <4> QED BY <3>1, <4>1, <4>2 DEF Life!Next, Life!Settled, Life!Moves
    <3>3. CASE row[h] # "building"
      BY <1>1, <2>4, <3>3 DEF Report
    <3> QED BY <3>2, <3>3
  <2> QED BY <1>1, <1>4, <2>2, <2>3, <2>4 DEF BuildStep, Deliver, BuildAndPush, rowVars
<1>5. ASSUME NEW w \in Workers, BuildFault(w) PROVE [Life!Next]_SeenStatus
  BY <1>1, <1>5 DEF BuildFault, BuildFails, BuildTimesOut, AttemptDies, Redeliver, rowVars
<1>6. CASE Reap
  <2>1. Stale \subseteq {h \in Images : SeenStatus[h] = "pending"}
    BY DEF Stale, Waiting, SeenStatus, TypeOK
  <2>2. SeenStatus' = [h \in Images |-> IF h \in Stale THEN "failed" ELSE SeenStatus[h]]
    BY <1>6 DEF Reap, SeenStatus
  <2> QED BY <2>1, <2>2 DEF Life!Next, Life!Swept
<1>7. CASE BrokerRestarts \/ UNCHANGED vars
  BY <1>1, <1>7 DEF BrokerRestarts, vars, rowVars
<1>8. ASSUME NEW h \in Images, Tick(h) PROVE [Life!Next]_SeenStatus
  BY <1>1, <1>8 DEF Tick
<1> QED BY <1>1, <1>2, <1>3, <1>4, <1>5, <1>6, <1>7, <1>8
        DEF Next, HandlerStep, RetryReads, Enqueue, EnqueueLost, rowVars

(* The safety half of the implementation: a row moves only as ImageLife    *)
(* allows; a failed image is never READY without being claimed again.      *)
THEOREM BuilderRefinesImageLife == Spec => Life!Spec
<1>1. Init => KnownInv /\ Life!Init
  BY DEF Init, KnownInv, Life!Init, SeenStatus
<1>2. TypeOK /\ KnownInv /\ [Next]_vars => KnownInv'
  BY KnownInductive
<1>3. TypeOK /\ KnownInv /\ [Next]_vars => [Life!Next]_SeenStatus
  BY StepRefines
<1> QED BY <1>1, <1>2, <1>3, BuilderTypeCorrect, PTL DEF Spec, Life!Spec
=============================================================================
