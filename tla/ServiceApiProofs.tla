--------------------------- MODULE ServiceApiProofs ---------------------------
(***************************************************************************)
(* What TLAPS proves of the service API, for any services, devices, models *)
(* and worker processes: type correctness, that no model a live service    *)
(* serves is deleted, that no device is given out beyond its whole, and    *)
(* that a service holds what it was last asked for.                        *)
(***************************************************************************)
EXTENDS ServiceApi, FiniteSetTheorems, TLAPS

-----------------------------------------------------------------------------
(* Forms of the handlers *)

(* The kind of a request's state is known by its pc.                       *)
LEMMA FormOfHandler ==
    ASSUME NEW h \in Handler
    PROVE  /\ h.pc \in {"insert", "route", "commit"} <=> h \in Creation
           /\ h.pc \in {"unlink", "stamp"} <=> h \in Deletion
           /\ h.pc \in {"release", "write"} <=> h \in Update
           /\ h.pc = "drop" <=> h \in Drop
BY DEF Handler, Free, Creation, Deletion, Update, Drop

LEMMA AtRest ==
    /\ Free \in Handler
    /\ Free \notin Creation \cup Deletion \cup Update \cup Drop
BY DEF Handler, Free, Creation, Deletion, Update, Drop

LEMMA NextForms ==
    /\ \A pc \in {"insert", "route", "commit"}, n \in Names, ask \in Ask, on \in SUBSET Devices :
          [pc |-> pc, name |-> n, ask |-> ask, on |-> on] \in Creation
    /\ \A pc \in {"unlink", "stamp"}, id \in Ids : [pc |-> pc, id |-> id] \in Deletion
    /\ \A m \in Models : [pc |-> "drop", model |-> m] \in Drop
BY DEF Creation, Deletion, Drop

LEMMA Kinds == Creation \cup Deletion \cup Update \cup Drop \subseteq Handler
BY DEF Handler

LEMMA CreationSteps ==
    ASSUME NEW h \in Creation, NEW pc \in {"insert", "route", "commit"}
    PROVE  /\ [h EXCEPT !.pc = pc] \in Creation
           /\ [h EXCEPT !.pc = pc].ask = h.ask
BY DEF Creation

LEMMA DeletionSteps ==
    ASSUME NEW h \in Deletion
    PROVE  [h EXCEPT !.pc = "stamp"] \in Deletion
BY DEF Deletion

LEMMA UpdateSteps ==
    ASSUME NEW h \in Update, NEW on \in SUBSET Devices
    PROVE  /\ [h EXCEPT !.pc = "write", !.on = on] \in Update
           /\ [h EXCEPT !.pc = "write", !.on = on].ask = h.ask
           /\ [h EXCEPT !.pc = "write", !.on = on].loaded = h.loaded
BY DEF Update

LEMMA Moves ==
    ASSUME TypeOK, NEW a \in Handlers, NEW state \in Handler, Goes(a, state)
    PROVE  /\ handler' \in [Handlers -> Handler]
           /\ handler'[a] = state
           /\ \A b \in Handlers \ {a} : handler'[b] = handler[b]
BY DEF TypeOK, Goes

LEMMA HandlerAt == ASSUME TypeOK, NEW a \in Handlers PROVE handler[a] \in Handler
BY DEF TypeOK

LEMMA RowAt == ASSUME TypeOK, NEW id \in Ids PROVE rows[id] \in Row
BY DEF TypeOK

-----------------------------------------------------------------------------
(* Forms of the allocations *)

LEMMA CandidatesForm ==
    ASSUME NEW gpus, NEW freed
    PROVE  Candidates(gpus, freed) \subseteq SUBSET Devices
BY DEF Candidates, kSubset

LEMMA AllocationsForm ==
    ASSUME NEW id \in Ids, NEW on \in SUBSET Devices, NEW gpus \in Nat
    PROVE  Allocations(id, on, gpus) \in Batch
<1>1. Percent(gpus) \in 0 .. 100
  BY DEF Percent, RoundedUp
<1> QED BY <1>1 DEF Allocations, Batch

LEMMA NoBatchForm == NoBatch \in Batch
BY ApiBounds DEF NoBatch, Batch, Ids

LEMMA WithSharesForm ==
    ASSUME TypeOK, NEW a \in Handlers, NEW h \in Update
    PROVE  WithShares(a, h) \in [Ids -> Batch]
<1>1. h.id \in Ids /\ h.on \in SUBSET Devices /\ h.ask.gpus \in Nat
  BY DEF Update
<1>2. Allocations(h.id, h.on, h.ask.gpus) \in Batch
  BY <1>1, AllocationsForm
<1> QED BY <1>2, NoBatchForm DEF WithShares, TypeOK

LEMMA HandlersAreIds == Handlers \subseteq Ids
BY ApiBounds DEF Handlers, Ids


-----------------------------------------------------------------------------
(* Type correctness *)

LEMMA ArrivalType ==
    ASSUME TypeOK, NEW a \in Handlers, NEW operation, Arrives(a, operation)
    PROVE  requests' \in 0 .. MaxRequests
<1>1. a = requests + 1 /\ requests' = a
  BY Zenon DEF Arrives
<1> QED BY <1>1, ApiBounds DEF TypeOK, Handlers

LEMMA StirsType ==
    ASSUME TypeOK, NEW n \in Names, NEW also, Stirs(n, also)
    PROVE  worker' \in [Workers -> Worker] /\ suspect' \subseteq Names
BY DEF Stirs, TypeOK, Worker

LEMMA BlindsType ==
    ASSUME TypeOK, NEW ms \in SUBSET Models, Blinds(ms)
    PROVE  blind' \subseteq Models
BY DEF Blinds, TypeOK

LEMMA ContendsType ==
    ASSUME TypeOK, NEW a \in Handlers, handler[a].on \in SUBSET Devices, Contends(a)
    PROVE  contended' \subseteq Devices
BY DEF Contends, TypeOK

LEMMA CreateType ==
    ASSUME TypeOK, NEW a \in Handlers, NEW n \in Names, NEW ask \in Asks, BeginCreate(a, n, ask)
    PROVE  TypeOK'
<1>1. PICK on \in Candidates(ask.gpus, {}) :
         Goes(a, [pc |-> "insert", name |-> n, ask |-> ask, on |-> on])
  BY Zenon DEF BeginCreate
<1>2. handler' \in [Handlers -> Handler]
  <2>1. on \in SUBSET Devices /\ ask \in Ask
    BY CandidatesForm, ApiAsks
  <2>2. [pc |-> "insert", name |-> n, ask |-> ask, on |-> on] \in Handler
    BY <2>1, NextForms, Kinds
  <2> QED BY <1>1, <2>2, Moves
<1>3. worker' \in [Workers -> Worker] /\ suspect' \subseteq Names
  <2>1. Stirs(n, FALSE)
    BY Zenon DEF BeginCreate
  <2> QED BY <2>1, StirsType
<1>4. requests' \in 0 .. MaxRequests
  <2>1. Arrives(a, "create")
    BY Zenon DEF BeginCreate
  <2> QED BY <2>1, ArrivalType
<1>5. blind' \subseteq Models
  <2>1. Blinds(ask.models)
    BY Zenon DEF BeginCreate
  <2>2. ask.models \in SUBSET Models
    BY ApiAsks DEF Ask
  <2> QED BY <2>1, <2>2, BlindsType
<1>6. UNCHANGED <<rows, shares, models, asked, route, faults, contended, crossed>>
  BY Zenon DEF BeginCreate, tables
<1> QED BY <1>2, <1>3, <1>4, <1>5, <1>6 DEF TypeOK

LEMMA CreatingType ==
    ASSUME TypeOK, NEW a \in Handlers,
           Insert(a) \/ WriteRoute(a) \/ WriteRouteFails(a)
    PROVE  TypeOK'
<1> DEFINE h == handler[a]
<1>0. h \in Handler
  BY HandlerAt
<1>1. CASE Insert(a)
  <2>1. h.pc = "insert" /\ (Goes(a, [h EXCEPT !.pc = "route"]) \/ Goes(a, Free))
    BY <1>1, Zenon DEF Insert
  <2>2. h \in Creation
    BY <1>0, <2>1, FormOfHandler
  <2>3. [h EXCEPT !.pc = "route"] \in Handler
    BY <2>2, CreationSteps, Kinds
  <2>4. handler' \in [Handlers -> Handler]
    BY <2>1, <2>3, AtRest, Moves
  <2>5. UNCHANGED <<tables, route, worker, bounds, suspect, history>>
    BY <1>1, Zenon DEF Insert
  <2> QED BY <2>4, <2>5 DEF TypeOK, tables, bounds, history
<1>2. CASE WriteRoute(a)
  <2>1. h.pc = "route" /\ Goes(a, [h EXCEPT !.pc = "commit"]) /\ route' = route \cup {h.name}
    BY <1>2, Zenon DEF WriteRoute
  <2>2. h \in Creation
    BY <1>0, <2>1, FormOfHandler
  <2>3. [h EXCEPT !.pc = "commit"] \in Handler /\ h.name \in Names
    BY <2>2, CreationSteps, Kinds DEF Creation
  <2>4. handler' \in [Handlers -> Handler] /\ route' \subseteq Names
    <3>1. handler' \in [Handlers -> Handler]
      BY <2>1, <2>3, Moves
    <3> QED BY <2>1, <2>3, <3>1 DEF TypeOK
  <2>5. UNCHANGED <<tables, worker, bounds, suspect, history>>
    BY <1>2, Zenon DEF WriteRoute
  <2> QED BY <2>4, <2>5 DEF TypeOK, tables, bounds, history
<1>3. CASE WriteRouteFails(a)
  <2>1. /\ h.pc = "route" /\ Goes(a, Free) /\ route' \in {route, route \cup {h.name}}
        /\ suspect' = suspect \cup {h.name} /\ Fault("route")
    BY <1>3, Zenon DEF WriteRouteFails
  <2>2. h \in Creation
    BY <1>0, <2>1, FormOfHandler
  <2>3. route' \subseteq Names /\ suspect' \subseteq Names
    BY <2>1, <2>2 DEF Creation, TypeOK
  <2>4. handler' \in [Handlers -> Handler]
    BY <2>1, AtRest, Moves
  <2>5. UNCHANGED <<tables, worker, requests, history>>
    BY <1>3, Zenon DEF WriteRouteFails
  <2>6. faults' \subseteq FaultKinds
    BY <2>1 DEF Fault, TypeOK
  <2> QED BY <2>3, <2>4, <2>5, <2>6 DEF TypeOK, tables, history
<1> QED BY <1>1, <1>2, <1>3

LEMMA CommitCreateType ==
    ASSUME TypeOK, NEW a \in Handlers, CommitCreate(a)
    PROVE  TypeOK'
<1> DEFINE h == handler[a]
<1>1. /\ h.pc = "commit" /\ Goes(a, Free) /\ Contends(a)
      /\ rows' = [rows EXCEPT ![a] = [name |-> h.name, state |-> "live", models |-> h.ask.models]]
      /\ shares' = [shares EXCEPT ![a] = Allocations(a, h.on, h.ask.gpus)]
      /\ asked' = [asked EXCEPT ![a] = h.ask.gpus]
  BY Zenon DEF CommitCreate
<1>2. h \in Creation
  BY <1>1, HandlerAt, FormOfHandler
<1>3. h.name \in Names /\ h.ask.models \in SUBSET Models /\ h.ask.gpus \in Nat /\ h.on \in SUBSET Devices
  BY <1>2 DEF Creation, Ask
<1>4. rows' \in [Ids -> Row]
  <2>1. [name |-> h.name, state |-> "live", models |-> h.ask.models] \in Row
    BY <1>3 DEF Row
  <2> QED BY <1>1, <2>1 DEF TypeOK
<1>5. shares' \in [Ids -> Batch]
  <2>1. Allocations(a, h.on, h.ask.gpus) \in Batch
    BY <1>3, AllocationsForm, HandlersAreIds
  <2> QED BY <1>1, <2>1 DEF TypeOK
<1>6. asked' \in [Ids -> Nat]
  BY <1>1, <1>3 DEF TypeOK
<1>7. handler' \in [Handlers -> Handler] /\ contended' \subseteq Devices
  BY <1>1, <1>3, AtRest, Moves, ContendsType
<1>8. UNCHANGED <<models, route, worker, bounds, suspect, crossed, blind>>
  BY Zenon DEF CommitCreate
<1> QED BY <1>4, <1>5, <1>6, <1>7, <1>8 DEF TypeOK, bounds

LEMMA DeleteType ==
    ASSUME TypeOK, NEW a \in Handlers, NEW id \in Ids, BeginDelete(a, id)
    PROVE  TypeOK'
<1>1. PICK pc \in {"unlink", "stamp"} : Goes(a, [pc |-> pc, id |-> id])
  BY Zenon DEF BeginDelete
<1>2. handler' \in [Handlers -> Handler]
  <2>1. [pc |-> pc, id |-> id] \in Handler
    BY NextForms, Kinds
  <2> QED BY <1>1, <2>1, Moves
<1>3. PICK also : Stirs(rows[id].name, also)
  BY Zenon DEF BeginDelete
<1>4. rows[id].name \in Names
  BY RowAt DEF Row
<1>5. Arrives(a, "delete")
  BY Zenon DEF BeginDelete
<1>6. UNCHANGED <<tables, route, faults, history>>
  BY Zenon DEF BeginDelete
<1>7. worker' \in [Workers -> Worker] /\ suspect' \subseteq Names /\ requests' \in 0 .. MaxRequests
  BY <1>3, <1>4, <1>5, StirsType, ArrivalType
<1> QED BY <1>2, <1>6, <1>7 DEF TypeOK, tables, history

LEMMA DeletingType ==
    ASSUME TypeOK, NEW a \in Handlers, Unlink(a) \/ Stamp(a)
    PROVE  TypeOK'
<1> DEFINE h == handler[a]
<1>0. h \in Handler
  BY HandlerAt
<1>1. CASE Unlink(a)
  <2>1. /\ h.pc = "unlink" /\ route' = route \ {rows[h.id].name}
        /\ Goes(a, IF rows[h.id].name \in route THEN [h EXCEPT !.pc = "stamp"] ELSE Free)
    BY <1>1, Zenon DEF Unlink
  <2>2. [h EXCEPT !.pc = "stamp"] \in Handler
    BY <1>0, <2>1, FormOfHandler, DeletionSteps, Kinds
  <2>3. handler' \in [Handlers -> Handler]
    BY <2>1, <2>2, AtRest, Moves
  <2>4. UNCHANGED <<tables, worker, bounds, suspect, history>>
    BY <1>1, Zenon DEF Unlink
  <2> QED BY <2>1, <2>3, <2>4 DEF TypeOK, tables, bounds, history
<1>2. CASE Stamp(a)
  <2>1. h.pc = "stamp" /\ Goes(a, Free) /\ rows' = [rows EXCEPT ![h.id].state = "deleted"]
    BY <1>2, Zenon DEF Stamp
  <2>2. rows' \in [Ids -> Row]
    BY <2>1 DEF TypeOK, Row
  <2>3. handler' \in [Handlers -> Handler]
    BY <2>1, AtRest, Moves
  <2>4. UNCHANGED <<shares, models, asked, route, worker, bounds, suspect, history>>
    BY <1>2, Zenon DEF Stamp
  <2> QED BY <2>2, <2>3, <2>4 DEF TypeOK, bounds, history
<1> QED BY <1>1, <1>2

LEMMA UpdateForm ==
    ASSUME NEW pc \in {"release", "write"}, NEW id \in Ids, NEW changes \in (SUBSET {"gpus", "models"}) \ {{}},
           NEW ms \in SUBSET Models, NEW gpus \in Nat, NEW loaded \in SUBSET Models,
           NEW freed \in SUBSET Ids, NEW on \in SUBSET Devices
    PROVE  [pc |-> pc, id |-> id, changes |-> changes, loaded |-> loaded,
            ask |-> [models |-> ms, gpus |-> gpus], freed |-> freed, on |-> on] \in Update
BY DEF Update

Changes == {{"gpus"}, {"models"}, {"gpus", "models"}}

(* What a request to update a service sets out to do.                      *)
Plan(id, changes, ask) ==
    [pc |-> IF "gpus" \in changes THEN "release" ELSE "write",
     id |-> id, changes |-> changes, loaded |-> rows[id].models,
     ask |-> [models |-> IF "models" \in changes THEN ask.models ELSE rows[id].models,
              gpus |-> IF "gpus" \in changes THEN ask.gpus ELSE 0],
     freed |-> IF "gpus" \in changes THEN BatchesOf(id) ELSE {}, on |-> {}]

LEMMA PlanForm ==
    ASSUME TypeOK, NEW id \in Ids, NEW ask \in Asks, NEW changes \in Changes
    PROVE  Plan(id, changes, ask) \in Update
<1>1. rows[id].models \in SUBSET Models
  BY RowAt DEF Row
<1>2. ask.models \in SUBSET Models /\ ask.gpus \in Nat
  BY ApiAsks DEF Ask
<1>3. BatchesOf(id) \in SUBSET Ids
  BY DEF BatchesOf
<1> DEFINE ms == IF "models" \in changes THEN ask.models ELSE rows[id].models
           gpus == IF "gpus" \in changes THEN ask.gpus ELSE 0
           freed == IF "gpus" \in changes THEN BatchesOf(id) ELSE {}
           pc == IF "gpus" \in changes THEN "release" ELSE "write"
<1>4. ms \in SUBSET Models /\ gpus \in Nat /\ freed \in SUBSET Ids /\ pc \in {"release", "write"}
  BY <1>1, <1>2, <1>3
<1>5. changes \in (SUBSET {"gpus", "models"}) \ {{}} /\ {} \in SUBSET Devices
  BY DEF Changes
<1> HIDE DEF ms, gpus, freed, pc
<1>6. [pc |-> pc, id |-> id, changes |-> changes, loaded |-> rows[id].models,
       ask |-> [models |-> ms, gpus |-> gpus], freed |-> freed, on |-> {}] \in Update
  BY Zenon, <1>1, <1>4, <1>5, UpdateForm
<1> QED BY Zenon, <1>6 DEF Plan, ms, gpus, freed, pc

LEMMA BeginUpdateType ==
    ASSUME TypeOK, NEW a \in Handlers, NEW id \in Ids, NEW ask \in Asks, NEW changes \in Changes,
           BeginUpdate(a, id, changes, ask)
    PROVE  TypeOK'
<1>1. Goes(a, Plan(id, changes, ask))
  BY Zenon DEF BeginUpdate, Plan
<1>2. handler' \in [Handlers -> Handler]
  BY <1>1, PlanForm, Kinds, Moves
<1>3. Arrives(a, "update")
  BY Zenon DEF BeginUpdate
<1>4. requests' \in 0 .. MaxRequests
  BY <1>3, ArrivalType
<1>5. Blinds(IF "models" \in changes THEN ask.models \ rows[id].models ELSE {})
  BY Zenon DEF BeginUpdate
<1>6. blind' \subseteq Models
  <2>1. (IF "models" \in changes THEN ask.models \ rows[id].models ELSE {}) \in SUBSET Models
    BY ApiAsks DEF Ask
  <2> QED BY <1>5, <2>1, BlindsType
<1>7. crossed' = crossed \cup {id} \/ crossed' = crossed
  BY Zenon DEF BeginUpdate
<1>8. UNCHANGED <<tables, route, worker, faults, suspect, contended>>
  BY Zenon DEF BeginUpdate
<1> QED BY <1>2, <1>4, <1>6, <1>7, <1>8 DEF TypeOK, tables

(* What the commit of an update makes of its service.                      *)
RowsUpdated(h) ==
    rows' = IF ModelsFit(h)
            THEN [rows EXCEPT ![h.id].models = (@ \ Removed(h)) \cup Added(h)] ELSE rows

LEMMA UpdatingType ==
    ASSUME TypeOK, NEW a \in Handlers, Release(a) \/ CommitUpdate(a)
    PROVE  TypeOK'
<1> DEFINE h == handler[a]
<1>0. h \in Handler
  BY HandlerAt
<1>1. CASE Release(a)
  <2>1. PICK on \in Candidates(h.ask.gpus, h.freed) :
           Goes(a, IF ModelsFit(h) /\ Enough(on, h.ask.gpus)
                   THEN [h EXCEPT !.pc = "write", !.on = on] ELSE Free)
    BY <1>1, Zenon DEF Release
  <2>2. h.pc = "release"
    BY <1>1, Zenon DEF Release
  <2>3. [h EXCEPT !.pc = "write", !.on = on] \in Handler
    <3>1. h \in Update /\ on \in SUBSET Devices
      BY <1>0, <2>2, CandidatesForm, FormOfHandler
    <3> QED BY <3>1, UpdateSteps, Kinds, Zenon
  <2>4. handler' \in [Handlers -> Handler]
    BY <2>1, <2>3, AtRest, Moves
  <2>5. UNCHANGED <<tables, route, worker, bounds, suspect, history>>
    BY <1>1, Zenon DEF Release
  <2> QED BY <2>4, <2>5 DEF TypeOK, tables, bounds, history
<1>2. CASE CommitUpdate(a)
  <2>1. h.pc = "write" /\ Goes(a, Free) /\ RowsUpdated(h)
    BY <1>2, Zenon DEF CommitUpdate, RowsUpdated
  <2>2. h \in Update
    BY <1>0, <2>1, FormOfHandler
  <2>3. h.ask.models \in SUBSET Models /\ h.ask.gpus \in Nat /\ h.on \in SUBSET Devices
    BY <2>2 DEF Update
  <2>4. rows' \in [Ids -> Row]
    <3>1. (rows[h.id].models \ Removed(h)) \cup Added(h) \in SUBSET Models
      BY <2>2, <2>3, RowAt DEF Row, Added, Update
    <3> DEFINE ms == (rows[h.id].models \ Removed(h)) \cup Added(h)
    <3>2. rows' = [rows EXCEPT ![h.id].models = ms] \/ rows' = rows
      BY <2>1, Zenon DEF RowsUpdated
    <3> HIDE DEF ms
    <3>3. ms \in SUBSET Models
      BY <3>1 DEF ms
    <3> QED BY <3>2, <3>3 DEF TypeOK, Row
  <2>5. shares' \in [Ids -> Batch] /\ asked' \in [Ids -> Nat] /\ contended' \subseteq Devices
    <3>1. CASE shares' = WithShares(a, h) /\ asked' = [asked EXCEPT ![h.id] = h.ask.gpus] /\ Contends(a)
      <4>1. shares' \in [Ids -> Batch]
        BY <2>2, <3>1, WithSharesForm
      <4>2. asked' \in [Ids -> Nat]
        BY <2>3, <3>1 DEF TypeOK
      <4> QED BY <2>3, <3>1, <4>1, <4>2, ContendsType
    <3>2. CASE UNCHANGED <<shares, asked, contended>>
      BY <3>2 DEF TypeOK
    <3> QED BY <1>2, <3>1, <3>2, Zenon DEF CommitUpdate
  <2>6. handler' \in [Handlers -> Handler]
    BY <2>1, AtRest, Moves
  <2>7. UNCHANGED <<models, route, worker, bounds, suspect, crossed, blind>>
    BY <1>2, Zenon DEF CommitUpdate
  <2> QED BY <2>4, <2>5, <2>6, <2>7 DEF TypeOK, bounds
<1> QED BY <1>1, <1>2

LEMMA DropType ==
    ASSUME TypeOK, NEW a \in Handlers,
           (\E m \in Models : BeginDrop(a, m)) \/ CommitDrop(a) \/ CommitFails(a)
    PROVE  TypeOK'
<1> DEFINE h == handler[a]
<1>0. h \in Handler
  BY HandlerAt
<1>1. ASSUME NEW m \in Models, BeginDrop(a, m) PROVE TypeOK'
  <2>1. /\ Goes(a, [pc |-> "drop", model |-> m]) /\ Arrives(a, "drop")
        /\ blind' = blind \cup {n \in {m} : \E b \in Busy : n \in TakingUp(b)}
    BY <1>1, Zenon DEF BeginDrop
  <2>2. handler' \in [Handlers -> Handler]
    <3>1. [pc |-> "drop", model |-> m] \in Handler
      BY NextForms, Kinds
    <3> QED BY <2>1, <3>1, Moves
  <2>3. requests' \in 0 .. MaxRequests /\ blind' \subseteq Models
    BY <2>1, ArrivalType DEF TypeOK
  <2>4. UNCHANGED <<tables, route, worker, faults, suspect, contended, crossed>>
    BY <1>1, Zenon DEF BeginDrop
  <2> QED BY <2>2, <2>3, <2>4 DEF TypeOK, tables
<1>2. CASE CommitDrop(a)
  <2>1. Goes(a, Free) /\ models' = models \ {handler[a].model}
    BY <1>2, Zenon DEF CommitDrop
  <2>2. handler' \in [Handlers -> Handler]
    BY <2>1, AtRest, Moves
  <2>3. UNCHANGED <<rows, shares, asked, route, worker, bounds, suspect, history>>
    BY <1>2, Zenon DEF CommitDrop
  <2> QED BY <2>1, <2>2, <2>3 DEF TypeOK, bounds, history
<1>3. CASE CommitFails(a)
  <2>1. /\ Goes(a, Free) /\ Fault("commit")
        /\ suspect' = IF h.pc \in {"commit", "stamp"} THEN suspect \cup {Named(h)} ELSE suspect
    BY <1>3, Zenon DEF CommitFails
  <2>2. h.pc \in {"commit", "stamp"} => Named(h) \in Names
    BY <1>0, FormOfHandler, RowAt DEF Named, Creation, Deletion, Row
  <2>3. handler' \in [Handlers -> Handler]
    BY <2>1, AtRest, Moves
  <2>4. faults' \subseteq FaultKinds /\ suspect' \subseteq Names
    BY <2>1, <2>2 DEF Fault, TypeOK
  <2>5. UNCHANGED <<tables, route, worker, requests, history>>
    BY <1>3, Zenon DEF CommitFails
  <2> QED BY <2>3, <2>4, <2>5 DEF TypeOK, tables, history
<1> QED BY <1>1, <1>2, <1>3

LEMMA WorkerForms ==
    /\ Down \in Worker /\ Up \in Worker
    /\ \A live \in SUBSET Names, calm \in BOOLEAN :
          [Down EXCEPT !.pc = "list", !.live = live, !.calm = calm] \in Worker
    /\ \A p \in Worker, add \in SUBSET Names, remove \in SUBSET Names :
          [p EXCEPT !.pc = "sync", !.add = add, !.remove = remove] \in Worker
<1>1. Down \in Worker
  BY DEF Worker, Down
<1>2. Up \in Worker
  BY <1>1 DEF Worker, Up
<1>3. ASSUME NEW live \in SUBSET Names, NEW calm \in BOOLEAN
      PROVE  [Down EXCEPT !.pc = "list", !.live = live, !.calm = calm] \in Worker
  BY <1>1 DEF Worker
<1>4. ASSUME NEW p \in Worker, NEW add \in SUBSET Names, NEW remove \in SUBSET Names
      PROVE  [p EXCEPT !.pc = "sync", !.add = add, !.remove = remove] \in Worker
  BY DEF Worker
<1> QED BY Zenon, <1>1, <1>2, <1>3, <1>4

LEMMA WorkerAt ==
    ASSUME TypeOK, NEW w \in Workers, NEW p \in Worker, worker' = [worker EXCEPT ![w] = p]
    PROVE  worker' \in [Workers -> Worker]
BY DEF TypeOK

LEMMA StirredNames == ASSUME TypeOK, NEW a \in Stirred PROVE Named(handler[a]) \in Names
<1>1. handler[a] \in Creation \/ handler[a] \in Deletion
  BY DEF Stirred
<1> QED BY <1>1, RowAt DEF Named, Creation, Deletion, Row

LEMMA ServingType ==
    ASSUME TypeOK, NEW w \in Workers, WorkerStep(w)
    PROVE  TypeOK'
<1> DEFINE p == worker[w]
<1>0. p \in Worker
  BY DEF TypeOK
<1>1. CASE ReadServices(w)
  <2>1. PICK calm \in BOOLEAN :
           worker' = [worker EXCEPT ![w] =
                         [Down EXCEPT !.pc = "list", !.live = LiveNames, !.calm = calm]]
    BY <1>1, Zenon DEF ReadServices
  <2>2. LiveNames \in SUBSET Names
    BY RowAt DEF LiveNames, Row
  <2>3. worker' \in [Workers -> Worker]
    BY <1>0, <2>1, <2>2, WorkerForms, WorkerAt, Zenon
  <2>4. suspect' \subseteq Names
    <3>1. suspect' = suspect \cup {Named(handler[a]) : a \in Stirred}
      BY <1>1, Zenon DEF ReadServices
    <3> QED BY <3>1, StirredNames DEF TypeOK
  <2>5. UNCHANGED <<tables, route, handler, bounds, history>>
    BY <1>1, Zenon DEF ReadServices
  <2> QED BY <2>3, <2>4, <2>5 DEF TypeOK, tables, bounds, history
<1>2. CASE ListRoutes(w)
  <2>1. PICK next \in {Up, [p EXCEPT !.pc = "sync", !.add = p.live, !.remove = route \ p.live]} :
           worker' = [worker EXCEPT ![w] = next]
    BY <1>2, Zenon DEF ListRoutes
  <2>2. p.live \in SUBSET Names /\ route \ p.live \in SUBSET Names
    BY <1>0 DEF Worker, TypeOK
  <2>3. worker' \in [Workers -> Worker]
    BY <1>0, <2>1, <2>2, WorkerForms, WorkerAt, Zenon
  <2>4. UNCHANGED <<tables, route, handler, bounds, suspect, history>>
    BY <1>2, Zenon DEF ListRoutes
  <2> QED BY <2>3, <2>4 DEF TypeOK, tables, bounds, history
<1>3. CASE SyncAdds(w)
  <2>1. PICK n \in p.add : route' = route \cup {n} /\ worker' = [worker EXCEPT ![w].add = @ \ {n}]
    BY <1>3, Zenon DEF SyncAdds
  <2>2. route' \subseteq Names /\ worker' \in [Workers -> Worker]
    BY <1>0, <2>1 DEF TypeOK, Worker
  <2>3. UNCHANGED <<tables, handler, bounds, suspect, history>>
    BY <1>3, Zenon DEF SyncAdds
  <2> QED BY <2>2, <2>3 DEF TypeOK, tables, bounds, history
<1>4. CASE SyncRemoves(w)
  <2>1. PICK n \in p.remove : route' = route \ {n} /\ worker' = [worker EXCEPT ![w].remove = @ \ {n}]
    BY <1>4, Zenon DEF SyncRemoves
  <2>2. route' \subseteq Names /\ worker' \in [Workers -> Worker]
    BY <1>0, <2>1 DEF TypeOK, Worker
  <2>3. UNCHANGED <<tables, handler, bounds, suspect, history>>
    BY <1>4, Zenon DEF SyncRemoves
  <2> QED BY <2>2, <2>3 DEF TypeOK, tables, bounds, history
<1>5. CASE Synced(w) \/ SyncFails(w)
  <2>1. worker' = [worker EXCEPT ![w] = Up] /\ (suspect' = {} \/ suspect' = suspect)
    BY <1>5, Zenon DEF Synced, SyncFails
  <2>2. worker' \in [Workers -> Worker]
    BY <2>1, WorkerForms, WorkerAt, Zenon
  <2>3. UNCHANGED <<tables, route, handler, requests, history>> /\ (faults' = faults \/ Fault("sync"))
    BY <1>5, Zenon DEF Synced, SyncFails, bounds
  <2>4. faults' \subseteq FaultKinds
    BY <2>3 DEF Fault, TypeOK
  <2> QED BY <2>1, <2>2, <2>3, <2>4 DEF TypeOK, tables, history
<1>6. ASSUME NEW dead \in SUBSET Busy, Crash(w, dead) PROVE TypeOK'
  <2>1. /\ worker' = [worker EXCEPT ![w] = Down] /\ Fault("crash")
        /\ handler' = [a \in Handlers |-> IF a \in dead THEN Free ELSE handler[a]]
        /\ suspect' = suspect \cup {Named(handler[a]) : a \in {b \in dead : handler[b].pc \in {"commit", "stamp"}}}
    BY <1>6, Zenon DEF Crash
  <2>2. worker' \in [Workers -> Worker]
    BY <2>1, WorkerForms, WorkerAt, Zenon
  <2>3. handler' \in [Handlers -> Handler]
    BY <2>1, AtRest DEF TypeOK
  <2>4. suspect' \subseteq Names
    <3>1. ASSUME NEW a \in dead, handler[a].pc \in {"commit", "stamp"} PROVE a \in Stirred
      <4>1. a \in Handlers /\ a \in Busy
        BY DEF Busy
      <4>2. handler[a] \in Creation \/ handler[a] \in Deletion
        BY <3>1, <4>1, HandlerAt, FormOfHandler
      <4> QED BY <4>1, <4>2 DEF Stirred
    <3> QED BY <2>1, <3>1, StirredNames DEF TypeOK
  <2>5. faults' \subseteq FaultKinds
    BY <2>1 DEF Fault, TypeOK
  <2>6. UNCHANGED <<tables, route, requests, history>>
    BY <1>6, Zenon DEF Crash
  <2> QED BY <2>2, <2>3, <2>4, <2>5, <2>6 DEF TypeOK, tables, history
<1> QED BY <1>1, <1>2, <1>3, <1>4, <1>5, <1>6 DEF WorkerStep

LEMMA StartType == Init => TypeOK
<1> SUFFICES ASSUME Init PROVE TypeOK
  OBVIOUS
<1>0. /\ First.name \in Names /\ First.ask.models \in SUBSET Models /\ First.ask.gpus \in Nat
      /\ 0 \in Ids /\ Handlers \subseteq Ids
  BY ApiFirst, ApiBounds, HandlersAreIds DEF Ask, Ids
<1>1. rows \in [Ids -> Row]
  <2>1. rows = [id \in Ids |-> [name |-> First.name,
                                state |-> IF id = 0 THEN "live" ELSE "absent",
                                models |-> IF id = 0 THEN First.ask.models ELSE {}]]
    BY Zenon DEF Init
  <2> QED BY <1>0, <2>1 DEF Row
<1>2. shares \in [Ids -> Batch]
  <2>1. PICK on \in kSubset(Count(First.ask.gpus), Devices) :
           shares = [b \in Ids |-> IF b = 0 THEN Allocations(0, on, First.ask.gpus) ELSE NoBatch]
    BY Zenon DEF Init
  <2>2. on \in SUBSET Devices
    BY DEF kSubset
  <2>3. Allocations(0, on, First.ask.gpus) \in Batch
    BY <1>0, <2>2, AllocationsForm
  <2> QED BY <2>1, <2>3, NoBatchForm
<1>3. handler \in [Handlers -> Handler] /\ worker \in [Workers -> Worker]
  <2>1. handler = [a \in Handlers |-> Free] /\ worker = [w \in Workers |-> Down]
    BY Zenon DEF Init
  <2>2. Down \in Worker
    BY WorkerForms, Zenon
  <2> QED BY <2>1, <2>2, AtRest
<1>4. asked \in [Ids -> Nat]
  <2>1. asked = [id \in Ids |-> IF id = 0 THEN First.ask.gpus ELSE 0]
    BY Zenon DEF Init
  <2> QED BY <1>0, <2>1
<1>5. requests \in 0 .. MaxRequests
  <2>1. requests = 0
    BY Zenon DEF Init
  <2> QED BY <2>1, ApiBounds
<1>6. /\ models = Models /\ route \subseteq Names /\ faults = {} /\ suspect = Names
      /\ contended = {} /\ crossed = {} /\ blind = {}
  BY Zenon DEF Init
<1> QED BY <1>1, <1>2, <1>3, <1>4, <1>5, <1>6 DEF TypeOK

LEMMA RequestType ==
    ASSUME TypeOK, NEW a \in Handlers, RequestStep(a)
    PROVE  TypeOK'
<1>1. CASE \/ \E name \in Names, ask \in Asks : BeginCreate(a, name, ask)
           \/ Insert(a) \/ WriteRoute(a) \/ WriteRouteFails(a) \/ CommitCreate(a)
  BY <1>1, CreateType, CreatingType, CommitCreateType
<1>2. CASE (\E id \in Ids : BeginDelete(a, id)) \/ Unlink(a) \/ Stamp(a)
  BY <1>2, DeleteType, DeletingType
<1>3. CASE \E id \in Ids, ask \in Asks, changes \in Changes : BeginUpdate(a, id, changes, ask)
  BY <1>3, BeginUpdateType
<1>4. CASE Release(a) \/ CommitUpdate(a)
  BY <1>4, UpdatingType
<1>5. CASE (\E m \in Models : BeginDrop(a, m)) \/ CommitDrop(a) \/ CommitFails(a)
  BY <1>5, DropType
<1> QED BY <1>1, <1>2, <1>3, <1>4, <1>5 DEF RequestStep, Changes

LEMMA TypeStep == TypeOK /\ [Next]_vars => TypeOK'
<1> SUFFICES ASSUME TypeOK, [Next]_vars PROVE TypeOK'
  OBVIOUS
<1>1. CASE UNCHANGED vars
  BY <1>1 DEF vars, tables, bounds, history, TypeOK
<1>2. CASE Next
  BY <1>2, RequestType, ServingType DEF Next
<1> QED BY <1>1, <1>2

(* Whatever requests, faults and workers do, what is kept of services,     *)
(* allocations, routes, handlers and workers is of its kind.               *)
THEOREM ApiTypeCorrect == Spec => []TypeOK
BY StartType, TypeStep, PTL DEF Spec

-----------------------------------------------------------------------------
(* Models in use *)

Served == {m \in Models : \E id \in Ids : Serves(id, m)}
Taken == {m \in Models : \E b \in Handlers : m \in TakingUp(b)}
Wanted == Served \cup Taken
Dropping == {m \in Models : \E b \in Handlers : handler[b] = [pc |-> "drop", model |-> m]}

(* Nobody deletes, or has deleted, a model that is served or being taken   *)
(* up - but for those whose deletion was decided blindly.                  *)
WantedInv == Wanted \ blind \subseteq models \ Dropping

LEMMA WantedSuffices ==
    ASSUME TypeOK, WantedInv
    PROVE  ServedModelsAreLive
<1> SUFFICES ASSUME NEW id \in Ids, rows[id].state = "live", NEW m \in rows[id].models \ blind
             PROVE  m \in models
  BY DEF ServedModelsAreLive
<1>1. m \in Models
  BY RowAt DEF Row
<1> QED BY <1>1 DEF WantedInv, Wanted, Served, Serves

(* What is being taken up by a request, by its pc.                         *)
LEMMA TakingForms ==
    ASSUME TypeOK, NEW b \in Handlers
    PROVE  /\ handler[b] \in Creation => TakingUp(b) = handler[b].ask.models
           /\ handler[b] \in Update => TakingUp(b) = handler[b].ask.models \ handler[b].loaded
           /\ handler[b] \notin Creation \cup Update => TakingUp(b) = {}
<1>1. ~(handler[b] \in Creation /\ handler[b] \in Update)
  BY HandlerAt, FormOfHandler
<1> QED BY <1>1 DEF TakingUp

(* A step that serves and takes up nothing that was not wanted, and starts *)
(* no deletion.                                                            *)
LEMMA CalmStep ==
    ASSUME WantedInv, Wanted' \subseteq Wanted, Dropping' \subseteq Dropping,
           blind' = blind, models' = models
    PROVE  WantedInv'
BY DEF WantedInv

LEMMA SameRows == ASSUME UNCHANGED rows PROVE Served' = Served
BY DEF Served, Serves

(* One request moves on, and takes up and deletes nothing new.             *)
LEMMA Eases ==
    ASSUME TypeOK, NEW a \in Handlers, NEW state \in Handler, Goes(a, state),
           state \in Drop => state = handler[a],
           state \in Creation => handler[a] \in Creation /\ state.ask = handler[a].ask,
           state \in Update => handler[a] \in Update /\ state.ask = handler[a].ask /\ state.loaded = handler[a].loaded
    PROVE  Taken' \subseteq Taken /\ Dropping' \subseteq Dropping
<1>1. handler'[a] = state /\ \A b \in Handlers \ {a} : handler'[b] = handler[b]
  BY Moves
<1>2. \A b \in Handlers \ {a} : TakingUp(b)' = TakingUp(b)
  BY <1>1 DEF TakingUp
<1>3. TakingUp(a)' \subseteq TakingUp(a)
  <2>1. TakingUp(a)' = IF state \in Creation THEN state.ask.models
                       ELSE IF state \in Update THEN state.ask.models \ state.loaded ELSE {}
    BY <1>1 DEF TakingUp
  <2>2. CASE state \in Creation
    BY <2>1, <2>2 DEF TakingUp
  <2>3. CASE state \in Update
    <3>1. state \notin Creation
      BY <2>3, FormOfHandler
    <3> QED BY <2>1, <2>3, <3>1, TakingForms
  <2>4. CASE state \notin Creation \cup Update
    BY <2>1, <2>4
  <2> QED BY <2>2, <2>3, <2>4
<1>4. ASSUME NEW m \in Models, state = [pc |-> "drop", model |-> m]
      PROVE  handler[a] = [pc |-> "drop", model |-> m]
  BY <1>4, NextForms
<1>5. Taken' \subseteq Taken
  BY <1>2, <1>3 DEF Taken
<1> QED BY <1>1, <1>4, <1>5 DEF Dropping

(* A request ends.                                                         *)
LEMMA Ends ==
    ASSUME TypeOK, NEW a \in Handlers, Goes(a, Free)
    PROVE  Taken' \subseteq Taken /\ Dropping' \subseteq Dropping
BY AtRest, Eases

LEMMA StepsThatEase ==
    ASSUME TypeOK, WantedInv, NEW a \in Handlers,
           \/ Insert(a) \/ WriteRoute(a) \/ WriteRouteFails(a) \/ Release(a) \/ CommitFails(a)
           \/ Unlink(a) \/ \E id \in Ids : BeginDelete(a, id)
    PROVE  WantedInv'
<1> DEFINE h == handler[a]
<1>0. h \in Handler
  BY HandlerAt
<1>1. UNCHANGED <<rows, models, blind>>
  BY Zenon DEF Insert, WriteRoute, WriteRouteFails, Release, CommitFails, Unlink, BeginDelete, tables, history
<1>2. Taken' \subseteq Taken /\ Dropping' \subseteq Dropping
  <2>1. CASE Goes(a, Free)
    BY <2>1, Ends
  <2>2. ASSUME NEW pc \in {"route", "commit"}, h.pc \in {"insert", "route"}, Goes(a, [h EXCEPT !.pc = pc])
        PROVE  Taken' \subseteq Taken /\ Dropping' \subseteq Dropping
    <3>1. h \in Creation
      BY <1>0, <2>2, FormOfHandler
    <3>2. [h EXCEPT !.pc = pc] \in Creation /\ [h EXCEPT !.pc = pc].ask = h.ask
      BY <3>1, CreationSteps
    <3> DEFINE s == [h EXCEPT !.pc = pc]
    <3> HIDE DEF s
    <3>3. s \in Creation /\ s.ask = h.ask /\ Goes(a, s)
      BY <2>2, <3>2 DEF s
    <3>4. s \in Handler /\ s \notin Drop /\ s \notin Update
      BY <3>3, Kinds, FormOfHandler
    <3> QED BY <3>1, <3>3, <3>4, Eases
  <2>3. ASSUME NEW on \in SUBSET Devices, h.pc = "release", Goes(a, [h EXCEPT !.pc = "write", !.on = on])
        PROVE  Taken' \subseteq Taken /\ Dropping' \subseteq Dropping
    <3>1. h \in Update
      BY <1>0, <2>3, FormOfHandler
    <3> DEFINE s == [h EXCEPT !.pc = "write", !.on = on]
    <3> HIDE DEF s
    <3>2. s \in Update /\ s.ask = h.ask /\ s.loaded = h.loaded /\ Goes(a, s)
      BY <2>3, <3>1, UpdateSteps, Zenon DEF s
    <3>3. s \in Handler /\ s \notin Drop /\ s \notin Creation
      BY <3>2, Kinds, FormOfHandler
    <3> QED BY <3>1, <3>2, <3>3, Eases
  <2>4. ASSUME NEW s \in Deletion, Goes(a, s)
        PROVE  Taken' \subseteq Taken /\ Dropping' \subseteq Dropping
    <3>1. s \in Handler /\ s \notin Drop /\ s \notin Creation /\ s \notin Update
      BY Kinds, FormOfHandler
    <3> QED BY <2>4, <3>1, Eases
  <2>5. CASE Insert(a) \/ WriteRoute(a) \/ WriteRouteFails(a) \/ CommitFails(a)
    BY <2>1, <2>2, <2>5, Zenon DEF Insert, WriteRoute, WriteRouteFails, CommitFails
  <2>6. CASE Release(a)
    <3>1. PICK on \in Candidates(h.ask.gpus, h.freed) :
             Goes(a, IF ModelsFit(h) /\ Enough(on, h.ask.gpus)
                     THEN [h EXCEPT !.pc = "write", !.on = on] ELSE Free)
      BY <2>6, Zenon DEF Release
    <3>2. on \in SUBSET Devices /\ h.pc = "release"
      BY <2>6, CandidatesForm, Zenon DEF Release
    <3> QED BY <2>1, <2>3, <3>1, <3>2, Zenon
  <2>7. CASE Unlink(a)
    <3>1. h.pc = "unlink" /\ (Goes(a, Free) \/ Goes(a, [h EXCEPT !.pc = "stamp"]))
      BY <2>7, Zenon DEF Unlink
    <3>2. [h EXCEPT !.pc = "stamp"] \in Deletion
      BY <1>0, <3>1, FormOfHandler, DeletionSteps
    <3> QED BY <2>1, <2>4, <3>1, <3>2, Zenon
  <2>8. ASSUME NEW id \in Ids, BeginDelete(a, id) PROVE Taken' \subseteq Taken /\ Dropping' \subseteq Dropping
    <3>1. PICK pc \in {"unlink", "stamp"} : Goes(a, [pc |-> pc, id |-> id])
      BY <2>8, Zenon DEF BeginDelete
    <3> QED BY <2>4, <3>1, NextForms
  <2> QED BY <2>5, <2>6, <2>7, <2>8
<1> QED BY <1>1, <1>2, SameRows, CalmStep DEF Wanted

(* Commits serve nothing but what was being taken up.                      *)
LEMMA StepsThatServe ==
    ASSUME TypeOK, WantedInv, NEW a \in Handlers,
           CommitCreate(a) \/ CommitUpdate(a) \/ Stamp(a)
    PROVE  WantedInv'
<1> DEFINE h == handler[a]
<1>0. h \in Handler
  BY HandlerAt
<1>1. UNCHANGED <<models, blind>> /\ Goes(a, Free)
  BY Zenon DEF CommitCreate, CommitUpdate, Stamp, history
<1>2. Served' \subseteq Served \cup Taken
  <2>1. CASE CommitCreate(a)
    <3>1. /\ h.pc = "commit"
          /\ rows' = [rows EXCEPT ![a] = [name |-> h.name, state |-> "live", models |-> h.ask.models]]
      BY <2>1, Zenon DEF CommitCreate
    <3>2. TakingUp(a) = h.ask.models
      BY <1>0, <3>1, FormOfHandler, TakingForms
    <3>3. \A id \in Ids \ {a} : rows'[id] = rows[id]
      BY <3>1 DEF TypeOK
    <3>4. rows'[a].models = TakingUp(a)
      BY <3>1, <3>2, HandlersAreIds DEF TypeOK
    <3> QED BY <3>3, <3>4 DEF Served, Serves, Taken
  <2>2. CASE CommitUpdate(a)
    <3>1. h.pc = "write" /\ RowsUpdated(h)
      BY <2>2, Zenon DEF CommitUpdate, RowsUpdated
    <3>2. TakingUp(a) = Added(h)
      BY <1>0, <3>1, FormOfHandler, TakingForms DEF Added
    <3> DEFINE ms == (rows[h.id].models \ Removed(h)) \cup Added(h)
    <3>3. rows' = [rows EXCEPT ![h.id].models = ms] \/ rows' = rows
      BY <3>1, Zenon DEF RowsUpdated
    <3>4. ms \subseteq rows[h.id].models \cup TakingUp(a)
      BY <3>2
    <3> HIDE DEF ms
    <3>5. ASSUME NEW id \in Ids
          PROVE  /\ rows'[id].state = rows[id].state
                 /\ rows'[id].models \subseteq rows[id].models \cup TakingUp(a)
      BY <3>3, <3>4, RowAt DEF TypeOK, Row
    <3> QED BY <3>5 DEF Served, Serves, Taken
  <2>3. CASE Stamp(a)
    <3>1. rows' = [rows EXCEPT ![h.id].state = "deleted"]
      BY <2>3, Zenon DEF Stamp
    <3>2. ASSUME NEW id \in Ids, rows'[id].state = "live" PROVE rows'[id] = rows[id]
      BY <3>1, <3>2 DEF TypeOK, Row
    <3> QED BY <3>2 DEF Served, Serves
  <2> QED BY <2>1, <2>2, <2>3
<1>3. Taken' \subseteq Taken /\ Dropping' \subseteq Dropping
  BY <1>1, Ends
<1> QED BY <1>1, <1>2, <1>3, CalmStep DEF Wanted

(* A request that sets out to take models up: those there is a deletion of *)
(* under way become blind.                                                 *)
LEMMA Takes ==
    ASSUME TypeOK, WantedInv, NEW a \in Handlers, NEW state \in Handler, Goes(a, state),
           state \in Creation \cup Update, NEW ms \in SUBSET models, TakingUp(a)' \subseteq ms,
           Blinds(ms), UNCHANGED <<rows, models>>
    PROVE  WantedInv'
<1>1. handler'[a] = state /\ \A b \in Handlers \ {a} : handler'[b] = handler[b]
  BY Moves
<1>2. \A b \in Handlers \ {a} : TakingUp(b)' = TakingUp(b)
  BY <1>1 DEF TakingUp
<1>3. Wanted' \subseteq Wanted \cup ms
  BY <1>2, SameRows DEF Wanted, Taken
<1>4. Dropping' \subseteq Dropping
  <2>1. state \notin Drop
    BY FormOfHandler
  <2>2. \A m \in Models : state # [pc |-> "drop", model |-> m]
    BY <2>1, NextForms
  <2> QED BY <1>1, <2>2 DEF Dropping
<1>5. ms \cap Dropping \subseteq blind' /\ blind \subseteq blind'
  <2>1. \A b \in Handlers, m \in Models : handler[b] = [pc |-> "drop", model |-> m] => b \in Busy
    BY DEF Busy, Free
  <2> QED BY <2>1 DEF Blinds, Dropping
<1> QED BY <1>3, <1>4, <1>5 DEF WantedInv

LEMMA StepsThatTake ==
    ASSUME TypeOK, WantedInv, NEW a \in Handlers,
           \/ \E n \in Names, ask \in Asks : BeginCreate(a, n, ask)
           \/ \E id \in Ids, ask \in Asks, changes \in Changes : BeginUpdate(a, id, changes, ask)
    PROVE  WantedInv'
<1>1. ASSUME NEW n \in Names, NEW ask \in Asks, BeginCreate(a, n, ask) PROVE WantedInv'
  <2>1. PICK on \in Candidates(ask.gpus, {}) :
           Goes(a, [pc |-> "insert", name |-> n, ask |-> ask, on |-> on])
    BY <1>1, Zenon DEF BeginCreate
  <2>2. ask.models \in SUBSET models /\ Blinds(ask.models) /\ UNCHANGED <<rows, models>>
    BY <1>1, Zenon DEF BeginCreate, tables
  <2> DEFINE s == [pc |-> "insert", name |-> n, ask |-> ask, on |-> on]
  <2>3. s \in Creation
    BY CandidatesForm, ApiAsks, NextForms
  <2>4. s.ask = ask
    OBVIOUS
  <2> HIDE DEF s
  <2>5. Goes(a, s) /\ s \in Handler
    BY <2>1, <2>3, Kinds DEF s
  <2>6. TakingUp(a)' = ask.models
    BY <2>3, <2>4, <2>5, Moves DEF TakingUp
  <2> QED BY <2>2, <2>3, <2>5, <2>6, Takes
<1>2. ASSUME NEW id \in Ids, NEW ask \in Asks, NEW changes \in Changes, BeginUpdate(a, id, changes, ask)
      PROVE  WantedInv'
  <2> DEFINE s == Plan(id, changes, ask)
             ms == IF "models" \in changes THEN ask.models \ rows[id].models ELSE {}
  <2>1. Goes(a, s) /\ Blinds(ms) /\ UNCHANGED <<rows, models>>
    BY <1>2, Zenon DEF BeginUpdate, Plan, tables
  <2>2. ms \in SUBSET models
    BY <1>2 DEF BeginUpdate
  <2>3. s.ask.models \ s.loaded = ms
    BY DEF Plan
  <2>4. s \in Update /\ s \in Handler /\ s \notin Creation
    BY PlanForm, Kinds, FormOfHandler
  <2> HIDE DEF s, ms
  <2>5. TakingUp(a)' = ms
    BY <2>1, <2>3, <2>4, Moves DEF TakingUp
  <2> QED BY <2>1, <2>2, <2>4, <2>5, Takes
<1> QED BY <1>1, <1>2

(* Deleting a model.                                                       *)
LEMMA StepsThatDrop ==
    ASSUME TypeOK, WantedInv, NEW a \in Handlers,
           (\E m \in Models : BeginDrop(a, m)) \/ CommitDrop(a)
    PROVE  WantedInv'
<1>1. ASSUME NEW m \in Models, BeginDrop(a, m) PROVE WantedInv'
  <2> DEFINE s == [pc |-> "drop", model |-> m]
  <2>1. Goes(a, s) /\ \A id \in Ids : ~Serves(id, m)
    BY <1>1, Zenon DEF BeginDrop
  <2>2. UNCHANGED <<rows, models>> /\ blind' = blind \cup {n \in {m} : \E b \in Busy : n \in TakingUp(b)}
    BY <1>1, Zenon DEF BeginDrop, tables
  <2>3. s \in Drop /\ s \in Handler
    BY NextForms, Kinds
  <2>4. s \notin Creation \cup Update
    BY <2>3, FormOfHandler
  <2>5. \A k \in Models : s = [pc |-> "drop", model |-> k] => k = m
    OBVIOUS
  <2> HIDE DEF s
  <2>6. handler'[a] = s /\ \A b \in Handlers \ {a} : handler'[b] = handler[b]
    BY <2>1, <2>3, Moves
  <2>7. TakingUp(a)' = {} /\ \A b \in Handlers \ {a} : TakingUp(b)' = TakingUp(b)
    BY <2>4, <2>6 DEF TakingUp
  <2>8. Wanted' \subseteq Wanted
    BY <2>2, <2>7, SameRows DEF Wanted, Taken
  <2>9. Dropping' \subseteq Dropping \cup {m}
    BY <2>5, <2>6 DEF Dropping
  <2>10. m \in Wanted => m \in blind'
    <3>1. \A b \in Handlers : m \in TakingUp(b) => b \in Busy
      BY AtRest DEF Busy, TakingUp
    <3> QED BY <2>1, <2>2, <3>1 DEF Wanted, Served, Taken
  <2> QED BY <2>2, <2>8, <2>9, <2>10 DEF WantedInv
<1>2. CASE CommitDrop(a)
  <2>1. handler[a].pc = "drop" /\ Goes(a, Free) /\ models' = models \ {handler[a].model}
    BY <1>2, Zenon DEF CommitDrop
  <2>2. UNCHANGED <<rows, blind>>
    BY <1>2, Zenon DEF CommitDrop, history
  <2>3. handler[a].model \in Dropping
    <3>1. handler[a] \in Drop
      BY <2>1, HandlerAt, FormOfHandler
    <3> QED BY <3>1 DEF Drop, Dropping
  <2>4. Taken' \subseteq Taken /\ Dropping' \subseteq Dropping
    BY <2>1, Ends
  <2> QED BY <2>1, <2>2, <2>3, <2>4, SameRows DEF WantedInv, Wanted
<1> QED BY <1>1, <1>2

LEMMA WorkersEase ==
    ASSUME TypeOK, WantedInv, NEW w \in Workers, WorkerStep(w)
    PROVE  WantedInv'
<1>1. ASSUME NEW dead \in SUBSET Busy, Crash(w, dead) PROVE WantedInv'
  <2>1. /\ handler' = [a \in Handlers |-> IF a \in dead THEN Free ELSE handler[a]]
        /\ UNCHANGED <<rows, models, blind>>
    BY <1>1, Zenon DEF Crash, tables, history
  <2>2. \A b \in Handlers : handler'[b] \in {Free, handler[b]}
    BY <2>1
  <2>3. \A b \in Handlers : TakingUp(b)' \subseteq TakingUp(b)
    BY <2>2, AtRest DEF TakingUp
  <2>4. Taken' \subseteq Taken
    BY <2>3 DEF Taken
  <2>5. Dropping' \subseteq Dropping
    BY <2>2 DEF Dropping, Free
  <2> QED BY <2>1, <2>4, <2>5, SameRows, CalmStep DEF Wanted
<1>2. CASE ReadServices(w) \/ ListRoutes(w) \/ SyncAdds(w) \/ SyncRemoves(w) \/ Synced(w) \/ SyncFails(w)
  <2>1. UNCHANGED <<rows, models, blind, handler>>
    BY <1>2, Zenon DEF ReadServices, ListRoutes, SyncAdds, SyncRemoves, Synced, SyncFails, tables, history
  <2> QED BY <2>1 DEF WantedInv, Wanted, Served, Serves, Taken, TakingUp, Dropping
<1> QED BY <1>1, <1>2 DEF WorkerStep

LEMMA WantedStep == TypeOK /\ WantedInv /\ [Next]_vars => WantedInv'
<1> SUFFICES ASSUME TypeOK, WantedInv, [Next]_vars PROVE WantedInv'
  OBVIOUS
<1>1. CASE UNCHANGED vars
  BY <1>1 DEF vars, tables, history, WantedInv, Wanted, Served, Serves, Taken, TakingUp, Dropping
<1>2. ASSUME NEW a \in Handlers, RequestStep(a) PROVE WantedInv'
  BY <1>2, StepsThatEase, StepsThatServe, StepsThatTake, StepsThatDrop DEF RequestStep, Changes
<1>3. ASSUME NEW w \in Workers, WorkerStep(w) PROVE WantedInv'
  BY <1>3, WorkersEase
<1> QED BY <1>1, <1>2, <1>3 DEF Next

LEMMA WantedStart == Init => WantedInv
<1> SUFFICES ASSUME Init PROVE WantedInv
  OBVIOUS
<1>1. models = Models /\ handler = [a \in Handlers |-> Free]
  BY Zenon DEF Init
<1> QED BY <1>1 DEF WantedInv, Wanted, Served, Taken, Dropping, Free

(* However creates, updates and deletions of models, failed commits and    *)
(* crashes interleave, a model that a live service serves is there, unless *)
(* its deletion was decided while a request was taking it up.              *)
THEOREM ServedModelsStay == Spec => []ServedModelsAreLive
<1>1. Init => TypeOK /\ WantedInv
  BY StartType, WantedStart
<1>2. TypeOK /\ WantedInv /\ [Next]_vars => (TypeOK /\ WantedInv)'
  BY TypeStep, WantedStep
<1>3. TypeOK /\ WantedInv => ServedModelsAreLive
  BY WantedSuffices
<1> QED BY <1>1, <1>2, <1>3, PTL DEF Spec

-----------------------------------------------------------------------------
(* Sizes of finite sets, in a form all provers take *)

LEMMA IntervalSize == \A n \in Nat : IsFiniteSet(1 .. n) /\ Cardinality(1 .. n) = n
<1> TAKE n \in Nat
<1>1. 1 \in Int /\ n \in Int
  OBVIOUS
<1>2. IsFiniteSet(1 .. n) /\ Cardinality(1 .. n) = IF 1 > n THEN 0 ELSE n - 1 + 1
  BY <1>1, FS_Interval, Zenon
<1> QED BY <1>2

LEMMA SubsetSize ==
    \A S : \A T \in SUBSET S : IsFiniteSet(S) => /\ IsFiniteSet(T)
                                                 /\ Cardinality(T) <= Cardinality(S)
BY FS_Subset

LEMMA SizeIsNat == \A S : IsFiniteSet(S) => Cardinality(S) \in Nat
BY FS_CardinalityType

LEMMA UnionSize ==
    \A S, T : IsFiniteSet(S) /\ IsFiniteSet(T) =>
       IsFiniteSet(S \cup T) /\ Cardinality(S \cup T) <= Cardinality(S) + Cardinality(T)
<1>1. ASSUME NEW S, NEW T, IsFiniteSet(S), IsFiniteSet(T)
      PROVE  IsFiniteSet(S \cup T) /\ Cardinality(S \cup T) <= Cardinality(S) + Cardinality(T)
  <2>1. /\ IsFiniteSet(S \cup T)
        /\ Cardinality(S \cup T) = Cardinality(S) + Cardinality(T) - Cardinality(S \cap T)
    BY <1>1, FS_Union, Zenon
  <2>2. IsFiniteSet(S \cap T)
    BY <1>1, FS_Intersection, Zenon
  <2>3. Cardinality(S) \in Nat /\ Cardinality(T) \in Nat /\ Cardinality(S \cap T) \in Nat
    BY <1>1, <2>2, SizeIsNat
  <2> QED BY <2>1, <2>3
<1> QED BY <1>1

(* So many pairs of one thing with others as there are others.             *)
LEMMA PairsSize ==
    \A b, S : IsFiniteSet(S) => IsFiniteSet({b} \X S) /\ Cardinality({b} \X S) = Cardinality(S)
<1>1. ASSUME NEW b, NEW S, IsFiniteSet(S)
      PROVE  IsFiniteSet({b} \X S) /\ Cardinality({b} \X S) = Cardinality(S)
  <2>1. IsFiniteSet({b}) /\ Cardinality({b}) = 1
    BY FS_Singleton, Zenon
  <2>2. /\ IsFiniteSet({b} \X S)
        /\ Cardinality({b} \X S) = Cardinality({b}) * Cardinality(S)
    BY <1>1, <2>1, FS_Product, Zenon
  <2>3. Cardinality({b} \X S) = 1 * Cardinality(S) /\ Cardinality(S) \in Nat
    BY <1>1, <2>1, <2>2, SizeIsNat
  <2> QED BY <2>2, <2>3
<1> QED BY <1>1

-----------------------------------------------------------------------------
(* Shares of the devices: what is held, unit by unit *)

LEMMA HeldMembers ==
    ASSUME NEW d, NEW freed, NEW u
    PROVE  u \in Held(d, freed) <=>
              \E b \in Ids \ freed : /\ d \in shares[b].on
                                     /\ rows[shares[b].of].state = "live"
                                     /\ u \in {b} \X (1 .. shares[b].percent)
BY DEF Held

LEMMA UnitsSize ==
    ASSUME NEW b, NEW n \in 0 .. 100
    PROVE  IsFiniteSet({b} \X (1 .. n)) /\ Cardinality({b} \X (1 .. n)) = n
<1>1. IsFiniteSet(1 .. n) /\ Cardinality(1 .. n) = n
  BY IntervalSize
<1> QED BY <1>1, PairsSize

LEMMA UnitsFinite == IsFiniteSet(Ids \X (1 .. 100))
<1>1. IsFiniteSet(1 .. MaxRequests)
  BY IntervalSize, ApiBounds
<1>2. IsFiniteSet((1 .. MaxRequests) \cup {0})
  BY <1>1, FS_AddElement, Zenon
<1>3. (1 .. MaxRequests) \cup {0} = Ids
  BY ApiBounds DEF Ids
<1>4. IsFiniteSet(1 .. 100)
  BY IntervalSize
<1>5. IsFiniteSet(Ids)
  BY <1>2, <1>3
<1> QED BY <1>4, <1>5, FS_Product, Zenon

LEMMA HeldFinite ==
    ASSUME TypeOK, NEW d, NEW freed
    PROVE  IsFiniteSet(Held(d, freed)) /\ Allocated(d, freed) \in Nat
<1>1. \A b \in Ids : shares[b].percent \in 0 .. 100
  BY DEF TypeOK, Batch
<1>2. ASSUME NEW u \in Held(d, freed) PROVE u \in Ids \X (1 .. 100)
  <2>1. PICK b \in Ids \ freed : u \in {b} \X (1 .. shares[b].percent)
    BY HeldMembers
  <2> QED BY <2>1, <1>1
<1>3. Held(d, freed) \in SUBSET (Ids \X (1 .. 100))
  BY <1>2
<1>4. IsFiniteSet(Held(d, freed))
  BY <1>3, UnitsFinite, SubsetSize
<1> QED BY <1>4, SizeIsNat DEF Allocated

(* Apart from the batches added, those of the state after that count were  *)
(* there and counted before.                                               *)
Kept(d, added, freed, before) ==
    \A b \in Ids \ (freed \cup added) : d \in shares'[b].on /\ rows'[shares'[b].of].state = "live"
        => b \notin before /\ shares'[b] = shares[b] /\ rows[shares[b].of].state = "live"

(* A batch that is added to a device adds at most its percentage.          *)
LEMMA HeldGrows ==
    ASSUME TypeOK, TypeOK', NEW d, NEW freed, NEW before, NEW a \in Ids,
           Kept(d, {a}, freed, before)
    PROVE  /\ Allocated(d, freed)' <= Allocated(d, before) + shares'[a].percent
           /\ Allocated(d, freed)' \in Nat /\ Allocated(d, before) \in Nat
<1> DEFINE unit == {a} \X (1 .. shares'[a].percent)
           old == Held(d, before)
           new == Held(d, freed)'
<1>1. shares'[a].percent \in 0 .. 100
  BY DEF TypeOK, Batch
<1>2. IsFiniteSet(unit) /\ Cardinality(unit) = shares'[a].percent
  BY <1>1, UnitsSize, Zenon
<1>3. IsFiniteSet(old) /\ Cardinality(old) \in Nat
  BY HeldFinite DEF Allocated
<1>4. ASSUME NEW u \in new PROVE u \in old \cup unit
  <2>1. PICK b \in Ids \ freed : /\ d \in shares'[b].on
                                 /\ rows'[shares'[b].of].state = "live"
                                 /\ u \in {b} \X (1 .. shares'[b].percent)
    BY DEF Held
  <2>2. CASE b = a
    BY <2>1, <2>2
  <2>3. CASE b # a
    <3>1. b \in Ids \ before /\ shares'[b] = shares[b] /\ rows[shares[b].of].state = "live"
      BY <2>1, <2>3 DEF Kept
    <3> QED BY <2>1, <3>1, HeldMembers
  <2> QED BY <2>2, <2>3
<1> HIDE DEF unit, old, new
<1>5. /\ IsFiniteSet(old \cup unit)
      /\ Cardinality(old \cup unit) <= Cardinality(old) + shares'[a].percent
  BY <1>2, <1>3, UnionSize
<1>6. new \in SUBSET (old \cup unit)
  BY <1>4
<1>7. /\ Cardinality(new) <= Cardinality(old \cup unit)
      /\ Cardinality(new) \in Nat /\ Cardinality(old \cup unit) \in Nat
  BY <1>5, <1>6, SubsetSize, SizeIsNat
<1>8. Cardinality(new) <= Cardinality(old) + shares'[a].percent
  BY <1>1, <1>3, <1>5, <1>7
<1> QED BY <1>3, <1>7, <1>8 DEF Allocated, old, new

(* Where no batch is added, no more is held than before.                   *)
LEMMA HeldShrinks ==
    ASSUME TypeOK, NEW d, NEW freed, NEW before, Kept(d, {}, freed, before)
    PROVE  /\ Allocated(d, freed)' <= Allocated(d, before)
           /\ Allocated(d, freed)' \in Nat /\ Allocated(d, before) \in Nat
<1>1. ASSUME NEW u \in Held(d, freed)' PROVE u \in Held(d, before)
  <2>1. PICK b \in Ids \ freed : /\ d \in shares'[b].on
                                 /\ rows'[shares'[b].of].state = "live"
                                 /\ u \in {b} \X (1 .. shares'[b].percent)
    BY DEF Held
  <2>2. b \in Ids \ before /\ shares'[b] = shares[b] /\ rows[shares[b].of].state = "live"
    BY <2>1 DEF Kept
  <2> QED BY <2>1, <2>2, HeldMembers
<1>2. Held(d, freed)' \in SUBSET Held(d, before)
  BY <1>1
<1>3. IsFiniteSet(Held(d, before))
  BY HeldFinite
<1>4. /\ Cardinality(Held(d, freed)') <= Cardinality(Held(d, before))
      /\ Cardinality(Held(d, freed)') \in Nat /\ Cardinality(Held(d, before)) \in Nat
  BY <1>2, <1>3, SubsetSize, SizeIsNat
<1> QED BY <1>4 DEF Allocated

-----------------------------------------------------------------------------
(* The invariant *)

Open(b) == b > requests \/ handler[b] # Free
Revising(b) == handler[b] \in Update /\ "gpus" \in handler[b].changes
Choosing(b) == handler[b] \in Creation \/ (Revising(b) /\ handler[b].pc = "write")
FreedBy(b) == IF handler[b] \in Update THEN handler[b].freed ELSE {}

(* A request has its row and its batch to itself until it is over, and     *)
(* whoever holds something, or is about to, has a row.                     *)
SlotsInv ==
    /\ \A b \in Handlers : b > requests => handler[b] = Free
    /\ \A b \in Handlers : b > requests \/ handler[b] \in Creation => rows[b].state = "absent"
    /\ \A b \in Handlers : Open(b) => shares[b].on = {}
    /\ \A b, c \in Handlers : Open(b) => b \notin FreedBy(c)
    /\ \A b \in Ids : shares[b].on # {} => rows[shares[b].of].state # "absent"
    /\ \A c \in Handlers : handler[c] \in Update \cup Deletion => rows[handler[c].id].state # "absent"
    /\ \A c \in Handlers : \A b \in FreedBy(c) : shares[b].on = {} \/ shares[b].of = handler[c].id

(* What a request has chosen is still free for it, as far as no other      *)
(* request had chosen it as well when it was taken.                        *)
RoomInv ==
    /\ NoOvercommit
    /\ \A b \in Handlers : Choosing(b) =>
          \A d \in handler[b].on \ contended, freed \in {FreedBy(b)} :
             Allocated(d, freed) + Percent(handler[b].ask.gpus) <= 100

-----------------------------------------------------------------------------
(* What is chosen *)

LEMMA LeastOf == \A m, n \in Nat : Min({m, n}) \in {m, n} /\ Min({m, n}) <= m
<1> TAKE m, n \in Nat
<1>1. \E x \in {m, n} : \A y \in {m, n} : x <= y
  <2>1. CASE m <= n
    BY <2>1
  <2>2. CASE ~(m <= n)
    BY <2>2
  <2> QED BY <2>1, <2>2
<1>2. Min({m, n}) \in {m, n} /\ \A y \in {m, n} : Min({m, n}) <= y
  BY <1>1 DEF Min
<1> QED BY <1>2

LEMMA Quantities ==
    ASSUME NEW gpus \in Nat
    PROVE  /\ Percent(gpus) \in 0 .. 100
           /\ Count(gpus) \in Nat
           /\ gpus = 0 <=> Count(gpus) = 0
           /\ gpus \in 1 .. 99 => Count(gpus) = 1
           /\ \A n \in Nat : n <= Count(gpus) /\ 100 * n >= gpus => n = Count(gpus)
<1>1. Percent(gpus) \in 0 .. 100
  BY DEF Percent, RoundedUp
<1>2. (gpus + 99) \div 100 \in Nat /\ 100 * ((gpus + 99) \div 100) <= gpus + 99
      /\ gpus + 99 < 100 * ((gpus + 99) \div 100) + 100
  OBVIOUS
<1> DEFINE c == (gpus + 99) \div 100
<1>3. c \in Nat /\ 100 * c <= gpus + 99 /\ gpus + 99 < 100 * c + 100
  BY <1>2
<1>4. Count(gpus) = IF gpus = 0 THEN 0 ELSE c
  BY DEF Count
<1> HIDE DEF c
<1> QED BY <1>1, <1>3, <1>4

(* Of the devices with enough left, as many as are needed; enough of them  *)
(* means exactly that many.                                                *)
LEMMA Chooses ==
    ASSUME TypeOK, NEW gpus \in Nat, NEW freed, NEW on \in Candidates(gpus, freed)
    PROVE  /\ on \in SUBSET Devices
           /\ \A d \in on : Allocated(d, freed) + Percent(gpus) <= 100
           /\ Enough(on, gpus) => Cardinality(on) = Count(gpus)
<1> DEFINE fits == {d \in Devices : 100 - Allocated(d, freed) >= Percent(gpus)}
           fewest == Min({Count(gpus), Cardinality(fits)})
<1>1. on \in SUBSET fits /\ Cardinality(on) = fewest
  BY DEF Candidates, kSubset
<1>2. fits \in SUBSET Devices
  OBVIOUS
<1>3. IsFiniteSet(fits) /\ Cardinality(fits) \in Nat
  BY <1>2, ApiDevices, SubsetSize, SizeIsNat
<1>4. ASSUME NEW d \in on PROVE Allocated(d, freed) + Percent(gpus) <= 100
  <2>1. d \in Devices /\ 100 - Allocated(d, freed) >= Percent(gpus)
    BY <1>1
  <2>2. Allocated(d, freed) \in Nat /\ Percent(gpus) \in Nat
    BY <2>1, HeldFinite, Quantities
  <2> QED BY <2>1, <2>2
<1>5. fewest \in Nat /\ fewest <= Count(gpus)
  BY <1>3, LeastOf, Quantities
<1>6. Enough(on, gpus) => 100 * fewest >= gpus
  BY <1>1 DEF Enough
<1> QED BY <1>1, <1>2, <1>4, <1>5, <1>6, Quantities

(* A service that was last asked for GPUs holds them in one batch.         *)
Fits(id) ==
    IF asked[id] = 0 THEN BatchesOf(id) = {}
    ELSE \E b \in Ids : /\ BatchesOf(id) = {b}
                        /\ Cardinality(shares[b].on) = Count(asked[id])
                        /\ shares[b].percent = Percent(asked[id])

(* An update of the GPUs that no other one meets releases everything its   *)
(* service holds, and takes what was asked for.                            *)
HoldInv ==
    /\ \A b \in Handlers : Choosing(b) =>
          Cardinality(handler[b].on) = Count(handler[b].ask.gpus)
    /\ \A b, c \in Handlers : Revising(b) /\ Revising(c) /\ handler[b].id = handler[c].id
                                 => b = c \/ handler[b].id \in crossed
    /\ \A b \in Handlers : Revising(b) /\ handler[b].id \notin crossed =>
          handler[b].freed = BatchesOf(handler[b].id)
    /\ \A id \in Ids \ crossed : rows[id].state = "live" => Fits(id)

-----------------------------------------------------------------------------
(* Steps that take nothing new: requests go on or end, services end *)

SameChoice(b) ==
    /\ handler[b] \in Creation /\ handler'[b] \in Creation
    /\ handler'[b].on = handler[b].on /\ handler'[b].ask = handler[b].ask
Frugal(b) ==
    /\ handler'[b] \in {Free} \cup Deletion \cup Drop
    /\ handler'[b] # Free => Open(b) /\ b <= requests'
    /\ handler'[b] \in Deletion => rows[handler'[b].id].state # "absent"

Abates ==
    /\ \A id \in Ids : \/ rows'[id].state = rows[id].state
                       \/ rows[id].state # "absent" /\ rows'[id].state = "deleted"
    /\ UNCHANGED <<shares, asked, contended, crossed>>
    /\ requests' \in Nat /\ requests <= requests'
    /\ \A b \in Handlers : handler'[b] = handler[b] \/ SameChoice(b) \/ Frugal(b)

LEMMA KindsApart ==
    /\ (Creation \cup Update) \cap ({Free} \cup Deletion \cup Drop) = {}
    /\ Creation \cap Update = {}
BY DEF Free, Creation, Deletion, Update, Drop

LEMMA AbatesForms ==
    ASSUME TypeOK, Abates, NEW b \in Handlers
    PROVE  /\ Choosing(b)' => Choosing(b) /\ handler'[b].on = handler[b].on
                              /\ handler'[b].ask = handler[b].ask /\ FreedBy(b)' = FreedBy(b)
           /\ Revising(b)' => Revising(b) /\ handler'[b] = handler[b]
           /\ handler'[b] \in Update => handler'[b] = handler[b]
           /\ handler'[b] \in Creation => handler[b] \in Creation
           /\ handler'[b] \in Deletion => \/ handler'[b] = handler[b]
                                         \/ rows[handler'[b].id].state # "absent"
           /\ FreedBy(b)' \subseteq FreedBy(b)
           /\ FreedBy(b)' # {} => handler'[b] = handler[b]
           /\ Open(b)' => Open(b)
           /\ b > requests' => b > requests /\ (handler[b] = Free => handler'[b] = Free)
<1>1. requests \in Nat /\ requests' \in Nat /\ b \in Nat /\ requests <= requests'
  BY ApiBounds DEF Abates, TypeOK, Handlers
<1>2. handler'[b] = handler[b] \/ SameChoice(b) \/ Frugal(b)
  BY DEF Abates
<1>3. CASE handler'[b] = handler[b]
  BY <1>1, <1>3 DEF Choosing, Revising, FreedBy, Open
<1>4. CASE SameChoice(b)
  BY <1>1, <1>4, KindsApart DEF SameChoice, Choosing, Revising, FreedBy, Open
<1>5. CASE Frugal(b)
  BY <1>1, <1>5, KindsApart DEF Frugal, Choosing, Revising, FreedBy, Open
<1> QED BY <1>2, <1>3, <1>4, <1>5

LEMMA BatchIds ==
    ASSUME TypeOK
    PROVE  /\ \A b \in Ids : shares[b].of \in Ids
           /\ \A b \in Handlers : handler[b] \in Update => /\ handler[b].id \in Ids
                                                           /\ handler[b].freed \in SUBSET Ids
           /\ \A b \in Handlers : FreedBy(b) \in SUBSET Ids
BY DEF TypeOK, Batch, Update, FreedBy

LEMMA AbatingSlots == ASSUME TypeOK, SlotsInv, Abates PROVE SlotsInv'
<1>1. /\ \A id \in Ids : rows'[id].state = "absent" <=> rows[id].state = "absent"
      /\ shares' = shares
  BY DEF Abates
<1>2. \A b \in Handlers : /\ Open(b)' => Open(b)
                          /\ FreedBy(b)' \subseteq FreedBy(b)
                          /\ FreedBy(b)' # {} => handler'[b] = handler[b]
                          /\ handler'[b] \in Update => handler'[b] = handler[b]
                          /\ handler'[b] \in Creation => handler[b] \in Creation
                          /\ handler'[b] \in Deletion => \/ handler'[b] = handler[b]
                                                        \/ rows[handler'[b].id].state # "absent"
                          /\ b > requests' => b > requests /\ (handler[b] = Free => handler'[b] = Free)
  BY AbatesForms
<1>3. (\A b \in Handlers : b > requests => handler[b] = Free)'
  BY <1>2 DEF SlotsInv
<1>4. (\A b \in Handlers : b > requests \/ handler[b] \in Creation => rows[b].state = "absent")'
  BY <1>1, <1>2, HandlersAreIds DEF SlotsInv
<1>5. (\A b \in Handlers : Open(b) => shares[b].on = {})'
  BY <1>1, <1>2 DEF SlotsInv
<1>6. (\A b, c \in Handlers : Open(b) => b \notin FreedBy(c))'
  BY <1>2 DEF SlotsInv
<1>7. (\A b \in Ids : shares[b].on # {} => rows[shares[b].of].state # "absent")'
  BY <1>1, BatchIds DEF SlotsInv
<1>8. (\A c \in Handlers : handler[c] \in Update \cup Deletion => rows[handler[c].id].state # "absent")'
  <2>1. ASSUME NEW c \in Handlers, handler'[c] \in Update \cup Deletion
        PROVE  rows[handler'[c].id].state # "absent" /\ handler'[c].id \in Ids
    BY <1>2, <2>1 DEF SlotsInv, Update, Deletion
  <2> QED BY <1>1, <2>1
<1>9. (\A c \in Handlers : \A b \in FreedBy(c) : shares[b].on = {} \/ shares[b].of = handler[c].id)'
  BY <1>1, <1>2 DEF SlotsInv
<1> QED BY <1>3, <1>4, <1>5, <1>6, <1>7, <1>8, <1>9 DEF SlotsInv

LEMMA AbatingRoom == ASSUME TypeOK, TypeOK', RoomInv, Abates PROVE RoomInv'
<1>1. ASSUME NEW d, NEW freed
      PROVE  /\ Allocated(d, freed)' <= Allocated(d, freed)
             /\ Allocated(d, freed)' \in Nat /\ Allocated(d, freed) \in Nat
  <2>1. \A b \in Ids : rows'[shares'[b].of].state = "live" => rows[shares[b].of].state = "live"
    BY BatchIds DEF Abates
  <2>2. shares' = shares
    BY DEF Abates
  <2>3. Kept(d, {}, freed, freed)
    BY <2>1, <2>2 DEF Kept
  <2> QED BY <2>3, HeldShrinks
<1>2. NoOvercommit'
  BY <1>1 DEF RoomInv, NoOvercommit, Abates
<1>3. ASSUME NEW b \in Handlers, Choosing(b)', NEW d \in (handler[b].on \ contended)',
             NEW freed \in {FreedBy(b)'}
      PROVE  Allocated(d, freed)' + Percent(handler[b].ask.gpus)' <= 100
  <2>1. /\ Choosing(b) /\ d \in handler[b].on \ contended /\ freed \in {FreedBy(b)}
        /\ handler'[b].ask = handler[b].ask
    BY <1>3, AbatesForms DEF Abates
  <2>2. Allocated(d, freed) + Percent(handler[b].ask.gpus) <= 100
    BY <2>1 DEF RoomInv
  <2>3. Percent(handler[b].ask.gpus)' = Percent(handler[b].ask.gpus)
    BY <2>1 DEF Percent
  <2>4. Percent(handler[b].ask.gpus) \in Nat
    BY <2>1 DEF Choosing, Revising, Creation, Update, Ask, Percent
  <2> QED BY <1>1, <2>2, <2>3, <2>4
<1> QED BY <1>2, <1>3 DEF RoomInv

LEMMA AbatingHold == ASSUME TypeOK, HoldInv, Abates PROVE HoldInv'
<1>1. /\ \A id \in Ids : BatchesOf(id)' = BatchesOf(id) /\ (Fits(id)' <=> Fits(id))
      /\ crossed' = crossed /\ shares' = shares
  BY DEF Abates, BatchesOf, Fits, Count, Percent
<1>2. \A id \in Ids : rows'[id].state = "live" => rows[id].state = "live"
  BY DEF Abates
<1>3. (\A b \in Handlers : Choosing(b) => Cardinality(handler[b].on) = Count(handler[b].ask.gpus))'
  BY AbatesForms DEF HoldInv, Count
<1>4. (\A b, c \in Handlers : Revising(b) /\ Revising(c) /\ handler[b].id = handler[c].id
                                 => b = c \/ handler[b].id \in crossed)'
  BY <1>1, AbatesForms DEF HoldInv
<1>5. (\A b \in Handlers : Revising(b) /\ handler[b].id \notin crossed =>
          handler[b].freed = BatchesOf(handler[b].id))'
  <2> SUFFICES ASSUME NEW b \in Handlers, Revising(b)', handler'[b].id \notin crossed'
               PROVE  handler'[b].freed = BatchesOf(handler[b].id)'
    OBVIOUS
  <2>1. Revising(b) /\ handler'[b] = handler[b]
    BY AbatesForms
  <2>2. PICK id \in Ids : id = handler[b].id
    BY <2>1, BatchIds DEF Revising
  <2>3. handler[b].freed = BatchesOf(id)
    BY <1>1, <2>1, <2>2 DEF HoldInv
  <2>4. BatchesOf(handler[b].id)' = BatchesOf(id)'
    BY <2>1, <2>2 DEF BatchesOf
  <2> QED BY <1>1, <2>1, <2>3, <2>4
<1>6. (\A id \in Ids \ crossed : rows[id].state = "live" => Fits(id))'
  BY <1>1, <1>2 DEF HoldInv
<1> QED BY <1>3, <1>4, <1>5, <1>6 DEF HoldInv

(* The whole: the room on the devices and what services hold of them.      *)
DevicesInv == SlotsInv /\ RoomInv /\ HoldInv

LEMMA Abating == ASSUME TypeOK, TypeOK', DevicesInv, Abates PROVE DevicesInv'
BY AbatingSlots, AbatingRoom, AbatingHold DEF DevicesInv

-----------------------------------------------------------------------------
(* The steps that abate *)

LEMMA AbatesAlone ==
    ASSUME TypeOK, NEW a \in Handlers, NEW state \in Handler, Goes(a, state),
           UNCHANGED <<shares, asked, contended, crossed>>,
           requests' \in Nat, requests <= requests',
           \A id \in Ids : \/ rows'[id].state = rows[id].state
                           \/ rows[id].state # "absent" /\ rows'[id].state = "deleted",
           \/ state = Free
           \/ /\ state \in Deletion \cup Drop /\ Open(a) /\ a <= requests'
              /\ state \in Deletion => rows[state.id].state # "absent"
           \/ /\ handler[a] \in Creation /\ state \in Creation
              /\ state.on = handler[a].on /\ state.ask = handler[a].ask
    PROVE  Abates
<1>1. /\ handler'[a] = state
      /\ \A b \in Handlers \ {a} : handler'[b] = handler[b]
  BY Moves
<1>2. \A b \in Handlers : handler'[b] = handler[b] \/ SameChoice(b) \/ Frugal(b)
  BY <1>1, AtRest DEF SameChoice, Frugal
<1> QED BY <1>2 DEF Abates

(* What is open has arrived.                                               *)
LEMMA Amidst ==
    ASSUME TypeOK, SlotsInv, NEW a \in Handlers, handler[a].pc # "idle"
    PROVE  /\ Open(a) /\ a <= requests /\ requests \in Nat
           /\ shares[a].on = {} /\ \A c \in Handlers : a \notin FreedBy(c)
<1>1. handler[a] # Free
  BY DEF Free
<1>2. a \in Nat /\ requests \in Nat
  BY ApiBounds DEF TypeOK, Handlers
<1> QED BY <1>1, <1>2 DEF SlotsInv, Open

LEMMA Arrival ==
    ASSUME TypeOK, SlotsInv, NEW a \in Handlers, NEW operation, Arrives(a, operation)
    PROVE  /\ a = requests + 1 /\ requests' = a /\ requests \in Nat /\ a \in Nat
           /\ handler[a] = Free /\ Open(a) /\ rows[a].state = "absent"
           /\ shares[a].on = {} /\ \A c \in Handlers : a \notin FreedBy(c)
<1>1. a = requests + 1 /\ requests' = a /\ requests \in Nat /\ a \in Nat
  BY ApiBounds DEF Arrives, TypeOK, Handlers
<1>2. a > requests
  BY <1>1
<1> QED BY <1>1, <1>2 DEF SlotsInv, Open

LEMMA ArrivalsAbate ==
    ASSUME TypeOK, SlotsInv, NEW a \in Handlers
    PROVE  /\ \A id \in Ids : BeginDelete(a, id) => Abates
           /\ \A m \in Models : BeginDrop(a, m) => Abates
<1>1. ASSUME NEW id \in Ids, BeginDelete(a, id) PROVE Abates
  <2>1. PICK pc \in {"unlink", "stamp"} : Goes(a, [pc |-> pc, id |-> id])
    BY <1>1 DEF BeginDelete
  <2>2. [pc |-> pc, id |-> id] \in Deletion
    BY NextForms
  <2>3. Arrives(a, "delete") /\ UNCHANGED <<rows, shares, asked, contended, crossed>>
    BY <1>1 DEF BeginDelete, tables, history
  <2>4. requests' \in Nat /\ requests <= requests' /\ a <= requests' /\ Open(a)
    BY <2>3, Arrival
  <2>5. rows[id].state # "absent"
    BY <1>1 DEF BeginDelete
  <2> QED BY <2>1, <2>2, <2>3, <2>4, <2>5, AbatesAlone, Kinds
<1>2. ASSUME NEW m \in Models, BeginDrop(a, m) PROVE Abates
  <2>1. /\ Goes(a, [pc |-> "drop", model |-> m])
        /\ [pc |-> "drop", model |-> m] \in Drop \ Deletion
    BY <1>2, NextForms DEF BeginDrop, Drop, Deletion
  <2>2. Arrives(a, "drop") /\ UNCHANGED <<rows, shares, asked, contended, crossed>>
    BY <1>2 DEF BeginDrop, tables
  <2>3. requests' \in Nat /\ requests <= requests' /\ a <= requests' /\ Open(a)
    BY <2>2, Arrival
  <2> QED BY <2>1, <2>2, <2>3, AbatesAlone, Kinds
<1> QED BY <1>1, <1>2

LEMMA CreationsAbate ==
    ASSUME TypeOK, SlotsInv, NEW a \in Handlers,
           Insert(a) \/ WriteRoute(a) \/ WriteRouteFails(a)
    PROVE  Abates
<1> DEFINE h == handler[a]
<1>1. h \in Creation
  BY HandlerAt, FormOfHandler DEF Insert, WriteRoute, WriteRouteFails
<1>2. \/ Goes(a, Free)
      \/ Goes(a, [h EXCEPT !.pc = "route"]) \/ Goes(a, [h EXCEPT !.pc = "commit"])
  BY Zenon DEF Insert, WriteRoute, WriteRouteFails
<1>3. UNCHANGED <<rows, shares, asked, contended, crossed, requests>> /\ requests \in Nat
  BY DEF Insert, WriteRoute, WriteRouteFails, tables, history, bounds, TypeOK
<1>4. CASE Goes(a, Free)
  BY <1>3, <1>4, AbatesAlone, AtRest
<1>5. ASSUME NEW pc \in {"route", "commit"}, Goes(a, [h EXCEPT !.pc = pc]) PROVE Abates
  <2>1. PICK state : state = [h EXCEPT !.pc = pc]
    OBVIOUS
  <2>2. state \in Creation /\ state.on = h.on /\ state.ask = h.ask
    BY <1>1, <2>1 DEF Creation
  <2>3. Goes(a, state) /\ state \in Handler
    BY <1>5, <2>1, <2>2, Kinds
  <2> QED BY <1>1, <1>3, <2>2, <2>3, AbatesAlone
<1> QED BY <1>2, <1>4, <1>5

LEMMA EndingsAbate ==
    ASSUME TypeOK, SlotsInv, NEW a \in Handlers,
           Unlink(a) \/ Stamp(a) \/ CommitFails(a) \/ CommitDrop(a)
    PROVE  Abates
<1> DEFINE h == handler[a]
<1>1. UNCHANGED <<shares, asked, contended, crossed, requests>> /\ requests \in Nat
  BY DEF Unlink, Stamp, CommitFails, CommitDrop, tables, history, bounds, TypeOK
<1>2. Open(a) /\ a <= requests
  BY Amidst DEF Unlink, Stamp, CommitFails, CommitDrop
<1>3. ASSUME NEW id \in Ids
      PROVE  \/ rows'[id].state = rows[id].state
             \/ rows[id].state # "absent" /\ rows'[id].state = "deleted"
  <2>1. CASE Stamp(a)
    <3>1. h \in Deletion
      BY <2>1, HandlerAt, FormOfHandler DEF Stamp
    <3>2. rows' = [rows EXCEPT ![h.id].state = "deleted"] /\ rows[h.id].state # "absent"
      BY <2>1, <3>1 DEF Stamp, SlotsInv
    <3> QED BY <3>2, RowAt DEF Row, TypeOK
  <2>2. CASE ~Stamp(a)
    BY <2>2 DEF Unlink, CommitFails, CommitDrop, tables
  <2> QED BY <2>1, <2>2
<1>4. PICK state : Goes(a, state) /\ (state = Free \/ (Unlink(a) /\ state = [h EXCEPT !.pc = "stamp"]))
  BY Zenon DEF Unlink, Stamp, CommitFails, CommitDrop
<1>5. CASE state = Free
  BY <1>1, <1>3, <1>4, <1>5, AbatesAlone, AtRest
<1>6. CASE Unlink(a) /\ state = [h EXCEPT !.pc = "stamp"]
  <2>1. h \in Deletion
    BY <1>6, HandlerAt, FormOfHandler DEF Unlink
  <2>2. state \in Deletion /\ state.id = h.id /\ rows[h.id].state # "absent"
    BY <1>6, <2>1, DeletionSteps DEF SlotsInv, Deletion
  <2> QED BY <1>1, <1>2, <1>3, <1>4, <2>2, AbatesAlone, Kinds
<1> QED BY <1>4, <1>5, <1>6

LEMMA WorkersAbate ==
    ASSUME TypeOK, (\E w \in Workers : WorkerStep(w)) \/ UNCHANGED vars
    PROVE  Abates
<1>1. ASSUME NEW w \in Workers, WorkerStep(w)
      PROVE  /\ UNCHANGED <<tables, requests, history>>
             /\ handler' = handler \/ \E dead : handler' = [a \in Handlers |-> IF a \in dead THEN Free
                                                                             ELSE handler[a]]
  <2>1. CASE \E dead \in SUBSET Busy : Crash(w, dead)
    BY <2>1, Zenon DEF Crash
  <2>2. CASE ReadServices(w) \/ ListRoutes(w) \/ SyncAdds(w) \/ SyncRemoves(w) \/ Synced(w)
             \/ SyncFails(w)
    BY <2>2 DEF ReadServices, ListRoutes, SyncAdds, SyncRemoves, Synced, SyncFails, bounds
  <2> QED BY <1>1, <2>1, <2>2, Zenon DEF WorkerStep
<1>2. UNCHANGED <<tables, requests, history>>
  BY <1>1 DEF vars, bounds
<1>3. \A b \in Handlers : handler'[b] = handler[b] \/ handler'[b] = Free
  BY <1>1 DEF vars
<1>4. requests \in Nat
  BY DEF TypeOK
<1> QED BY <1>2, <1>3, <1>4, AtRest DEF Abates, Frugal, tables, history

(* An update that leaves the GPUs alone changes the models of its service. *)
LEMMA StatesStay ==
    ASSUME TypeOK, NEW h \in Update, RowsUpdated(h), NEW id \in Ids
    PROVE  rows'[id].state = rows[id].state
<1>1. PICK ms : ms = (rows[h.id].models \ Removed(h)) \cup Added(h)
  OBVIOUS
<1>2. rows' = [rows EXCEPT ![h.id].models = ms] \/ rows' = rows
  BY <1>1, Zenon DEF RowsUpdated
<1> QED BY <1>2, RowAt DEF TypeOK, Row

LEMMA OtherUpdatesAbate ==
    ASSUME TypeOK, NEW a \in Handlers, CommitUpdate(a), "gpus" \notin handler[a].changes
    PROVE  Abates
<1>1. handler[a] \in Update
  BY HandlerAt, FormOfHandler DEF CommitUpdate
<1>2. RowsUpdated(handler[a]) /\ Goes(a, Free)
  BY Zenon DEF CommitUpdate, RowsUpdated
<1>3. UNCHANGED <<shares, asked, contended, crossed, requests>> /\ requests \in Nat
  BY DEF CommitUpdate, bounds, TypeOK
<1>4. \A id \in Ids : rows'[id].state = rows[id].state
  BY <1>1, <1>2, StatesStay
<1> QED BY <1>2, <1>3, <1>4, AbatesAlone, AtRest

-----------------------------------------------------------------------------
(* Steps that choose devices *)

(* A request comes to its choice: the creation as it arrives, the update   *)
(* as it releases what its service holds.                                  *)
Chooser(a, state, gpus, freed) ==
    /\ Goes(a, state) /\ Open(a)
    /\ UNCHANGED <<rows, shares, asked, contended, crossed>>
    /\ requests' \in Nat /\ requests <= requests' /\ a <= requests'
    /\ state.ask.gpus = gpus /\ gpus \in Nat
    /\ state.on \in Candidates(gpus, freed) /\ Enough(state.on, gpus)
    /\ \/ state \in Creation /\ rows[a].state = "absent" /\ freed = {}
       \/ /\ state \in Update /\ handler[a] \in Update
          /\ state.id = handler[a].id /\ state.changes = handler[a].changes
          /\ state.freed = handler[a].freed /\ freed = handler[a].freed

LEMMA ChooserForms ==
    ASSUME TypeOK, NEW a \in Handlers, NEW state \in Handler, NEW gpus, NEW freed,
           Chooser(a, state, gpus, freed)
    PROVE  /\ handler'[a] = state /\ \A b \in Handlers \ {a} : handler'[b] = handler[b]
           /\ FreedBy(a)' = freed
           /\ \A c \in Handlers : FreedBy(c)' \subseteq FreedBy(c)
           /\ \A c \in Handlers : FreedBy(c)' # {} => handler'[c].id = handler[c].id
           /\ \A c \in Handlers : handler'[c] \in Update => /\ handler[c] \in Update
                                                            /\ handler'[c].id = handler[c].id
                                                            /\ handler'[c].freed = handler[c].freed
           /\ \A c \in Handlers : handler'[c] \in Deletion => handler'[c] = handler[c]
           /\ \A c \in Handlers : Open(c)' => Open(c)
           /\ \A c \in Handlers : Revising(c)' => Revising(c)
           /\ \A c \in Handlers : c > requests' => c > requests /\ c # a
<1>1. /\ handler'[a] = state
      /\ \A b \in Handlers \ {a} : handler'[b] = handler[b]
  BY Moves DEF Chooser
<1>2. requests \in Nat /\ requests' \in Nat /\ requests <= requests' /\ a <= requests'
      /\ \A c \in Handlers : c \in Nat
  BY ApiBounds DEF Chooser, TypeOK, Handlers
<1>3. \A c \in Handlers : c > requests' => c > requests /\ c # a
  BY <1>2
<1>4. CASE state \in Creation /\ freed = {}
  BY <1>1, <1>3, <1>4, KindsApart DEF Chooser, FreedBy, Open, Revising
<1>5. CASE /\ state \in Update /\ handler[a] \in Update
           /\ state.id = handler[a].id /\ state.changes = handler[a].changes
           /\ state.freed = handler[a].freed /\ freed = handler[a].freed
  BY <1>1, <1>3, <1>5, KindsApart DEF Chooser, FreedBy, Open, Revising
<1> QED BY <1>4, <1>5 DEF Chooser

LEMMA ChoosingKeeps ==
    ASSUME TypeOK, TypeOK', DevicesInv, NEW a \in Handlers, NEW state \in Handler,
           NEW gpus, NEW freed, Chooser(a, state, gpus, freed)
    PROVE  DevicesInv'
<1> DEFINE h == handler[a]
<1>0. /\ handler'[a] = state /\ \A b \in Handlers \ {a} : handler'[b] = handler[b]
      /\ FreedBy(a)' = freed
      /\ \A c \in Handlers : FreedBy(c)' \subseteq FreedBy(c)
      /\ \A c \in Handlers : FreedBy(c)' # {} => handler'[c].id = handler[c].id
      /\ \A c \in Handlers : handler'[c] \in Update => /\ handler[c] \in Update
                                                       /\ handler'[c].id = handler[c].id
                                                       /\ handler'[c].freed = handler[c].freed
      /\ \A c \in Handlers : handler'[c] \in Deletion => handler'[c] = handler[c]
      /\ \A c \in Handlers : Open(c)' => Open(c)
      /\ \A c \in Handlers : Revising(c)' => Revising(c)
      /\ \A c \in Handlers : c > requests' => c > requests /\ c # a
  BY ChooserForms
<1>1. /\ rows' = rows /\ shares' = shares /\ asked' = asked
      /\ contended' = contended /\ crossed' = crossed
  BY DEF Chooser
<1>2. SlotsInv'
  <2>1. (\A b \in Handlers : b > requests => handler[b] = Free)'
    BY <1>0 DEF DevicesInv, SlotsInv
  <2>2. (\A b \in Handlers : b > requests \/ handler[b] \in Creation => rows[b].state = "absent")'
    BY <1>0, <1>1, KindsApart DEF DevicesInv, SlotsInv, Chooser
  <2>3. (\A b \in Handlers : Open(b) => shares[b].on = {})'
    BY <1>0, <1>1 DEF DevicesInv, SlotsInv
  <2>4. (\A b, c \in Handlers : Open(b) => b \notin FreedBy(c))'
    BY <1>0 DEF DevicesInv, SlotsInv
  <2>5. (\A b \in Ids : shares[b].on # {} => rows[shares[b].of].state # "absent")'
    BY <1>1 DEF DevicesInv, SlotsInv
  <2>6. (\A c \in Handlers : handler[c] \in Update \cup Deletion => rows[handler[c].id].state # "absent")'
    BY <1>0, <1>1 DEF DevicesInv, SlotsInv
  <2>7. (\A c \in Handlers : \A b \in FreedBy(c) : shares[b].on = {} \/ shares[b].of = handler[c].id)'
    BY <1>0, <1>1 DEF DevicesInv, SlotsInv
  <2> QED BY <2>1, <2>2, <2>3, <2>4, <2>5, <2>6, <2>7 DEF SlotsInv
<1>3. ASSUME NEW d, NEW f
      PROVE  Allocated(d, f)' = Allocated(d, f)
  BY <1>1 DEF Allocated, Held
<1>4. /\ state.on \in SUBSET Devices /\ Cardinality(state.on) = Count(gpus)
      /\ \A d \in state.on : Allocated(d, freed) + Percent(gpus) <= 100
  BY Chooses DEF Chooser
<1>5. RoomInv'
  <2>1. NoOvercommit'
    BY <1>1, <1>3 DEF DevicesInv, RoomInv, NoOvercommit
  <2>2. ASSUME NEW b \in Handlers, Choosing(b)', NEW d \in (handler[b].on \ contended)',
               NEW f \in {FreedBy(b)'}
        PROVE  Allocated(d, f)' + Percent(handler[b].ask.gpus)' <= 100
    <3>1. CASE b = a
      <4>1. Percent(handler[b].ask.gpus)' = Percent(gpus)
        BY <1>0, <3>1 DEF Chooser, Percent
      <4>2. d \in state.on /\ f = freed
        BY <1>0, <2>2, <3>1
      <4> QED BY <1>3, <1>4, <4>1, <4>2
    <3>2. CASE b # a
      <4>1. /\ handler'[b] = handler[b] /\ Percent(handler[b].ask.gpus)' = Percent(handler[b].ask.gpus)
            /\ Choosing(b) /\ FreedBy(b)' = FreedBy(b)
        BY <1>0, <2>2, <3>2 DEF Percent, Choosing, Revising, FreedBy
      <4>2. Allocated(d, f) + Percent(handler[b].ask.gpus) <= 100
        BY <1>1, <2>2, <4>1 DEF DevicesInv, RoomInv
      <4> QED BY <1>3, <4>1, <4>2
    <3> QED BY <3>1, <3>2
  <2> QED BY <2>1, <2>2 DEF RoomInv
<1>6. HoldInv'
  <2>0. \A id \in Ids : BatchesOf(id)' = BatchesOf(id) /\ (Fits(id)' <=> Fits(id))
    BY <1>1 DEF BatchesOf, Fits, Count, Percent
  <2>1. (\A b \in Handlers : Choosing(b) => Cardinality(handler[b].on) = Count(handler[b].ask.gpus))'
    BY <1>0, <1>4 DEF DevicesInv, HoldInv, Chooser, Choosing, Revising, Count
  <2>2. (\A b, c \in Handlers : Revising(b) /\ Revising(c) /\ handler[b].id = handler[c].id
                                   => b = c \/ handler[b].id \in crossed)'
    BY <1>0, <1>1 DEF DevicesInv, HoldInv, Revising
  <2>3. (\A b \in Handlers : Revising(b) /\ handler[b].id \notin crossed =>
            handler[b].freed = BatchesOf(handler[b].id))'
    <3> SUFFICES ASSUME NEW b \in Handlers, Revising(b)', handler'[b].id \notin crossed'
                 PROVE  handler'[b].freed = BatchesOf(handler[b].id)'
      OBVIOUS
    <3>1. Revising(b) /\ handler'[b].id = handler[b].id /\ handler'[b].freed = handler[b].freed
      BY <1>0 DEF Revising
    <3>2. PICK id \in Ids : id = handler[b].id
      BY <3>1, BatchIds DEF Revising
    <3>3. handler[b].freed = BatchesOf(id)
      BY <1>1, <3>1, <3>2 DEF DevicesInv, HoldInv
    <3>4. BatchesOf(handler[b].id)' = BatchesOf(id)'
      BY <3>1, <3>2 DEF BatchesOf
    <3> QED BY <2>0, <3>1, <3>2, <3>3, <3>4
  <2>4. (\A id \in Ids \ crossed : rows[id].state = "live" => Fits(id))'
    BY <1>1, <2>0 DEF DevicesInv, HoldInv
  <2> QED BY <2>1, <2>2, <2>3, <2>4 DEF HoldInv
<1> QED BY <1>2, <1>5, <1>6 DEF DevicesInv

LEMMA CreationsChoose ==
    ASSUME TypeOK, SlotsInv, NEW a \in Handlers, NEW n \in Names, NEW ask \in Asks,
           BeginCreate(a, n, ask)
    PROVE  \E state \in Handler : Chooser(a, state, ask.gpus, {})
<1>1. PICK on \in Candidates(ask.gpus, {}) :
         /\ Enough(on, ask.gpus)
         /\ Goes(a, [pc |-> "insert", name |-> n, ask |-> ask, on |-> on])
  BY Zenon DEF BeginCreate
<1>2. ask \in Ask /\ ask.gpus \in Nat
  BY ApiAsks DEF Ask
<1>3. on \in SUBSET Devices
  BY CandidatesForm
<1>4. PICK state : state = [pc |-> "insert", name |-> n, ask |-> ask, on |-> on]
  OBVIOUS
<1>5. state \in Creation /\ state.on = on /\ state.ask = ask
  BY <1>2, <1>3, <1>4, NextForms
<1>6. Arrives(a, "create") /\ UNCHANGED <<tables, contended, crossed>>
  BY Zenon DEF BeginCreate
<1>7. /\ Open(a) /\ rows[a].state = "absent"
      /\ requests' \in Nat /\ requests <= requests' /\ a <= requests'
  BY <1>6, Arrival
<1>8. Chooser(a, state, ask.gpus, {})
  BY <1>1, <1>2, <1>4, <1>5, <1>6, <1>7 DEF Chooser, tables
<1> QED BY <1>5, <1>8, Kinds

LEMMA Releases ==
    ASSUME TypeOK, SlotsInv, NEW a \in Handlers, Release(a)
    PROVE  Abates \/ \E state \in Handler : Chooser(a, state, handler[a].ask.gpus, handler[a].freed)
<1> DEFINE h == handler[a]
<1>0. h \in Update
  BY HandlerAt, FormOfHandler DEF Release
<1>1. PICK on \in Candidates(h.ask.gpus, h.freed) :
         Goes(a, IF ModelsFit(h) /\ Enough(on, h.ask.gpus)
                 THEN [h EXCEPT !.pc = "write", !.on = on] ELSE Free)
  BY Zenon DEF Release
<1>2. UNCHANGED <<rows, shares, asked, contended, crossed, requests>> /\ requests \in Nat
  BY DEF Release, tables, bounds, history, TypeOK
<1>3. Open(a) /\ a <= requests
  BY Amidst DEF Release
<1>4. CASE Goes(a, Free)
  BY <1>2, <1>4, AbatesAlone, AtRest
<1>5. CASE Enough(on, h.ask.gpus) /\ Goes(a, [h EXCEPT !.pc = "write", !.on = on])
  <2>1. PICK state : state = [h EXCEPT !.pc = "write", !.on = on]
    OBVIOUS
  <2>2. on \in SUBSET Devices /\ h.ask.gpus \in Nat
    BY <1>0, CandidatesForm DEF Update
  <2>3. /\ state \in Update /\ state.on = on /\ state.ask = h.ask /\ state.id = h.id
        /\ state.changes = h.changes /\ state.freed = h.freed
    BY <1>0, <2>1, <2>2 DEF Update
  <2>4. Chooser(a, state, h.ask.gpus, h.freed)
    BY <1>0, <1>1, <1>2, <1>3, <1>5, <2>1, <2>2, <2>3 DEF Chooser
  <2> QED BY <2>3, <2>4, Kinds
<1> QED BY <1>1, <1>4, <1>5

-----------------------------------------------------------------------------
(* An update arrives *)

LEMMA PlanParts ==
    ASSUME TypeOK, NEW id \in Ids, NEW ask \in Asks, NEW changes \in Changes
    PROVE  /\ Plan(id, changes, ask) \in Update /\ Plan(id, changes, ask).id = id
           /\ Plan(id, changes, ask).changes = changes
           /\ "gpus" \in changes => /\ Plan(id, changes, ask).freed = BatchesOf(id)
                                    /\ Plan(id, changes, ask).pc = "release"
           /\ "gpus" \notin changes => Plan(id, changes, ask).freed = {}
<1>1. Plan(id, changes, ask) \in Update
  BY PlanForm
<1> QED BY <1>1 DEF Plan

LEMMA UpdateArrives ==
    ASSUME TypeOK, TypeOK', DevicesInv, NEW a \in Handlers, NEW id \in Ids, NEW ask \in Asks,
           NEW changes \in Changes, BeginUpdate(a, id, changes, ask)
    PROVE  DevicesInv'
<1>1. Goes(a, Plan(id, changes, ask)) /\ Arrives(a, "update") /\ rows[id].state = "live"
  BY Zenon DEF BeginUpdate, Plan
<1>2. PICK state : state = Plan(id, changes, ask)
  OBVIOUS
<1>3. /\ state \in Update /\ state.id = id /\ state.changes = changes
      /\ "gpus" \in changes => state.freed = BatchesOf(id) /\ state.pc = "release"
      /\ "gpus" \notin changes => state.freed = {}
  BY <1>2, PlanParts
<1>4. /\ handler'[a] = state /\ \A b \in Handlers \ {a} : handler'[b] = handler[b]
  BY <1>1, <1>2, <1>3, Kinds, Moves
<1>5. UNCHANGED <<rows, shares, asked, contended>>
  BY DEF BeginUpdate, tables
<1>6. /\ crossed' = crossed \/ crossed' = crossed \cup {id}
      /\ crossed' = crossed =>
            (\A b \in Handlers : Revising(b) /\ "gpus" \in changes /\ handler[b].id = id
                                    => id \in crossed)
  <2> DEFINE overlapping == {b \in Busy : /\ handler[b] \in Update /\ handler[b].id = id
                                          /\ "gpus" \in handler[b].changes \cap changes}
  <2>1. crossed' = IF overlapping # {} THEN crossed \cup {id} ELSE crossed
    BY Zenon DEF BeginUpdate
  <2>2. \A b \in Handlers : Revising(b) /\ "gpus" \in changes /\ handler[b].id = id
                               => b \in overlapping
    BY AtRest DEF Revising, Busy
  <2> HIDE DEF overlapping
  <2> QED BY <2>1, <2>2
<1>7. /\ handler[a] = Free /\ Open(a) /\ shares[a].on = {}
      /\ \A b \in Handlers : b > requests' => b > requests /\ b # a
  <2>1. \A b \in Handlers : b \in Nat
    BY ApiBounds DEF Handlers
  <2> QED BY <1>1, <2>1, Arrival DEF DevicesInv
<1>8. /\ FreedBy(a)' \subseteq BatchesOf(id) /\ state.freed = FreedBy(a)'
      /\ \A b \in Handlers \ {a} : FreedBy(b)' = FreedBy(b)
      /\ \A b \in Handlers \ {a} : Revising(b)' = Revising(b)
      /\ Revising(a)' = ("gpus" \in changes)
      /\ ~Choosing(a)' /\ \A b \in Handlers \ {a} : Choosing(b)' = Choosing(b)
      /\ \A b \in Handlers : Open(b)' => Open(b)
  BY <1>3, <1>4, <1>7, KindsApart DEF FreedBy, Revising, Choosing, Open
<1>9. SlotsInv'
  <2>1. (\A b \in Handlers : b > requests => handler[b] = Free)'
    BY <1>4, <1>7 DEF DevicesInv, SlotsInv
  <2>2. (\A b \in Handlers : b > requests \/ handler[b] \in Creation => rows[b].state = "absent")'
    BY <1>3, <1>4, <1>5, <1>7, KindsApart DEF DevicesInv, SlotsInv
  <2>3. (\A b \in Handlers : Open(b) => shares[b].on = {})'
    BY <1>5, <1>8 DEF DevicesInv, SlotsInv
  <2>4. (\A b, c \in Handlers : Open(b) => b \notin FreedBy(c))'
    BY <1>8 DEF DevicesInv, SlotsInv, BatchesOf
  <2>5. (\A b \in Ids : shares[b].on # {} => rows[shares[b].of].state # "absent")'
    BY <1>5 DEF DevicesInv, SlotsInv
  <2>6. (\A c \in Handlers : handler[c] \in Update \cup Deletion => rows[handler[c].id].state # "absent")'
    BY <1>1, <1>3, <1>4, <1>5 DEF DevicesInv, SlotsInv
  <2>7. (\A c \in Handlers : \A b \in FreedBy(c) : shares[b].on = {} \/ shares[b].of = handler[c].id)'
    BY <1>3, <1>4, <1>5, <1>8 DEF DevicesInv, SlotsInv, BatchesOf
  <2> QED BY <2>1, <2>2, <2>3, <2>4, <2>5, <2>6, <2>7 DEF SlotsInv
<1>10. RoomInv'
  <2>1. ASSUME NEW d, NEW f PROVE Allocated(d, f)' = Allocated(d, f)
    BY <1>5 DEF Allocated, Held
  <2>2. NoOvercommit'
    BY <1>5, <2>1 DEF DevicesInv, RoomInv, NoOvercommit
  <2>3. ASSUME NEW b \in Handlers, Choosing(b)', NEW d \in (handler[b].on \ contended)',
               NEW f \in {FreedBy(b)'}
        PROVE  Allocated(d, f)' + Percent(handler[b].ask.gpus)' <= 100
    <3>1. /\ b # a /\ handler'[b] = handler[b] /\ Choosing(b) /\ FreedBy(b)' = FreedBy(b)
          /\ Percent(handler[b].ask.gpus)' = Percent(handler[b].ask.gpus)
      BY <1>4, <1>8, <2>3 DEF Percent
    <3>2. Allocated(d, f) + Percent(handler[b].ask.gpus) <= 100
      BY <1>5, <2>3, <3>1 DEF DevicesInv, RoomInv
    <3> QED BY <2>1, <3>1, <3>2
  <2> QED BY <2>2, <2>3 DEF RoomInv
<1>11. HoldInv'
  <2>0. \A i \in Ids : BatchesOf(i)' = BatchesOf(i) /\ (Fits(i)' <=> Fits(i))
    BY <1>5 DEF BatchesOf, Fits, Count, Percent
  <2>1. (\A b \in Handlers : Choosing(b) => Cardinality(handler[b].on) = Count(handler[b].ask.gpus))'
    BY <1>4, <1>8 DEF DevicesInv, HoldInv, Count
  <2>2. (\A b, c \in Handlers : Revising(b) /\ Revising(c) /\ handler[b].id = handler[c].id
                                   => b = c \/ handler[b].id \in crossed)'
    <3> SUFFICES ASSUME NEW b \in Handlers, NEW c \in Handlers, Revising(b)', Revising(c)',
                        handler'[b].id = handler'[c].id, b # c
                 PROVE  handler'[b].id \in crossed'
      OBVIOUS
    <3>1. CASE b # a /\ c # a
      BY <1>4, <1>6, <1>8, <3>1 DEF DevicesInv, HoldInv
    <3>2. CASE b = a
      BY <1>3, <1>4, <1>6, <1>8, <3>2
    <3>3. CASE c = a
      BY <1>3, <1>4, <1>6, <1>8, <3>3
    <3> QED BY <3>1, <3>2, <3>3
  <2>3. (\A b \in Handlers : Revising(b) /\ handler[b].id \notin crossed =>
            handler[b].freed = BatchesOf(handler[b].id))'
    <3> SUFFICES ASSUME NEW b \in Handlers, Revising(b)', handler'[b].id \notin crossed'
                 PROVE  handler'[b].freed = BatchesOf(handler[b].id)'
      OBVIOUS
    <3>1. PICK i \in Ids : i = handler'[b].id
      BY <1>3, <1>4, <1>8, BatchIds DEF Revising
    <3>2. handler'[b].freed = BatchesOf(i)
      <4>1. CASE b = a
        BY <1>3, <1>4, <1>8, <3>1, <4>1
      <4>2. CASE b # a
        BY <1>4, <1>6, <1>8, <3>1, <4>2 DEF DevicesInv, HoldInv
      <4> QED BY <4>1, <4>2
    <3>3. BatchesOf(handler[b].id)' = BatchesOf(i)'
      BY <3>1 DEF BatchesOf
    <3> QED BY <2>0, <3>1, <3>2, <3>3
  <2>4. (\A i \in Ids \ crossed : rows[i].state = "live" => Fits(i))'
    BY <1>5, <1>6, <2>0 DEF DevicesInv, HoldInv
  <2> QED BY <2>1, <2>2, <2>3, <2>4 DEF HoldInv
<1> QED BY <1>9, <1>10, <1>11 DEF DevicesInv

-----------------------------------------------------------------------------
(* Choices are committed *)

(* The commit of a creation, whose service is its own row, and of an       *)
(* update of the GPUs.                                                     *)
Commits(a, id) ==
    LET h == handler[a] IN
    /\ Choosing(a) /\ Goes(a, Free) /\ Contends(a) /\ UNCHANGED <<crossed, requests>>
    /\ \A b \in Ids : shares'[b] = IF b = a THEN Allocations(id, h.on, h.ask.gpus)
                                   ELSE IF b \in FreedBy(a) THEN NoBatch ELSE shares[b]
    /\ \A i \in Ids : asked'[i] = IF i = id THEN h.ask.gpus ELSE asked[i]
    /\ \/ /\ h \in Creation /\ id = a /\ rows'[a].state = "live"
          /\ \A i \in Ids \ {a} : rows'[i].state = rows[i].state
       \/ Revising(a) /\ id = h.id /\ \A i \in Ids : rows'[i].state = rows[i].state

LEMMA CommitForms ==
    ASSUME TypeOK, SlotsInv, NEW a \in Handlers, NEW id \in Ids, Commits(a, id)
    PROVE  /\ handler'[a] = Free /\ \A b \in Handlers \ {a} : handler'[b] = handler[b]
           /\ Open(a) /\ a <= requests /\ a \in Ids
           /\ shares[a].on = {} /\ \A c \in Handlers : a \notin FreedBy(c)
           /\ handler[a].on \in SUBSET Devices /\ handler[a].ask.gpus \in Nat
           /\ FreedBy(a) \in SUBSET Ids
           /\ \A b \in Handlers \ {a} : /\ Choosing(b)' <=> Choosing(b)
                                        /\ Revising(b)' <=> Revising(b)
                                        /\ FreedBy(b)' = FreedBy(b)
           /\ ~Choosing(a)' /\ ~Revising(a)' /\ FreedBy(a)' = {}
           /\ \A b \in Handlers : Open(b)' => Open(b) /\ b # a
           /\ \A b \in Handlers : b > requests' => b > requests /\ b # a
           /\ \A i \in Ids : rows[i].state # "absent" => /\ rows'[i].state = rows[i].state
                                                         /\ rows'[i].state # "absent"
           /\ rows'[id].state # "absent"
           /\ \A b \in Ids : shares[b].on # {} /\ rows[a].state = "absent" => shares[b].of # a
<1>1. /\ handler'[a] = Free /\ \A b \in Handlers \ {a} : handler'[b] = handler[b]
  BY AtRest, Moves DEF Commits
<1>2. handler[a].pc # "idle" /\ handler[a].on \in SUBSET Devices /\ handler[a].ask.gpus \in Nat
  BY DEF Commits, Choosing, Revising, Creation, Update, Ask
<1>3. /\ Open(a) /\ a <= requests /\ requests \in Nat /\ a \in Ids
      /\ shares[a].on = {} /\ \A c \in Handlers : a \notin FreedBy(c)
  BY <1>2, Amidst, HandlersAreIds
<1>4. requests' = requests /\ \A b \in Handlers : b \in Nat
  BY ApiBounds DEF Commits, Handlers
<1>5. \A b \in Handlers : b > requests' => b > requests /\ b # a
  BY <1>3, <1>4
<1>6. /\ \A b \in Handlers \ {a} : (Choosing(b)' <=> Choosing(b)) /\ (Revising(b)' <=> Revising(b))
                                   /\ FreedBy(b)' = FreedBy(b)
      /\ ~Choosing(a)' /\ ~Revising(a)' /\ FreedBy(a)' = {}
      /\ \A b \in Handlers : Open(b)' => Open(b) /\ b # a
  BY <1>1, <1>5, AtRest DEF Choosing, Revising, FreedBy, Open
<1>7. FreedBy(a) \in SUBSET Ids
  BY BatchIds
<1>8. handler[a] \in Creation => rows[a].state = "absent"
  BY DEF SlotsInv
<1>9. Revising(a) => rows[handler[a].id].state # "absent" /\ handler[a].id \in Ids
  BY BatchIds DEF SlotsInv, Revising
<1>10. /\ \A i \in Ids : rows[i].state # "absent" => /\ rows'[i].state = rows[i].state
                                                      /\ rows'[i].state # "absent"
       /\ rows'[id].state # "absent"
  BY <1>3, <1>8, <1>9 DEF Commits
<1>11. \A b \in Ids : shares[b].on # {} /\ rows[a].state = "absent" => shares[b].of # a
  BY DEF SlotsInv
<1> QED BY <1>1, <1>2, <1>3, <1>5, <1>6, <1>7, <1>10, <1>11

(* What the batches are afterwards.                                        *)
LEMMA BatchesAfter ==
    ASSUME TypeOK, SlotsInv, NEW a \in Handlers, NEW id \in Ids, Commits(a, id)
    PROVE  /\ shares'[a].of = id /\ shares'[a].on = handler[a].on
           /\ shares'[a].percent = Percent(handler[a].ask.gpus)
           /\ \A b \in Ids \ {a} : shares'[b].on # {} => b \notin FreedBy(a) /\ shares'[b] = shares[b]
           /\ \A b \in Ids \ {a} : b \notin FreedBy(a) => shares'[b] = shares[b]
           /\ \A b \in FreedBy(a) : shares'[b].on = {}
<1>1. a \in Ids /\ a \notin FreedBy(a) /\ FreedBy(a) \in SUBSET Ids
  BY CommitForms
<1> QED BY <1>1 DEF Commits, Allocations, NoBatch

LEMMA CommitSlots ==
    ASSUME TypeOK, SlotsInv, NEW a \in Handlers, NEW id \in Ids, Commits(a, id)
    PROVE  SlotsInv'
<1>1. (\A b \in Handlers : b > requests => handler[b] = Free)'
  BY CommitForms DEF SlotsInv
<1>2. (\A b \in Handlers : b > requests \/ handler[b] \in Creation => rows[b].state = "absent")'
  <2> SUFFICES ASSUME NEW b \in Handlers, b > requests' \/ handler'[b] \in Creation
               PROVE  rows'[b].state = "absent"
    OBVIOUS
  <2>1. b # a /\ rows[b].state = "absent" /\ b \in Ids
    BY CommitForms, AtRest, HandlersAreIds DEF SlotsInv
  <2> QED BY <2>1 DEF Commits
<1>3. (\A b \in Handlers : Open(b) => shares[b].on = {})'
  <2> SUFFICES ASSUME NEW b \in Handlers, Open(b)' PROVE shares'[b].on = {}
    OBVIOUS
  <2>1. Open(b) /\ b # a /\ shares[b].on = {} /\ b \in Ids
    BY CommitForms, HandlersAreIds DEF SlotsInv
  <2> QED BY <2>1, BatchesAfter
<1>4. (\A b, c \in Handlers : Open(b) => b \notin FreedBy(c))'
  <2> SUFFICES ASSUME NEW b \in Handlers, NEW c \in Handlers, Open(b)' PROVE b \notin FreedBy(c)'
    OBVIOUS
  <2>1. Open(b) /\ FreedBy(c)' \subseteq FreedBy(c)
    BY CommitForms
  <2> QED BY <2>1 DEF SlotsInv
<1>5. (\A b \in Ids : shares[b].on # {} => rows[shares[b].of].state # "absent")'
  <2> SUFFICES ASSUME NEW b \in Ids, shares'[b].on # {} PROVE rows'[shares'[b].of].state # "absent"
    OBVIOUS
  <2>1. CASE b = a
    BY <2>1, BatchesAfter, CommitForms
  <2>2. CASE b # a
    BY <2>2, BatchesAfter, CommitForms, BatchIds DEF SlotsInv
  <2> QED BY <2>1, <2>2
<1>6. (\A c \in Handlers : handler[c] \in Update \cup Deletion => rows[handler[c].id].state # "absent")'
  <2> SUFFICES ASSUME NEW c \in Handlers, handler'[c] \in Update \cup Deletion
               PROVE  rows'[handler'[c].id].state # "absent"
    OBVIOUS
  <2>1. c # a /\ handler'[c] = handler[c]
    BY CommitForms, AtRest
  <2>2. handler[c].id \in Ids /\ rows[handler[c].id].state # "absent"
    BY <2>1 DEF SlotsInv, Update, Deletion
  <2> QED BY <2>1, <2>2, CommitForms
<1>7. (\A c \in Handlers : \A b \in FreedBy(c) : shares[b].on = {} \/ shares[b].of = handler[c].id)'
  <2> SUFFICES ASSUME NEW c \in Handlers, NEW b \in FreedBy(c)', shares'[b].on # {}
               PROVE  shares'[b].of = handler'[c].id
    OBVIOUS
  <2>1. c # a /\ handler'[c] = handler[c] /\ b \in FreedBy(c) /\ b # a /\ b \in Ids
    BY CommitForms, BatchIds
  <2> QED BY <2>1, BatchesAfter DEF SlotsInv
<1> QED BY <1>1, <1>2, <1>3, <1>4, <1>5, <1>6, <1>7 DEF SlotsInv

LEMMA CommitRoom ==
    ASSUME TypeOK, TypeOK', SlotsInv, RoomInv, NEW a \in Handlers, NEW id \in Ids, Commits(a, id)
    PROVE  RoomInv'
<1> DEFINE h == handler[a]
<1>0. /\ a \in Ids /\ h.on \in SUBSET Devices /\ h.ask.gpus \in Nat /\ Percent(h.ask.gpus) \in 0 .. 100
      /\ contended \subseteq contended'
  BY CommitForms, Quantities DEF Commits, Contends
<1>1. ASSUME NEW b \in Ids \ {a}, shares'[b].on # {}, rows'[shares'[b].of].state = "live"
      PROVE  b \notin FreedBy(a) /\ shares'[b] = shares[b] /\ rows[shares[b].of].state = "live"
  <2>1. b \notin FreedBy(a) /\ shares'[b] = shares[b]
    BY <1>1, BatchesAfter
  <2>2. rows[shares[b].of].state # "absent" /\ shares[b].of \in Ids
    BY <1>1, <2>1, BatchIds DEF SlotsInv
  <2> QED BY <1>1, <2>1, <2>2, CommitForms
<1>2. ASSUME NEW d, NEW f, d \notin h.on
      PROVE  /\ Allocated(d, f)' <= Allocated(d, f)
             /\ Allocated(d, f)' \in Nat /\ Allocated(d, f) \in Nat
  <2>1. Kept(d, {}, f, f)
    BY <1>1, <1>2, BatchesAfter DEF Kept
  <2> QED BY <2>1, HeldShrinks
<1>3. NoOvercommit'
  <2> SUFFICES ASSUME NEW d \in Devices \ contended' PROVE Allocated(d, {})' <= 100
    BY DEF NoOvercommit
  <2>1. CASE d \in h.on
    <3>1. PICK freed : freed = FreedBy(a)
      OBVIOUS
    <3>2. Kept(d, {a}, {}, freed)
      BY <1>1, <3>1 DEF Kept
    <3>3. /\ Allocated(d, {})' <= Allocated(d, freed) + shares'[a].percent
          /\ Allocated(d, {})' \in Nat /\ Allocated(d, freed) \in Nat
      BY <1>0, <3>2, HeldGrows
    <3>4. Allocated(d, freed) + Percent(h.ask.gpus) <= 100
      BY <1>0, <2>1, <3>1 DEF RoomInv, Commits
    <3> QED BY <1>0, <3>3, <3>4, BatchesAfter
  <2>2. CASE d \notin h.on
    BY <1>0, <1>2, <2>2 DEF RoomInv, NoOvercommit
  <2> QED BY <2>1, <2>2
<1>4. ASSUME NEW b \in Handlers, Choosing(b)', NEW d \in (handler[b].on \ contended)',
             NEW f \in {FreedBy(b)'}
      PROVE  Allocated(d, f)' + Percent(handler[b].ask.gpus)' <= 100
  <2>1. /\ b # a /\ handler'[b] = handler[b] /\ Choosing(b) /\ FreedBy(b)' = FreedBy(b)
        /\ Percent(handler[b].ask.gpus)' = Percent(handler[b].ask.gpus)
    BY <1>4, CommitForms DEF Percent
  <2>2. d \in Chosen(b) /\ b \in Busy
    BY <1>4, <2>1, AtRest DEF Chosen, Busy, Choosing, Revising, Creation, Update
  <2>3. d \notin h.on
    BY <1>4, <2>1, <2>2 DEF Commits, Contends
  <2>4. Allocated(d, f) + Percent(handler[b].ask.gpus) <= 100
    BY <1>0, <1>4, <2>1 DEF RoomInv
  <2>5. Percent(handler[b].ask.gpus) \in Nat
    BY <2>1 DEF Choosing, Revising, Creation, Update, Ask, Percent
  <2> QED BY <1>2, <2>1, <2>3, <2>4, <2>5
<1> QED BY <1>3, <1>4 DEF RoomInv

(* A service the commit is not about holds what it held.                   *)
LEMMA OthersHold ==
    ASSUME TypeOK, SlotsInv, NEW a \in Handlers, NEW id \in Ids, Commits(a, id),
           NEW i \in Ids, i # id
    PROVE  /\ BatchesOf(i)' = BatchesOf(i)
           /\ \A b \in BatchesOf(i) : shares'[b] = shares[b]
<1>1. ASSUME NEW b \in Ids, shares[b].of = i, shares[b].on # {} PROVE shares'[b] = shares[b]
  <2>1. b # a
    BY <1>1, CommitForms
  <2>2. b \notin FreedBy(a)
    BY <1>1, KindsApart DEF SlotsInv, Commits, FreedBy
  <2> QED BY <2>1, <2>2, BatchesAfter
<1>2. ASSUME NEW b \in Ids, shares'[b].of = i, shares'[b].on # {} PROVE shares'[b] = shares[b]
  <2>1. b # a
    BY <1>2, BatchesAfter
  <2> QED BY <1>2, <2>1, BatchesAfter
<1> QED BY <1>1, <1>2 DEF BatchesOf

(* The service it is about holds what the request chose, and nothing else. *)
LEMMA TargetHolds ==
    ASSUME TypeOK, TypeOK', SlotsInv, HoldInv, NEW a \in Handlers, NEW id \in Ids, Commits(a, id),
           id \notin crossed
    PROVE  Fits(id)'
<1> DEFINE h == handler[a]
<1>0. /\ a \in Ids /\ h.on \in SUBSET Devices /\ h.ask.gpus \in Nat
      /\ Cardinality(h.on) = Count(h.ask.gpus) /\ asked'[id] = h.ask.gpus
  BY CommitForms DEF Commits, HoldInv
<1>1. ASSUME NEW b \in Ids \ {a}, shares'[b].on # {}, shares'[b].of = id PROVE FALSE
  <2>1. b \notin FreedBy(a) /\ shares[b].on # {} /\ shares[b].of = id
    BY <1>1, BatchesAfter
  <2>2. CASE h \in Creation /\ id = a
    BY <2>1, <2>2, CommitForms DEF SlotsInv
  <2>3. CASE Revising(a) /\ id = h.id
    <3>1. FreedBy(a) = h.freed /\ h.freed = BatchesOf(h.id)
      BY <2>3 DEF HoldInv, Revising, FreedBy
    <3>2. h.freed = BatchesOf(id)
      BY <2>3, <3>1
    <3> QED BY <2>1, <3>1, <3>2 DEF BatchesOf
  <2> QED BY <2>2, <2>3 DEF Commits
<1>2. BatchesOf(id)' = IF h.on = {} THEN {} ELSE {a}
  BY <1>0, <1>1, BatchesAfter DEF BatchesOf
<1>3. IsFiniteSet(h.on)
  BY <1>0, ApiDevices, SubsetSize
<1>4. h.ask.gpus = 0 <=> h.on = {}
  <2>1. h.ask.gpus = 0 <=> Cardinality(h.on) = 0
    BY <1>0, Quantities
  <2>2. Cardinality(h.on) = 0 <=> h.on = {}
    BY <1>3, FS_EmptySet, Zenon
  <2> QED BY <2>1, <2>2
<1>5. /\ Cardinality(shares'[a].on) = Count(asked'[id])
      /\ shares'[a].percent = Percent(asked'[id])
  BY <1>0, BatchesAfter
<1>6. CASE asked'[id] = 0
  BY <1>0, <1>2, <1>4, <1>6 DEF Fits
<1>7. CASE asked'[id] # 0
  <2>1. BatchesOf(id)' = {a}
    BY <1>0, <1>2, <1>4, <1>7
  <2> QED BY <1>0, <1>5, <1>7, <2>1 DEF Fits, Count, Percent
<1> QED BY <1>6, <1>7

LEMMA CommitHold ==
    ASSUME TypeOK, TypeOK', SlotsInv, HoldInv, NEW a \in Handlers, NEW id \in Ids, Commits(a, id)
    PROVE  HoldInv'
<1>0. crossed' = crossed
  BY DEF Commits
<1>1. (\A b \in Handlers : Choosing(b) => Cardinality(handler[b].on) = Count(handler[b].ask.gpus))'
  <2> SUFFICES ASSUME NEW b \in Handlers, Choosing(b)'
               PROVE  Cardinality(handler'[b].on) = Count(handler[b].ask.gpus)'
    OBVIOUS
  <2>1. Choosing(b) /\ handler'[b] = handler[b]
    BY CommitForms
  <2> QED BY <2>1 DEF HoldInv, Count
<1>2. (\A b, c \in Handlers : Revising(b) /\ Revising(c) /\ handler[b].id = handler[c].id
                                 => b = c \/ handler[b].id \in crossed)'
  <2> SUFFICES ASSUME NEW b \in Handlers, NEW c \in Handlers, Revising(b)', Revising(c)',
                      handler'[b].id = handler'[c].id
               PROVE  b = c \/ handler'[b].id \in crossed'
    OBVIOUS
  <2>1. Revising(b) /\ handler'[b] = handler[b] /\ Revising(c) /\ handler'[c] = handler[c]
    BY CommitForms
  <2> QED BY <1>0, <2>1 DEF HoldInv
<1>3. (\A b \in Handlers : Revising(b) /\ handler[b].id \notin crossed =>
          handler[b].freed = BatchesOf(handler[b].id))'
  <2> SUFFICES ASSUME NEW b \in Handlers, Revising(b)', handler'[b].id \notin crossed'
               PROVE  handler'[b].freed = BatchesOf(handler[b].id)'
    OBVIOUS
  <2>1. b # a /\ Revising(b) /\ handler'[b] = handler[b]
    BY CommitForms
  <2>2. PICK i \in Ids : i = handler[b].id
    BY <2>1, BatchIds DEF Revising
  <2>3. handler[b].freed = BatchesOf(i)
    BY <1>0, <2>1, <2>2 DEF HoldInv
  <2>4. i # id
    <3>1. CASE handler[a] \in Creation /\ id = a
      BY <2>1, <2>2, <3>1 DEF SlotsInv, Revising
    <3>2. CASE Revising(a) /\ id = handler[a].id
      BY <1>0, <2>1, <2>2, <3>2 DEF HoldInv
    <3> QED BY <3>1, <3>2 DEF Commits
  <2>5. BatchesOf(i)' = BatchesOf(i)
    BY <2>4, OthersHold
  <2>6. BatchesOf(handler[b].id)' = BatchesOf(i)'
    BY <2>1, <2>2 DEF BatchesOf
  <2> QED BY <2>1, <2>3, <2>5, <2>6
<1>4. (\A i \in Ids \ crossed : rows[i].state = "live" => Fits(i))'
  <2> SUFFICES ASSUME NEW i \in Ids, i \notin crossed, rows'[i].state = "live" PROVE Fits(i)'
    BY <1>0
  <2>1. CASE i = id
    BY <2>1, TargetHolds
  <2>2. CASE i # id
    <3>1. rows[i].state = "live" /\ asked'[i] = asked[i]
      BY <2>2 DEF Commits
    <3>2. Fits(i)
      BY <3>1 DEF HoldInv
    <3>3. /\ BatchesOf(i)' = BatchesOf(i)
          /\ \A b \in BatchesOf(i) : shares'[b] = shares[b]
      BY <2>2, OthersHold
    <3> QED BY <3>1, <3>2, <3>3 DEF Fits, Count, Percent
  <2> QED BY <2>1, <2>2
<1> QED BY <1>1, <1>2, <1>3, <1>4 DEF HoldInv

LEMMA Committing ==
    ASSUME TypeOK, TypeOK', DevicesInv, NEW a \in Handlers, NEW id \in Ids, Commits(a, id)
    PROVE  DevicesInv'
BY CommitSlots, CommitRoom, CommitHold DEF DevicesInv

LEMMA CreationsCommit ==
    ASSUME TypeOK, NEW a \in Handlers, CommitCreate(a)
    PROVE  Commits(a, a)
<1>1. PICK h : h = handler[a]
  OBVIOUS
<1>2. h \in Creation /\ a \in Ids /\ FreedBy(a) = {}
  BY <1>1, HandlerAt, FormOfHandler, HandlersAreIds, KindsApart DEF CommitCreate, FreedBy
<1>3. /\ rows' = [rows EXCEPT ![a] = [name |-> h.name, state |-> "live", models |-> h.ask.models]]
      /\ shares' = [shares EXCEPT ![a] = Allocations(a, h.on, h.ask.gpus)]
      /\ asked' = [asked EXCEPT ![a] = h.ask.gpus]
      /\ Contends(a) /\ Goes(a, Free)
      /\ UNCHANGED <<models, route, worker, bounds, suspect, crossed, blind>>
  BY <1>1, Zenon DEF CommitCreate
<1>4. rows'[a].state = "live" /\ \A i \in Ids \ {a} : rows'[i].state = rows[i].state
  BY <1>2, <1>3 DEF TypeOK
<1>5. \A b \in Ids : shares'[b] = IF b = a THEN Allocations(a, h.on, h.ask.gpus) ELSE shares[b]
  BY <1>2, <1>3 DEF TypeOK
<1>6. \A i \in Ids : asked'[i] = IF i = a THEN h.ask.gpus ELSE asked[i]
  BY <1>2, <1>3 DEF TypeOK
<1> QED BY <1>1, <1>2, <1>3, <1>4, <1>5, <1>6 DEF Commits, Choosing, bounds

LEMMA RevisionsCommit ==
    ASSUME TypeOK, NEW a \in Handlers, CommitUpdate(a), Revising(a)
    PROVE  handler[a].id \in Ids /\ Commits(a, handler[a].id)
<1>1. PICK h : h = handler[a]
  OBVIOUS
<1>2. h \in Update /\ h.id \in Ids /\ FreedBy(a) = h.freed /\ h.pc = "write" /\ "gpus" \in h.changes
  BY <1>1 DEF CommitUpdate, FreedBy, Revising, Update
<1>3. /\ shares' = WithShares(a, h)
      /\ asked' = [asked EXCEPT ![h.id] = h.ask.gpus]
      /\ Contends(a) /\ RowsUpdated(h) /\ Goes(a, Free)
      /\ UNCHANGED <<models, route, worker, bounds, suspect, crossed, blind>>
  BY <1>1, <1>2, Zenon DEF CommitUpdate, RowsUpdated
<1>4. \A i \in Ids : rows'[i].state = rows[i].state
  BY <1>2, <1>3, StatesStay
<1>5. \A b \in Ids : shares'[b] = IF b = a THEN Allocations(h.id, h.on, h.ask.gpus)
                                  ELSE IF b \in h.freed THEN NoBatch ELSE shares[b]
  BY <1>3 DEF WithShares
<1>6. \A i \in Ids : asked'[i] = IF i = h.id THEN h.ask.gpus ELSE asked[i]
  BY <1>2, <1>3 DEF TypeOK
<1> QED BY <1>1, <1>2, <1>3, <1>4, <1>5, <1>6 DEF Commits, Choosing, Revising, bounds

-----------------------------------------------------------------------------
(* The theorems on the devices *)

LEMMA DevicesRequest ==
    ASSUME TypeOK, TypeOK', DevicesInv, NEW a \in Handlers, RequestStep(a)
    PROVE  DevicesInv'
<1>0. SlotsInv
  BY DEF DevicesInv
<1>1. ASSUME NEW n \in Names, NEW ask \in Asks, BeginCreate(a, n, ask) PROVE DevicesInv'
  BY <1>0, <1>1, CreationsChoose, ChoosingKeeps
<1>2. CASE Insert(a) \/ WriteRoute(a) \/ WriteRouteFails(a)
  BY <1>0, <1>2, CreationsAbate, Abating
<1>3. CASE CommitCreate(a)
  BY <1>3, CreationsCommit, Committing, HandlersAreIds
<1>4. ASSUME NEW id \in Ids, BeginDelete(a, id) PROVE DevicesInv'
  BY <1>0, <1>4, ArrivalsAbate, Abating
<1>5. CASE Unlink(a) \/ Stamp(a) \/ CommitFails(a) \/ CommitDrop(a)
  BY <1>0, <1>5, EndingsAbate, Abating
<1>6. ASSUME NEW id \in Ids, NEW ask \in Asks, NEW changes \in Changes, BeginUpdate(a, id, changes, ask)
      PROVE  DevicesInv'
  BY <1>6, UpdateArrives
<1>7. CASE Release(a)
  BY <1>0, <1>7, Releases, Abating, ChoosingKeeps
<1>8. CASE CommitUpdate(a)
  <2>1. CASE Revising(a)
    BY <1>8, <2>1, RevisionsCommit, Committing
  <2>2. CASE "gpus" \notin handler[a].changes
    BY <1>8, <2>2, OtherUpdatesAbate, Abating
  <2>3. handler[a] \in Update
    BY <1>8, HandlerAt, FormOfHandler DEF CommitUpdate
  <2> QED BY <2>1, <2>2, <2>3 DEF Revising
<1>9. ASSUME NEW m \in Models, BeginDrop(a, m) PROVE DevicesInv'
  BY <1>0, <1>9, ArrivalsAbate, Abating
<1> QED BY <1>1, <1>2, <1>3, <1>4, <1>5, <1>6, <1>7, <1>8, <1>9, Zenon DEF RequestStep, Changes

LEMMA DevicesStep == TypeOK /\ TypeOK' /\ DevicesInv /\ [Next]_vars => DevicesInv'
<1> SUFFICES ASSUME TypeOK, TypeOK', DevicesInv, [Next]_vars PROVE DevicesInv'
  OBVIOUS
<1>1. ASSUME NEW a \in Handlers, RequestStep(a) PROVE DevicesInv'
  BY <1>1, DevicesRequest
<1>2. CASE (\E w \in Workers : WorkerStep(w)) \/ UNCHANGED vars
  BY <1>2, WorkersAbate, Abating
<1> QED BY <1>1, <1>2 DEF Next

LEMMA DevicesStart == Init => DevicesInv
<1> SUFFICES ASSUME Init PROVE DevicesInv
  OBVIOUS
<1>0. TypeOK
  BY StartType
<1>1. PICK on \in kSubset(Count(First.ask.gpus), Devices) :
         shares = [b \in Ids |-> IF b = 0 THEN Allocations(0, on, First.ask.gpus) ELSE NoBatch]
  BY DEF Init
<1>2. /\ First.ask.gpus \in Nat /\ 0 \in Ids
      /\ on \in SUBSET Devices /\ Cardinality(on) = Count(First.ask.gpus)
  BY <1>1, ApiFirst, ApiBounds DEF Ask, kSubset, Ids
<1>3. /\ \A id \in Ids : rows[id].state = IF id = 0 THEN "live" ELSE "absent"
      /\ \A b \in Ids \ {0} : shares[b].on = {}
      /\ shares[0].of = 0 /\ shares[0].on = on /\ shares[0].percent = Percent(First.ask.gpus)
      /\ asked[0] = First.ask.gpus
  BY <1>1, <1>2 DEF Init, Allocations, NoBatch
<1>4. /\ \A b \in Handlers : handler[b] = Free /\ b # 0 /\ b \in Ids
      /\ \A b \in Handlers : ~Choosing(b) /\ ~Revising(b) /\ FreedBy(b) = {}
  BY AtRest, ApiBounds DEF Init, Choosing, Revising, FreedBy, Handlers, Ids
<1>5. SlotsInv
  BY <1>3, <1>4, AtRest, HandlersAreIds DEF SlotsInv, Open
<1>6. RoomInv
  <2>1. ASSUME NEW d PROVE Allocated(d, {}) <= 100
    <3>1. Percent(First.ask.gpus) \in 0 .. 100
      BY <1>2, Quantities
    <3>2. PICK unit : unit = {0} \X (1 .. Percent(First.ask.gpus))
      OBVIOUS
    <3>3. IsFiniteSet(unit) /\ Cardinality(unit) = Percent(First.ask.gpus)
      BY <3>1, <3>2, UnitsSize, Zenon
    <3>4. ASSUME NEW u \in Held(d, {}) PROVE u \in unit
      <4>1. PICK b \in Ids : d \in shares[b].on /\ u \in {b} \X (1 .. shares[b].percent)
        BY HeldMembers
      <4> QED BY <1>3, <3>2, <4>1
    <3>5. Held(d, {}) \in SUBSET unit
      BY <3>4
    <3>6. Cardinality(Held(d, {})) <= Percent(First.ask.gpus) /\ Cardinality(Held(d, {})) \in Nat
      BY <3>3, <3>5, SubsetSize, SizeIsNat
    <3> QED BY <3>1, <3>6 DEF Allocated
  <2> QED BY <1>4, <2>1 DEF RoomInv, NoOvercommit
<1>7. HoldInv
  <2>1. IsFiniteSet(on)
    BY <1>2, ApiDevices, SubsetSize
  <2>2. First.ask.gpus = 0 <=> on = {}
    <3>1. First.ask.gpus = 0 <=> Cardinality(on) = 0
      BY <1>2, Quantities
    <3>2. Cardinality(on) = 0 <=> on = {}
      BY <2>1, FS_EmptySet, Zenon
    <3> QED BY <3>1, <3>2
  <2>3. BatchesOf(0) = IF on = {} THEN {} ELSE {0}
    BY <1>2, <1>3 DEF BatchesOf
  <2>4. Fits(0)
    BY <1>2, <1>3, <2>2, <2>3 DEF Fits
  <2> QED BY <1>3, <1>4, <2>4 DEF HoldInv
<1> QED BY <1>5, <1>6, <1>7 DEF DevicesInv

(* A device is never given out beyond its whole, however many requests,    *)
(* services and devices there are and whichever of them fail - unless two  *)
(* requests had chosen the device when the first of them committed, which  *)
(* nothing in get_available_devices or the tables prevents.                *)
THEOREM DevicesAreShared == Spec => []NoOvercommit
<1>1. Init => DevicesInv
  BY DevicesStart
<1>2. TypeOK /\ TypeOK' /\ DevicesInv /\ [Next]_vars => DevicesInv'
  BY DevicesStep
<1>3. DevicesInv => NoOvercommit
  BY DEF DevicesInv, RoomInv
<1> QED BY <1>1, <1>2, <1>3, ApiTypeCorrect, PTL DEF Spec

LEMMA RoundingUp ==
    ASSUME NEW gpus \in Nat, gpus < 100
    PROVE  Percent(gpus) \in {gpus, gpus + 1} /\ Percent(gpus) < 100
BY DEF Percent, RoundedUp

LEMMA FitsSuffices ==
    ASSUME TypeOK, NEW id \in Ids, Fits(id)
    PROVE  /\ Cardinality(SharesOf(id)) = Count(asked[id])
           /\ IF asked[id] < 100 THEN ReportedGpus(id) \in {{asked[id]}, {asked[id] + 1}}
              ELSE ReportedGpus(id) = {100 * Count(asked[id])}
<1> DEFINE held == SharesOf(id)
           gpus == asked[id]
<1>1. gpus \in Nat /\ Count(gpus) \in Nat
  BY Quantities DEF TypeOK
<1>2. \A b \in Ids : shares[b].on \in SUBSET Devices
  BY DEF TypeOK, Batch
<1>3. CASE gpus = 0
  <2>1. held = {}
    BY <1>3 DEF Fits, BatchesOf, SharesOf
  <2>2. ReportedGpus(id) = {0}
    BY <2>1 DEF ReportedGpus
  <2>3. Cardinality(held) = 0 /\ Count(gpus) = 0
    <3>1. Cardinality({}) = 0
      BY FS_EmptySet, Zenon
    <3> QED BY <1>3, <2>1, <3>1 DEF Count
  <2> QED BY <1>3, <2>2, <2>3
<1>4. CASE gpus # 0
  <2>1. PICK b \in Ids : /\ BatchesOf(id) = {b}
                         /\ Cardinality(shares[b].on) = Count(gpus)
                         /\ shares[b].percent = Percent(gpus)
    BY <1>4 DEF Fits
  <2>2. shares[b].of = id /\ shares[b].on # {} /\ shares[b].on \in SUBSET Devices
    BY <1>2, <2>1 DEF BatchesOf
  <2>3. \A x : x \in held <=> x \in {b} \X shares[b].on
    <3>1. \A x \in held : x[1] \in BatchesOf(id)
      BY DEF BatchesOf, SharesOf
    <3>2. \A x \in held : x \in {b} \X shares[b].on
      BY <2>1, <3>1 DEF SharesOf
    <3>3. \A x \in {b} \X shares[b].on : x \in held
      BY <2>2 DEF SharesOf
    <3> QED BY <3>2, <3>3
  <2>4. Cardinality(held) = Count(gpus)
    <3>1. PICK on : on = shares[b].on
      OBVIOUS
    <3>2. IsFiniteSet(on) /\ Cardinality(on) = Count(gpus)
      BY <2>1, <2>2, <3>1, ApiDevices, SubsetSize
    <3> HIDE DEF held
    <3>3. held = {b} \X on
      BY <2>3, <3>1
    <3> QED BY <3>2, <3>3, PairsSize, Zenon
  <2>5. ReportedGpus(id) = {IF Percent(gpus) < 100 THEN Percent(gpus) ELSE 100 * Count(gpus)}
    <3>0. PICK d : d \in shares[b].on
      BY <2>2
    <3>1. <<b, d>> \in held /\ \A x \in held : x[1] = b
      <4>1. <<b, d>> \in {b} \X shares[b].on /\ \A x \in {b} \X shares[b].on : x[1] = b
        BY <3>0
      <4> HIDE DEF held
      <4> QED BY <2>3, <4>1
    <3>2. ReportedGpus(id) = {IF shares[x[1]].percent < 100 THEN shares[x[1]].percent
                              ELSE 100 * Cardinality(held) : x \in held}
      BY <3>1 DEF ReportedGpus
    <3> HIDE DEF held
    <3>3. ReportedGpus(id) = {IF Percent(gpus) < 100 THEN Percent(gpus) ELSE 100 * Count(gpus) : x \in held}
      BY <2>1, <2>4, <3>1, <3>2
    <3> QED BY <3>1, <3>3
  <2>6. CASE gpus < 100
    <3>1. ReportedGpus(id) = {Percent(gpus)} /\ Percent(gpus) \in {gpus, gpus + 1}
      BY <1>1, <2>5, <2>6, RoundingUp
    <3> QED BY <2>4, <2>6, <3>1
  <2>7. CASE ~(gpus < 100)
    <3>1. Percent(gpus) = 100
      BY <1>1, <2>7 DEF Percent
    <3> QED BY <2>4, <2>5, <2>7, <3>1
  <2> QED BY <2>6, <2>7
<1> QED BY <1>3, <1>4

(* A live service holds as many devices as it was last asked for, whole    *)
(* from one on, and below that the hundredths asked for or, by the double- *)
(* precision rounding, one more; its configuration reports what it holds - *)
(* whatever other requests do or fail at, for any number of them, except   *)
(* where two changes of its GPUs met.                                      *)
THEOREM ServicesHoldTheirGpus == Spec => []HoldsWhatWasAsked
<1>1. Init => DevicesInv
  BY DevicesStart
<1>2. TypeOK /\ TypeOK' /\ DevicesInv /\ [Next]_vars => DevicesInv'
  BY DevicesStep
<1>3. TypeOK /\ DevicesInv => HoldsWhatWasAsked
  BY FitsSuffices DEF DevicesInv, HoldInv, HoldsWhatWasAsked
<1> QED BY <1>1, <1>2, <1>3, ApiTypeCorrect, PTL DEF Spec
=============================================================================
