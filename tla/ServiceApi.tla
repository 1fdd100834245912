------------------------------ MODULE ServiceApi ------------------------------
(***************************************************************************)
(* What creating, deleting and updating a service does besides its intent: *)
(* the route file Traefik reads, the shares of the GPUs, the models served *)
(* - and the synchronisation of routes every worker process runs as it     *)
(* starts.  Handlers run on threads of several workers; the only things    *)
(* that hold them apart are the unique index on live service names and the *)
(* rows an open transaction has changed.                                   *)
(***************************************************************************)
EXTENDS Naturals, FiniteSets, FiniteSetsExt

CONSTANTS
    Names,        \* service names
    Devices,      \* GPUs
    Models,       \* model names
    Workers,      \* API worker processes
    Asks,         \* what bodies ask for: models, and hundredths of a GPU
    First,        \* the service there at the start: its name and its ask
    Operations,   \* requests in play
    MaxRequests,  \* bound: requests in a behaviour
    FaultKinds,   \* the faults in play, each at most once
    MaxEvents     \* bound: requests and faults together

Ask == [models: (SUBSET Models) \ {{}}, gpus: Nat]
AllOperations == {"create", "delete", "update", "drop"}
AllFaults == {"route", "commit", "crash", "sync"}

ASSUME ApiBounds == MaxRequests \in Nat /\ MaxEvents \in Nat
ASSUME ApiAsks == Asks \subseteq Ask
ASSUME ApiFirst == First.name \in Names /\ First.ask \in Ask
ASSUME ApiDevices == IsFiniteSet(Devices)
ASSUME ApiFirstFits == First.ask.gpus < 100 \/ First.ask.gpus <= 100 * Cardinality(Devices)
ASSUME ApiKinds == Operations \subseteq AllOperations /\ FaultKinds \subseteq AllFaults

(* Requests are numbered as they arrive; a row and a batch of allocations  *)
(* are known by the request that made them, 0 for those of the start.      *)
Handlers == 1 .. MaxRequests
Ids == 0 .. MaxRequests

Row == [name: Names, state: {"absent", "live", "deleted"}, models: SUBSET Models]
Batch == [of: Ids, on: SUBSET Devices, percent: 0 .. 100]
NoBatch == [of |-> 0, on |-> {}, percent |-> 0]

VARIABLES
    rows,       \* services, with the models they serve
    shares,     \* device_allocations, in the batches they were added in
    models,     \* models that are not deleted
    route,      \* names that have a Traefik file
    handler,    \* what each request handler does
    worker,     \* what each worker process does
    requests, faults, \* requests so far; kinds of faults so far
    asked,      \* history: the GPUs last asked for, per service
    suspect,    \* history: names whose route may be wrong
    contended,  \* history: devices two requests chose at once
    crossed,    \* history: services whose GPUs two requests changed at once
    blind       \* history: models deleted while a request was taking them up

bounds == <<requests, faults>>
tables == <<rows, shares, models, asked>>
history == <<contended, crossed, blind>>
vars == <<tables, route, handler, worker, bounds, suspect, history>>

Free == [pc |-> "idle"]
Creation == [pc: {"insert", "route", "commit"}, name: Names, ask: Ask, on: SUBSET Devices]
Deletion == [pc: {"unlink", "stamp"}, id: Ids]
Update == [pc: {"release", "write"}, id: Ids, changes: (SUBSET {"gpus", "models"}) \ {{}},
           ask: [models: SUBSET Models, gpus: Nat], loaded: SUBSET Models,
           freed: SUBSET Ids, on: SUBSET Devices]
Drop == [pc: {"drop"}, model: Models]
Handler == {Free} \cup Creation \cup Deletion \cup Update \cup Drop

(* A worker starts with the synchronisation and serves once it is over.    *)
Down == [pc |-> "down", live |-> {}, add |-> {}, remove |-> {}, calm |-> FALSE]
Up == [Down EXCEPT !.pc = "up"]
Worker == [pc: {"down", "list", "sync", "up"}, live: SUBSET Names, add: SUBSET Names,
           remove: SUBSET Names, calm: BOOLEAN]

-----------------------------------------------------------------------------
(* Devices *)

(* get_allocable_devices: part of one device, or whole devices.  The part  *)
(* is math.ceil(required_gpus * 100) in double precision, where the        *)
(* product comes out above the hundredths asked for at five places.        *)
RoundedUp == {7, 14, 28, 55, 56}
Percent(gpus) ==
    IF gpus >= 100 THEN 100 ELSE IF gpus \in RoundedUp THEN gpus + 1 ELSE gpus
Count(gpus) == IF gpus = 0 THEN 0 ELSE (gpus + 99) \div 100

(* What live services hold of a device, hundredth by hundredth, without    *)
(* the batches the own transaction has deleted.                            *)
Held(d, freed) ==
    UNION {{b} \X (1 .. shares[b].percent) :
             b \in {c \in Ids \ freed : d \in shares[c].on /\ rows[shares[c].of].state = "live"}}

Allocated(d, freed) == Cardinality(Held(d, freed))

(* Mutant: a device with anything left will do.                            *)
CandidatesNotFull(gpus, freed) ==
    LET fits == {d \in Devices : gpus = 0 \/ Allocated(d, freed) < 100}
        fewest == Min({Count(gpus), Cardinality(fits)}) IN
    {on \in kSubset(fewest, fits) :
       \A d \in on : \A e \in fits \ on : Allocated(d, freed) <= Allocated(e, freed)}

(* get_available_devices: the least allocated of those with enough left.   *)
Candidates(gpus, freed) ==
    LET fits == {d \in Devices : 100 - Allocated(d, freed) >= Percent(gpus)}
        fewest == Min({Count(gpus), Cardinality(fits)}) IN
    {on \in kSubset(fewest, fits) :
       \A d \in on : \A e \in fits \ on : Allocated(d, freed) <= Allocated(e, freed)}

Enough(on, gpus) == 100 * Cardinality(on) >= gpus

(* Mutant: what was asked for is taken of each device.                     *)
AllocationsUncapped(id, on, gpus) == [of |-> id, on |-> on, percent |-> gpus]

(* create_device_allocations                                               *)
Allocations(id, on, gpus) == [of |-> id, on |-> on, percent |-> Percent(gpus)]

Init ==
    /\ rows = [id \in Ids |-> [name |-> First.name,
                               state |-> IF id = 0 THEN "live" ELSE "absent",
                               models |-> IF id = 0 THEN First.ask.models ELSE {}]]
    /\ \E on \in kSubset(Count(First.ask.gpus), Devices) :
          shares = [b \in Ids |-> IF b = 0 THEN Allocations(0, on, First.ask.gpus) ELSE NoBatch]
    /\ models = Models
    /\ route \in SUBSET Names
    /\ handler = [a \in Handlers |-> Free]
    /\ worker = [w \in Workers |-> Down]
    /\ requests = 0 /\ faults = {}
    /\ asked = [id \in Ids |-> IF id = 0 THEN First.ask.gpus ELSE 0]
    /\ suspect = Names
    /\ contended = {} /\ crossed = {} /\ blind = {}

-----------------------------------------------------------------------------
(* Requests *)

Fault(kind) ==
    /\ kind \in FaultKinds \ faults /\ requests + Cardinality(faults) < MaxEvents
    /\ faults' = faults \cup {kind}

Busy == {a \in Handlers : handler[a] # Free}
Goes(a, state) == handler' = [handler EXCEPT ![a] = state]
Named(h) == IF h \in Creation THEN h.name ELSE rows[h.id].name
Syncing == {w \in Workers : worker[w].pc \in {"list", "sync"}}
LiveNames == {rows[id].name : id \in {i \in Ids : rows[i].state = "live"}}

Arrives(a, operation) ==
    /\ a = requests + 1 /\ requests' = a
    /\ a + Cardinality(faults) <= MaxEvents
    /\ operation \in Operations
    /\ \E w \in Workers : worker[w] = Up

(* History: a route that is about to change while a worker synchronises.   *)
Stirs(name, alsoIf) ==
    /\ worker' = [w \in Workers |-> IF w \in Syncing THEN [worker[w] EXCEPT !.calm = FALSE]
                                    ELSE worker[w]]
    /\ suspect' = IF Syncing # {} \/ alsoIf THEN suspect \cup {name} ELSE suspect

(* History: a change of what is held, in the light of what others chose.   *)
Chosen(b) == IF handler[b].pc \in {"insert", "route", "commit", "write"} THEN handler[b].on ELSE {}
Contends(a) ==
    contended' = contended \cup {d \in handler[a].on : \E b \in Busy \ {a} : d \in Chosen(b)}
TakingUp(b) == LET h == handler[b] IN
               IF h \in Creation THEN h.ask.models
               ELSE IF h \in Update THEN h.ask.models \ h.loaded ELSE {}
Blinds(ms) == blind' = blind \cup {m \in ms : \E b \in Busy : handler[b] = [pc |-> "drop", model |-> m]}

-----------------------------------------------------------------------------
(* create_service: a body that asks for a missing model, or for more GPUs  *)
(* than are left, is refused before anything changes.                      *)

BeginCreate(a, name, ask) ==
    /\ Arrives(a, "create")
    /\ ask.models \subseteq models
    /\ \E on \in Candidates(ask.gpus, {}) :
          /\ Enough(on, ask.gpus)
          /\ Goes(a, [pc |-> "insert", name |-> name, ask |-> ask, on |-> on])
    /\ Stirs(name, FALSE) /\ Blinds(ask.models)
    /\ UNCHANGED <<tables, route, faults, contended, crossed>>

(* The flush: it waits for another open insert of the name, and fails when *)
(* the name is live; a build spec that does not hold up fails after it.    *)
Insert(a) ==
    LET h == handler[a] IN
    /\ h.pc = "insert"
    /\ \A b \in Busy : ~(handler[b].pc \in {"route", "commit"} /\ handler[b].name = h.name)
    /\ \/ h.name \notin LiveNames /\ Goes(a, [h EXCEPT !.pc = "route"])
       \/ Goes(a, Free)
    /\ UNCHANGED <<tables, route, worker, bounds, suspect, history>>

(* traefik.add, ahead of the commit.                                       *)
WriteRoute(a) ==
    LET h == handler[a] IN
    /\ h.pc = "route"
    /\ route' = route \cup {h.name}
    /\ Goes(a, [h EXCEPT !.pc = "commit"])
    /\ UNCHANGED <<tables, worker, bounds, suspect, history>>

(* The file cannot be written, or not to its end: rolled back, file kept.  *)
WriteRouteFails(a) ==
    LET h == handler[a] IN
    /\ h.pc = "route" /\ Fault("route")
    /\ route' \in {route, route \cup {h.name}}
    /\ suspect' = suspect \cup {h.name}
    /\ Goes(a, Free)
    /\ UNCHANGED <<tables, worker, requests, history>>

CommitCreate(a) ==
    LET h == handler[a] IN
    /\ h.pc = "commit"
    /\ rows' = [rows EXCEPT ![a] = [name |-> h.name, state |-> "live", models |-> h.ask.models]]
    /\ shares' = [shares EXCEPT ![a] = Allocations(a, h.on, h.ask.gpus)]
    /\ asked' = [asked EXCEPT ![a] = h.ask.gpus]
    /\ Contends(a)
    /\ Goes(a, Free)
    /\ UNCHANGED <<models, route, worker, bounds, suspect, crossed, blind>>

-----------------------------------------------------------------------------
(* delete_service *)

(* traefik.delete looks for the file before it removes it.                 *)
BeginDelete(a, id) ==
    LET overlapping == {b \in Busy : handler[b] \in Deletion /\ handler[b].id = id} IN
    /\ Arrives(a, "delete")
    /\ rows[id].state = "live"
    /\ Goes(a, [pc |-> IF rows[id].name \in route THEN "unlink" ELSE "stamp", id |-> id])
    /\ Stirs(rows[id].name, overlapping # {})
    /\ UNCHANGED <<tables, route, faults, history>>

(* Whatever has the name's file by now loses it; a file that is gone by    *)
(* now fails the request.                                                  *)
Unlink(a) ==
    LET h == handler[a] IN
    /\ h.pc = "unlink"
    /\ route' = route \ {rows[h.id].name}
    /\ Goes(a, IF rows[h.id].name \in route THEN [h EXCEPT !.pc = "stamp"] ELSE Free)
    /\ UNCHANGED <<tables, worker, bounds, suspect, history>>

Stamp(a) ==
    LET h == handler[a] IN
    /\ h.pc = "stamp"
    /\ rows' = [rows EXCEPT ![h.id].state = "deleted"]
    /\ Goes(a, Free)
    /\ UNCHANGED <<shares, models, asked, route, worker, bounds, suspect, history>>

(* A commit fails; what was done to the files stays done.                  *)
CommitFails(a) ==
    LET h == handler[a] IN
    /\ h.pc \in {"commit", "stamp", "write", "drop"} /\ Fault("commit")
    /\ suspect' = IF h.pc \in {"commit", "stamp"} THEN suspect \cup {Named(h)} ELSE suspect
    /\ Goes(a, Free)
    /\ UNCHANGED <<tables, route, worker, requests, history>>

-----------------------------------------------------------------------------
(* update_service, of the GPUs, the models or both; one that asks for a    *)
(* model that is missing fails.                                            *)

BatchesOf(id) == {b \in Ids : shares[b].of = id /\ shares[b].on # {}}

BeginUpdate(a, id, changes, ask) ==
    LET overlapping == {b \in Busy : /\ handler[b] \in Update /\ handler[b].id = id
                                     /\ "gpus" \in handler[b].changes \cap changes} IN
    /\ Arrives(a, "update")
    /\ rows[id].state = "live"
    /\ "models" \in changes => ask.models \subseteq models
    /\ Goes(a, [pc |-> IF "gpus" \in changes THEN "release" ELSE "write",
                id |-> id, changes |-> changes, loaded |-> rows[id].models,
                ask |-> [models |-> IF "models" \in changes THEN ask.models ELSE rows[id].models,
                         gpus |-> IF "gpus" \in changes THEN ask.gpus ELSE 0],
                freed |-> IF "gpus" \in changes THEN BatchesOf(id) ELSE {}, on |-> {}])
    /\ crossed' = IF overlapping # {} THEN crossed \cup {id} ELSE crossed
    /\ Blinds(IF "models" \in changes THEN ask.models \ rows[id].models ELSE {})
    /\ UNCHANGED <<tables, route, worker, faults, suspect, contended>>

(* The flush of the models: it removes and adds the rows of the difference *)
(* to what was loaded, and fails where another request did so before.      *)
Added(h) == h.ask.models \ h.loaded
Removed(h) == h.loaded \ h.ask.models
ModelsFit(h) == Removed(h) \subseteq rows[h.id].models /\ Added(h) \cap rows[h.id].models = {}

(* It waits for an open transaction that changed one of the same rows.     *)
HeldUp(a) ==
    LET h == handler[a] IN
    \E b \in Busy \ {a} :
       LET g == handler[b] IN
       /\ g \in Update /\ g.pc = "write" /\ "gpus" \in g.changes
       /\ \/ g.freed \cap h.freed # {}
          \/ g.id = h.id /\ (Added(g) \cap Added(h)) \cup (Removed(g) \cap Removed(h)) # {}

(* The old allocations go, as far as they are still there, and new devices *)
(* are chosen; too few (409) leave everything as it was.                   *)
Release(a) ==
    LET h == handler[a] IN
    /\ h.pc = "release" /\ ~HeldUp(a)
    /\ \E on \in Candidates(h.ask.gpus, h.freed) :
          Goes(a, IF ModelsFit(h) /\ Enough(on, h.ask.gpus)
                  THEN [h EXCEPT !.pc = "write", !.on = on] ELSE Free)
    /\ UNCHANGED <<tables, route, worker, bounds, suspect, history>>

(* Mutant: the new allocations are added to the old.                       *)
WithMoreShares(a, h) ==
    [b \in Ids |-> IF b = a THEN Allocations(h.id, h.on, h.ask.gpus) ELSE shares[b]]

WithShares(a, h) ==
    [b \in Ids |-> IF b = a THEN Allocations(h.id, h.on, h.ask.gpus)
                   ELSE IF b \in h.freed THEN NoBatch ELSE shares[b]]

CommitUpdate(a) ==
    LET h == handler[a] IN
    /\ h.pc = "write"
    /\ "gpus" \notin h.changes => ~HeldUp(a)
    /\ IF "gpus" \in h.changes
       THEN /\ shares' = WithShares(a, h)
            /\ asked' = [asked EXCEPT ![h.id] = h.ask.gpus]
            /\ Contends(a)
       ELSE UNCHANGED <<shares, asked, contended>>
    /\ rows' = IF ModelsFit(h)
               THEN [rows EXCEPT ![h.id].models = (@ \ Removed(h)) \cup Added(h)] ELSE rows
    /\ Goes(a, Free)
    /\ UNCHANGED <<models, route, worker, bounds, suspect, crossed, blind>>

-----------------------------------------------------------------------------
(* delete_model, refused while a live service serves the model             *)

Serves(id, m) == rows[id].state = "live" /\ m \in rows[id].models

(* Mutant: services that serve the model do not matter.                    *)
BeginDropUnchecked(a, m) ==
    /\ Arrives(a, "drop")
    /\ m \in models
    /\ Goes(a, [pc |-> "drop", model |-> m])
    /\ blind' = blind \cup {n \in {m} : \E b \in Busy : n \in TakingUp(b)}
    /\ UNCHANGED <<tables, route, worker, faults, suspect, contended, crossed>>

BeginDrop(a, m) ==
    /\ Arrives(a, "drop")
    /\ m \in models /\ \A id \in Ids : ~Serves(id, m)
    /\ Goes(a, [pc |-> "drop", model |-> m])
    /\ blind' = blind \cup {n \in {m} : \E b \in Busy : n \in TakingUp(b)}
    /\ UNCHANGED <<tables, route, worker, faults, suspect, contended, crossed>>

CommitDrop(a) ==
    /\ handler[a].pc = "drop"
    /\ models' = models \ {handler[a].model}
    /\ Goes(a, Free)
    /\ UNCHANGED <<rows, shares, asked, route, worker, bounds, suspect, history>>

-----------------------------------------------------------------------------
(* Worker processes, and sync_traefik_configs                              *)

(* A worker dies with the requests it had at hand, and is started again.   *)
Crash(w, dead) ==
    /\ worker[w] = Up /\ Fault("crash")
    /\ dead = Busy \/ \E v \in Workers \ {w} : worker[v] = Up
    /\ handler' = [a \in Handlers |-> IF a \in dead THEN Free ELSE handler[a]]
    /\ suspect' = suspect \cup {Named(handler[a]) : a \in {b \in dead : handler[b].pc \in {"commit", "stamp"}}}
    /\ worker' = [worker EXCEPT ![w] = Down]
    /\ UNCHANGED <<tables, route, requests, history>>

(* History: calm is a synchronisation that no create, delete or belated    *)
(* synchronisation overlaps.                                               *)
Stirred == {a \in Busy : handler[a] \in Creation \cup Deletion}

ReadServices(w) ==
    /\ worker[w] = Down
    /\ worker' = [worker EXCEPT ![w] =
                     [Down EXCEPT !.pc = "list", !.live = LiveNames,
                                  !.calm = Stirred = {} /\ \A v \in Syncing : worker[v].calm]]
    /\ suspect' = suspect \cup {Named(handler[a]) : a \in Stirred}
    /\ UNCHANGED <<tables, route, handler, bounds, history>>

(* Mutant: routes are only added.                                          *)
ListRoutesToAdd(w) ==
    LET p == worker[w] IN
    /\ p.pc = "list"
    /\ worker' = [worker EXCEPT ![w] = [p EXCEPT !.pc = "sync", !.add = p.live]]
    /\ UNCHANGED <<tables, route, handler, bounds, suspect, history>>

(* No services beside a full directory is taken for an outage.             *)
ListRoutes(w) ==
    LET p == worker[w] IN
    /\ p.pc = "list"
    /\ worker' = [worker EXCEPT ![w] =
                     IF route # {} /\ p.live = {} THEN Up
                     ELSE [p EXCEPT !.pc = "sync", !.add = p.live, !.remove = route \ p.live]]
    /\ UNCHANGED <<tables, route, handler, bounds, suspect, history>>

SyncAdds(w) ==
    /\ worker[w].pc = "sync"
    /\ \E n \in worker[w].add :
          /\ route' = route \cup {n}
          /\ worker' = [worker EXCEPT ![w].add = @ \ {n}]
    /\ UNCHANGED <<tables, handler, bounds, suspect, history>>

SyncRemoves(w) ==
    /\ worker[w].pc = "sync" /\ worker[w].add = {}
    /\ \E n \in worker[w].remove :
          /\ route' = route \ {n}
          /\ worker' = [worker EXCEPT ![w].remove = @ \ {n}]
    /\ UNCHANGED <<tables, handler, bounds, suspect, history>>

Synced(w) ==
    /\ worker[w].pc = "sync" /\ worker[w].add = {} /\ worker[w].remove = {}
    /\ suspect' = IF worker[w].calm THEN {} ELSE suspect
    /\ worker' = [worker EXCEPT ![w] = Up]
    /\ UNCHANGED <<tables, route, handler, bounds, history>>

(* Whatever it raises is logged, and the worker serves all the same.       *)
SyncFails(w) ==
    /\ w \in Syncing /\ Fault("sync")
    /\ worker' = [worker EXCEPT ![w] = Up]
    /\ UNCHANGED <<tables, route, handler, requests, suspect, history>>

-----------------------------------------------------------------------------
RequestStep(a) ==
    \/ \E name \in Names, ask \in Asks : BeginCreate(a, name, ask)
    \/ Insert(a) \/ WriteRoute(a) \/ WriteRouteFails(a) \/ CommitCreate(a)
    \/ \E id \in Ids : BeginDelete(a, id)
    \/ Unlink(a) \/ Stamp(a)
    \/ \E id \in Ids, ask \in Asks, changes \in {{"gpus"}, {"models"}, {"gpus", "models"}} :
          BeginUpdate(a, id, changes, ask)
    \/ Release(a) \/ CommitUpdate(a)
    \/ \E m \in Models : BeginDrop(a, m)
    \/ CommitDrop(a)
    \/ CommitFails(a)

WorkerStep(w) ==
    \/ ReadServices(w) \/ ListRoutes(w) \/ SyncAdds(w) \/ SyncRemoves(w) \/ Synced(w)
    \/ SyncFails(w)
    \/ \E dead \in SUBSET Busy : Crash(w, dead)

Next ==
    \/ \E a \in Handlers : RequestStep(a)
    \/ \E w \in Workers : WorkerStep(w)

Spec == Init /\ [][Next]_vars

-----------------------------------------------------------------------------
TypeOK ==
    /\ rows \in [Ids -> Row]
    /\ shares \in [Ids -> Batch]
    /\ models \subseteq Models
    /\ route \subseteq Names
    /\ handler \in [Handlers -> Handler]
    /\ worker \in [Workers -> Worker]
    /\ requests \in 0 .. MaxRequests
    /\ faults \subseteq FaultKinds
    /\ asked \in [Ids -> Nat]
    /\ suspect \subseteq Names /\ contended \subseteq Devices
    /\ crossed \subseteq Ids /\ blind \subseteq Models

(* A name has a route exactly when a live service bears it - among the     *)
(* names no request is creating or deleting and that are not suspect: no   *)
(* create or delete failed or died halfway, no two deletes of one service  *)
(* met, none met a worker's synchronisation, since the last one that ran   *)
(* undisturbed.  What is left over from before the start counts as well:   *)
(* that synchronisation puts everything right.                             *)
RoutesFollowServices ==
    \A n \in Names \ suspect :
       (\A a \in Stirred : Named(handler[a]) # n) => (n \in route <=> n \in LiveNames)

(* No device is given out beyond its whole, except one that two requests   *)
(* had both chosen when the first of them committed.                       *)
NoOvercommit == \A d \in Devices \ contended : Allocated(d, {}) <= 100

(* The answer of get_service_config, for the first allocation in any order.*)
SharesOf(id) == {x \in Ids \X Devices : shares[x[1]].of = id /\ x[2] \in shares[x[1]].on}
ReportedGpus(id) ==
    LET held == SharesOf(id) IN
    IF held = {} THEN {0}
    ELSE {IF shares[x[1]].percent < 100 THEN shares[x[1]].percent ELSE 100 * Cardinality(held) : x \in held}

(* Whatever other requests do or fail at, a live service holds what it was *)
(* last asked for and its config says so: whole devices from one on, part  *)
(* of a single device below - as much as was asked or, by the rounding, a  *)
(* hundredth more - except where two changes of its GPUs ran together.     *)
HoldsWhatWasAsked ==
    \A id \in Ids \ crossed :
       rows[id].state = "live" =>
          /\ Cardinality(SharesOf(id)) = Count(asked[id])
          /\ IF asked[id] < 100 THEN ReportedGpus(id) \in {{asked[id]}, {asked[id] + 1}}
             ELSE ReportedGpus(id) = {100 * Count(asked[id])}

(* A model that a live service serves is not deleted, whichever requests   *)
(* meet, except one that was being taken up when its deletion was decided. *)
ServedModelsAreLive ==
    \A id \in Ids : rows[id].state = "live" => rows[id].models \ blind \subseteq models
=============================================================================
