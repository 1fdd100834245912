------------------------------ MODULE RouteProofs ------------------------------
(***************************************************************************)
(* What TLAPS proves of the files Traefik reads: for any services, workers *)
(* and requests, a name has a route exactly when a live service bears it,  *)
(* but for the names that are suspect.                                     *)
(***************************************************************************)
EXTENDS ServiceApiProofs

-----------------------------------------------------------------------------
(* The invariant *)

Creating(b, pcs) == handler[b] \in Creation /\ handler[b].pc \in pcs
Deleting(b) == handler[b] \in Deletion

(* The database: a row is made once and by its request, live names are     *)
(* unique, and an open insert keeps its name to itself.                    *)
RowsInv ==
    /\ \A b \in Handlers : b > requests => handler[b] = Free
    /\ \A b \in Handlers : b > requests \/ handler[b] \in Creation => rows[b].state = "absent"
    /\ \A i, j \in Ids : rows[i].state = "live" /\ rows[j].state = "live" /\ rows[i].name = rows[j].name
                            => i = j
    /\ \A b \in Handlers : Creating(b, {"route", "commit"}) => handler[b].name \notin LiveNames
    /\ \A b, c \in Handlers : Creating(b, {"route", "commit"}) /\ Creating(c, {"route", "commit"})
                                 /\ handler[b].name = handler[c].name => b = c
    /\ \A b \in Handlers : Deleting(b) => rows[handler[b].id].state # "absent"

(* One delete at a time, of a service that is still live, unless its name  *)
(* is suspect.                                                             *)
DeletesInv ==
    \A b \in Handlers : Deleting(b) /\ Named(handler[b]) \notin suspect =>
       /\ rows[handler[b].id].state = "live"
       /\ \A c \in Handlers : Deleting(c) /\ handler[c].id = handler[b].id => c = b

Made(n) == \E b \in Handlers : Creating(b, {"commit"}) /\ handler[b].name = n
Unmade(n) == \E b \in Handlers : Deleting(b) /\ handler[b].pc = "stamp" /\ Named(handler[b]) = n

(* A route is there for a live service until its delete has removed it,    *)
(* and for one about to be committed.                                      *)
RouteInv == \A n \in Names \ suspect : n \in route <=> (n \in LiveNames /\ ~Unmade(n)) \/ Made(n)

(* What a synchronisation works from holds of all names that are not       *)
(* suspect, and of all names when it is calm; and then it has everything   *)
(* that is wrong on its list.                                              *)
SyncInv ==
    /\ Syncing # {} => \A b \in Stirred : Named(handler[b]) \in suspect
    /\ \A v \in Syncing : \A n \in Names \ suspect : n \in worker[v].live <=> n \in LiveNames
    /\ \A v \in Syncing : worker[v].calm =>
          /\ Stirred = {}
          /\ \A u \in Syncing : worker[u].calm /\ worker[u].live = LiveNames
    /\ \A v \in Workers : worker[v].pc = "sync" =>
          /\ worker[v].add \subseteq worker[v].live
          /\ worker[v].remove \cap worker[v].live = {}
          /\ worker[v].calm => /\ LiveNames \ route \subseteq worker[v].add
                               /\ route \ LiveNames \subseteq worker[v].remove

RoutingInv == RowsInv /\ DeletesInv /\ RouteInv /\ SyncInv

LEMMA RoutingSuffices ==
    ASSUME TypeOK, RoutingInv
    PROVE  RoutesFollowServices
<1> SUFFICES ASSUME NEW n \in Names \ suspect, \A a \in Stirred : Named(handler[a]) # n
             PROVE  n \in route <=> n \in LiveNames
  BY DEF RoutesFollowServices
<1>1. ~Made(n)
  BY DEF Made, Creating, Stirred, Busy, Named, Free, Creation
<1>2. ~Unmade(n)
  BY DEF Unmade, Deleting, Stirred, Busy, Free, Deletion
<1> QED BY <1>1, <1>2 DEF RoutingInv, RouteInv

-----------------------------------------------------------------------------
(* Forms *)

LEMMA Live == \A n : n \in LiveNames <=> \E id \in Ids : rows[id].state = "live" /\ rows[id].name = n
BY DEF LiveNames

LEMMA LiveStays ==
    ASSUME \A id \in Ids : rows'[id].name = rows[id].name /\ rows'[id].state = rows[id].state
    PROVE  LiveNames' = LiveNames
BY DEF LiveNames

LEMMA Apart == Creation \cap Deletion = {}
BY DEF Creation, Deletion

LEMMA StirredForm ==
    \A b : b \in Stirred <=> b \in Handlers /\ (handler[b] \in Creation \/ handler[b] \in Deletion)
BY AtRest DEF Stirred, Busy

LEMMA NamedForms ==
    \A h : /\ h \in Creation => Named(h) = h.name
           /\ h \in Deletion => Named(h) = rows[h.id].name
BY Apart DEF Named

LEMMA DeletionIds == \A h \in Deletion : h.id \in Ids
BY DEF Deletion


(* Steps that leave the names and states of the services alone.            *)
SameServices == \A id \in Ids : rows'[id].name = rows[id].name /\ rows'[id].state = rows[id].state

(* A request that neither creates nor deletes a service moves on.          *)
LEMMA Aside ==
    ASSUME TypeOK, RoutingInv, NEW a \in Handlers, NEW state \in Handler, Goes(a, state),
           handler[a] \notin Creation \cup Deletion, state \notin Creation \cup Deletion,
           SameServices, UNCHANGED <<route, suspect, worker>>,
           (requests' = requests /\ handler[a] # Free) \/ (requests' = a /\ a = requests + 1)
    PROVE  RoutingInv'
<1>1. handler'[a] = state /\ \A b \in Handlers \ {a} : handler'[b] = handler[b]
  BY Moves
<1>2. LiveNames' = LiveNames
  BY LiveStays DEF SameServices
<1>3. \A b \in Handlers : /\ handler'[b] \in Creation <=> handler[b] \in Creation
                          /\ handler'[b] \in Deletion <=> handler[b] \in Deletion
                          /\ handler'[b] \in Creation \cup Deletion => handler'[b] = handler[b]
  BY <1>1
<1>4. \A b \in Handlers : handler'[b] \in Creation \cup Deletion => Named(handler[b])' = Named(handler[b])
  BY <1>3, DeletionIds, Apart DEF Named, SameServices
<1>5. Stirred' = Stirred /\ Syncing' = Syncing
  <2>1. \A b : b \in Stirred' <=> b \in Stirred
    BY <1>3, StirredForm, AtRest DEF Stirred, Busy
  <2> QED BY <2>1 DEF Syncing
<1>6. RowsInv'
  <2>1. \A b \in Handlers : b > requests' => handler'[b] = Free
    BY <1>1 DEF RoutingInv, RowsInv, Handlers, TypeOK
  <2>2. \A b \in Handlers : b > requests' => b > requests
    BY DEF Handlers, TypeOK
  <2> QED BY <1>2, <1>3, <2>1, <2>2, HandlersAreIds, DeletionIds DEF RoutingInv, RowsInv, Creating, Deleting, SameServices
<1>7. DeletesInv'
  BY <1>3, <1>4, DeletionIds DEF RoutingInv, DeletesInv, Deleting, SameServices
<1>8. RouteInv'
  <2>1. \A n : Made(n)' = Made(n) /\ Unmade(n)' = Unmade(n)
    BY <1>3, <1>4 DEF Made, Unmade, Creating, Deleting
  <2> QED BY <1>2, <2>1 DEF RoutingInv, RouteInv
<1>9. SyncInv'
  BY <1>2, <1>3, <1>4, <1>5, StirredForm DEF RoutingInv, SyncInv
<1> QED BY <1>6, <1>7, <1>8, <1>9 DEF RoutingInv

(* Requests end early, by a failure or with their process: what had begun  *)
(* to change becomes suspect.                                              *)
LEMMA Die ==
    ASSUME TypeOK, RoutingInv, NEW dead \in SUBSET Handlers,
           handler' = [b \in Handlers |-> IF b \in dead THEN Free ELSE handler[b]],
           UNCHANGED <<rows, requests>>, suspect \subseteq suspect',
           \A b \in dead : Creating(b, {"commit"}) \/ (Deleting(b) /\ handler[b].pc = "stamp")
                              => Named(handler[b]) \in suspect',
           \A n \in Names \ suspect' : n \in route' <=> n \in route,
           route' = route \/ Stirred # {},
           Syncing' = Syncing, \A v \in Syncing : worker'[v] = worker[v]
    PROVE  RoutingInv'
<1>1. \A b \in Handlers : /\ handler'[b] \in {Free, handler[b]}
                          /\ b \notin dead => handler'[b] = handler[b]
                          /\ handler'[b] \in Creation \cup Deletion => handler'[b] = handler[b] /\ b \notin dead
  BY AtRest
<1>2. LiveNames' = LiveNames /\ \A h : Named(h)' = Named(h)
  BY DEF LiveNames, Named
<1>3. Stirred' \subseteq Stirred
  BY <1>1 DEF Stirred, Busy
<1>4. RowsInv'
  BY <1>1, <1>2 DEF RoutingInv, RowsInv, Creating, Deleting
<1>5. DeletesInv'
  BY <1>1 DEF RoutingInv, DeletesInv, Deleting, Named
<1>6. RouteInv'
  <2>1. ASSUME NEW n \in Names \ suspect' PROVE Made(n)' = Made(n) /\ Unmade(n)' = Unmade(n)
    <3>1. \A b \in dead : ~(Creating(b, {"commit"}) /\ handler[b].name = n)
      BY NamedForms DEF Creating
    <3>2. \A b \in dead : ~(Deleting(b) /\ handler[b].pc = "stamp" /\ Named(handler[b]) = n)
      OBVIOUS
    <3>3. Made(n)' = Made(n)
      BY <1>1, <3>1 DEF Made, Creating
    <3>4. Unmade(n)' = Unmade(n)
      BY <1>1, <3>2 DEF Unmade, Deleting, Named
    <3> QED BY <3>3, <3>4
  <2> QED BY <1>2, <2>1 DEF RoutingInv, RouteInv
<1>7. SyncInv'
  <2>1. \A v \in Workers : worker'[v].pc = "sync" => v \in Syncing
    BY DEF Syncing
  <2>2. \A v \in Syncing : worker[v].calm => route' = route
    BY DEF RoutingInv, SyncInv
  <2>3. Syncing' # {} => \A b \in Stirred' : Named(handler[b])' \in suspect'
    <3>1. \A b \in Stirred' : handler'[b] = handler[b]
      BY <1>1 DEF Stirred, Busy
    <3> QED BY <1>2, <1>3, <3>1 DEF RoutingInv, SyncInv, Named
  <2>4. \A v \in Syncing' : \A n \in Names \ suspect' : n \in worker'[v].live <=> n \in LiveNames'
    BY <1>2 DEF RoutingInv, SyncInv
  <2>5. \A v \in Syncing' : worker'[v].calm =>
          /\ Stirred' = {}
          /\ \A u \in Syncing' : worker'[u].calm /\ worker'[u].live = LiveNames'
    BY <1>2, <1>3 DEF RoutingInv, SyncInv
  <2>6. ASSUME NEW v \in Workers, worker'[v].pc = "sync"
        PROVE  /\ worker'[v].add \subseteq worker'[v].live
               /\ worker'[v].remove \cap worker'[v].live = {}
               /\ worker'[v].calm => /\ LiveNames' \ route' \subseteq worker'[v].add
                                     /\ route' \ LiveNames' \subseteq worker'[v].remove
    <3>1. v \in Syncing /\ worker'[v] = worker[v]
      BY <2>1, <2>6
    <3> QED BY <1>2, <2>2, <2>6, <3>1 DEF RoutingInv, SyncInv
  <2> QED BY <2>3, <2>4, <2>5, <2>6 DEF SyncInv
<1> QED BY <1>4, <1>5, <1>6, <1>7 DEF RoutingInv

(* A request ends.                                                         *)
LEMMA GoesFree ==
    ASSUME TypeOK, NEW a \in Handlers, Goes(a, Free)
    PROVE  /\ handler'[a] = Free /\ handler'[a] \notin Creation \cup Deletion
           /\ \A b \in Handlers \ {a} : handler'[b] = handler[b]
           /\ handler' = [b \in Handlers |-> IF b \in {a} THEN Free ELSE handler[b]]
BY AtRest DEF Goes, TypeOK

LEMMA DieAlone ==
    ASSUME TypeOK, RoutingInv, NEW a \in Handlers, Goes(a, Free),
           UNCHANGED <<rows, requests, worker>>, suspect \subseteq suspect',
           Creating(a, {"commit"}) \/ (Deleting(a) /\ handler[a].pc = "stamp") => Named(handler[a]) \in suspect',
           \A n \in Names \ suspect' : n \in route' <=> n \in route,
           route' = route \/ Stirred # {}
    PROVE  RoutingInv'
<1>1. {a} \in SUBSET Handlers /\ Syncing' = Syncing
  BY DEF Syncing
<1>2. handler' = [b \in Handlers |-> IF b \in {a} THEN Free ELSE handler[b]]
  BY GoesFree
<1>3. \A b \in {a} : Creating(b, {"commit"}) \/ (Deleting(b) /\ handler[b].pc = "stamp")
                         => Named(handler[b]) \in suspect'
  OBVIOUS
<1> QED BY <1>1, <1>2, <1>3, Die

-----------------------------------------------------------------------------
(* Creates and deletes begin *)

LEMMA StirsForm ==
    ASSUME TypeOK, NEW n \in Names, NEW also \in BOOLEAN, Stirs(n, also)
    PROVE  /\ Syncing' = Syncing
           /\ \A v \in Syncing : /\ ~worker'[v].calm /\ worker'[v].pc = worker[v].pc
                                 /\ worker'[v].live = worker[v].live /\ worker'[v].add = worker[v].add
                                 /\ worker'[v].remove = worker[v].remove
           /\ suspect \subseteq suspect'
           /\ Syncing # {} \/ also => n \in suspect'
<1>1. \A v \in Workers : worker'[v] = IF v \in Syncing THEN [worker[v] EXCEPT !.calm = FALSE]
                                      ELSE worker[v]
  BY DEF Stirs
<1>2. \A v \in Workers : worker[v] \in Worker
  BY DEF TypeOK
<1>3. \A v \in Syncing : /\ ~worker'[v].calm /\ worker'[v].pc = worker[v].pc
                         /\ worker'[v].live = worker[v].live /\ worker'[v].add = worker[v].add
                         /\ worker'[v].remove = worker[v].remove
  BY <1>1, <1>2 DEF Syncing, Worker
<1>4. Syncing' = Syncing
  BY <1>1, <1>3 DEF Syncing
<1> QED BY <1>3, <1>4 DEF Stirs

(* A synchronisation that a create or delete breaks into is not calm.      *)
LEMMA Disturb ==
    ASSUME TypeOK, RoutingInv, NEW a \in Handlers, NEW n \in Names, NEW also \in BOOLEAN, Stirs(n, also),
           UNCHANGED <<rows, route>>, Stirred' \subseteq Stirred \cup {a}, Named(handler[a])' = n,
           \A b \in Handlers \ {a} : handler'[b] = handler[b]
    PROVE  SyncInv'
<1>1. LiveNames' = LiveNames /\ \A b \in Handlers \ {a} : Named(handler[b])' = Named(handler[b])
  BY DEF LiveNames, Named
<1>2. Syncing' # {} => \A b \in Stirred' : Named(handler[b])' \in suspect'
  <2>1. Stirred' \subseteq Handlers
    BY DEF Stirred, Busy
  <2> QED BY <1>1, <2>1, StirsForm DEF RoutingInv, SyncInv
<1>3. \A v \in Workers : worker'[v].pc = "sync" => v \in Syncing' /\ v \in Syncing
  <2>1. \A v \in Workers : worker'[v].pc = "sync" => v \in Syncing'
    BY DEF Syncing
  <2> QED BY <2>1, StirsForm
<1> QED BY <1>1, <1>2, <1>3, StirsForm DEF RoutingInv, SyncInv

LEMMA ArrivalForm ==
    ASSUME TypeOK, RoutingInv, NEW a \in Handlers, NEW operation, Arrives(a, operation)
    PROVE  /\ a = requests + 1 /\ requests' = a /\ handler[a] = Free /\ rows[a].state = "absent"
           /\ \A b \in Handlers : b > requests' => b > requests /\ b # a
<1>1. a = requests + 1 /\ requests' = a
  BY Zenon DEF Arrives
<1>2. a > requests /\ \A b \in Handlers : b > requests' => b > requests /\ b # a
  BY <1>1 DEF TypeOK, Handlers
<1> QED BY <1>1, <1>2 DEF RoutingInv, RowsInv

LEMMA CreateRoutes ==
    ASSUME TypeOK, RoutingInv, NEW a \in Handlers, NEW n \in Names, NEW ask \in Asks, BeginCreate(a, n, ask)
    PROVE  RoutingInv'
<1>1. PICK on \in Candidates(ask.gpus, {}) :
         Goes(a, [pc |-> "insert", name |-> n, ask |-> ask, on |-> on])
  BY Zenon DEF BeginCreate
<1> DEFINE s == [pc |-> "insert", name |-> n, ask |-> ask, on |-> on]
<1>2. s \in Creation /\ s.pc = "insert" /\ s.name = n
  BY CandidatesForm, ApiAsks, NextForms
<1> HIDE DEF s
<1>3. handler'[a] = s /\ \A b \in Handlers \ {a} : handler'[b] = handler[b]
  BY <1>1, <1>2, Kinds, Moves DEF s
<1>4. Stirs(n, FALSE) /\ Arrives(a, "create") /\ UNCHANGED <<rows, route>>
  BY Zenon DEF BeginCreate, tables
<1>5. s \notin Deletion /\ handler[a] = Free
  BY <1>2, <1>4, Apart, ArrivalForm
<1>6. LiveNames' = LiveNames /\ \A b \in Handlers \ {a} : Named(handler[b])' = Named(handler[b])
  BY <1>3, <1>4 DEF LiveNames, Named
<1>7. RowsInv'
  <2>1. \A b \in Handlers : Creating(b, {"route", "commit"})' => b # a /\ Creating(b, {"route", "commit"})
    BY <1>2, <1>3 DEF Creating
  <2>2. \A b \in Handlers : Deleting(b)' => b # a /\ Deleting(b)
    BY <1>3, <1>5 DEF Deleting
  <2>3. \A b \in Handlers : b > requests' => handler'[b] = Free
    BY <1>3, <1>4, ArrivalForm DEF RoutingInv, RowsInv
  <2>4. \A b \in Handlers : b > requests' \/ handler'[b] \in Creation => rows'[b].state = "absent"
    BY <1>3, <1>4, ArrivalForm DEF RoutingInv, RowsInv
  <2> QED BY <1>3, <1>4, <1>6, <2>1, <2>2, <2>3, <2>4 DEF RoutingInv, RowsInv
<1>8. DeletesInv'
  <2>1. \A b \in Handlers : Deleting(b)' => b # a /\ Deleting(b)
    BY <1>3, <1>5 DEF Deleting
  <2>2. suspect \subseteq suspect'
    BY <1>4, StirsForm
  <2> QED BY <1>3, <1>4, <1>6, <2>1, <2>2 DEF RoutingInv, DeletesInv
<1>9. RouteInv'
  <2>1. ASSUME NEW k PROVE Made(k)' = Made(k) /\ Unmade(k)' = Unmade(k)
    <3>1. handler[a] \notin Creation \cup Deletion
      BY <1>5, AtRest
    <3>2. Made(k)' = Made(k)
      BY <1>2, <1>3, <3>1 DEF Made, Creating
    <3>3. Unmade(k)' = Unmade(k)
      BY <1>3, <1>5, <1>6, <3>1 DEF Unmade, Deleting
    <3> QED BY <3>2, <3>3
  <2>2. suspect \subseteq suspect'
    BY <1>4, StirsForm
  <2> QED BY <1>4, <1>6, <2>1, <2>2 DEF RoutingInv, RouteInv
<1>10. SyncInv'
  <2>1. Stirred' \subseteq Stirred \cup {a}
    BY <1>3 DEF Stirred, Busy
  <2>2. Named(handler[a])' = n
    BY <1>2, <1>3 DEF Named
  <2> QED BY <1>3, <1>4, <2>1, <2>2, Disturb
<1> QED BY <1>7, <1>8, <1>9, <1>10 DEF RoutingInv

LEMMA BeginDeleteRoutes ==
    ASSUME TypeOK, RoutingInv, NEW a \in Handlers, NEW id \in Ids, BeginDelete(a, id)
    PROVE  RoutingInv'
<1>0. PICK n : n = rows[id].name
  OBVIOUS
<1> DEFINE s == [pc |-> IF rows[id].name \in route THEN "unlink" ELSE "stamp", id |-> id]
           overlapping == {b \in Busy : handler[b] \in Deletion /\ handler[b].id = id}
<1>1. /\ Goes(a, s) /\ rows[id].state = "live" /\ Arrives(a, "delete")
      /\ Stirs(rows[id].name, overlapping # {}) /\ UNCHANGED <<rows, route>>
  BY Zenon DEF BeginDelete, tables
<1>2. s \in Deletion /\ s.id = id /\ (s.pc = "stamp" <=> n \notin route)
  BY <1>0 DEF Deletion
<1>3. n \in Names /\ Stirs(n, overlapping # {})
  BY <1>0, <1>1, RowAt DEF Row
<1>4. \A b \in Handlers : Deleting(b) /\ handler[b].id = id => b \in overlapping
  BY AtRest DEF Deleting, Busy
<1> HIDE DEF s, overlapping
<1>5. handler'[a] = s /\ \A b \in Handlers \ {a} : handler'[b] = handler[b]
  BY <1>1, <1>2, Kinds, Moves
<1>6. s \notin Creation /\ handler[a] = Free /\ handler[a] \notin Creation \cup Deletion
  BY <1>1, <1>2, Apart, AtRest, ArrivalForm
<1>7. LiveNames' = LiveNames /\ \A b \in Handlers \ {a} : Named(handler[b])' = Named(handler[b])
  BY <1>1, <1>5 DEF LiveNames, Named
<1>8. Named(handler[a])' = n
  BY <1>0, <1>1, <1>2, <1>5, <1>6 DEF Named
<1>9. suspect \subseteq suspect' /\ (overlapping # {} => n \in suspect')
  BY <1>3, StirsForm
<1>10. RowsInv'
  <2>1. \A b \in Handlers : handler'[b] \in Creation => b # a /\ handler[b] \in Creation
    BY <1>5, <1>6
  <2>2. \A b \in Handlers : b > requests' => handler'[b] = Free
    BY <1>1, <1>5, ArrivalForm DEF RoutingInv, RowsInv
  <2>3. \A b \in Handlers : b > requests' \/ handler'[b] \in Creation => rows'[b].state = "absent"
    BY <1>1, <2>1, ArrivalForm DEF RoutingInv, RowsInv
  <2>4. \A b \in Handlers : Deleting(b)' => rows'[handler'[b].id].state # "absent"
    BY <1>1, <1>2, <1>5 DEF RoutingInv, RowsInv, Deleting
  <2> QED BY <1>1, <1>5, <1>7, <2>1, <2>2, <2>3, <2>4 DEF RoutingInv, RowsInv, Creating
<1>11. DeletesInv'
  <2> SUFFICES ASSUME NEW b \in Handlers, Deleting(b)', Named(handler[b])' \notin suspect'
               PROVE  /\ rows'[handler'[b].id].state = "live"
                      /\ \A c \in Handlers : Deleting(c)' /\ handler'[c].id = handler'[b].id => c = b
    BY DEF DeletesInv
  <2>1. CASE b = a
    <3>1. overlapping = {}
      BY <1>8, <1>9, <2>1
    <3> QED BY <1>1, <1>2, <1>4, <1>5, <2>1, <3>1 DEF Deleting
  <2>2. CASE b # a
    <3>1. Deleting(b) /\ Named(handler[b]) \notin suspect /\ handler'[b] = handler[b]
      BY <1>5, <1>7, <1>9, <2>2 DEF Deleting
    <3>2. handler[b].id # id
      <4>1. handler[b].id = id => Named(handler[b])' = n
        BY <1>0, <1>7, <2>2, <3>1, NamedForms DEF Deleting
      <4> QED BY <1>4, <1>9, <3>1, <4>1
    <3> QED BY <1>1, <1>2, <1>5, <3>1, <3>2 DEF RoutingInv, DeletesInv, Deleting
  <2> QED BY <2>1, <2>2
<1>12. RouteInv'
  <2>1. \A k : Made(k)' = Made(k)
    BY <1>5, <1>6 DEF Made, Creating
  <2>2. \A k : k # n => Unmade(k)' = Unmade(k)
    BY <1>5, <1>6, <1>7, <1>8 DEF Unmade, Deleting
  <2>3. n \notin suspect' => (Unmade(n)' <=> n \notin route)
    <3> SUFFICES ASSUME n \notin suspect' PROVE Unmade(n)' <=> n \notin route
      OBVIOUS
    <3>1. ~Unmade(n)
      <4> SUFFICES ASSUME NEW b \in Handlers, Deleting(b), Named(handler[b]) = n PROVE FALSE
        BY DEF Unmade
      <4>1. rows[handler[b].id].state = "live" /\ rows[handler[b].id].name = n /\ handler[b].id \in Ids
        BY <1>9, NamedForms, DeletionIds DEF RoutingInv, DeletesInv, Deleting
      <4>2. handler[b].id = id
        BY <1>0, <1>1, <4>1 DEF RoutingInv, RowsInv
      <4> QED BY <1>4, <1>9, <4>2
    <3>2. \A b \in Handlers \ {a} : ~(Deleting(b)' /\ handler'[b].pc = "stamp" /\ Named(handler[b])' = n)
      BY <1>5, <1>7, <3>1 DEF Unmade, Deleting
    <3>3. Deleting(a)' /\ Named(handler[a])' = n /\ (handler'[a].pc = "stamp" <=> n \notin route)
      BY <1>2, <1>5, <1>8 DEF Deleting
    <3> QED BY <3>2, <3>3 DEF Unmade
  <2>4. n \in LiveNames
    BY <1>0, <1>1, Live
  <2>5. n \notin suspect' => ~Made(n)
    BY <2>4 DEF RoutingInv, RowsInv, Made, Creating
  <2> QED BY <1>1, <1>7, <1>9, <2>1, <2>2, <2>3, <2>4, <2>5 DEF RoutingInv, RouteInv
<1>13. SyncInv'
  <2>1. Stirred' \subseteq Stirred \cup {a}
    BY <1>5 DEF Stirred, Busy
  <2> QED BY <1>1, <1>3, <1>5, <1>8, <2>1, Disturb
<1> QED BY <1>10, <1>11, <1>12, <1>13 DEF RoutingInv

-----------------------------------------------------------------------------
(* Creates and deletes go on *)

(* A synchronisation that a create or delete is amidst knows nothing of    *)
(* the name in question.                                                   *)
LEMMA Amid ==
    ASSUME TypeOK, RoutingInv, NEW a \in Stirred, UNCHANGED <<worker, suspect>>,
           Stirred' \subseteq Stirred, \A b \in Stirred' : Named(handler[b])' = Named(handler[b]),
           \A n : n # Named(handler[a]) => (n \in LiveNames' <=> n \in LiveNames)
    PROVE  SyncInv'
<1>1. Syncing' = Syncing /\ \A v \in Syncing : ~worker[v].calm
  BY DEF Syncing, RoutingInv, SyncInv
<1>2. \A v \in Workers : worker[v].pc = "sync" => v \in Syncing
  BY DEF Syncing
<1>3. Syncing' # {} => \A b \in Stirred' : Named(handler[b])' \in suspect'
  BY <1>1 DEF RoutingInv, SyncInv
<1>4. \A v \in Syncing' : \A n \in Names \ suspect' : n \in worker'[v].live <=> n \in LiveNames'
  BY <1>1 DEF RoutingInv, SyncInv
<1> QED BY <1>1, <1>2, <1>3, <1>4 DEF RoutingInv, SyncInv

(* A create goes on.                                                       *)
LEMMA CreateGoesOn ==
    ASSUME TypeOK, RoutingInv, NEW a \in Handlers, handler[a] \in Creation,
           NEW pc \in {"route", "commit"}, Goes(a, [handler[a] EXCEPT !.pc = pc])
    PROVE  /\ handler'[a] \in Creation /\ handler'[a].pc = pc /\ handler'[a].name = handler[a].name
           /\ handler'[a] \notin Deletion
           /\ \A b \in Handlers \ {a} : handler'[b] = handler[b]
<1> DEFINE s == [handler[a] EXCEPT !.pc = pc]
<1>1. s \in Creation /\ s.pc = pc /\ s.name = handler[a].name
  BY DEF Creation
<1> HIDE DEF s
<1>2. handler'[a] = s /\ \A b \in Handlers \ {a} : handler'[b] = handler[b]
  BY <1>1, Kinds, Moves DEF s
<1> QED BY <1>1, <1>2, Apart

LEMMA InsertRoutes ==
    ASSUME TypeOK, RoutingInv, NEW a \in Handlers, Insert(a)
    PROVE  RoutingInv'
<1> DEFINE h == handler[a]
<1>0. h.pc = "insert" /\ h \in Creation
  BY HandlerAt, FormOfHandler DEF Insert
<1>1. UNCHANGED <<rows, route, worker, requests, suspect>>
  BY Zenon DEF Insert, tables, bounds
<1>2. CASE Goes(a, Free)
  <2>1. ~Creating(a, {"commit"}) /\ ~Deleting(a)
    BY <1>0, Apart DEF Creating, Deleting
  <2> QED BY <1>1, <1>2, <2>1, DieAlone
<1>3. CASE h.name \notin LiveNames /\ Goes(a, [h EXCEPT !.pc = "route"])
  <2>1. /\ handler'[a] \in Creation /\ handler'[a].pc = "route" /\ handler'[a].name = h.name
        /\ handler'[a] \notin Deletion
        /\ \A b \in Handlers \ {a} : handler'[b] = handler[b]
    BY <1>0, <1>3, CreateGoesOn
  <2>2. \A b \in Busy : ~(handler[b].pc \in {"route", "commit"} /\ handler[b].name = h.name)
    BY Zenon DEF Insert
  <2>3. LiveNames' = LiveNames /\ \A b \in Handlers : Named(handler[b])' = Named(handler[b])
    <3>1. Named(handler[a])' = Named(handler[a])
      BY <1>0, <2>1 DEF Named
    <3> QED BY <1>1, <2>1, <3>1 DEF LiveNames, Named
  <2>4. h \notin Deletion
    BY <1>0, Apart
  <2>5. RowsInv'
    <3>1. \A b \in Handlers \ {a} : Creating(b, {"route", "commit"}) => handler[b].name # h.name
      BY <2>2, AtRest DEF Creating, Busy
    <3> QED BY <1>0, <1>1, <1>3, <2>1, <2>3, <3>1, AtRest DEF RoutingInv, RowsInv, Creating, Deleting
  <2>6. DeletesInv'
    BY <1>1, <2>1, <2>3 DEF RoutingInv, DeletesInv, Deleting
  <2>7. RouteInv'
    <3>1. \A n : Made(n)' = Made(n) /\ Unmade(n)' = Unmade(n)
      BY <1>0, <2>1, <2>3, <2>4 DEF Made, Unmade, Creating, Deleting
    <3> QED BY <1>1, <2>3, <3>1 DEF RoutingInv, RouteInv
  <2>8. SyncInv'
    <3>1. a \in Stirred /\ Stirred' \subseteq Stirred
      <4>1. a \in Stirred
        BY <1>0, StirredForm
      <4> QED BY <2>1, <4>1 DEF Stirred, Busy
    <3>2. \A b \in Stirred' : b \in Handlers
      BY DEF Stirred, Busy
    <3> QED BY <1>1, <2>3, <3>1, <3>2, Amid
  <2> QED BY <2>5, <2>6, <2>7, <2>8 DEF RoutingInv
<1> QED BY <1>2, <1>3 DEF Insert

LEMMA WriteRoutes ==
    ASSUME TypeOK, RoutingInv, NEW a \in Handlers, WriteRoute(a)
    PROVE  RoutingInv'
<1> DEFINE h == handler[a]
<1>0. h.pc = "route" /\ h \in Creation
  BY HandlerAt, FormOfHandler DEF WriteRoute
<1>1. UNCHANGED <<rows, worker, requests, suspect>> /\ route' = route \cup {h.name} /\ Goes(a, [h EXCEPT !.pc = "commit"])
  BY Zenon DEF WriteRoute, tables, bounds
<1>2. /\ handler'[a] \in Creation /\ handler'[a].pc = "commit" /\ handler'[a].name = h.name
      /\ handler'[a] \notin Deletion
      /\ \A b \in Handlers \ {a} : handler'[b] = handler[b]
  BY <1>0, <1>1, CreateGoesOn
<1>3. LiveNames' = LiveNames /\ \A b \in Handlers : Named(handler[b])' = Named(handler[b])
  <2>1. Named(handler[a])' = Named(handler[a])
    BY <1>0, <1>2 DEF Named
  <2> QED BY <1>1, <1>2, <2>1 DEF LiveNames, Named
<1>4. h \notin Deletion
  BY <1>0, Apart
<1>5. RowsInv'
  BY <1>0, <1>1, <1>2, <1>3, AtRest DEF RoutingInv, RowsInv, Creating, Deleting
<1>6. DeletesInv'
  BY <1>1, <1>2, <1>3 DEF RoutingInv, DeletesInv, Deleting
<1>7. RouteInv'
  <2>1. \A n : Unmade(n)' = Unmade(n)
    BY <1>0, <1>2, <1>3, <1>4 DEF Unmade, Deleting
  <2>2. \A n : Made(n)' = (Made(n) \/ n = h.name)
    BY <1>0, <1>2 DEF Made, Creating
  <2> QED BY <1>1, <1>3, <2>1, <2>2 DEF RoutingInv, RouteInv
<1>8. SyncInv'
  <2>1. a \in Stirred
    BY <1>0, StirredForm
  <2>2. Stirred' \subseteq Stirred
    BY <1>2, <2>1 DEF Stirred, Busy
  <2>3. \A b \in Stirred' : b \in Handlers
    BY DEF Stirred, Busy
  <2> QED BY <1>1, <1>3, <2>1, <2>2, <2>3, Amid
<1> QED BY <1>5, <1>6, <1>7, <1>8 DEF RoutingInv

LEMMA CommitCreateRoutes ==
    ASSUME TypeOK, RoutingInv, NEW a \in Handlers, CommitCreate(a)
    PROVE  RoutingInv'
<1> DEFINE h == handler[a]
<1>0. h.pc = "commit" /\ h \in Creation /\ h \notin Deletion /\ h.name \in Names
  <2>1. h.pc = "commit" /\ h \in Creation
    BY HandlerAt, FormOfHandler DEF CommitCreate
  <2> QED BY <2>1, Apart DEF Creation
<1>1. /\ UNCHANGED <<route, worker, requests, suspect>> /\ Goes(a, Free)
      /\ rows' = [rows EXCEPT ![a] = [name |-> h.name, state |-> "live", models |-> h.ask.models]]
  BY Zenon DEF CommitCreate, bounds
<1>2. handler'[a] = Free /\ handler'[a] \notin Creation \cup Deletion /\ \A b \in Handlers \ {a} : handler'[b] = handler[b]
  BY <1>1, GoesFree
<1>3. a \in Ids /\ rows'[a].name = h.name /\ rows'[a].state = "live" /\ \A id \in Ids \ {a} : rows'[id] = rows[id]
  BY <1>1, HandlersAreIds DEF TypeOK
<1>4. rows[a].state = "absent"
  BY <1>0 DEF RoutingInv, RowsInv
<1>5. \A n : n \in LiveNames' <=> n \in LiveNames \/ n = h.name
  <2>1. \A n : n \in LiveNames' <=> \E id \in Ids : rows'[id].state = "live" /\ rows'[id].name = n
    BY DEF LiveNames
  <2> QED BY <1>3, <1>4, <2>1, Live
<1>6. \A b \in Handlers : Deleting(b) => handler[b].id \in Ids \ {a}
  BY <1>4, DeletionIds DEF RoutingInv, RowsInv, Deleting
<1>7. \A b \in Handlers : Deleting(b)' => Deleting(b) /\ b # a
  BY <1>2 DEF Deleting
<1>8. \A b \in Handlers : b # a /\ (handler[b] \in Creation \/ handler[b] \in Deletion)
                             => Named(handler[b])' = Named(handler[b])
  BY <1>2, <1>3, <1>6 DEF Named, Deleting
<1>9. h.name \notin LiveNames
  BY <1>0 DEF RoutingInv, RowsInv, Creating
<1>10. RowsInv'
  <2>1. \A b \in Handlers : b > requests' => handler'[b] = Free
    BY <1>1, <1>2 DEF RoutingInv, RowsInv
  <2>2. \A b \in Handlers : b > requests' \/ handler'[b] \in Creation => rows'[b].state = "absent"
    <3>1. ~(a > requests)
      BY <1>0, AtRest DEF RoutingInv, RowsInv
    <3> QED BY <1>1, <1>2, <1>3, <3>1, HandlersAreIds DEF RoutingInv, RowsInv
  <2>3. \A i, j \in Ids : rows'[i].state = "live" /\ rows'[j].state = "live" /\ rows'[i].name = rows'[j].name
                             => i = j
    BY <1>3, <1>9, Live DEF RoutingInv, RowsInv
  <2>4. \A b \in Handlers : Creating(b, {"route", "commit"})' =>
           b # a /\ Creating(b, {"route", "commit"}) /\ handler'[b] = handler[b] /\ handler[b].name # h.name
    BY <1>0, <1>2 DEF RoutingInv, RowsInv, Creating
  <2>5. \A b \in Handlers : Deleting(b)' => rows'[handler'[b].id].state # "absent"
    BY <1>2, <1>3, <1>6, <1>7 DEF RoutingInv, RowsInv
  <2> QED BY <1>5, <2>1, <2>2, <2>3, <2>4, <2>5 DEF RoutingInv, RowsInv
<1>11. DeletesInv'
  BY <1>1, <1>2, <1>3, <1>6, <1>7, <1>8 DEF RoutingInv, DeletesInv, Deleting
<1>12. RouteInv'
  <2>1. \A n : Unmade(n)' = Unmade(n)
    BY <1>0, <1>2, <1>7, <1>8 DEF Unmade, Deleting
  <2>2. \A n : Made(n) <=> Made(n)' \/ n = h.name
    BY <1>0, <1>2 DEF Made, Creating
  <2>3. h.name \notin suspect => ~Unmade(h.name)
    <3> SUFFICES ASSUME h.name \notin suspect, NEW b \in Handlers, Deleting(b), Named(handler[b]) = h.name
                 PROVE  FALSE
      BY DEF Unmade
    <3>1. rows[handler[b].id].state = "live" /\ rows[handler[b].id].name = h.name /\ handler[b].id \in Ids
      BY NamedForms, DeletionIds DEF RoutingInv, DeletesInv, Deleting
    <3> QED BY <1>9, <3>1, Live
  <2> QED BY <1>1, <1>5, <2>1, <2>2, <2>3 DEF RoutingInv, RouteInv
<1>13. SyncInv'
  <2>1. a \in Stirred /\ Named(handler[a]) = h.name
    BY <1>0, StirredForm, NamedForms
  <2>2. \A b \in Stirred' : b \in Handlers /\ b # a /\ handler'[b] = handler[b]
                            /\ (handler[b] \in Creation \/ handler[b] \in Deletion)
    BY <1>2 DEF Stirred, Busy
  <2>3. Stirred' \subseteq Stirred
    BY <2>2, StirredForm
  <2> QED BY <1>1, <1>5, <1>8, <2>1, <2>2, <2>3, Amid
<1> QED BY <1>10, <1>11, <1>12, <1>13 DEF RoutingInv

LEMMA DeleteAt ==
    ASSUME TypeOK, RoutingInv, NEW a \in Handlers, handler[a].pc \in {"unlink", "stamp"}
    PROVE  /\ Deleting(a) /\ handler[a] \in Deletion /\ handler[a] \notin Creation
           /\ handler[a].id \in Ids /\ Named(handler[a]) = rows[handler[a].id].name
           /\ Named(handler[a]) \in Names /\ a \in Stirred
           /\ Named(handler[a]) \notin suspect => Named(handler[a]) \in LiveNames
           /\ Named(handler[a]) \notin suspect =>
                 \A b \in Handlers : Deleting(b) /\ Named(handler[b]) = Named(handler[a]) => b = a
<1>1. Deleting(a) /\ handler[a] \in Deletion /\ handler[a] \notin Creation /\ handler[a].id \in Ids
  BY HandlerAt, FormOfHandler, Apart, DeletionIds DEF Deleting
<1>2. Named(handler[a]) = rows[handler[a].id].name /\ Named(handler[a]) \in Names
  BY <1>1, NamedForms, RowAt DEF Row
<1>3. Named(handler[a]) \notin suspect => rows[handler[a].id].state = "live"
  BY <1>1 DEF RoutingInv, DeletesInv
<1>4. ASSUME Named(handler[a]) \notin suspect, NEW b \in Handlers, Deleting(b), Named(handler[b]) = Named(handler[a])
      PROVE  b = a
  <2>1. rows[handler[b].id].state = "live" /\ handler[b].id \in Ids /\ Named(handler[b]) = rows[handler[b].id].name
    BY <1>4, NamedForms, DeletionIds DEF RoutingInv, DeletesInv, Deleting
  <2>2. handler[b].id = handler[a].id
    BY <1>1, <1>2, <1>3, <1>4, <2>1 DEF RoutingInv, RowsInv
  <2> QED BY <1>1, <1>4, <2>2 DEF RoutingInv, DeletesInv
<1> QED BY <1>1, <1>2, <1>3, <1>4, Live, StirredForm

LEMMA UnlinkRoutes ==
    ASSUME TypeOK, RoutingInv, NEW a \in Handlers, Unlink(a)
    PROVE  RoutingInv'
<1> DEFINE h == handler[a]
<1>0. PICK n : n = Named(h)
  OBVIOUS
<1>1. /\ h.pc = "unlink" /\ UNCHANGED <<rows, worker, requests, suspect>> /\ route' = route \ {rows[h.id].name}
      /\ Goes(a, IF rows[h.id].name \in route THEN [h EXCEPT !.pc = "stamp"] ELSE Free)
  BY Zenon DEF Unlink, tables, bounds
<1>2. n = rows[h.id].name /\ n \in Names /\ Deleting(a) /\ h \in Deletion /\ h \notin Creation
  BY <1>0, <1>1, DeleteAt
<1>3. CASE n \notin route
  BY <1>1, <1>2, <1>3, DieAlone DEF Creating, Deleting
<1>4. CASE n \in route
  <2> DEFINE s == [h EXCEPT !.pc = "stamp"]
  <2>1. s \in Deletion /\ s.pc = "stamp" /\ s.id = h.id
    BY <1>2 DEF Deletion
  <2>2. Goes(a, s)
    BY <1>1, <1>2, <1>4
  <2> HIDE DEF s
  <2>3. handler'[a] = s /\ s \notin Creation /\ \A b \in Handlers \ {a} : handler'[b] = handler[b]
    BY <2>1, <2>2, Kinds, Apart, Moves
  <2>4. LiveNames' = LiveNames /\ \A b \in Handlers : Named(handler[b])' = Named(handler[b])
    <3>1. Named(handler[a])' = Named(handler[a])
      BY <1>1, <1>2, <2>1, <2>3 DEF Named
    <3> QED BY <1>1, <2>3, <3>1 DEF LiveNames, Named
  <2>5. RowsInv'
    BY <1>1, <1>2, <2>1, <2>3, <2>4, AtRest DEF RoutingInv, RowsInv, Creating, Deleting
  <2>6. DeletesInv'
    <3>1. \A b \in Handlers : Deleting(b)' <=> Deleting(b)
      BY <1>2, <2>1, <2>3 DEF Deleting
    <3>2. \A b \in Handlers : handler'[b].id = handler[b].id
      BY <2>1, <2>3
    <3> QED BY <1>1, <2>4, <3>1, <3>2 DEF RoutingInv, DeletesInv
  <2>7. RouteInv'
    <3>1. \A k : Made(k)' = Made(k)
      BY <1>2, <2>3 DEF Made, Creating
    <3>2. handler'[a] \in Deletion /\ handler'[a].pc = "stamp" /\ rows'[handler'[a].id].name = n
      BY <1>1, <1>2, <2>1, <2>3
    <3>3. \A k : Unmade(k)' <=> Unmade(k) \/ k = n
      BY <1>0, <1>2, <2>3, <2>4, <3>2 DEF Unmade, Deleting, Named
    <3>4. n \notin suspect => ~Made(n)
      BY <1>0, <1>1, DeleteAt DEF RoutingInv, RowsInv, Made, Creating
    <3> QED BY <1>1, <1>2, <2>4, <3>1, <3>3, <3>4 DEF RoutingInv, RouteInv
  <2>8. SyncInv'
    <3>1. a \in Stirred
      BY <1>1, DeleteAt
    <3>2. Stirred' \subseteq Stirred
      BY <2>3, <3>1 DEF Stirred, Busy
    <3>3. \A b \in Stirred' : b \in Handlers
      BY DEF Stirred, Busy
    <3> QED BY <1>1, <2>4, <3>1, <3>2, <3>3, Amid
  <2> QED BY <2>5, <2>6, <2>7, <2>8 DEF RoutingInv
<1> QED BY <1>3, <1>4

LEMMA StampRoutes ==
    ASSUME TypeOK, RoutingInv, NEW a \in Handlers, Stamp(a)
    PROVE  RoutingInv'
<1> DEFINE h == handler[a]
<1>0. PICK n : n = Named(h)
  OBVIOUS
<1>1. /\ h.pc = "stamp" /\ Goes(a, Free) /\ rows' = [rows EXCEPT ![h.id].state = "deleted"]
      /\ UNCHANGED <<route, worker, requests, suspect>>
  BY Zenon DEF Stamp, bounds
<1>2. n = rows[h.id].name /\ n \in Names /\ Deleting(a) /\ h \in Deletion /\ h \notin Creation /\ h.id \in Ids
  BY <1>0, <1>1, DeleteAt
<1>3. handler'[a] = Free /\ handler'[a] \notin Creation \cup Deletion /\ \A b \in Handlers \ {a} : handler'[b] = handler[b]
  BY <1>1, GoesFree
<1>4. /\ rows'[h.id].name = n /\ rows'[h.id].state = "deleted"
      /\ \A id \in Ids : rows'[id].name = rows[id].name /\ (id # h.id => rows'[id] = rows[id])
  BY <1>1, <1>2 DEF TypeOK, Row
<1>5. \A b \in Handlers \ {a} : handler[b] \in Creation \/ handler[b] \in Deletion
                                  => Named(handler[b])' = Named(handler[b])
  BY <1>3, <1>4, DeletionIds DEF Named
<1>6. \A k : k \in LiveNames' <=> \E id \in Ids : rows'[id].state = "live" /\ rows'[id].name = k
  BY DEF LiveNames
<1>7. \A k : (k \in LiveNames' => k \in LiveNames) /\ (k # n /\ k \in LiveNames => k \in LiveNames')
  BY <1>2, <1>4, <1>6, Live
<1>8. n \notin suspect => n \in LiveNames /\ n \notin LiveNames'
  <2> SUFFICES ASSUME n \notin suspect PROVE n \in LiveNames /\ n \notin LiveNames'
    OBVIOUS
  <2>1. rows[h.id].state = "live"
    BY <1>0, <1>2 DEF RoutingInv, DeletesInv
  <2>2. \A id \in Ids : rows[id].state = "live" /\ rows[id].name = n => id = h.id
    BY <1>2, <2>1 DEF RoutingInv, RowsInv
  <2> QED BY <1>2, <1>4, <1>6, <2>1, <2>2, Live
<1>9. RowsInv'
  <2>1. \A b \in Handlers : Deleting(b)' => Deleting(b) /\ b # a /\ handler'[b] = handler[b]
    BY <1>3 DEF Deleting
  <2>2. \A b \in Handlers : handler'[b] \in Creation => handler[b] \in Creation /\ b # a /\ handler'[b] = handler[b]
    BY <1>3
  <2>3. \A id \in Ids : (rows[id].state = "absent" => rows'[id].state = "absent" \/ id = h.id)
                        /\ (rows[id].state # "absent" => rows'[id].state # "absent")
                        /\ (rows'[id].state = "live" => rows[id].state = "live")
    BY <1>4
  <2>4. rows[h.id].state # "absent"
    BY <1>2 DEF RoutingInv, RowsInv
  <2>5. \A b \in Handlers : b > requests' => handler'[b] = Free
    BY <1>1, <1>3 DEF RoutingInv, RowsInv
  <2>6. \A b \in Handlers : b > requests' \/ handler'[b] \in Creation => rows'[b].state = "absent"
    BY <1>1, <2>2, <2>3, <2>4, HandlersAreIds DEF RoutingInv, RowsInv
  <2>7. \A b \in Handlers : Deleting(b)' => rows'[handler'[b].id].state # "absent"
    BY <2>1, <2>3, DeletionIds DEF RoutingInv, RowsInv, Deleting
  <2> QED BY <1>4, <1>7, <2>2, <2>3, <2>5, <2>6, <2>7 DEF RoutingInv, RowsInv, Creating
<1>10. DeletesInv'
  <2> SUFFICES ASSUME NEW b \in Handlers, Deleting(b)', Named(handler[b])' \notin suspect'
               PROVE  /\ rows'[handler'[b].id].state = "live"
                      /\ \A c \in Handlers : Deleting(c)' /\ handler'[c].id = handler'[b].id => c = b
    BY DEF DeletesInv
  <2>1. \A c \in Handlers : Deleting(c)' => Deleting(c) /\ c # a /\ handler'[c] = handler[c]
    BY <1>3 DEF Deleting
  <2>2. Named(handler[b]) \notin suspect
    BY <1>1, <1>5, <2>1 DEF Deleting
  <2>3. handler[b].id # h.id
    BY <1>2, <2>1, <2>2 DEF RoutingInv, DeletesInv
  <2> QED BY <1>4, <2>1, <2>2, <2>3, DeletionIds DEF RoutingInv, DeletesInv, Deleting
<1>11. RouteInv'
  <2>1. \A k : Made(k)' = Made(k)
    BY <1>2, <1>3 DEF Made, Creating
  <2>2. \A k : k # n => Unmade(k)' = Unmade(k)
    BY <1>0, <1>3, <1>5 DEF Unmade, Deleting
  <2>3. Unmade(n)
    BY <1>0, <1>1, <1>2 DEF Unmade
  <2>4. n \notin suspect => ~Made(n)
    BY <1>8 DEF RoutingInv, RowsInv, Made, Creating
  <2> QED BY <1>1, <1>7, <1>8, <2>1, <2>2, <2>3, <2>4 DEF RoutingInv, RouteInv
<1>12. SyncInv'
  <2>1. a \in Stirred
    BY <1>1, DeleteAt
  <2>2. \A b \in Stirred' : b \in Handlers /\ b # a /\ handler'[b] = handler[b]
                            /\ (handler[b] \in Creation \/ handler[b] \in Deletion)
    BY <1>3 DEF Stirred, Busy
  <2>3. Stirred' \subseteq Stirred
    BY <2>2, StirredForm
  <2> QED BY <1>0, <1>1, <1>5, <1>7, <2>1, <2>2, <2>3, Amid
<1> QED BY <1>9, <1>10, <1>11, <1>12 DEF RoutingInv

LEMMA FailuresRoute ==
    ASSUME TypeOK, RoutingInv, NEW a \in Handlers, WriteRouteFails(a) \/ CommitFails(a)
    PROVE  RoutingInv'
<1> DEFINE h == handler[a]
<1>1. CASE WriteRouteFails(a)
  <2>1. /\ h.pc = "route" /\ route' \in {route, route \cup {h.name}} /\ suspect' = suspect \cup {h.name}
        /\ Goes(a, Free) /\ UNCHANGED <<rows, requests, worker>>
    BY <1>1, Zenon DEF WriteRouteFails, tables
  <2>2. h \in Creation
    BY <2>1, HandlerAt, FormOfHandler
  <2>3. Stirred # {} /\ ~Creating(a, {"commit"}) /\ ~Deleting(a)
    BY <2>1, <2>2, StirredForm, Apart DEF Creating, Deleting
  <2> QED BY <2>1, <2>3, DieAlone
<1>2. CASE CommitFails(a)
  <2>1. /\ suspect' = IF h.pc \in {"commit", "stamp"} THEN suspect \cup {Named(h)} ELSE suspect
        /\ Goes(a, Free) /\ UNCHANGED <<rows, requests, worker, route>>
    BY <1>2, Zenon DEF CommitFails, tables
  <2>2. Creating(a, {"commit"}) \/ (Deleting(a) /\ handler[a].pc = "stamp") => Named(handler[a]) \in suspect'
    BY <2>1 DEF Creating
  <2> QED BY <2>1, <2>2, DieAlone
<1> QED BY <1>1, <1>2

-----------------------------------------------------------------------------
(* Workers *)

(* A worker reads the services, or lists the routes: what it works from is *)
(* right but for suspect names, and nobody's names or routes change.       *)
LEMMA ReadRoutes ==
    ASSUME TypeOK, RoutingInv, NEW w \in Workers, ReadServices(w)
    PROVE  RoutingInv'
<1>1. /\ worker[w] = Down /\ UNCHANGED <<rows, route, handler, requests>>
      /\ suspect' = suspect \cup {Named(handler[a]) : a \in Stirred}
  BY Zenon DEF ReadServices, tables, bounds
<1>2. PICK calm \in BOOLEAN :
         /\ calm = (Stirred = {} /\ \A v \in Syncing : worker[v].calm)
         /\ worker' = [worker EXCEPT ![w] = [Down EXCEPT !.pc = "list", !.live = LiveNames, !.calm = calm]]
  BY Zenon DEF ReadServices
<1>3. worker'[w].pc = "list" /\ worker'[w].live = LiveNames /\ worker'[w].calm = calm
  <2> DEFINE p == [Down EXCEPT !.pc = "list", !.live = LiveNames, !.calm = calm]
  <2>1. p.pc = "list" /\ p.live = LiveNames /\ p.calm = calm
    BY DEF Down
  <2> HIDE DEF p
  <2>2. worker'[w] = p
    BY <1>2 DEF TypeOK, p
  <2> QED BY <2>1, <2>2
<1>4. \A v \in Workers \ {w} : worker'[v] = worker[v]
  BY <1>2 DEF TypeOK
<1>5. w \notin Syncing /\ Syncing' = Syncing \cup {w}
  BY <1>1, <1>3, <1>4 DEF Syncing, Down
<1>6. LiveNames' = LiveNames /\ Stirred' = Stirred /\ \A h : Named(h)' = Named(h)
  BY <1>1 DEF LiveNames, Stirred, Busy, Named
<1>7. RowsInv' /\ DeletesInv' /\ RouteInv'
  <2>1. \A b \in Handlers : Creating(b, {"commit"})' = Creating(b, {"commit"}) /\ Deleting(b)' = Deleting(b)
    BY <1>1 DEF Creating, Deleting
  <2>2. RowsInv'
    BY <1>1, <1>6 DEF RoutingInv, RowsInv, Creating, Deleting
  <2>3. DeletesInv'
    BY <1>1, <1>6 DEF RoutingInv, DeletesInv, Deleting
  <2>4. RouteInv'
    BY <1>1, <1>6 DEF RoutingInv, RouteInv, Made, Unmade, Creating, Deleting
  <2> QED BY <2>2, <2>3, <2>4
<1>8. SyncInv'
  <2>1. Syncing' # {} => \A b \in Stirred' : Named(handler[b])' \in suspect'
    BY <1>1, <1>6
  <2>2. \A v \in Syncing' : \A n \in Names \ suspect' : n \in worker'[v].live <=> n \in LiveNames'
    BY <1>1, <1>3, <1>4, <1>5, <1>6 DEF RoutingInv, SyncInv, Syncing
  <2>3. ASSUME NEW v \in Syncing', worker'[v].calm
        PROVE  Stirred = {} /\ \A u \in Syncing : worker[u].calm /\ worker[u].live = LiveNames
    <3>1. CASE v = w
      BY <1>2, <1>3, <2>3, <3>1 DEF RoutingInv, SyncInv
    <3>2. CASE v # w
      <4>1. v \in Syncing /\ worker[v].calm
        BY <1>4, <1>5, <2>3, <3>2 DEF Syncing
      <4> QED BY <4>1 DEF RoutingInv, SyncInv
    <3> QED BY <3>1, <3>2
  <2>4. ASSUME NEW v \in Syncing', worker'[v].calm
        PROVE  /\ Stirred' = {}
               /\ \A u \in Syncing' : worker'[u].calm /\ worker'[u].live = LiveNames'
    <3>1. calm
      BY <1>2, <2>3, <2>4
    <3> QED BY <1>3, <1>4, <1>5, <1>6, <2>3, <2>4, <3>1 DEF Syncing
  <2>5. \A v \in Workers : worker'[v].pc = "sync" => v # w /\ worker'[v] = worker[v]
    BY <1>3, <1>4
  <2> QED BY <1>1, <1>6, <2>1, <2>2, <2>4, <2>5 DEF RoutingInv, SyncInv
<1> QED BY <1>7, <1>8 DEF RoutingInv

(* Steps of workers that leave services, requests and suspects alone.      *)
LEMMA Unstirred ==
    ASSUME UNCHANGED <<rows, handler, requests, suspect>>
    PROVE  /\ LiveNames' = LiveNames /\ Stirred' = Stirred /\ \A h : Named(h)' = Named(h)
           /\ RoutingInv => RowsInv' /\ DeletesInv'
           /\ \A n : Made(n)' = Made(n) /\ Unmade(n)' = Unmade(n)
<1>1. LiveNames' = LiveNames /\ Stirred' = Stirred /\ \A h : Named(h)' = Named(h)
  BY DEF LiveNames, Stirred, Busy, Named
<1>2. RoutingInv => RowsInv'
  BY <1>1 DEF RoutingInv, RowsInv, Creating, Deleting
<1>3. RoutingInv => DeletesInv'
  BY <1>1 DEF RoutingInv, DeletesInv, Deleting
<1>4. \A n : Made(n)' = Made(n) /\ Unmade(n)' = Unmade(n)
  BY <1>1 DEF Made, Unmade, Creating, Deleting
<1> QED BY <1>1, <1>2, <1>3, <1>4

LEMMA ListRoute ==
    ASSUME TypeOK, RoutingInv, NEW w \in Workers, ListRoutes(w)
    PROVE  RoutingInv'
<1> DEFINE p == worker[w]
           next == IF route # {} /\ p.live = {} THEN Up
                   ELSE [p EXCEPT !.pc = "sync", !.add = p.live, !.remove = route \ p.live]
<1>1. /\ p.pc = "list" /\ worker' = [worker EXCEPT ![w] = next]
      /\ UNCHANGED <<rows, route, handler, requests, suspect>>
  BY Zenon DEF ListRoutes, tables, bounds
<1>2. p \in Worker
  BY DEF TypeOK
<1>3. next.pc # "list" /\ (next.pc = "sync" =>
        /\ next.live = p.live /\ next.calm = p.calm /\ next.add = p.live /\ next.remove = route \ p.live)
  <2>1. CASE next = Up
    BY <2>1 DEF Up, Down
  <2>2. CASE next = [p EXCEPT !.pc = "sync", !.add = p.live, !.remove = route \ p.live]
    BY <1>2, <2>2 DEF Worker
  <2> QED BY <2>1, <2>2
<1>4. worker'[w] = next /\ \A v \in Workers \ {w} : worker'[v] = worker[v]
  BY <1>1 DEF TypeOK
<1>5. Syncing' \subseteq Syncing /\ w \in Syncing /\ \A v \in Syncing' : worker'[v].live = worker[v].live /\ worker'[v].calm = worker[v].calm
  <2> HIDE DEF next
  <2> QED BY <1>1, <1>3, <1>4 DEF Syncing
<1>6. RouteInv'
  BY <1>1, Unstirred DEF RoutingInv, RouteInv
<1>7. SyncInv'
  <2>1. ASSUME NEW v \in Workers, worker'[v].pc = "sync"
        PROVE  /\ worker'[v].add \subseteq worker'[v].live
               /\ worker'[v].remove \cap worker'[v].live = {}
               /\ worker'[v].calm => /\ LiveNames' \ route' \subseteq worker'[v].add
                                     /\ route' \ LiveNames' \subseteq worker'[v].remove
    <3>1. CASE v # w
      BY <1>1, <1>4, <2>1, <3>1, Unstirred DEF RoutingInv, SyncInv
    <3>2. CASE v = w
      <4>1. next.pc = "sync"
        BY <1>4, <2>1, <3>2
      <4> HIDE DEF next
      <4>2. /\ worker'[v].live = p.live /\ worker'[v].calm = p.calm /\ worker'[v].add = p.live
            /\ worker'[v].remove = route \ p.live
        BY <1>3, <1>4, <3>2, <4>1
      <4>3. p.calm => p.live = LiveNames
        BY <1>5 DEF RoutingInv, SyncInv
      <4> QED BY <1>1, <4>2, <4>3, Unstirred
    <3> QED BY <3>1, <3>2
  <2> HIDE DEF next
  <2> QED BY <1>1, <1>5, <2>1, Unstirred DEF RoutingInv, SyncInv
<1> QED BY <1>1, <1>6, <1>7, Unstirred DEF RoutingInv

(* A synchronisation changes a route that is wrong, never one that is      *)
(* right: where no name is suspect it finds nothing to do.                 *)
LEMMA SyncChanges ==
    ASSUME TypeOK, RoutingInv, NEW w \in Workers, SyncAdds(w) \/ SyncRemoves(w)
    PROVE  RoutingInv'
<1> DEFINE p == worker[w]
<1>0. p \in Worker /\ p.pc = "sync" /\ w \in Syncing
  BY DEF TypeOK, SyncAdds, SyncRemoves, Syncing
<1>1. UNCHANGED <<rows, handler, requests, suspect>>
  BY Zenon DEF SyncAdds, SyncRemoves, tables, bounds
<1>2. p.add \subseteq p.live /\ p.remove \cap p.live = {}
  BY <1>0 DEF RoutingInv, SyncInv
<1>3. \A n \in Names \ suspect : n \in p.live <=> n \in LiveNames
  BY <1>0 DEF RoutingInv, SyncInv
<1>4. \A n \in Names \ suspect : ~Made(n) /\ ~Unmade(n)
  <2>1. ASSUME NEW n \in Names \ suspect, NEW b \in Handlers,
               handler[b] \in Creation \/ handler[b] \in Deletion, Named(handler[b]) = n
        PROVE  FALSE
    BY <1>0, <2>1, StirredForm DEF RoutingInv, SyncInv
  <2>2. ASSUME NEW n \in Names \ suspect PROVE ~Made(n)
    BY <2>1, NamedForms DEF Made, Creating
  <2>3. ASSUME NEW n \in Names \ suspect PROVE ~Unmade(n)
    BY <2>1 DEF Unmade, Deleting
  <2> QED BY <2>2, <2>3
<1>5. PICK n : \/ /\ n \in p.add /\ route' = route \cup {n}
                  /\ worker' = [worker EXCEPT ![w].add = @ \ {n}]
               \/ /\ n \in p.remove /\ route' = route \ {n}
                  /\ worker' = [worker EXCEPT ![w].remove = @ \ {n}]
  BY Zenon DEF SyncAdds, SyncRemoves
<1>6. n \in Names
  BY <1>0, <1>5 DEF Worker
<1>7. \A k \in Names \ suspect : k \in route' <=> k \in route
  <2>1. n \notin suspect => (n \in route <=> n \in p.live)
    BY <1>3, <1>4, <1>6 DEF RoutingInv, RouteInv
  <2> QED BY <1>2, <1>5, <2>1
<1>8. RouteInv'
  BY <1>1, <1>7, Unstirred DEF RoutingInv, RouteInv
<1>9. /\ \A v \in Workers \ {w} : worker'[v] = worker[v]
      /\ worker'[w].pc = p.pc /\ worker'[w].live = p.live /\ worker'[w].calm = p.calm
      /\ \/ n \in p.add /\ worker'[w].add = p.add \ {n} /\ worker'[w].remove = p.remove
         \/ n \in p.remove /\ worker'[w].add = p.add /\ worker'[w].remove = p.remove \ {n}
  BY <1>0, <1>5 DEF TypeOK, Worker
<1>10. Syncing' = Syncing
  BY <1>9 DEF Syncing
<1>11. SyncInv'
  <2>1. ASSUME NEW v \in Workers, worker'[v].pc = "sync"
        PROVE  /\ worker'[v].add \subseteq worker'[v].live
               /\ worker'[v].remove \cap worker'[v].live = {}
    <3>1. v \in Syncing /\ worker[v].pc = "sync"
      BY <1>9, <1>10, <2>1 DEF Syncing
    <3>2. worker[v].add \subseteq worker[v].live /\ worker[v].remove \cap worker[v].live = {}
      BY <3>1 DEF RoutingInv, SyncInv
    <3> QED BY <1>9, <3>2
  <2>2. ASSUME NEW v \in Workers, worker'[v].pc = "sync", worker'[v].calm
        PROVE  /\ LiveNames \ route' \subseteq worker'[v].add
               /\ route' \ LiveNames \subseteq worker'[v].remove
    <3>1. v \in Syncing /\ worker[v].pc = "sync" /\ worker[v].calm
      BY <1>9, <1>10, <2>2 DEF Syncing
    <3>2. p.live = LiveNames
      BY <1>0, <3>1 DEF RoutingInv, SyncInv
    <3>3. LiveNames \ route \subseteq worker[v].add /\ route \ LiveNames \subseteq worker[v].remove
      BY <3>1 DEF RoutingInv, SyncInv
    <3> QED BY <1>2, <1>5, <1>9, <3>2, <3>3
  <2> QED BY <1>1, <1>9, <1>10, <2>1, <2>2, Unstirred DEF RoutingInv, SyncInv, Syncing
<1> QED BY <1>1, <1>8, <1>11, Unstirred DEF RoutingInv

(* A synchronisation is over: after a calm one every route is right.       *)
LEMMA SyncedRoutes ==
    ASSUME TypeOK, RoutingInv, NEW w \in Workers, Synced(w)
    PROVE  RoutingInv'
<1> DEFINE p == worker[w]
<1>1. /\ p.pc = "sync" /\ p.add = {} /\ p.remove = {}
      /\ worker' = [worker EXCEPT ![w] = Up] /\ UNCHANGED <<rows, route, handler, requests>>
      /\ suspect' = IF p.calm THEN {} ELSE suspect
  BY Zenon DEF Synced, tables, bounds
<1>2. worker'[w].pc = "up" /\ \A v \in Workers \ {w} : worker'[v] = worker[v]
  BY <1>1 DEF TypeOK, Up, Down
<1>3. Syncing' \subseteq Syncing /\ w \in Syncing /\ w \notin Syncing'
  BY <1>1, <1>2 DEF Syncing
<1>4. CASE ~p.calm
  <2>1. UNCHANGED <<rows, handler, requests, suspect>>
    BY <1>1, <1>4
  <2>2. RouteInv'
    BY <1>1, <2>1, Unstirred DEF RoutingInv, RouteInv
  <2>3. SyncInv'
    BY <1>1, <1>2, <1>3, <2>1, Unstirred DEF RoutingInv, SyncInv, Syncing
  <2> QED BY <2>1, <2>2, <2>3, Unstirred DEF RoutingInv
<1>5. CASE p.calm
  <2>1. Stirred = {} /\ \A u \in Syncing : worker[u].calm /\ worker[u].live = LiveNames
    BY <1>3, <1>5 DEF RoutingInv, SyncInv
  <2>2. route = LiveNames
    <3>1. LiveNames \ route \subseteq p.add /\ route \ LiveNames \subseteq p.remove
      BY <1>1, <1>5 DEF RoutingInv, SyncInv
    <3>2. p.add = {} /\ p.remove = {}
      BY <1>1
    <3> HIDE DEF p
    <3> QED BY <3>1, <3>2
  <2>3. LiveNames' = LiveNames /\ Stirred' = {} /\ \A h : Named(h)' = Named(h)
    BY <1>1, <2>1 DEF LiveNames, Stirred, Busy, Named
  <2>4. \A b \in Handlers : handler'[b] \notin Creation /\ handler'[b] \notin Deletion
    BY <1>1, <2>1, StirredForm
  <2>5. RowsInv'
    BY <1>1, <2>3 DEF RoutingInv, RowsInv, Creating, Deleting
  <2>6. DeletesInv'
    BY <2>4 DEF DeletesInv, Deleting
  <2>7. RouteInv'
    BY <1>1, <2>2, <2>3, <2>4 DEF RouteInv, Made, Unmade, Creating, Deleting
  <2>8. SyncInv'
    BY <1>1, <1>2, <1>3, <2>1, <2>3 DEF RoutingInv, SyncInv, Syncing
  <2> QED BY <2>5, <2>6, <2>7, <2>8 DEF RoutingInv
<1> QED BY <1>4, <1>5

LEMMA WorkersRoute ==
    ASSUME TypeOK, RoutingInv, NEW w \in Workers, WorkerStep(w)
    PROVE  RoutingInv'
<1>1. CASE SyncFails(w)
  <2>1. /\ worker' = [worker EXCEPT ![w] = Up] /\ w \in Syncing
        /\ UNCHANGED <<rows, handler, requests, suspect, route>>
    BY <1>1, Zenon DEF SyncFails, tables
  <2>2. worker'[w].pc = "up" /\ \A v \in Workers \ {w} : worker'[v] = worker[v]
    BY <2>1 DEF TypeOK, Up, Down, Syncing
  <2>3. Syncing' \subseteq Syncing /\ w \notin Syncing'
    BY <2>2 DEF Syncing
  <2>4. RouteInv'
    BY <2>1, Unstirred DEF RoutingInv, RouteInv
  <2>5. SyncInv'
    BY <2>1, <2>2, <2>3, Unstirred DEF RoutingInv, SyncInv, Syncing
  <2> QED BY <2>1, <2>4, <2>5, Unstirred DEF RoutingInv
<1>2. ASSUME NEW dead \in SUBSET Busy, Crash(w, dead) PROVE RoutingInv'
  <2>1. /\ worker[w] = Up /\ worker' = [worker EXCEPT ![w] = Down]
        /\ handler' = [a \in Handlers |-> IF a \in dead THEN Free ELSE handler[a]]
    BY <1>2, Zenon DEF Crash
  <2>2. suspect' = suspect \cup {Named(handler[a]) : a \in {b \in dead : handler[b].pc \in {"commit", "stamp"}}}
    BY <1>2, Zenon DEF Crash
  <2>3. UNCHANGED <<rows, route, requests>>
    BY <1>2, Zenon DEF Crash, tables
  <2>4. dead \in SUBSET Handlers
    BY DEF Busy
  <2>5. Syncing' = Syncing /\ \A v \in Syncing : worker'[v] = worker[v]
    <3>1. \A v \in Workers \ {w} : worker'[v] = worker[v]
      BY <2>1 DEF TypeOK
    <3>2. worker'[w] = Down /\ worker[w] = Up
      BY <2>1 DEF TypeOK
    <3>3. Down.pc = "down" /\ Up.pc = "up"
      BY DEF Up, Down
    <3> QED BY <3>1, <3>2, <3>3 DEF Syncing
  <2>6. \A b \in dead : Creating(b, {"commit"}) \/ (Deleting(b) /\ handler[b].pc = "stamp")
                          => Named(handler[b]) \in suspect'
    BY <2>2 DEF Creating
  <2> QED BY <2>1, <2>2, <2>3, <2>4, <2>5, <2>6, Die
<1> QED BY <1>1, <1>2, ReadRoutes, ListRoute, SyncChanges, SyncedRoutes DEF WorkerStep

-----------------------------------------------------------------------------
(* The theorem *)

LEMMA AsideSteps ==
    ASSUME TypeOK, RoutingInv, NEW a \in Handlers,
           \/ \E id \in Ids, ask \in Asks, changes \in Changes : BeginUpdate(a, id, changes, ask)
           \/ Release(a) \/ CommitUpdate(a)
           \/ \E m \in Models : BeginDrop(a, m)
           \/ CommitDrop(a)
    PROVE  RoutingInv'
<1> DEFINE h == handler[a]
<1>0. h \in Handler
  BY HandlerAt
<1>1. ASSUME NEW s \in Update \cup Drop \cup {Free}, Goes(a, s), h.pc \in {"release", "write", "drop"},
             SameServices, UNCHANGED <<route, suspect, worker, requests>>
      PROVE  RoutingInv'
  <2>1. s \in Handler /\ s \notin Creation \cup Deletion
    BY AtRest, Kinds, FormOfHandler
  <2>2. h \notin Creation \cup Deletion /\ h # Free
    BY <1>0, <1>1, FormOfHandler DEF Free
  <2> QED BY <1>1, <2>1, <2>2, Aside
<1>2. ASSUME NEW s \in Update \cup Drop, Goes(a, s), NEW operation, Arrives(a, operation),
             UNCHANGED <<rows, route, suspect, worker>>
      PROVE  RoutingInv'
  <2>1. s \in Handler /\ s \notin Creation \cup Deletion
    BY Kinds, FormOfHandler
  <2>2. requests' = a /\ a = requests + 1 /\ h \notin Creation \cup Deletion
    BY <1>2, ArrivalForm, AtRest
  <2> QED BY <1>2, <2>1, <2>2, Aside DEF SameServices
<1>3. ASSUME NEW id \in Ids, NEW ask \in Asks, NEW changes \in Changes, BeginUpdate(a, id, changes, ask)
      PROVE  RoutingInv'
  <2>1. Goes(a, Plan(id, changes, ask)) /\ Arrives(a, "update") /\ UNCHANGED <<rows, route, suspect, worker>>
    BY <1>3, Zenon DEF BeginUpdate, Plan, tables
  <2> QED BY <1>2, <2>1, PlanForm
<1>4. CASE Release(a)
  <2>1. PICK on \in Candidates(h.ask.gpus, h.freed) :
           Goes(a, IF ModelsFit(h) /\ Enough(on, h.ask.gpus)
                   THEN [h EXCEPT !.pc = "write", !.on = on] ELSE Free)
    BY <1>4, Zenon DEF Release
  <2>2. h.pc = "release" /\ UNCHANGED <<rows, route, suspect, worker, requests>>
    BY <1>4, Zenon DEF Release, tables, bounds
  <2>3. [h EXCEPT !.pc = "write", !.on = on] \in Update
    <3>1. h \in Update /\ on \in SUBSET Devices
      BY <1>0, <2>2, CandidatesForm, FormOfHandler
    <3> QED BY <3>1, UpdateSteps, Zenon
  <2>4. PICK s \in Update \cup {Free} : Goes(a, s)
    BY <2>1, <2>3, Zenon
  <2> QED BY <1>1, <2>2, <2>4 DEF SameServices
<1>5. CASE CommitUpdate(a)
  <2>1. h.pc = "write" /\ Goes(a, Free) /\ RowsUpdated(h) /\ UNCHANGED <<route, suspect, worker, requests>>
    BY <1>5, Zenon DEF CommitUpdate, RowsUpdated, bounds
  <2> DEFINE ms == (rows[h.id].models \ Removed(h)) \cup Added(h)
  <2>2. rows' = [rows EXCEPT ![h.id].models = ms] \/ rows' = rows
    BY <2>1, Zenon DEF RowsUpdated
  <2> HIDE DEF ms
  <2>3. SameServices
    BY <2>2 DEF SameServices, TypeOK, Row
  <2> QED BY <1>1, <2>1, <2>3
<1>6. ASSUME NEW m \in Models, BeginDrop(a, m) PROVE RoutingInv'
  <2>1. /\ Goes(a, [pc |-> "drop", model |-> m]) /\ Arrives(a, "drop")
        /\ UNCHANGED <<rows, route, suspect, worker>>
    BY <1>6, Zenon DEF BeginDrop, tables
  <2> QED BY <1>2, <2>1, NextForms
<1>7. CASE CommitDrop(a)
  <2>1. h.pc = "drop" /\ Goes(a, Free) /\ UNCHANGED <<rows, route, suspect, worker, requests>>
    BY <1>7, Zenon DEF CommitDrop, bounds
  <2> QED BY <1>1, <2>1 DEF SameServices
<1> QED BY <1>3, <1>4, <1>5, <1>6, <1>7

LEMMA RoutingStep == TypeOK /\ RoutingInv /\ [Next]_vars => RoutingInv'
<1> SUFFICES ASSUME TypeOK, RoutingInv, [Next]_vars PROVE RoutingInv'
  OBVIOUS
<1>1. CASE UNCHANGED vars
  <2>1. UNCHANGED <<rows, handler, requests, suspect, route, worker>>
    BY <1>1 DEF vars, tables, bounds
  <2>2. RouteInv'
    BY <2>1, Unstirred DEF RoutingInv, RouteInv
  <2>3. SyncInv'
    BY <2>1, Unstirred DEF RoutingInv, SyncInv, Syncing
  <2> QED BY <2>1, <2>2, <2>3, Unstirred DEF RoutingInv
<1>2. ASSUME NEW a \in Handlers, RequestStep(a) PROVE RoutingInv'
  <2>1. CASE \/ \E name \in Names, ask \in Asks : BeginCreate(a, name, ask)
             \/ Insert(a) \/ WriteRoute(a) \/ CommitCreate(a)
    BY <2>1, CreateRoutes, InsertRoutes, WriteRoutes, CommitCreateRoutes
  <2>2. CASE (\E id \in Ids : BeginDelete(a, id)) \/ Unlink(a) \/ Stamp(a)
    BY <2>2, BeginDeleteRoutes, UnlinkRoutes, StampRoutes
  <2>3. CASE WriteRouteFails(a) \/ CommitFails(a)
    BY <2>3, FailuresRoute
  <2>4. CASE \/ \E id \in Ids, ask \in Asks, changes \in Changes : BeginUpdate(a, id, changes, ask)
             \/ Release(a) \/ CommitUpdate(a)
             \/ \E m \in Models : BeginDrop(a, m)
             \/ CommitDrop(a)
    BY <2>4, AsideSteps
  <2> QED BY <1>2, <2>1, <2>2, <2>3, <2>4 DEF RequestStep, Changes
<1>3. ASSUME NEW w \in Workers, WorkerStep(w) PROVE RoutingInv'
  BY <1>3, WorkersRoute
<1> QED BY <1>1, <1>2, <1>3 DEF Next

LEMMA RoutingStart == Init => RoutingInv
<1> SUFFICES ASSUME Init PROVE RoutingInv
  OBVIOUS
<1>1. /\ handler = [a \in Handlers |-> Free] /\ worker = [w \in Workers |-> Down] /\ suspect = Names
      /\ requests = 0 /\ route \in SUBSET Names
      /\ rows = [id \in Ids |-> [name |-> First.name,
                                 state |-> IF id = 0 THEN "live" ELSE "absent",
                                 models |-> IF id = 0 THEN First.ask.models ELSE {}]]
  BY Zenon DEF Init
<1>2. \A b \in Handlers : handler[b] = Free /\ handler[b] \notin Creation /\ handler[b] \notin Deletion
  BY <1>1, AtRest
<1>3. \A id \in Ids : rows[id].state = "live" => id = 0
  BY <1>1
<1>4. \A b \in Handlers : rows[b].state = "absent"
  BY <1>1, HandlersAreIds DEF Handlers
<1>5. RowsInv
  BY <1>2, <1>3, <1>4 DEF RowsInv, Creating, Deleting
<1>6. DeletesInv
  BY <1>2 DEF DeletesInv, Deleting
<1>7. RouteInv
  BY <1>1 DEF RouteInv
<1>8. SyncInv
  <2>1. \A v \in Workers : worker[v].pc = "down"
    BY <1>1 DEF Down
  <2> QED BY <2>1 DEF SyncInv, Syncing
<1> QED BY <1>5, <1>6, <1>7, <1>8 DEF RoutingInv

(* However creates, deletes, faults, crashes and start-up synchronisations *)
(* interleave, a name that is neither suspect nor just being created or    *)
(* deleted has a Traefik file exactly when a live service bears it.        *)
THEOREM RoutesFollow == Spec => []RoutesFollowServices
<1>1. Init => TypeOK /\ RoutingInv
  BY StartType, RoutingStart
<1>2. TypeOK /\ RoutingInv /\ [Next]_vars => (TypeOK /\ RoutingInv)'
  BY TypeStep, RoutingStep
<1>3. TypeOK /\ RoutingInv => RoutesFollowServices
  BY RoutingSuffices
<1> QED BY <1>1, <1>2, <1>3, PTL DEF Spec
=============================================================================
