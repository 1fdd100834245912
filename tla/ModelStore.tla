------------------------------ MODULE ModelStore ------------------------------
(***************************************************************************)
(* The model registry over the local storage backend: the rows of models   *)
(* and model_versions, the directories that hold the files, the requests   *)
(* that keep the two in step, and the sweep of files no row accounts for.  *)
(* Requests run on threads of several worker processes and lock nothing:   *)
(* what holds them apart is the unique index on live names, the keys of    *)
(* the version rows, and the directories that exist when a call arrives.   *)
(***************************************************************************)
EXTENDS Naturals, FiniteSets

CONSTANTS
    Names,        \* model names
    Versions,     \* version numbers
    Registered,   \* names live at the start
    Shipped,      \* the versions those hold
    Bundles,      \* what uploads bring: models, and versions of each
    None,         \* no file
    Operations,   \* requests in play
    MaxRequests,  \* bound: requests in a behaviour
    MaxTogether,  \* bound: requests in one where some overlap
    FaultKinds,   \* the faults in play, each at most once
    MaxFaults     \* bound: faults in a behaviour

AllOperations == {"register", "update", "rename", "delete"}
AllFaults == {"save", "move", "flush", "commit", "undo", "discard", "refresh", "delete",
              "crash", "sweep"}

ASSUME StoreBounds == MaxRequests \in Nat /\ MaxTogether \in Nat /\ MaxFaults \in Nat
ASSUME StoreStart == Registered \subseteq Names /\ Shipped \subseteq Versions \ {0}
ASSUME StoreBundles == Bundles \subseteq ((SUBSET Names) \ {{}}) \X ((SUBSET Versions) \ {{}})
ASSUME StoreKinds == Operations \subseteq AllOperations /\ FaultKinds \subseteq AllFaults

(* Requests are numbered as they arrive and each has a handler thread.     *)
(* Files are told apart by the request that uploaded them, 0 for those     *)
(* there at the start, and the name they came under; a row is identified   *)
(* by the request and the name that created it.                            *)
Handlers == 1 .. MaxRequests
Ids == (0 .. MaxRequests) \X Names
ASSUME StoreNone == None \notin Ids
Files == [Versions -> Ids \cup {None}]
NoFiles == [v \in Versions |-> None]
In(f) == {v \in Versions : f[v] # None}

(* A model directory may hold its config alone.                            *)
Dir == {d \in [exists: BOOLEAN, holds: Files] : ~d.exists => d.holds = NoFiles}
NoDir == [exists |-> FALSE, holds |-> NoFiles]
Root(n) == <<"root", n>>
Aside(n) == <<"stash", n>>
Places == {"root", "stash"} \X Names

Row == [name: Names, state: {"absent", "live", "deleted"}, held: Files]

VARIABLES
    rows,      \* models with their model_versions, and the upload each row is about
    disk,      \* model directories and stashes
    handler,   \* what each request handler does
    sweeper,   \* what the sweep does
    requests, faults, \* requests so far; kinds of faults so far, a refused flush included
    overlap    \* history: two requests, or a request and a sweep, ran at once

bounds == <<requests, faults>>
vars == <<rows, disk, handler, sweeper, bounds, overlap>>

Free == [pc |-> "idle"]
Edit == [id: Ids, name: Names, loaded: SUBSET Versions]
Uploading == {"model", "stash", "save", "commit", "undo", "restore", "discard"}
Upload ==
    [pc: Uploading,
     update: BOOLEAN,
     todo: SUBSET Names,       \* models of the bundle not reached yet
     id: Ids, name: Names,     \* the row and the name being worked on
     versions: SUBSET Versions, left: SUBSET Versions,
     created: SUBSET Names, edits: SUBSET Edit, \* rows the session would write
     staged: SUBSET (Names \X Versions)]        \* saves that returned
Renaming == [pc: {"rename", "settle", "unrename"}, id: Ids, name: Names, to: Names,
             loaded: SUBSET Versions]
Deletion == [pc: {"delete"}, id: Ids, name: Names, loaded: SUBSET Versions,
             left: SUBSET Versions]
Handler == {Free} \cup Upload \cup Renaming \cup Deletion
Asleep == [pc |-> "idle", found |-> {}]
Sweeper == [pc: {"idle", "listed", "delete"}, found: SUBSET (Names \X Versions)]

Init ==
    /\ rows = [id \in Ids |->
                 [name |-> id[2],
                  state |-> IF id[1] = 0 /\ id[2] \in Registered THEN "live" ELSE "absent",
                  held |-> [v \in Versions |->
                     IF id[1] = 0 /\ id[2] \in Registered /\ v \in Shipped THEN id ELSE None]]]
    /\ disk = [p \in Places |->
                 IF p[1] = "root" /\ p[2] \in Registered
                 THEN [exists |-> TRUE,
                       holds |-> [v \in Versions |-> IF v \in Shipped THEN <<0, p[2]>> ELSE None]]
                 ELSE NoDir]
    /\ handler = [a \in Handlers |-> Free]
    /\ sweeper = Asleep
    /\ requests = 0 /\ faults = {} /\ overlap = FALSE

Fault(kind) ==
    /\ kind \in FaultKinds \ faults /\ Cardinality(faults) < MaxFaults
    /\ faults' = faults \cup {kind}

(* get_single_model: the live rows of a name; the index allows one.        *)
Live(n) == {id \in Ids : rows[id].state = "live" /\ rows[id].name = n}

Goes(a, state) == handler' = [handler EXCEPT ![a] = state]
Busy == sweeper # Asleep \/ \E a \in Handlers : handler[a] # Free

Arrives(a, operation) ==
    /\ a = requests + 1 /\ requests' = a
    /\ operation \in Operations
    /\ overlap' = (overlap \/ Busy)
    /\ overlap' => a <= MaxTogether

-----------------------------------------------------------------------------
(* The storage backend *)

CanMove(from, to) == disk[from].exists /\ ~disk[to].exists
Move(from, to) == disk' = [disk EXCEPT ![to] = disk[from], ![from] = NoDir]

Has(n, v) == disk[Root(n)].holds[v] # None
(* Mutant: save takes the model directory for granted.                     *)
WithNoMkdir(dir, v, u) == [dir EXCEPT !.holds[v] = u]

With(dir, v, u) == [exists |-> TRUE, holds |-> [dir.holds EXCEPT ![v] = u]]

(* The model goes once no version directory is left.                       *)
Without(dir, v) ==
    LET left == [dir.holds EXCEPT ![v] = None] IN
    IF left = NoFiles THEN NoDir ELSE [dir EXCEPT !.holds = left]

(* storage.delete: raises, and changes nothing, if the version is missing. *)
Remove(n, v) ==
    disk' = IF Has(n, v) THEN [disk EXCEPT ![Root(n)] = Without(@, v)] ELSE disk

-----------------------------------------------------------------------------
(* create_models_from_source *)

(* Mutant: the stashes go back before the saves are undone.                *)
UnwindRestoreFirst(a, h) ==
    Goes(a, IF h.edits # {} THEN [h EXCEPT !.pc = "restore"]
            ELSE IF h.staged # {} THEN [h EXCEPT !.pc = "undo"] ELSE Free)

(* The saves are undone, then the stashes go back, then the request ends.  *)
Unwind(a, h) ==
    Goes(a, IF h.staged # {} THEN [h EXCEPT !.pc = "undo"]
            ELSE IF h.edits # {} THEN [h EXCEPT !.pc = "restore"] ELSE Free)

(* After a flush that failed the rows of the session are expired and may   *)
(* not be read before the rollback, which comes last.  The undo of saves   *)
(* goes backwards, reads the name of an updated row, and raises: only the  *)
(* saves of new models behind it are undone, and no stash is put back.     *)
CutShort(a, h) ==
    /\ faults' = faults \cup {"flush"}
    /\ \E reached \in SUBSET h.created :
          /\ IF h.name \in h.created THEN h.name \in reached ELSE reached = {}
          /\ Unwind(a, [h EXCEPT !.edits = {}, !.staged = {s \in @ : s[1] \in reached}])

BeginUpload(a, bundle, versions, update) ==
    /\ Arrives(a, IF update THEN "update" ELSE "register")
    /\ \E n \in bundle :
          Goes(a, [pc |-> "model", update |-> update, todo |-> bundle,
                   id |-> <<a, n>>, name |-> n, versions |-> versions, left |-> {},
                   created |-> {}, edits |-> {}, staged |-> {}])
    /\ UNCHANGED <<rows, disk, sweeper, faults>>

(* The next model of the bundle: new, to be updated, or refused, which a   *)
(* registration always is (409) and an update from another source (422).   *)
ReadModel(a) ==
    LET h == handler[a] IN
    /\ h.pc = "model"
    /\ \E n \in h.todo :
          LET read == [h EXCEPT !.todo = @ \ {n}, !.name = n] IN
          \/ /\ Live(n) = {}
             /\ Goes(a, [read EXCEPT !.pc = "save", !.id = <<a, n>>, !.left = h.versions,
                                     !.created = @ \cup {n}])
          \/ /\ h.update
             /\ \E id \in Live(n) : Goes(a, [read EXCEPT !.pc = "stash", !.id = id])
          \/ /\ Live(n) # {}
             /\ Unwind(a, read)
    /\ UNCHANGED <<rows, disk, sweeper, bounds, overlap>>

Stashed(a) ==
    LET h == handler[a]
        loaded == {v \in Versions : rows[h.id].held[v] # None} IN
    /\ Move(Root(h.name), Aside(h.name))
    /\ Goes(a, [h EXCEPT !.pc = "save", !.left = h.versions,
                         !.edits = @ \cup {[id |-> h.id, name |-> h.name, loaded |-> loaded]}])

(* Mutant: an outstanding stash does not stop the next.                    *)
StashUnchecked(a) ==
    LET h == handler[a] IN
    /\ h.pc = "stash"
    /\ \/ disk[Root(h.name)].exists /\ Stashed(a)
       \/ ~disk[Root(h.name)].exists /\ Unwind(a, h) /\ UNCHANGED disk
    /\ UNCHANGED <<rows, sweeper, bounds, overlap>>

(* Mutant: the stash is noted down before it is taken.                     *)
StashNotedFirst(a) ==
    LET h == handler[a]
        noted == [id |-> h.id, name |-> h.name, loaded |-> {}] IN
    /\ h.pc = "stash"
    /\ \/ CanMove(Root(h.name), Aside(h.name)) /\ Stashed(a)
       \/ /\ ~CanMove(Root(h.name), Aside(h.name))
          /\ Unwind(a, [h EXCEPT !.edits = @ \cup {noted}]) /\ UNCHANGED disk
    /\ UNCHANGED <<rows, sweeper, bounds, overlap>>

(* Nothing to move, or a stash still there: the request ends.              *)
Stash(a) ==
    LET h == handler[a] IN
    /\ h.pc = "stash"
    /\ \/ CanMove(Root(h.name), Aside(h.name)) /\ Stashed(a)
       \/ ~CanMove(Root(h.name), Aside(h.name)) /\ Unwind(a, h) /\ UNCHANGED disk
    /\ UNCHANGED <<rows, sweeper, bounds, overlap>>

StashFails(a) ==
    /\ handler[a].pc = "stash" /\ Fault("move")
    /\ Unwind(a, handler[a])
    /\ UNCHANGED <<rows, disk, sweeper, requests, overlap>>

(* A version directory that is already there makes the move raise.         *)
Save(a) ==
    LET h == handler[a] IN
    /\ h.pc = "save"
    /\ \E v \in h.left :
          \/ /\ ~Has(h.name, v)
             /\ disk' = [disk EXCEPT ![Root(h.name)] = With(@, v, <<a, h.name>>)]
             /\ Goes(a, [h EXCEPT !.left = @ \ {v}, !.staged = @ \cup {<<h.name, v>>},
                                  !.pc = IF h.left # {v} THEN "save"
                                         ELSE IF h.todo # {} THEN "model" ELSE "commit"])
          \/ /\ Has(h.name, v)
             /\ Unwind(a, h) /\ UNCHANGED disk
    /\ UNCHANGED <<rows, sweeper, bounds, overlap>>

(* No config, a full disk: the directory, maybe part of the version, stay. *)
SaveFails(a) ==
    LET h == handler[a] IN
    /\ h.pc = "save" /\ Fault("save")
    /\ \E v \in h.left :
          \E part \in {None, <<a, h.name>>} :
             /\ ~Has(h.name, v)
             /\ disk' = [disk EXCEPT ![Root(h.name)] = With(@, v, part)]
    /\ Unwind(a, h)
    /\ UNCHANGED <<rows, sweeper, requests, overlap>>

(* What the flush asks of the tables: one live row a name; a version that  *)
(* is replaced is an UPDATE of a row that must exist, a new one an INSERT; *)
(* no version 0, which a bundle may well hold.                             *)
Fits(h) ==
    /\ 0 \notin h.versions
    /\ \A n \in h.created : Live(n) = {}
    /\ \A e \in h.edits : \A v \in h.versions : (v \in e.loaded) <=> (rows[e.id].held[v] # None)

Written(a) ==
    LET h == handler[a] IN
    [id \in Ids |->
       IF id[1] = a /\ id[2] \in h.created
       THEN [name |-> id[2], state |-> "live",
             held |-> [v \in Versions |-> IF v \in h.versions THEN id ELSE None]]
       ELSE IF \E e \in h.edits : e.id = id
       THEN LET e == CHOOSE e \in h.edits : e.id = id IN
            [rows[id] EXCEPT !.held = [v \in Versions |->
                IF v \in h.versions THEN <<a, e.name>>
                ELSE IF v \in e.loaded THEN None ELSE @[v]]]
       ELSE rows[id]]

Commit(a) ==
    LET h == handler[a] IN
    /\ h.pc = "commit"
    /\ \/ /\ Fits(h) /\ rows' = Written(a)
          /\ Goes(a, IF h.edits = {} THEN Free ELSE [h EXCEPT !.pc = "discard"])
          /\ UNCHANGED faults
       \/ ~Fits(h) /\ h.edits = {} /\ Unwind(a, h) /\ UNCHANGED <<rows, faults>>
       \/ ~Fits(h) /\ h.edits # {} /\ CutShort(a, h) /\ UNCHANGED rows
    /\ UNCHANGED <<disk, sweeper, requests, overlap>>

(* The COMMIT fails behind a flush that went through, or the flush of a    *)
(* bundle of new models does: nothing the undo reads has expired.          *)
CommitFails(a) ==
    /\ handler[a].pc = "commit" /\ Fault("commit")
    /\ Unwind(a, handler[a])
    /\ UNCHANGED <<rows, disk, sweeper, requests, overlap>>

FlushFails(a) ==
    /\ handler[a].pc = "commit" /\ handler[a].edits # {} /\ Fault("flush")
    /\ CutShort(a, handler[a])
    /\ UNCHANGED <<rows, disk, sweeper, requests, overlap>>

Discard(a) ==
    LET h == handler[a] IN
    /\ h.pc = "discard"
    /\ \E e \in h.edits :
          /\ disk' = [disk EXCEPT ![Aside(e.name)] = NoDir]
          /\ Goes(a, IF h.edits = {e} THEN Free ELSE [h EXCEPT !.edits = @ \ {e}])
    /\ UNCHANGED <<rows, sweeper, bounds, overlap>>

(* One discard raises and is logged, or the refresh before them does.      *)
DiscardFails(a) ==
    LET h == handler[a] IN
    /\ h.pc = "discard" /\ Fault("discard")
    /\ \E kept \in {h.edits} \cup {{e} : e \in h.edits} :
          Goes(a, IF h.edits = kept THEN Free ELSE [h EXCEPT !.edits = @ \ kept])
    /\ UNCHANGED <<rows, disk, sweeper, requests, overlap>>

(* _undo_saves: a version that is not there is logged and passed over.     *)
UndoSave(a) ==
    LET h == handler[a] IN
    /\ h.pc = "undo"
    /\ \E s \in h.staged :
          /\ Remove(s[1], s[2])
          /\ Unwind(a, [h EXCEPT !.staged = @ \ {s}])
    /\ UNCHANGED <<rows, sweeper, bounds, overlap>>

(* _restore_stashes: the stash replaces whatever is at the model's place.  *)
Restore(a) ==
    LET h == handler[a] IN
    /\ h.pc = "restore"
    /\ \E e \in h.edits :
          /\ IF disk[Aside(e.name)].exists THEN Move(Aside(e.name), Root(e.name)) ELSE UNCHANGED disk
          /\ Unwind(a, [h EXCEPT !.edits = @ \ {e}])
    /\ UNCHANGED <<rows, sweeper, bounds, overlap>>

(* Logged too; a restore may have cleared the place before it failed.      *)
UndoFails(a) ==
    LET h == handler[a] IN
    /\ Fault("undo")
    /\ \/ /\ h.pc = "undo"
          /\ \E s \in h.staged : Unwind(a, [h EXCEPT !.staged = @ \ {s}])
          /\ UNCHANGED disk
       \/ /\ h.pc = "restore"
          /\ \E e \in h.edits :
                /\ disk' \in {disk, [disk EXCEPT ![Root(e.name)] = NoDir]}
                /\ Unwind(a, [h EXCEPT !.edits = @ \ {e}])
    /\ UNCHANGED <<rows, sweeper, requests, overlap>>

-----------------------------------------------------------------------------
(* edit_model_info; a request that keeps the name is always refused.       *)

BeginRename(a, n, to) ==
    /\ Arrives(a, "rename")
    /\ n # to /\ Live(to) = {}
    /\ \E id \in Live(n) :
          Goes(a, [pc |-> "rename", id |-> id, name |-> n, to |-> to, loaded |-> {}])
    /\ UNCHANGED <<rows, disk, sweeper, faults>>

Rename(a) ==
    LET h == handler[a]
        loaded == {v \in Versions : rows[h.id].held[v] # None} IN
    /\ h.pc = "rename"
    /\ \/ /\ CanMove(Root(h.name), Root(h.to))
          /\ Move(Root(h.name), Root(h.to))
          /\ Goes(a, [h EXCEPT !.pc = "settle", !.loaded = loaded])
       \/ /\ ~CanMove(Root(h.name), Root(h.to))
          /\ Goes(a, Free) /\ UNCHANGED disk
    /\ UNCHANGED <<rows, sweeper, bounds, overlap>>

RenameFails(a) ==
    /\ handler[a].pc = "rename" /\ Fault("move")
    /\ Goes(a, Free)
    /\ UNCHANGED <<rows, disk, sweeper, requests, overlap>>

(* The name must be free, and the version rows whose URI changes exist.    *)
RenameFits(h) ==
    /\ Live(h.to) \subseteq {h.id} \/ rows[h.id].state # "live"
    /\ \A v \in h.loaded : rows[h.id].held[v] # None

(* After a flush that failed the undo reads the name of an expired row and *)
(* raises: the files are not moved back.                                   *)
CommitRename(a) ==
    LET h == handler[a] IN
    /\ h.pc = "settle"
    /\ \/ RenameFits(h) /\ rows' = [rows EXCEPT ![h.id].name = h.to] /\ UNCHANGED faults
       \/ ~RenameFits(h) /\ faults' = faults \cup {"flush"} /\ UNCHANGED rows
    /\ Goes(a, Free)
    /\ UNCHANGED <<disk, sweeper, requests, overlap>>

FlushRenameFails(a) ==
    /\ handler[a].pc = "settle" /\ Fault("flush")
    /\ Goes(a, Free)
    /\ UNCHANGED <<rows, disk, sweeper, requests, overlap>>

(* The COMMIT fails: the row is still loaded and the undo moves the files. *)
CommitRenameFails(a) ==
    /\ handler[a].pc = "settle" /\ Fault("commit")
    /\ Goes(a, [handler[a] EXCEPT !.pc = "unrename"])
    /\ UNCHANGED <<rows, disk, sweeper, requests, overlap>>

(* The refresh past the commit raises and the files go back all the same,  *)
(* unless it left the row unreadable.                                      *)
RefreshFails(a) ==
    LET h == handler[a] IN
    /\ h.pc = "settle" /\ Fault("refresh")
    /\ RenameFits(h) /\ rows' = [rows EXCEPT ![h.id].name = h.to]
    /\ Goes(a, [h EXCEPT !.pc = "unrename"]) \/ Goes(a, Free)
    /\ UNCHANGED <<disk, sweeper, requests, overlap>>

UndoRename(a) ==
    LET h == handler[a] IN
    /\ h.pc = "unrename"
    /\ IF CanMove(Root(h.to), Root(h.name)) THEN Move(Root(h.to), Root(h.name)) ELSE UNCHANGED disk
    /\ Goes(a, Free)
    /\ UNCHANGED <<rows, sweeper, bounds, overlap>>

UndoRenameFails(a) ==
    /\ handler[a].pc = "unrename" /\ Fault("undo")
    /\ Goes(a, Free)
    /\ UNCHANGED <<rows, disk, sweeper, requests, overlap>>

-----------------------------------------------------------------------------
(* delete_model, of one version or of all the row lists *)

BeginDelete(a, n, one) ==
    /\ Arrives(a, "delete")
    /\ \E id \in Live(n) :
          LET loaded == {v \in Versions : rows[id].held[v] # None}
              doomed == IF one = {} THEN loaded ELSE one IN
          /\ one \subseteq loaded
          /\ Goes(a, [pc |-> "delete", id |-> id, name |-> n, loaded |-> doomed, left |-> doomed])
    /\ UNCHANGED <<rows, disk, sweeper, faults>>

(* Missing files raise: the request ends, what it removed stays removed.   *)
DeleteFiles(a) ==
    LET h == handler[a] IN
    /\ h.pc = "delete"
    /\ \E v \in h.left :
          /\ Remove(h.name, v)
          /\ Goes(a, IF Has(h.name, v) THEN [h EXCEPT !.left = @ \ {v}] ELSE Free)
    /\ UNCHANGED <<rows, sweeper, bounds, overlap>>

CommitDelete(a) ==
    LET h == handler[a]
        left == [v \in Versions |-> IF v \in h.loaded THEN None ELSE rows[h.id].held[v]] IN
    /\ h.pc = "delete" /\ h.left = {}
    /\ rows' = [rows EXCEPT ![h.id].held = left,
                            ![h.id].state = IF left = NoFiles THEN "deleted" ELSE @]
    /\ Goes(a, Free)
    /\ UNCHANGED <<disk, sweeper, bounds, overlap>>

(* The storage or the database fails: rolled back, nothing put back.       *)
DeleteFails(a) ==
    /\ handler[a].pc = "delete" /\ Fault("delete")
    /\ Goes(a, Free)
    /\ UNCHANGED <<rows, disk, sweeper, requests, overlap>>

(* A worker process of the API dies with the requests it had at hand; the  *)
(* files and rows stay as they are, and the other workers carry on.        *)
Crash ==
    /\ Fault("crash")
    /\ \E dead \in SUBSET {a \in Handlers : handler[a] # Free} :
          /\ dead # {}
          /\ handler' = [a \in Handlers |-> IF a \in dead THEN Free ELSE handler[a]]
    /\ UNCHANGED <<rows, disk, sweeper, requests, overlap>>

-----------------------------------------------------------------------------
(* sweep_orphaned_files; the advisory lock keeps sweeps apart *)

(* A finished upload grows old for certain; one under way looks old only   *)
(* if its archive says so, for an archive's times survive the move.        *)
Finished(u) ==
    u = 0 \/ handler[u].pc \notin Uploading
Stored == {nv \in Names \X Versions : Has(nv[1], nv[2])}
Aged == {nv \in Stored : Finished(disk[Root(nv[1])].holds[nv[2]][1])}
Known == {nv \in Names \X Versions :
            \E id \in Ids : rows[id].name = nv[1] /\ rows[id].held[nv[2]] # None}
Sweeps(found) ==
    sweeper' = IF found = {} THEN Asleep ELSE [pc |-> "delete", found |-> found]

ListVersions ==
    /\ sweeper = Asleep
    /\ \E found \in SUBSET Stored :
          /\ Aged \subseteq found /\ found # {}
          /\ sweeper' = [pc |-> "listed", found |-> found]
    /\ overlap' = (overlap \/ Busy)
    /\ UNCHANGED <<rows, disk, handler, bounds>>

(* Mutant: a model that has a row shields everything under its name.       *)
ReadRowsByName ==
    /\ sweeper.pc = "listed"
    /\ Sweeps(IF Known = {} THEN {} ELSE {nv \in sweeper.found : \A k \in Known : k[1] # nv[1]})
    /\ UNCHANGED <<rows, disk, handler, bounds, overlap>>

(* A database without rows is taken for an outage: nothing is deleted.     *)
ReadRows ==
    /\ sweeper.pc = "listed"
    /\ Sweeps(IF Known = {} THEN {} ELSE sweeper.found \ Known)
    /\ UNCHANGED <<rows, disk, handler, bounds, overlap>>

SweepDeletes ==
    /\ sweeper.pc = "delete"
    /\ \E nv \in sweeper.found : Remove(nv[1], nv[2]) /\ Sweeps(sweeper.found \ {nv})
    /\ UNCHANGED <<rows, handler, bounds, overlap>>

(* One deletion fails and is logged, or the beat worker dies.              *)
SweepFails ==
    /\ sweeper.pc = "delete" /\ Fault("sweep")
    /\ \E rest \in {{}} \cup {sweeper.found \ {nv} : nv \in sweeper.found} : Sweeps(rest)
    /\ UNCHANGED <<rows, disk, handler, requests, overlap>>

-----------------------------------------------------------------------------
UploadStep(a) ==
    \/ ReadModel(a) \/ Stash(a) \/ Save(a) \/ Commit(a)
    \/ Discard(a) \/ UndoSave(a) \/ Restore(a)
UploadFault(a) ==
    \/ StashFails(a) \/ SaveFails(a) \/ CommitFails(a) \/ FlushFails(a)
    \/ DiscardFails(a) \/ UndoFails(a)
RenameStep(a) == Rename(a) \/ CommitRename(a) \/ UndoRename(a)
RenameFault(a) ==
    \/ RenameFails(a) \/ FlushRenameFails(a) \/ CommitRenameFails(a) \/ RefreshFails(a)
    \/ UndoRenameFails(a)
DeleteStep(a) == DeleteFiles(a) \/ CommitDelete(a) \/ DeleteFails(a)
Sweep == ListVersions \/ ReadRows \/ SweepDeletes

HandlerStep(a) ==
    \/ \E bundle \in Bundles, update \in BOOLEAN : BeginUpload(a, bundle[1], bundle[2], update)
    \/ \E n, to \in Names : BeginRename(a, n, to)
    \/ \E n \in Names, one \in {{}} \cup {{v} : v \in Versions} : BeginDelete(a, n, one)
    \/ UploadStep(a) \/ UploadFault(a)
    \/ RenameStep(a) \/ RenameFault(a)
    \/ DeleteStep(a)

Next ==
    \/ \E a \in Handlers : HandlerStep(a)
    \/ Crash
    \/ Sweep
    \/ SweepFails

(* The beat schedule runs the sweep again and again; nothing makes a       *)
(* request finish.                                                         *)
Spec == Init /\ [][Next]_vars /\ WF_vars(Sweep)

-----------------------------------------------------------------------------
TypeOK ==
    /\ rows \in [Ids -> Row]
    /\ disk \in [Places -> Dir]
    /\ handler \in [Handlers -> Handler]
    /\ sweeper \in Sweeper
    /\ requests \in 0 .. MaxRequests
    /\ faults \subseteq AllFaults
    /\ overlap \in BOOLEAN

Holds(a, n) ==
    /\ handler[a].pc \in Uploading
    /\ \E e \in handler[a].edits : e.name = n

(* While an update that has not committed stands still, nothing else -     *)
(* another request, the sweep, the undo of a failed registration - takes   *)
(* or changes the files it moved aside: it can always put them back.       *)
StashWaitsForItsUpdate ==
    [][\A a \in Handlers : \A n \in Names :
          Holds(a, n) /\ handler[a].pc # "discard" /\ handler'[a] = handler[a]
             => disk[Aside(n)].exists /\ disk'[Aside(n)] = disk[Aside(n)]]_vars

(* While requests and sweeps run one at a time, files a live row is about  *)
(* that are at the row's place or in its stash do not get lost, whatever   *)
(* fails and wherever the process dies: only deleting the model takes them *)
(* away, never an update, a rename, an undo or the sweep.                  *)
Kept(id, v) ==
    /\ rows[id].state = "live" /\ rows[id].held[v] # None
    /\ \E p \in {Root(rows[id].name), Aside(rows[id].name)} : disk[p].holds[v] = rows[id].held[v]
Deleting == \E a \in Handlers : handler[a].pc = "delete"
OnlyCopyIsKept ==
    [][~overlap' /\ ~Deleting =>
          \A id \in Ids : \A v \in Versions :
             Kept(id, v) /\ rows'[id].held[v] = rows[id].held[v]
                => \E p \in Places : disk'[p].holds[v] = rows[id].held[v]]_vars

(* While requests and sweeps run one at a time, a request that has ended   *)
(* left every live version with the files its row is about, at the place   *)
(* the row's name gives, however far it got before it failed.  Not after a *)
(* flush of an update or a rename that failed (NoStashIsForgotten), nor    *)
(* after a crash, a failing undo or delete, which leave nobody to put      *)
(* things right, or a refresh failing behind a rename's commit.            *)
Quiet == sweeper = Asleep /\ \A a \in Handlers : handler[a] = Free
RowsAreBacked ==
    Quiet /\ ~overlap /\ faults \cap {"crash", "undo", "refresh", "delete", "flush"} = {} =>
       \A id \in Ids : \A v \in Versions :
          rows[id].state = "live" /\ rows[id].held[v] # None
             => disk[Root(rows[id].name)].holds[v] = rows[id].held[v]

(* Files that no row accounts for do not stay: whatever was left by a      *)
(* crash or a failed undo is swept, or a row takes it over - unless the    *)
(* database reports no rows at all.                                        *)
OrphansAreSwept == Aged \ Known # {} ~> (Aged \subseteq Known \/ Known = {})

(* sweep_orphaned_files "deletes stored model versions that no row         *)
(* accounts for": never the last files of a version a live row is about.   *)
SweepSparesTheLastCopy ==
    [][sweeper.pc = "delete" /\ sweeper' # sweeper =>
          \A id \in Ids : \A v \in Versions :
             /\ rows[id].state = "live" /\ rows[id].held[v] # None
             /\ \E p \in Places : disk[p].holds[v] = rows[id].held[v]
             => \E p \in Places : disk'[p].holds[v] = rows[id].held[v]]_vars

(* create_models_from_source: "a model's existing files are moved aside    *)
(* before the replacements are staged, and put back if the bundle does not *)
(* commit": with nothing failing but a flush, no request leaves a stash.   *)
NoStashIsForgotten ==
    Quiet /\ ~overlap /\ faults \subseteq {"flush"} =>
       \A n \in Names : ~disk[Aside(n)].exists
=============================================================================
