------------------------------ MODULE RowsProofs ------------------------------
(***************************************************************************)
(* What TLAPS proves of files and rows, for any models, versions, bundles, *)
(* number of requests and faults, while requests and sweeps run one at a   *)
(* time: every request leaves each live version with its files, however    *)
(* far it got before it failed, unless a flush of it did; and whatever     *)
(* fails, and wherever a process dies, no step but a deletion loses the    *)
(* files of a live version.                                                *)
(***************************************************************************)
EXTENDS ModelStoreProofs

-----------------------------------------------------------------------------
(* The invariant *)

(* Nothing has overlapped, and nothing has failed that nobody makes good.  *)
Calm == ~overlap /\ faults \cap {"crash", "undo", "refresh", "delete", "flush"} = {}

(* Before anything overlaps, one request or the sweep is at work.          *)
Solo ==
    /\ \A a \in Handlers : a > requests => handler[a] = Free
    /\ ~overlap => \A a, b \in Handlers : handler[a] # Free /\ handler[b] # Free => a = b
    /\ ~overlap => \A a \in Handlers : sweeper # Asleep => handler[a] = Free

LiveOnce ==
    \A i, j \in Ids :
       rows[i].state = "live" /\ rows[j].state = "live" /\ rows[i].name = rows[j].name => i = j

Holding(id) == {v \in Versions : rows[id].held[v] # None}
FilesAt(p, id) == \A v \in Holding(id) : disk[p].holds[v] = rows[id].held[v]
Backed(id) == rows[id].state = "live" => FilesAt(Root(rows[id].name), id)
AllBacked == \A id \in Ids : Backed(id)
OthersBacked(id) == \A i \in Ids \ {id} : Backed(i)
IsLive(id, n) == id \in Ids /\ rows[id].state = "live" /\ rows[id].name = n

NamesOf(h) == {e.name : e \in h.edits}
Mine(h) == NamesOf(h) \cup h.created

(* An upload that has not committed: the files of the rows it is to update *)
(* are in their stashes, and all others where they belong.                 *)
EditKept(e) == IsLive(e.id, e.name) /\ e.loaded = Holding(e.id) /\ FilesAt(Aside(e.name), e.id)
UploadKeeps(h) ==
    /\ \A id \in Ids : rows[id].name \notin NamesOf(h) => Backed(id)
    /\ \A e \in h.edits : EditKept(e)
    /\ \A n \in h.created : Live(n) = {}
    /\ \A s \in h.staged : s[1] \in Mine(h)

(* What it has saved is where the rows it is to write will have it, and it *)
(* has saved, or is about to, all versions of the models it has reached.   *)
UploadSaved(a, h) ==
    /\ \A s \in h.staged : disk[Root(s[1])].holds[s[2]] = <<a, s[1]>>
    /\ \A n \in Mine(h) : \A v \in h.versions :
          <<n, v>> \in h.staged \/ (h.pc = "save" /\ n = h.name /\ v \in h.left)
    /\ h.todo \cap Mine(h) = {}

UploadInv(a, h) ==
    /\ h.pc \in {"model", "stash", "save", "commit", "undo", "restore"} => UploadKeeps(h)
    /\ h.pc \in {"model", "stash", "save", "commit"} => UploadSaved(a, h)
    /\ h.pc = "stash" => IsLive(h.id, h.name) /\ h.name \notin Mine(h) \cup h.todo
    /\ h.pc = "save" => h.name \in Mine(h)
    /\ h.pc = "restore" => h.staged = {}
    /\ h.pc = "discard" => AllBacked

(* A rename: the files of its row are under the one name or the other.     *)
RenameInv(h) ==
    /\ h.pc \in {"rename", "settle", "unrename"} =>
          IsLive(h.id, h.name) /\ Live(h.to) = {} /\ OthersBacked(h.id)
    /\ h.pc = "rename" => Backed(h.id)
    /\ h.pc \in {"settle", "unrename"} =>
          FilesAt(Root(h.to), h.id) /\ disk[Root(h.to)].exists /\ ~disk[Root(h.name)].exists

(* A deletion has taken the files of versions it is about to forget.       *)
DeletionInv(h) ==
    h.pc = "delete" =>
       /\ IsLive(h.id, h.name) /\ OthersBacked(h.id)
       /\ h.left \subseteq h.loaded /\ h.loaded \subseteq Holding(h.id)
       /\ \A v \in Holding(h.id) \ (h.loaded \ h.left) :
             disk[Root(h.name)].holds[v] = rows[h.id].held[v]

WorkInv(a, h) ==
    (h = Free => AllBacked) /\ UploadInv(a, h) /\ RenameInv(h) /\ DeletionInv(h)

CalmInv ==
    /\ (\A a \in Handlers : handler[a] = Free) => AllBacked
    /\ \A a \in Handlers : handler[a] # Free => WorkInv(a, handler[a])
    /\ sweeper.pc = "delete" => sweeper.found \cap Known = {}
BackedInv == Solo /\ LiveOnce /\ (Calm => CalmInv)

-----------------------------------------------------------------------------
(* One at a time *)

(* Whose turn it is: a request that is under way, or one that arrives.     *)
Turn(a) ==
    /\ sweeper' = sweeper /\ faults \subseteq faults'
    /\ \/ handler[a] # Free /\ requests' = requests /\ overlap' = overlap
       \/ \E operation \in Operations : Arrives(a, operation)

LEMMA HandlerTurn ==
    ASSUME NEW a \in Handlers, HandlerStep(a)
    PROVE  Turn(a)
<1>0. ASSUME handler[a].pc # "idle", UNCHANGED <<sweeper, requests, overlap>>,
             faults' = faults \/ faults' = faults \cup {"flush"}
      PROVE  Turn(a)
  BY <1>0 DEF Turn, Free
<1>1. ASSUME handler[a].pc # "idle", UNCHANGED <<sweeper, bounds, overlap>> PROVE Turn(a)
  BY <1>1 DEF Turn, bounds, Free
<1>2. ASSUME handler[a].pc # "idle", NEW kind, Fault(kind), UNCHANGED <<sweeper, requests, overlap>>
      PROVE  Turn(a)
  BY <1>2 DEF Turn, Fault, Free
<1>3. CASE UploadStep(a)
  <2>1. ReadModel(a) \/ Stash(a) \/ Save(a) =>
           handler[a].pc \in {"model", "stash", "save"} /\ UNCHANGED <<sweeper, bounds, overlap>>
    BY Zenon DEF ReadModel, Stash, Save
  <2>2. Discard(a) \/ UndoSave(a) \/ Restore(a) =>
           /\ handler[a].pc \in {"discard", "undo", "restore"}
           /\ UNCHANGED <<sweeper, bounds, overlap>>
    BY DEF Discard, UndoSave, Restore
  <2>3. Commit(a) =>
           /\ handler[a].pc = "commit" /\ UNCHANGED <<sweeper, requests, overlap>>
           /\ faults' = faults \/ faults' = faults \cup {"flush"}
    BY Zenon DEF Commit, CutShort
  <2>4. Commit(a) => Turn(a)
    BY <1>0, <2>3
  <2> QED BY <1>1, <1>3, <2>1, <2>2, <2>4 DEF UploadStep
<1>4. CASE UploadFault(a)
  <2>1. SaveFails(a) =>
           handler[a].pc = "save" /\ Fault("save") /\ UNCHANGED <<sweeper, requests, overlap>>
    BY Zenon DEF SaveFails
  <2>2. FlushFails(a) =>
           handler[a].pc = "commit" /\ Fault("flush") /\ UNCHANGED <<sweeper, requests, overlap>>
    BY Zenon DEF FlushFails
  <2> QED BY <1>2, <1>4, <2>1, <2>2
          DEF UploadFault, StashFails, CommitFails, DiscardFails, UndoFails
<1>5. CASE RenameStep(a)
  <2>1. Rename(a) => handler[a].pc = "rename" /\ UNCHANGED <<sweeper, bounds, overlap>>
    BY Zenon DEF Rename
  <2>2. UndoRename(a) => handler[a].pc = "unrename" /\ UNCHANGED <<sweeper, bounds, overlap>>
    BY DEF UndoRename
  <2>3. CommitRename(a) =>
           /\ handler[a].pc = "settle" /\ UNCHANGED <<sweeper, requests, overlap>>
           /\ faults' = faults \/ faults' = faults \cup {"flush"}
    BY Zenon DEF CommitRename
  <2>4. CommitRename(a) => Turn(a)
    BY <1>0, <2>3
  <2> QED BY <1>1, <1>5, <2>1, <2>2, <2>4 DEF RenameStep
<1>6. CASE RenameFault(a)
  BY <1>2, <1>6 DEF RenameFault, RenameFails, FlushRenameFails, CommitRenameFails, RefreshFails,
                    UndoRenameFails
<1>7. CASE DeleteStep(a)
  <2>1. CommitDelete(a) \/ DeleteFiles(a) =>
           handler[a].pc = "delete" /\ UNCHANGED <<sweeper, bounds, overlap>>
    BY Zenon DEF CommitDelete, DeleteFiles
  <2> QED BY <1>1, <1>2, <1>7, <2>1 DEF DeleteStep, DeleteFails
<1>8. ASSUME \E bundle \in Bundles, update \in BOOLEAN :
                BeginUpload(a, bundle[1], bundle[2], update)
      PROVE  Turn(a)
  BY <1>8 DEF BeginUpload, Turn, Arrives
<1>9. ASSUME \/ \E n, to \in Names : BeginRename(a, n, to)
             \/ \E n \in Names, one \in {{}} \cup {{v} : v \in Versions} : BeginDelete(a, n, one)
      PROVE  Turn(a)
  BY <1>9 DEF BeginRename, BeginDelete, Turn, Arrives
<1> QED BY <1>3, <1>4, <1>5, <1>6, <1>7, <1>8, <1>9 DEF HandlerStep

(* In a calm step of one handler all the others, and the sweep, are idle.  *)
LEMMA Alone ==
    ASSUME TypeOK, Solo, NEW a \in Handlers, Turn(a), \A b \in Handlers \ {a} : handler'[b] = handler[b]
    PROVE  /\ Solo' /\ (Calm' => Calm)
           /\ ~overlap' => /\ \A b \in Handlers \ {a} : handler[b] = Free
                           /\ sweeper = Asleep /\ sweeper' = Asleep
<1>0. a \in Nat /\ \A b \in Handlers : b \in Nat
  BY StoreBounds DEF Handlers
<1>1. CASE handler[a] # Free /\ requests' = requests /\ overlap' = overlap
  <2>1. a <= requests
    BY <1>0, <1>1 DEF Solo, TypeOK
  <2>2. ~overlap => \A b \in Handlers \ {a} : handler[b] = Free
    BY <1>1 DEF Solo
  <2>3. ~overlap => sweeper = Asleep
    BY <1>1 DEF Solo
  <2>4. Solo'
    BY <1>0, <1>1, <2>1, <2>2, <2>3 DEF Solo, Turn
  <2> QED BY <1>1, <2>2, <2>3, <2>4 DEF Turn, Calm
<1>2. CASE \E operation \in Operations : Arrives(a, operation)
  <2>1. a = requests + 1 /\ requests' = a /\ overlap' = (overlap \/ Busy)
    BY <1>2 DEF Arrives
  <2>2. ~overlap' => ~overlap /\ sweeper = Asleep /\ \A b \in Handlers : handler[b] = Free
    BY <2>1 DEF Busy
  <2>3. \A b \in Handlers : b > a => handler'[b] = Free
    BY <1>0, <2>1 DEF Solo, TypeOK
  <2>4. Solo'
    BY <2>1, <2>2, <2>3 DEF Solo, Turn
  <2> QED BY <2>2, <2>4 DEF Turn, Calm
<1> QED BY <1>1, <1>2 DEF Turn

(* So a calm step of a handler is sound if what that handler does is.      *)
LEMMA CalmStep ==
    ASSUME TypeOK, Solo, NEW a \in Handlers, Turn(a),
           \A b \in Handlers \ {a} : handler'[b] = handler[b], ~overlap', WorkInv(a, handler[a])'
    PROVE  CalmInv'
<1>1. sweeper' = Asleep /\ \A b \in Handlers \ {a} : handler'[b] = Free
  BY Alone
<1>2. sweeper'.pc # "delete"
  BY <1>1 DEF Asleep
<1>3. (\A b \in Handlers : handler'[b] = Free) => AllBacked'
  BY DEF WorkInv
<1>4. \A b \in Handlers : handler'[b] # Free => b = a
  BY <1>1
<1>5. \A b \in Handlers : handler'[b] # Free => WorkInv(b, handler[b])'
  BY <1>4
<1> QED BY <1>2, <1>3, <1>5 DEF CalmInv

(* What is at hand in a calm step: everything is in place, or the handler  *)
(* knows what is not.                                                      *)
LEMMA AtHand ==
    ASSUME TypeOK, Solo, CalmInv, NEW a \in Handlers, Turn(a),
           \A b \in Handlers \ {a} : handler'[b] = handler[b], ~overlap'
    PROVE  WorkInv(a, handler[a])
<1>1. \A b \in Handlers \ {a} : handler[b] = Free
  BY Alone
<1>2. CASE handler[a] = Free
  <2>1. AllBacked
    BY <1>1, <1>2 DEF CalmInv
  <2> QED BY <1>2, <2>1 DEF WorkInv, UploadInv, RenameInv, DeletionInv, Free
<1> QED BY <1>2 DEF CalmInv

-----------------------------------------------------------------------------
(* Uploads *)

(* The work of an upload in its various places.                            *)
LEMMA ForwardWork ==
    ASSUME NEW a, NEW h \in Upload, h.pc \in {"model", "stash", "save", "commit"},
           UploadKeeps(h)', UploadSaved(a, h)',
           h.pc = "stash" => IsLive(h.id, h.name)' /\ h.name \notin Mine(h) \cup h.todo,
           h.pc = "save" => h.name \in Mine(h)
    PROVE  WorkInv(a, h)'
<1>1. h # Free
  BY DEF Free, Upload
<1>2. Mine(h)' = Mine(h)
  BY DEF Mine, NamesOf
<1> QED BY <1>1, <1>2 DEF WorkInv, UploadInv, RenameInv, DeletionInv

(* A request that gives up has everything it needs to put things right.    *)
LEMMA UnwindWork ==
    ASSUME TypeOK, NEW a \in Handlers, NEW h \in Upload, Unwind(a, h), UploadKeeps(h)'
    PROVE  WorkInv(a, handler[a])'
<1>1. PICK state : /\ Goes(a, state)
                   /\ state = IF h.staged # {} THEN [h EXCEPT !.pc = "undo"]
                              ELSE IF h.edits # {} THEN [h EXCEPT !.pc = "restore"] ELSE Free
  BY DEF Unwind
<1>2. handler'[a] = state
  BY <1>1 DEF Goes, TypeOK
<1>3. CASE state = Free /\ h.edits = {}
  <2>1. AllBacked'
    BY <1>3 DEF UploadKeeps, NamesOf, AllBacked
  <2>2. WorkInv(a, state)'
    BY <1>3, <2>1 DEF WorkInv, UploadInv, RenameInv, DeletionInv, Free
  <2> QED BY <1>2, <2>2
<1>4. ASSUME NEW pc \in {"undo", "restore"}, state = [h EXCEPT !.pc = pc],
             pc = "restore" => h.staged = {}
      PROVE  WorkInv(a, handler[a])'
  <2>1. /\ state.pc = pc /\ state.edits = h.edits /\ state.created = h.created
        /\ state.staged = h.staged /\ state # Free
    BY <1>4 DEF Upload, Free
  <2>2. UploadKeeps(state)'
    BY <2>1 DEF UploadKeeps, NamesOf, Mine
  <2>3. WorkInv(a, state)'
    BY <1>4, <2>1, <2>2 DEF WorkInv, UploadInv, RenameInv, DeletionInv
  <2> QED BY <1>2, <2>3
<1>5. h.staged # {} => state = [h EXCEPT !.pc = "undo"]
  BY <1>1
<1>6. h.staged = {} /\ h.edits # {} => state = [h EXCEPT !.pc = "restore"]
  BY <1>1
<1>7. h.staged = {} /\ h.edits = {} => state = Free
  BY <1>1
<1> QED BY <1>3, <1>4, <1>5, <1>6, <1>7

LEMMA RootsDiffer == \A n, m : Root(n) = Root(m) => n = m
BY DEF Root

(* Only what the request is to write depends on the places it saves to.    *)
LEMMA KeepsElsewhere ==
    ASSUME TypeOK, NEW h \in Upload, UploadKeeps(h), rows' = rows, NEW n \in Names, n \in Mine(h),
           \A p \in Places \ {Root(n)} : disk'[p] = disk[p]
    PROVE  UploadKeeps(h)'
<1>1. \A m \in Names \ {n} : disk'[Root(m)] = disk[Root(m)]
  BY PlaceForms, RootsDiffer
<1>2. \A m \in Names : disk'[Aside(m)] = disk[Aside(m)]
  BY PlaceForms, PlacesDiffer
<1>3. ASSUME NEW id \in Ids, rows[id].name \notin NamesOf(h) PROVE Backed(id)'
  <2>1. Backed(id) /\ rows[id].name \in Names
    BY <1>3 DEF UploadKeeps, TypeOK, Row
  <2>2. CASE rows[id].name = n
    <3>1. n \in h.created
      BY <1>3, <2>2 DEF Mine
    <3>2. rows[id].state # "live"
      BY <2>2, <3>1 DEF UploadKeeps, Live
    <3> QED BY <3>2 DEF Backed
  <2>3. CASE rows[id].name # n
    BY <1>1, <2>1, <2>3 DEF Backed, FilesAt, Holding
  <2> QED BY <2>2, <2>3
<1>4. ASSUME NEW e \in h.edits PROVE EditKept(e)'
  <2>1. EditKept(e) /\ e.name \in Names
    BY UploadForm, EditForm DEF UploadKeeps
  <2> QED BY <1>2, <2>1 DEF EditKept, IsLive, Holding, FilesAt
<1>5. \A m \in h.created : Live(m)' = {}
  BY DEF UploadKeeps, Live
<1>6. \A s \in h.staged : s[1] \in Mine(h)'
  BY DEF UploadKeeps, Mine, NamesOf
<1> QED BY <1>3, <1>4, <1>5, <1>6 DEF UploadKeeps, NamesOf

LEMMA KeepsSame ==
    ASSUME NEW h, UploadKeeps(h), rows' = rows, disk' = disk
    PROVE  UploadKeeps(h)'
BY DEF UploadKeeps, EditKept, IsLive, Holding, FilesAt, Backed, Live, Mine, NamesOf

LEMMA UploadWork ==
    ASSUME NEW a, NEW h, WorkInv(a, h)
    PROVE  /\ h.pc \in {"model", "stash", "save", "commit", "undo", "restore"} => UploadKeeps(h)
           /\ h.pc \in {"model", "stash", "save", "commit"} => UploadSaved(a, h)
BY DEF WorkInv, UploadInv

LEMMA BeginUploadWork ==
    ASSUME TypeOK, NEW a \in Handlers, WorkInv(a, handler[a]), handler[a] = Free,
           NEW bundle \in Bundles, NEW update \in BOOLEAN,
           BeginUpload(a, bundle[1], bundle[2], update)
    PROVE  WorkInv(a, handler[a])'
<1>1. bundle[1] \in SUBSET Names /\ bundle[2] \in SUBSET Versions
  BY StoreBundles
<1>2. PICK n, state :
         /\ n \in bundle[1]
         /\ state = [pc |-> "model", update |-> update, todo |-> bundle[1],
                     id |-> <<a, n>>, name |-> n, versions |-> bundle[2], left |-> {},
                     created |-> {}, edits |-> {}, staged |-> {}]
         /\ Goes(a, state)
  BY DEF BeginUpload
<1>3. n \in Names /\ <<a, n>> \in Ids
  BY <1>1, <1>2, StoreBounds DEF Handlers, Ids
<1>4. /\ state \in Upload /\ state.pc = "model"
      /\ state.edits = {} /\ state.created = {} /\ state.staged = {}
  BY <1>1, <1>2, <1>3 DEF Upload, Uploading
<1>5. rows' = rows /\ disk' = disk
  BY DEF BeginUpload
<1>6. Mine(state) = {} /\ NamesOf(state) = {}
  BY <1>4 DEF Mine, NamesOf
<1>7. AllBacked
  BY DEF WorkInv
<1>8. UploadKeeps(state)
  BY <1>4, <1>7 DEF UploadKeeps, AllBacked
<1>9. UploadSaved(a, state)'
  BY <1>4, <1>6 DEF UploadSaved, Mine, NamesOf
<1>10. WorkInv(a, state)'
  BY <1>4, <1>5, <1>8, <1>9, KeepsSame, ForwardWork
<1>11. handler'[a] = state
  BY <1>2 DEF Goes, TypeOK
<1> QED BY <1>10, <1>11

LEMMA ReadModelWork ==
    ASSUME TypeOK, NEW a \in Handlers, WorkInv(a, handler[a]), ReadModel(a)
    PROVE  WorkInv(a, handler[a])'
<1>1. PICK h : h = handler[a]
  OBVIOUS
<1>2. h \in Upload /\ h.pc = "model"
  <2>1. h.pc = "model"
    BY <1>1, Zenon DEF ReadModel
  <2> QED BY <1>1, <2>1, UploadAt DEF Uploading
<1>3. PICK n, read :
         /\ n \in h.todo
         /\ read = [h EXCEPT !.todo = @ \ {n}, !.name = n]
         /\ \/ /\ Live(n) = {}
               /\ Goes(a, [read EXCEPT !.pc = "save", !.id = <<a, n>>, !.left = h.versions,
                                       !.created = @ \cup {n}])
            \/ \E id \in Live(n) : Goes(a, [read EXCEPT !.pc = "stash", !.id = id])
            \/ Unwind(a, read)
  BY <1>1, Zenon DEF ReadModel
<1>4. n \in Names /\ <<a, n>> \in Ids
  <2>1. n \in h.todo
    BY <1>3, Zenon
  <2> QED BY <1>2, <2>1, UploadForm, StoreBounds DEF Handlers, Ids
<1>5. /\ read \in Upload /\ read.edits = h.edits /\ read.created = h.created /\ read.name = n
      /\ read.staged = h.staged /\ read.todo = h.todo \ {n} /\ read.versions = h.versions
  <2>1. read = [h EXCEPT !.todo = @ \ {n}, !.name = n]
    BY <1>3, Zenon
  <2> QED BY <1>2, <1>4, <2>1 DEF Upload
<1>6. rows' = rows /\ disk' = disk
  BY Zenon DEF ReadModel
<1>7. UploadKeeps(h) /\ UploadSaved(a, h)
  BY <1>1, <1>2, UploadWork
<1>8. Mine(read) = Mine(h) /\ NamesOf(read) = NamesOf(h)
  BY <1>5 DEF Mine, NamesOf
<1>9. UploadKeeps(read)
  BY <1>5, <1>7, <1>8 DEF UploadKeeps
<1>10. n \in h.todo /\ n \notin Mine(h)
  <2>1. n \in h.todo
    BY <1>3, Zenon
  <2> QED BY <1>7, <2>1 DEF UploadSaved
<1>11. ASSUME Live(n) = {},
              NEW state, Goes(a, state),
              state = [read EXCEPT !.pc = "save", !.id = <<a, n>>, !.left = h.versions,
                                   !.created = @ \cup {n}]
       PROVE  WorkInv(a, handler[a])'
  <2>0. h.versions \in SUBSET Versions
    BY <1>2, UploadForm
  <2>1. /\ state \in Upload /\ state.pc = "save" /\ state.name = n /\ state.left = h.versions
        /\ state.edits = h.edits /\ state.created = h.created \cup {n} /\ state.staged = h.staged
        /\ state.todo = h.todo \ {n} /\ state.versions = h.versions
    BY <1>4, <1>5, <1>11, <2>0 DEF Upload, Uploading
  <2>2. NamesOf(state) = NamesOf(h) /\ Mine(state) = Mine(h) \cup {n}
    BY <2>1 DEF Mine, NamesOf
  <2>3. UploadKeeps(state)
    BY <1>7, <1>11, <2>1, <2>2 DEF UploadKeeps
  <2>4. UploadSaved(a, state)
    <3>1. \A s \in state.staged : disk[Root(s[1])].holds[s[2]] = <<a, s[1]>>
      BY <1>7, <2>1 DEF UploadSaved
    <3>2. \A m \in Mine(h) : \A v \in h.versions : <<m, v>> \in h.staged
      <4>1. h.pc # "save"
        BY <1>2
      <4> QED BY <1>7, <4>1, Zenon DEF UploadSaved
    <3>3. state.todo \cap Mine(state) = {}
      BY <1>7, <2>1, <2>2 DEF UploadSaved
    <3> QED BY <2>1, <2>2, <3>1, <3>2, <3>3 DEF UploadSaved
  <2>5. UploadSaved(a, state)'
    BY <1>6, <2>4 DEF UploadSaved, Mine, NamesOf
  <2>6. WorkInv(a, state)'
    BY <1>6, <2>1, <2>2, <2>3, <2>5, KeepsSame, ForwardWork
  <2>7. handler'[a] = state
    BY <1>11 DEF Goes, TypeOK
  <2> QED BY <2>6, <2>7
<1>12. ASSUME NEW id \in Live(n), NEW state, Goes(a, state),
              state = [read EXCEPT !.pc = "stash", !.id = id]
       PROVE  WorkInv(a, handler[a])'
  <2>1. /\ state \in Upload /\ state.pc = "stash" /\ state.name = n /\ state.id = id
        /\ state.edits = h.edits /\ state.created = h.created /\ state.staged = h.staged
        /\ state.todo = h.todo \ {n} /\ state.versions = h.versions
    BY <1>5, <1>12 DEF Upload, Uploading, Live
  <2>2. NamesOf(state) = NamesOf(h) /\ Mine(state) = Mine(h)
    BY <2>1 DEF Mine, NamesOf
  <2>3. UploadKeeps(state)
    BY <1>7, <2>1, <2>2 DEF UploadKeeps
  <2>4. UploadSaved(a, state)
    BY <1>2, <1>7, <2>1, <2>2 DEF UploadSaved
  <2>5. UploadSaved(a, state)'
    BY <1>6, <2>4 DEF UploadSaved, Mine, NamesOf
  <2>6. IsLive(id, n)'
    BY <1>6, <1>12 DEF IsLive, Live
  <2>7. WorkInv(a, state)'
    BY <1>6, <1>10, <2>1, <2>2, <2>3, <2>5, <2>6, KeepsSame, ForwardWork
  <2>8. handler'[a] = state
    BY <1>12 DEF Goes, TypeOK
  <2> QED BY <2>7, <2>8
<1>13. ASSUME Unwind(a, read) PROVE WorkInv(a, handler[a])'
  BY <1>5, <1>6, <1>9, <1>13, KeepsSame, UnwindWork
<1> QED BY <1>3, <1>11, <1>12, <1>13, Zenon

(* The stash takes the files of the row that is to be updated.             *)
LEMMA StashedKeeps ==
    ASSUME TypeOK, NEW h \in Upload, UploadKeeps(h), rows' = rows,
           IsLive(h.id, h.name), h.name \notin Mine(h), Move(Root(h.name), Aside(h.name)),
           NEW st \in Upload, st.created = h.created, st.staged = h.staged,
           NEW e, st.edits = h.edits \cup {e}, e.id = h.id, e.name = h.name, e.loaded = Holding(h.id)
    PROVE  UploadKeeps(st)'
<1>0. h.name \in Names /\ h.id \in Ids
  BY UploadForm
<1>1. disk'[Aside(h.name)] = disk[Root(h.name)]
  BY <1>0, MoveEffect, PlaceForms, PlacesDiffer
<1>2. \A p \in Places \ {Root(h.name), Aside(h.name)} : disk'[p] = disk[p]
  BY <1>0, MoveEffect, PlaceForms, PlacesDiffer
<1>3. \A m \in Names \ {h.name} : disk'[Root(m)] = disk[Root(m)] /\ disk'[Aside(m)] = disk[Aside(m)]
  BY <1>0, <1>2, PlaceForms, PlacesDiffer, RootsDiffer
<1>4. NamesOf(st) = NamesOf(h) \cup {h.name} /\ Mine(st) = Mine(h) \cup {h.name}
  BY DEF NamesOf, Mine
<1>5. ASSUME NEW id \in Ids, rows[id].name \notin NamesOf(st) PROVE Backed(id)'
  <2>1. Backed(id) /\ rows[id].name \in Names /\ rows[id].name # h.name
    BY <1>4, <1>5 DEF UploadKeeps, TypeOK, Row
  <2> QED BY <1>3, <2>1 DEF Backed, FilesAt, Holding
<1>6. ASSUME NEW f \in h.edits PROVE EditKept(f)'
  <2>1. EditKept(f) /\ f.name \in Names
    BY UploadForm, EditForm DEF UploadKeeps
  <2>2. f.name # h.name
    BY DEF Mine, NamesOf
  <2> QED BY <1>3, <2>1, <2>2 DEF EditKept, IsLive, Holding, FilesAt
<1>7. EditKept(e)'
  <2>1. Backed(h.id)
    BY <1>0 DEF UploadKeeps, Mine, IsLive
  <2>2. FilesAt(Root(h.name), h.id)
    BY <2>1 DEF Backed, IsLive
  <2> QED BY <1>1, <2>2 DEF EditKept, IsLive, Holding, FilesAt
<1>8. \A m \in st.created : Live(m)' = {}
  BY DEF UploadKeeps, Live
<1>9. \A s \in st.staged : s[1] \in Mine(st)
  BY <1>4 DEF UploadKeeps
<1>10. \A f \in st.edits : EditKept(f)'
  BY <1>6, <1>7
<1>11. NamesOf(st)' = NamesOf(st) /\ Mine(st)' = Mine(st)
  BY DEF NamesOf, Mine
<1> QED BY <1>5, <1>8, <1>9, <1>10, <1>11 DEF UploadKeeps

LEMMA StashWork ==
    ASSUME TypeOK, NEW a \in Handlers, WorkInv(a, handler[a]), Stash(a)
    PROVE  WorkInv(a, handler[a])'
<1>1. PICK h : h = handler[a]
  OBVIOUS
<1>2. h \in Upload /\ h.pc = "stash"
  <2>1. h.pc = "stash"
    BY <1>1, Zenon DEF Stash
  <2> QED BY <1>1, <2>1, UploadAt DEF Uploading
<1>3. rows' = rows
  BY Zenon DEF Stash
<1>4. /\ UploadKeeps(h) /\ UploadSaved(a, h)
      /\ IsLive(h.id, h.name) /\ h.name \notin Mine(h) \cup h.todo
  BY <1>1, <1>2 DEF WorkInv, UploadInv
<1>5. CASE Stashed(a)
  <2>1. PICK e, state :
           /\ e = [id |-> h.id, name |-> h.name, loaded |-> Holding(h.id)]
           /\ state = [h EXCEPT !.pc = "save", !.left = h.versions, !.edits = @ \cup {e}]
           /\ Goes(a, state)
    BY <1>1, <1>5, Zenon DEF Stashed, Holding
  <2>2. e \in Edit /\ e.id = h.id /\ e.name = h.name /\ e.loaded = Holding(h.id)
    <3>1. e = [id |-> h.id, name |-> h.name, loaded |-> Holding(h.id)]
      BY <2>1, Zenon
    <3>2. Holding(h.id) \in SUBSET Versions
      BY DEF Holding
    <3> QED BY <1>2, <3>1, <3>2, UploadForm DEF Edit
  <2>3. /\ state \in Upload /\ state.pc = "save" /\ state.name = h.name /\ state.left = h.versions
        /\ state.edits = h.edits \cup {e} /\ state.created = h.created /\ state.staged = h.staged
        /\ state.todo = h.todo /\ state.versions = h.versions
    <3>1. state = [h EXCEPT !.pc = "save", !.left = h.versions, !.edits = @ \cup {e}]
      BY <2>1, Zenon
    <3> QED BY <1>2, <2>2, <3>1 DEF Upload, Uploading
  <2>4. Move(Root(h.name), Aside(h.name))
    BY <1>1, <1>5, Zenon DEF Stashed
  <2>5. UploadKeeps(state)'
    BY <1>2, <1>3, <1>4, <2>2, <2>3, <2>4, StashedKeeps
  <2>6. Mine(state) = Mine(h) \cup {h.name}
    BY <2>2, <2>3 DEF Mine, NamesOf
  <2>7. \A s \in h.staged : disk'[Root(s[1])] = disk[Root(s[1])]
    <3>1. ASSUME NEW s \in h.staged PROVE s[1] \in Names \ {h.name}
      BY <1>2, <1>4, UploadForm DEF UploadKeeps
    <3>2. \A p \in Places \ {Root(h.name), Aside(h.name)} : disk'[p] = disk[p]
      BY <1>2, <2>4, UploadForm, MoveEffect, PlaceForms, PlacesDiffer
    <3> QED BY <3>1, <3>2, PlaceForms, PlacesDiffer, RootsDiffer
  <2>8. UploadSaved(a, state)'
    <3>1. \A s \in state.staged : disk'[Root(s[1])].holds[s[2]] = <<a, s[1]>>
      BY <1>4, <2>3, <2>7 DEF UploadSaved
    <3>2. \A m \in Mine(h) : \A v \in h.versions : <<m, v>> \in h.staged
      <4>1. h.pc # "save"
        BY <1>2
      <4> QED BY <1>4, <4>1, Zenon DEF UploadSaved
    <3>3. state.todo \cap Mine(state) = {}
      BY <1>4, <2>3, <2>6 DEF UploadSaved
    <3>4. Mine(state)' = Mine(state)
      BY DEF Mine, NamesOf
    <3> QED BY <2>3, <2>6, <3>1, <3>2, <3>3, <3>4 DEF UploadSaved
  <2>9. state.name \in Mine(state)
    BY <2>3, <2>6
  <2>10. WorkInv(a, state)'
    BY <2>3, <2>5, <2>8, <2>9, ForwardWork
  <2>11. handler'[a] = state
    <3>1. Goes(a, state)
      BY <2>1, Zenon
    <3> QED BY <3>1 DEF Goes, TypeOK
  <2> QED BY <2>10, <2>11
<1>6. CASE Unwind(a, h) /\ disk' = disk
  BY <1>2, <1>3, <1>4, <1>6, KeepsSame, UnwindWork
<1>7. Stashed(a) \/ (Unwind(a, h) /\ disk' = disk)
  BY <1>1, Zenon DEF Stash
<1> QED BY <1>5, <1>6, <1>7

(* What a directory holds once a version is put into it, or taken out.     *)
LEMMA WithHolds ==
    ASSUME NEW dir \in Dir, NEW v \in Versions, NEW u
    PROVE  /\ With(dir, v, u).holds[v] = u
           /\ \A w \in Versions \ {v} : With(dir, v, u).holds[w] = dir.holds[w]
BY DirForms DEF With, Files

LEMMA WithoutHolds ==
    ASSUME NEW dir \in Dir, NEW v \in Versions
    PROVE  \A w \in Versions \ {v} : Without(dir, v).holds[w] = dir.holds[w]
<1>1. PICK left : left = [dir.holds EXCEPT ![v] = None]
  OBVIOUS
<1>2. \A w \in Versions \ {v} : left[w] = dir.holds[w]
  BY <1>1, DirForms DEF Files
<1>3. CASE left = NoFiles
  <2>1. Without(dir, v).holds = NoFiles
    BY <1>1, <1>3 DEF Without, NoDir
  <2> QED BY <1>2, <1>3, <2>1
<1>4. CASE left # NoFiles
  <2>1. Without(dir, v) = [dir EXCEPT !.holds = left]
    BY <1>1, <1>4 DEF Without
  <2>2. Without(dir, v).holds = left
    BY <2>1 DEF Dir
  <2> QED BY <1>2, <2>2
<1> QED BY <1>3, <1>4

LEMMA SaveEffect ==
    ASSUME TypeOK, NEW n \in Names, NEW v \in Versions, NEW u \in Ids \cup {None},
           disk' = [disk EXCEPT ![Root(n)] = With(disk[Root(n)], v, u)]
    PROVE  /\ \A p \in Places \ {Root(n)} : disk'[p] = disk[p]
           /\ disk'[Root(n)].holds[v] = u
           /\ \A w \in Versions \ {v} : disk'[Root(n)].holds[w] = disk[Root(n)].holds[w]
<1>1. disk[Root(n)] \in Dir /\ Root(n) \in Places
  BY DirAt, PlaceForms
<1>2. PICK dir \in Dir : dir = With(disk[Root(n)], v, u)
  BY <1>1, WithForm
<1>3. disk' = [disk EXCEPT ![Root(n)] = dir]
  BY <1>2, Zenon
<1>4. disk'[Root(n)] = dir /\ \A p \in Places \ {Root(n)} : disk'[p] = disk[p]
  BY <1>1, <1>3, PutDir
<1>5. dir.holds[v] = u /\ \A w \in Versions \ {v} : dir.holds[w] = disk[Root(n)].holds[w]
  BY <1>1, <1>2, WithHolds
<1> QED BY <1>4, <1>5

LEMMA SaveWork ==
    ASSUME TypeOK, NEW a \in Handlers, WorkInv(a, handler[a]), Save(a)
    PROVE  WorkInv(a, handler[a])'
<1>1. PICK h : h = handler[a]
  OBVIOUS
<1>2. h \in Upload /\ h.pc = "save"
  <2>1. h.pc = "save"
    BY <1>1, Zenon DEF Save
  <2> QED BY <1>1, <2>1, UploadAt DEF Uploading
<1>3. rows' = rows
  BY Zenon DEF Save
<1>4. UploadKeeps(h) /\ UploadSaved(a, h) /\ h.name \in Mine(h)
  BY <1>1, <1>2 DEF WorkInv, UploadInv
<1>5. PICK n \in Names : n = h.name
  BY <1>2, UploadForm
<1>6. PICK v, state :
         /\ v \in h.left
         /\ state = [h EXCEPT !.left = @ \ {v}, !.staged = @ \cup {<<n, v>>},
                              !.pc = IF h.left # {v} THEN "save"
                                     ELSE IF h.todo # {} THEN "model" ELSE "commit"]
         /\ \/ /\ disk' = [disk EXCEPT ![Root(n)] = With(disk[Root(n)], v, <<a, n>>)]
               /\ Goes(a, state)
            \/ Unwind(a, h) /\ disk' = disk
  BY <1>1, <1>5, Zenon DEF Save
<1>7. v \in Versions /\ v \in h.left /\ <<a, n>> \in Ids
  <2>1. v \in h.left
    BY <1>6, Zenon
  <2> QED BY <1>2, <2>1, UploadForm, StoreBounds DEF Handlers, Ids
<1>8. CASE disk' = [disk EXCEPT ![Root(n)] = With(disk[Root(n)], v, <<a, n>>)] /\ Goes(a, state)
  <2>1. /\ state \in Upload /\ state.pc \in {"save", "model", "commit"}
        /\ state.pc # "save" => h.left = {v}
        /\ state.name = n /\ state.left = h.left \ {v} /\ state.staged = h.staged \cup {<<n, v>>}
        /\ state.edits = h.edits /\ state.created = h.created
        /\ state.todo = h.todo /\ state.versions = h.versions
    <3>1. state = [h EXCEPT !.left = @ \ {v}, !.staged = @ \cup {<<n, v>>},
                            !.pc = IF h.left # {v} THEN "save"
                                   ELSE IF h.todo # {} THEN "model" ELSE "commit"]
      BY <1>6, Zenon
    <3>2. PICK pc, left, staged :
             /\ pc = IF h.left # {v} THEN "save" ELSE IF h.todo # {} THEN "model" ELSE "commit"
             /\ left = h.left \ {v} /\ staged = h.staged \cup {<<n, v>>}
             /\ state = [h EXCEPT !.left = left, !.staged = staged, !.pc = pc]
      BY <3>1, Zenon
    <3>3. pc \in {"save", "model", "commit"} /\ (pc # "save" => h.left = {v})
      BY <3>2
    <3>4. left = h.left \ {v} /\ staged = h.staged \cup {<<n, v>>}
      BY <3>2, Zenon
    <3>5. left \in SUBSET Versions /\ staged \in SUBSET (Names \X Versions)
      BY <1>2, <1>7, <3>4, UploadForm
    <3>6. state = [h EXCEPT !.left = left, !.staged = staged, !.pc = pc]
      BY <3>2, Zenon
    <3> QED BY <1>2, <1>5, <3>3, <3>4, <3>5, <3>6 DEF Upload, Uploading
  <2>2. /\ \A p \in Places \ {Root(n)} : disk'[p] = disk[p]
        /\ disk'[Root(n)].holds[v] = <<a, n>>
        /\ \A w \in Versions \ {v} : disk'[Root(n)].holds[w] = disk[Root(n)].holds[w]
    <3>1. disk' = [disk EXCEPT ![Root(n)] = With(disk[Root(n)], v, <<a, n>>)]
      BY <1>8, Zenon
    <3> QED BY <1>7, <3>1, SaveEffect
  <2>3. UploadKeeps(h)'
    BY <1>2, <1>3, <1>4, <1>5, <2>2, KeepsElsewhere
  <2>4. NamesOf(state) = NamesOf(h) /\ Mine(state) = Mine(h)
    BY <2>1 DEF NamesOf, Mine
  <2>5. UploadKeeps(state)'
    <3>1. n \in Mine(h)
      BY <1>4, <1>5
    <3>2. \A s \in state.staged : s[1] \in Mine(h)
      BY <1>4, <2>1, <3>1 DEF UploadKeeps
    <3> QED BY <2>1, <2>3, <2>4, <3>2 DEF UploadKeeps, NamesOf, Mine
  <2>6. UploadSaved(a, state)'
    <3>1. ASSUME NEW s \in state.staged PROVE disk'[Root(s[1])].holds[s[2]] = <<a, s[1]>>
      <4>1. CASE s = <<n, v>>
        BY <2>2, <4>1
      <4>2. CASE s # <<n, v>>
        <5>1. s \in h.staged /\ s[1] \in Names /\ s[2] \in Versions /\ s = <<s[1], s[2]>>
          BY <1>2, <2>1, <4>2, UploadForm
        <5>2. disk[Root(s[1])].holds[s[2]] = <<a, s[1]>>
          BY <1>4, <5>1 DEF UploadSaved
        <5>3. CASE s[1] = n
          <6>1. s[2] # v
            BY <4>2, <5>1, <5>3
          <6> QED BY <2>2, <5>1, <5>2, <5>3, <6>1
        <5>4. CASE s[1] # n
          <6>1. Root(s[1]) \in Places \ {Root(n)}
            BY <5>1, <5>4, PlaceForms, RootsDiffer
          <6>2. disk'[Root(s[1])] = disk[Root(s[1])]
            BY <2>2, <6>1
          <6> QED BY <5>2, <6>2
        <5> QED BY <5>3, <5>4
      <4> QED BY <4>1, <4>2
    <3>2. ASSUME NEW m \in Mine(h), NEW w \in h.versions
          PROVE  <<m, w>> \in state.staged \/ (state.pc = "save" /\ m = n /\ w \in state.left)
      <4>1. <<m, w>> \in h.staged \/ (m = n /\ w \in h.left)
        BY <1>4, <1>5 DEF UploadSaved
      <4> QED BY <2>1, <4>1
    <3>3. state.todo \cap Mine(state) = {}
      BY <1>4, <2>1, <2>4 DEF UploadSaved
    <3>4. Mine(state)' = Mine(h)
      BY <2>4 DEF NamesOf, Mine
    <3> QED BY <2>1, <2>4, <3>1, <3>2, <3>3, <3>4 DEF UploadSaved
  <2>7. WorkInv(a, state)'
    BY <1>4, <1>5, <2>1, <2>4, <2>5, <2>6, ForwardWork
  <2>8. handler'[a] = state
    BY <1>8 DEF Goes, TypeOK
  <2> QED BY <2>7, <2>8
<1>9. CASE Unwind(a, h) /\ disk' = disk
  BY <1>2, <1>3, <1>4, <1>9, KeepsSame, UnwindWork
<1> QED BY <1>6, <1>8, <1>9, Zenon

(* A save, a stash or a commit that raises.                                *)
LEMMA UploadFaultWork ==
    ASSUME TypeOK, NEW a \in Handlers, WorkInv(a, handler[a]),
           StashFails(a) \/ SaveFails(a) \/ CommitFails(a)
    PROVE  WorkInv(a, handler[a])'
<1>1. PICK h : h = handler[a]
  OBVIOUS
<1>2. h.pc \in {"stash", "save", "commit"} /\ rows' = rows /\ Unwind(a, h)
  BY <1>1, Zenon DEF StashFails, SaveFails, CommitFails
<1>3. h \in Upload
  BY <1>1, <1>2, UploadAt DEF Uploading
<1>4. UploadKeeps(h)
  BY <1>1, <1>2 DEF WorkInv, UploadInv
<1>5. CASE StashFails(a) \/ CommitFails(a)
  BY <1>2, <1>3, <1>4, <1>5, KeepsSame, UnwindWork DEF StashFails, CommitFails
<1>6. CASE SaveFails(a)
  <2>1. PICK n \in Names : n = h.name
    BY <1>3, UploadForm
  <2>2. PICK v, part :
           /\ v \in h.left /\ part \in {None, <<a, n>>}
           /\ disk' = [disk EXCEPT ![Root(n)] = With(disk[Root(n)], v, part)]
    BY <1>1, <1>6, <2>1, Zenon DEF SaveFails
  <2>3. v \in Versions /\ part \in Ids \cup {None}
    <3>1. v \in h.left /\ part \in {None, <<a, n>>}
      BY <2>2, Zenon
    <3> QED BY <1>3, <3>1, UploadForm, StoreBounds DEF Handlers, Ids
  <2>4. \A p \in Places \ {Root(n)} : disk'[p] = disk[p]
    <3>1. disk' = [disk EXCEPT ![Root(n)] = With(disk[Root(n)], v, part)]
      BY <2>2, Zenon
    <3> QED BY <2>3, <3>1, SaveEffect
  <2>5. h.pc = "save"
    BY <1>1, <1>6, Zenon DEF SaveFails
  <2>6. n \in Mine(h)
    BY <1>1, <2>1, <2>5 DEF WorkInv, UploadInv
  <2> QED BY <1>2, <1>3, <1>4, <2>4, <2>6, KeepsElsewhere, UnwindWork
<1> QED BY <1>5, <1>6

(* What the commit of an upload makes of a row.                            *)
IsNew(a, h, id) == id[1] = a /\ id[2] \in h.created
WrittenAnew(a, h, id) ==
    /\ IsNew(a, h, id)
    /\ rows'[id].name = id[2] /\ rows'[id].state = "live"
    /\ rows'[id].held = [v \in Versions |-> IF v \in h.versions THEN id ELSE None]
Rewritten(a, h, e) ==
    /\ ~IsNew(a, h, e.id)
    /\ rows'[e.id].name = rows[e.id].name /\ rows'[e.id].state = rows[e.id].state
    /\ rows'[e.id].held = [v \in Versions |->
          IF v \in h.versions THEN <<a, e.name>>
          ELSE IF v \in e.loaded THEN None ELSE rows[e.id].held[v]]
LeftAlone(a, h, id) ==
    /\ ~IsNew(a, h, id) /\ \A e \in h.edits : e.id # id
    /\ rows'[id] = rows[id]

LEMMA WrittenRow ==
    ASSUME TypeOK, NEW a \in Handlers, NEW h \in Upload, h = handler[a],
           rows' = Written(a), NEW id \in Ids
    PROVE  \/ WrittenAnew(a, h, id)
           \/ \E e \in h.edits : e.id = id /\ Rewritten(a, h, e)
           \/ LeftAlone(a, h, id)
<1>0. rows'[id] = Written(a)[id]
  OBVIOUS
<1>1. CASE IsNew(a, h, id)
  <2>1. Written(a)[id] = [name |-> id[2], state |-> "live",
                          held |-> [v \in Versions |-> IF v \in h.versions THEN id ELSE None]]
    BY <1>1 DEF Written, IsNew
  <2> QED BY <1>0, <1>1, <2>1 DEF WrittenAnew
<1>2. CASE ~IsNew(a, h, id) /\ \E e \in h.edits : e.id = id
  <2>1. PICK e : e = CHOOSE f \in h.edits : f.id = id
    OBVIOUS
  <2>2. e \in h.edits /\ e.id = id
    BY <1>2, <2>1
  <2>3. PICK held : held = [v \in Versions |->
                IF v \in h.versions THEN <<a, e.name>>
                ELSE IF v \in e.loaded THEN None ELSE rows[id].held[v]]
    OBVIOUS
  <2>4. Written(a)[id] = [rows[id] EXCEPT !.held = held]
    BY <1>2, <2>1, <2>3 DEF Written, IsNew
  <2>5. rows[id] \in Row
    BY DEF TypeOK
  <2>6. rows'[id].name = rows[id].name /\ rows'[id].state = rows[id].state /\ rows'[id].held = held
    BY <1>0, <2>4, <2>5 DEF Row
  <2>7. Rewritten(a, h, e)
    BY <1>2, <2>2, <2>3, <2>6 DEF Rewritten
  <2> QED BY <2>2, <2>7
<1>3. CASE ~IsNew(a, h, id) /\ ~\E e \in h.edits : e.id = id
  <2>1. Written(a)[id] = rows[id]
    BY <1>3 DEF Written, IsNew
  <2> QED BY <1>0, <1>3, <2>1 DEF LeftAlone
<1> QED BY <1>1, <1>2, <1>3

(* Every row a commit writes has the files the request has saved for it.   *)
LEMMA CommitBacks ==
    ASSUME TypeOK, LiveOnce, NEW a \in Handlers, NEW h \in Upload, h = handler[a],
           h.pc = "commit", UploadKeeps(h), UploadSaved(a, h), rows' = Written(a), disk' = disk,
           NEW id \in Ids
    PROVE  Backed(id)'
<1>0. ASSUME NEW n \in Mine(h), NEW v \in h.versions PROVE disk[Root(n)].holds[v] = <<a, n>>
  <2>1. <<n, v>> \in h.staged
    BY DEF UploadSaved
  <2> QED BY <2>1 DEF UploadSaved
<1>1. CASE WrittenAnew(a, h, id)
  <2>1. id = <<a, id[2]>> /\ id[2] \in Mine(h)
    BY <1>1 DEF Ids, Mine, WrittenAnew, IsNew
  <2>2. \A v \in Versions : v \in h.versions => disk[Root(id[2])].holds[v] = id
    BY <1>0, <2>1
  <2>3. \A v \in Holding(id)' : v \in Versions /\ v \in h.versions /\ rows'[id].held[v] = id
    BY <1>1 DEF Holding, WrittenAnew
  <2>4. \A v \in Holding(id)' : disk'[Root(id[2])].holds[v] = rows'[id].held[v]
    BY <2>2, <2>3
  <2>5. rows'[id].name = id[2]
    BY <1>1 DEF WrittenAnew
  <2> QED BY <2>4, <2>5 DEF Backed, FilesAt
<1>2. ASSUME NEW e \in h.edits, e.id = id, Rewritten(a, h, e)
      PROVE  Backed(id)'
  <2>1. EditKept(e) /\ e.name \in Mine(h)
    BY DEF UploadKeeps, Mine, NamesOf
  <2>2. rows'[id].name = e.name
    BY <1>2, <2>1 DEF EditKept, IsLive, Rewritten
  <2>3. e.loaded = {v \in Versions : rows[id].held[v] # None}
    BY <1>2, <2>1 DEF EditKept, Holding
  <2>4. \A v \in Holding(id)' : v \in h.versions /\ rows'[id].held[v] = <<a, e.name>>
    BY <1>2, <2>3 DEF Holding, Rewritten
  <2>5. \A v \in Holding(id)' : disk'[Root(e.name)].holds[v] = rows'[id].held[v]
    BY <1>0, <2>1, <2>4
  <2> QED BY <2>2, <2>5 DEF Backed, FilesAt
<1>3. CASE LeftAlone(a, h, id)
  <2>1. rows'[id] = rows[id] /\ \A e \in h.edits : e.id # id
    BY <1>3 DEF LeftAlone
  <2>2. CASE rows[id].state = "live"
    <3>1. rows[id].name \notin NamesOf(h)
      BY <2>1, <2>2 DEF NamesOf, UploadKeeps, EditKept, IsLive, LiveOnce
    <3>2. Backed(id)
      BY <3>1 DEF UploadKeeps
    <3> QED BY <2>1, <3>2 DEF Backed, FilesAt, Holding
  <2> QED BY <2>1, <2>2 DEF Backed
<1> QED BY <1>1, <1>2, <1>3, WrittenRow, Zenon

(* The work of an upload past its commit.                                  *)
LEMMA DoneWork ==
    ASSUME NEW a, NEW h, h = Free \/ (h \in Upload /\ h.pc = "discard"), AllBacked'
    PROVE  WorkInv(a, h)'
<1>1. CASE h = Free
  BY <1>1 DEF WorkInv, UploadInv, RenameInv, DeletionInv, Free
<1>2. CASE h \in Upload /\ h.pc = "discard"
  BY <1>2 DEF WorkInv, UploadInv, RenameInv, DeletionInv
<1> QED BY <1>1, <1>2

LEMMA CommitWork ==
    ASSUME TypeOK, LiveOnce, NEW a \in Handlers, WorkInv(a, handler[a]), Commit(a),
           "flush" \notin faults'
    PROVE  WorkInv(a, handler[a])'
<1>1. PICK h : h = handler[a]
  OBVIOUS
<1>2. h \in Upload /\ h.pc = "commit" /\ disk' = disk
  BY <1>1, UploadAt DEF Commit, Uploading
<1>3. UploadKeeps(h) /\ UploadSaved(a, h)
  BY <1>1, <1>2, UploadWork
<1>4. CASE rows' = Written(a) /\ Goes(a, IF h.edits = {} THEN Free ELSE [h EXCEPT !.pc = "discard"])
  <2>1. AllBacked'
    BY <1>1, <1>2, <1>3, <1>4, CommitBacks DEF AllBacked
  <2>2. handler'[a] = IF h.edits = {} THEN Free ELSE [h EXCEPT !.pc = "discard"]
    BY <1>4 DEF Goes, TypeOK
  <2>3. PICK state : state = handler'[a]
    OBVIOUS
  <2>4. state = Free \/ (state \in Upload /\ state.pc = "discard")
    BY <1>2, <2>2, <2>3 DEF Upload, Uploading
  <2>5. WorkInv(a, state)'
    BY <2>1, <2>4, DoneWork
  <2> QED BY <2>3, <2>5
<1>5. CASE Unwind(a, h) /\ rows' = rows
  BY <1>2, <1>3, <1>5, KeepsSame, UnwindWork
<1>6. ~CutShort(a, h)
  BY Zenon DEF CutShort
<1> QED BY <1>1, <1>4, <1>5, <1>6 DEF Commit

(* What is left of an upload when it has discarded a stash.                *)
LEMMA DiscardGoes ==
    ASSUME TypeOK, NEW a \in Handlers, NEW h, h = handler[a], Discard(a) \/ DiscardFails(a)
    PROVE  \E state :
              /\ handler'[a] = state
              /\ state = Free \/ (/\ state \in Upload /\ state.pc = "discard"
                                  /\ state.edits \subseteq h.edits)
<1>1. h \in Upload /\ h.pc = "discard"
  BY UploadAt DEF Discard, DiscardFails, Uploading
<1>2. PICK state, rest :
         /\ Goes(a, state) /\ rest \subseteq h.edits
         /\ state = Free \/ state = [h EXCEPT !.edits = rest]
  <2>1. PICK gone : Goes(a, IF h.edits = gone THEN Free ELSE [h EXCEPT !.edits = @ \ gone])
    <3>1. CASE Discard(a)
      <4>1. PICK e : Goes(a, IF h.edits = {e} THEN Free ELSE [h EXCEPT !.edits = @ \ {e}])
        BY <3>1, Zenon DEF Discard
      <4> QED BY <4>1
    <3>2. CASE DiscardFails(a)
      BY <3>2, Zenon DEF DiscardFails
    <3> QED BY <3>1, <3>2
  <2>2. PICK rest : rest = h.edits \ gone
    OBVIOUS
  <2>3. PICK state : state = IF h.edits = gone THEN Free ELSE [h EXCEPT !.edits = rest]
    OBVIOUS
  <2>4. Goes(a, state)
    BY <2>1, <2>2, <2>3, Zenon
  <2>5. state = Free \/ state = [h EXCEPT !.edits = rest]
    BY <2>3
  <2> QED BY <2>2, <2>4, <2>5
<1>3. rest \in SUBSET Edit
  BY <1>1, <1>2, UploadForm
<1>4. handler'[a] = state
  BY <1>2 DEF Goes, TypeOK
<1> QED BY <1>1, <1>2, <1>3, <1>4 DEF Upload, Uploading

LEMMA DiscardWork ==
    ASSUME TypeOK, NEW a \in Handlers, WorkInv(a, handler[a]), Discard(a) \/ DiscardFails(a)
    PROVE  WorkInv(a, handler[a])'
<1>1. PICK h : h = handler[a]
  OBVIOUS
<1>2. h \in Upload /\ h.pc = "discard" /\ rows' = rows
  BY <1>1, UploadAt DEF Discard, DiscardFails, Uploading
<1>3. AllBacked
  BY <1>1, <1>2 DEF WorkInv, UploadInv
<1>4. \A n \in Names : disk'[Root(n)] = disk[Root(n)]
  <2>1. ASSUME NEW e \in h.edits, disk' = [disk EXCEPT ![Aside(e.name)] = NoDir], NEW n \in Names
        PROVE  disk'[Root(n)] = disk[Root(n)]
    BY <2>1, PlaceForms, PlacesDiffer DEF TypeOK
  <2> QED BY <1>1, <2>1 DEF Discard, DiscardFails
<1>5. AllBacked'
  BY <1>2, <1>3, <1>4 DEF AllBacked, Backed, FilesAt, Holding, TypeOK, Row
<1>6. PICK state : handler'[a] = state /\ (state = Free \/ (state \in Upload /\ state.pc = "discard"))
  BY <1>1, DiscardGoes
<1> QED BY <1>5, <1>6, DoneWork

LEMMA UndoSaveWork ==
    ASSUME TypeOK, NEW a \in Handlers, WorkInv(a, handler[a]), UndoSave(a)
    PROVE  WorkInv(a, handler[a])'
<1>1. PICK h : h = handler[a]
  OBVIOUS
<1>2. h \in Upload /\ h.pc = "undo" /\ rows' = rows
  BY <1>1, UploadAt DEF UndoSave, Uploading
<1>3. UploadKeeps(h)
  BY <1>1, <1>2, UploadWork
<1>4. PICK s, undone :
         /\ s \in h.staged
         /\ Remove(s[1], s[2])
         /\ undone = [h EXCEPT !.staged = @ \ {s}]
         /\ Unwind(a, undone)
  BY <1>1 DEF UndoSave
<1>5. s[1] \in Names /\ s[2] \in Versions /\ s[1] \in Mine(h)
  BY <1>2, <1>3, <1>4, UploadForm DEF UploadKeeps
<1>6. \A p \in Places \ {Root(s[1])} : disk'[p] = disk[p]
  BY <1>4, <1>5, RemoveEffect
<1>7. UploadKeeps(h)'
  BY <1>2, <1>3, <1>5, <1>6, KeepsElsewhere
<1>8. /\ undone \in Upload /\ undone.edits = h.edits /\ undone.created = h.created
      /\ undone.staged \subseteq h.staged
  BY <1>2, <1>4 DEF Upload
<1>9. UploadKeeps(undone)'
  BY <1>7, <1>8 DEF UploadKeeps, NamesOf, Mine
<1> QED BY <1>4, <1>8, <1>9, UnwindWork

(* What goes back to its place is what its row is about.                   *)
LEMMA RestoreWork ==
    ASSUME TypeOK, StashInv, LiveOnce, NEW a \in Handlers, WorkInv(a, handler[a]), Restore(a)
    PROVE  WorkInv(a, handler[a])'
<1>1. PICK h : h = handler[a]
  OBVIOUS
<1>2. h \in Upload /\ h.pc = "restore" /\ rows' = rows /\ Stashes(a) = h.edits
  BY <1>1, UploadAt DEF Restore, Uploading, Stashes
<1>3. UploadKeeps(h) /\ h.staged = {}
  BY <1>1, <1>2 DEF WorkInv, UploadInv
<1>4. PICK e, given :
         /\ e \in h.edits
         /\ IF disk[Aside(e.name)].exists THEN Move(Aside(e.name), Root(e.name)) ELSE UNCHANGED disk
         /\ given = [h EXCEPT !.edits = @ \ {e}]
         /\ Unwind(a, given)
  BY <1>1 DEF Restore
<1>5. e \in Edit /\ e.name \in Names
  BY <1>2, <1>4, UploadForm, EditForm
<1>6. disk[Aside(e.name)].exists /\ \A f \in h.edits : f.name = e.name => f = e
  BY <1>2, <1>4 DEF StashInv
<1>7. /\ disk'[Root(e.name)] = disk[Aside(e.name)]
      /\ \A p \in Places \ {Root(e.name), Aside(e.name)} : disk'[p] = disk[p]
  BY <1>4, <1>5, <1>6, MoveEffect, PlaceForms, PlacesDiffer
<1>8. \A m \in Names \ {e.name} : disk'[Root(m)] = disk[Root(m)] /\ disk'[Aside(m)] = disk[Aside(m)]
  BY <1>5, <1>7, PlaceForms, PlacesDiffer, RootsDiffer
<1>9. /\ given \in Upload /\ given.edits = h.edits \ {e} /\ given.created = h.created
      /\ given.staged = {}
  BY <1>2, <1>3, <1>4 DEF Upload
<1>10. ASSUME NEW id \in Ids, rows[id].name \notin NamesOf(given) PROVE Backed(id)'
  <2>1. rows[id].name \in Names
    BY DEF TypeOK, Row
  <2>2. CASE rows[id].name = e.name /\ rows[id].state = "live"
    <3>1. EditKept(e)
      BY <1>3, <1>4 DEF UploadKeeps
    <3>2. id = e.id
      BY <2>2, <3>1 DEF EditKept, IsLive, LiveOnce
    <3> QED BY <1>2, <1>7, <2>2, <3>1, <3>2 DEF EditKept, Backed, FilesAt, Holding
  <2>3. CASE rows[id].name # e.name
    <3>1. rows[id].name \notin NamesOf(h)
      BY <1>9, <1>10, <2>3 DEF NamesOf
    <3>2. Backed(id)
      BY <1>3, <3>1 DEF UploadKeeps
    <3> QED BY <1>2, <1>8, <2>1, <2>3, <3>2 DEF Backed, FilesAt, Holding
  <2>4. CASE rows[id].state # "live"
    BY <1>2, <2>4 DEF Backed
  <2> QED BY <2>2, <2>3, <2>4
<1>11. ASSUME NEW f \in given.edits PROVE EditKept(f)'
  <2>1. f \in h.edits /\ f # e /\ EditKept(f) /\ f.name \in Names
    BY <1>2, <1>3, <1>9, UploadForm, EditForm DEF UploadKeeps
  <2>2. f.name # e.name
    BY <1>6, <2>1
  <2> QED BY <1>2, <1>8, <2>1, <2>2 DEF EditKept, IsLive, Holding, FilesAt
<1>12. \A n \in given.created : Live(n)' = {}
  BY <1>2, <1>3, <1>9 DEF UploadKeeps, Live
<1>13. NamesOf(given)' = NamesOf(given)
  BY DEF NamesOf
<1>14. UploadKeeps(given)'
  BY <1>2, <1>9, <1>10, <1>11, <1>12, <1>13 DEF UploadKeeps
<1> QED BY <1>4, <1>9, <1>14, UnwindWork

-----------------------------------------------------------------------------
(* Renames and deletions *)

(* The files of other rows are under other names.                          *)
LEMMA OthersStay ==
    ASSUME TypeOK, LiveOnce, NEW id, NEW n, NEW to, IsLive(id, n), to = n \/ Live(to) = {},
           OthersBacked(id), \A i \in Ids \ {id} : rows'[i] = rows[i],
           \A m \in Names \ {n, to} : disk'[Root(m)].holds = disk[Root(m)].holds
    PROVE  OthersBacked(id)'
<1>1. ASSUME NEW i \in Ids \ {id}, rows[i].state = "live" PROVE Backed(i)'
  <2>1. rows[i].name \in Names
    BY DEF TypeOK, Row
  <2>2. rows[i].name # n /\ rows[i].name # to
    BY <1>1 DEF LiveOnce, IsLive, Live
  <2>3. Backed(i)
    BY DEF OthersBacked
  <2> QED BY <2>1, <2>2, <2>3 DEF Backed, FilesAt, Holding
<1>2. ASSUME NEW i \in Ids \ {id}, rows[i].state # "live" PROVE Backed(i)'
  BY <1>2 DEF Backed
<1> QED BY <1>1, <1>2 DEF OthersBacked

LEMMA AllTogether ==
    ASSUME NEW id, OthersBacked(id)', Backed(id)'
    PROVE  AllBacked'
BY DEF OthersBacked, AllBacked

LEMMA BeginRenameWork ==
    ASSUME TypeOK, NEW a \in Handlers, WorkInv(a, handler[a]), handler[a] = Free,
           NEW n \in Names, NEW to \in Names, BeginRename(a, n, to)
    PROVE  WorkInv(a, handler[a])'
<1>1. PICK id \in Live(n) :
         Goes(a, [pc |-> "rename", id |-> id, name |-> n, to |-> to, loaded |-> {}])
  BY DEF BeginRename
<1>2. PICK state : state = [pc |-> "rename", id |-> id, name |-> n, to |-> to, loaded |-> {}]
  OBVIOUS
<1>3. rows' = rows /\ disk' = disk /\ Live(to) = {}
  BY DEF BeginRename
<1>4. IsLive(id, n) /\ AllBacked
  BY DEF IsLive, Live, WorkInv
<1>5. IsLive(id, n)' /\ Live(to)' = {} /\ OthersBacked(id)' /\ Backed(id)'
  BY <1>3, <1>4 DEF IsLive, Live, OthersBacked, AllBacked, Backed, FilesAt, Holding
<1>6. WorkInv(a, state)'
  BY <1>2, <1>5 DEF WorkInv, UploadInv, RenameInv, DeletionInv, Free
<1>7. handler'[a] = state
  BY <1>1, <1>2 DEF Goes, TypeOK
<1> QED BY <1>6, <1>7

(* The work of a rename that has moved the files and not committed.        *)
LEMMA MovedWork ==
    ASSUME NEW a, NEW h, h.pc \in {"settle", "unrename"},
           IsLive(h.id, h.name)', (Live(h.to) = {})', OthersBacked(h.id)',
           FilesAt(Root(h.to), h.id)', disk'[Root(h.to)].exists, ~disk'[Root(h.name)].exists
    PROVE  WorkInv(a, h)'
BY DEF WorkInv, UploadInv, RenameInv, DeletionInv, Free

LEMMA RenameMoves ==
    ASSUME TypeOK, LiveOnce, NEW a \in Handlers, WorkInv(a, handler[a]), Rename(a) \/ RenameFails(a)
    PROVE  WorkInv(a, handler[a])'
<1>1. PICK h : h = handler[a]
  OBVIOUS
<1>2. h.pc = "rename" /\ rows' = rows
  BY <1>1, Zenon DEF Rename, RenameFails
<1>3. h \in Renaming /\ h.name \in Names /\ h.to \in Names /\ h.id \in Ids
  BY <1>1, <1>2, FormOfHandler DEF TypeOK, Renaming
<1>4. IsLive(h.id, h.name) /\ Live(h.to) = {} /\ OthersBacked(h.id) /\ Backed(h.id)
  BY <1>1, <1>2 DEF WorkInv, RenameInv
<1>5. h.name # h.to
  BY <1>4 DEF IsLive, Live
<1>6. CASE CanMove(Root(h.name), Root(h.to)) /\ Move(Root(h.name), Root(h.to)) /\ Rename(a)
  <2>1. PICK loaded, state :
           /\ loaded = {v \in Versions : rows[h.id].held[v] # None}
           /\ state = [h EXCEPT !.pc = "settle", !.loaded = loaded]
           /\ Goes(a, state)
    <3>1. PICK loaded : loaded = {v \in Versions : rows[h.id].held[v] # None}
      OBVIOUS
    <3>2. PICK state : state = [h EXCEPT !.pc = "settle", !.loaded = loaded]
      OBVIOUS
    <3>3. Goes(a, state)
      <4>1. Goes(a, [h EXCEPT !.pc = "settle", !.loaded = {v \in Versions : rows[h.id].held[v] # None}])
        BY <1>1, <1>6, Zenon DEF Rename
      <4> QED BY <3>1, <3>2, <4>1, Zenon
    <3> QED BY <3>1, <3>2, <3>3, Zenon
  <2>2. state.pc = "settle" /\ state.id = h.id /\ state.name = h.name /\ state.to = h.to
    BY <1>3, <2>1 DEF Renaming
  <2>3. Root(h.name) # Root(h.to)
    BY <1>5, RootsDiffer
  <2>4. /\ disk'[Root(h.to)] = disk[Root(h.name)] /\ disk'[Root(h.name)] = NoDir
        /\ \A q \in Places \ {Root(h.name), Root(h.to)} : disk'[q] = disk[q]
    BY <1>3, <1>6, <2>3, MoveEffect, PlaceForms
  <2>5. \A m \in Names \ {h.name, h.to} : disk'[Root(m)].holds = disk[Root(m)].holds
    BY <2>4, PlaceForms, RootsDiffer
  <2>6. OthersBacked(h.id)'
    BY <1>2, <1>4, <2>5, OthersStay
  <2>7. FilesAt(Root(h.to), h.id)'
    BY <1>2, <1>4, <2>4 DEF Backed, IsLive, FilesAt, Holding
  <2>8. IsLive(h.id, h.name)' /\ Live(h.to)' = {}
    BY <1>2, <1>4 DEF IsLive, Live
  <2>9. disk'[Root(h.to)].exists /\ ~disk'[Root(h.name)].exists
    BY <1>6, <2>4 DEF CanMove, NoDir
  <2>10. WorkInv(a, state)'
    BY <2>2, <2>6, <2>7, <2>8, <2>9, MovedWork
  <2>11. handler'[a] = state
    BY <2>1 DEF Goes, TypeOK
  <2> QED BY <2>10, <2>11
<1>7. CASE Goes(a, Free) /\ disk' = disk
  <2>1. AllBacked'
    BY <1>2, <1>4, <1>7 DEF OthersBacked, AllBacked, Backed, FilesAt, Holding
  <2>2. handler'[a] = Free
    BY <1>7 DEF Goes, TypeOK
  <2> QED BY <2>1, <2>2, DoneWork
<1>8. \/ CanMove(Root(h.name), Root(h.to)) /\ Move(Root(h.name), Root(h.to)) /\ Rename(a)
      \/ Goes(a, Free) /\ disk' = disk
  BY <1>1, Zenon DEF Rename, RenameFails
<1> QED BY <1>6, <1>7, <1>8

LEMMA SettleWork ==
    ASSUME TypeOK, LiveOnce, NEW a \in Handlers, WorkInv(a, handler[a]),
           CommitRename(a) \/ CommitRenameFails(a), "flush" \notin faults'
    PROVE  WorkInv(a, handler[a])'
<1>1. PICK h : h = handler[a]
  OBVIOUS
<1>2. h.pc = "settle" /\ disk' = disk
  BY <1>1 DEF CommitRename, CommitRenameFails
<1>3. h \in Renaming /\ h.name \in Names /\ h.to \in Names /\ h.id \in Ids
  BY <1>1, <1>2, FormOfHandler DEF TypeOK, Renaming
<1>4. /\ IsLive(h.id, h.name) /\ Live(h.to) = {} /\ OthersBacked(h.id)
      /\ FilesAt(Root(h.to), h.id) /\ disk[Root(h.to)].exists /\ ~disk[Root(h.name)].exists
  BY <1>1, <1>2 DEF WorkInv, RenameInv
<1>5. CASE rows' = [rows EXCEPT ![h.id].name = h.to] /\ Goes(a, Free)
  <2>1. /\ rows'[h.id].name = h.to /\ rows'[h.id].held = rows[h.id].held
        /\ \A i \in Ids \ {h.id} : rows'[i] = rows[i]
    BY <1>3, <1>5 DEF TypeOK, Row
  <2>2. OthersBacked(h.id)'
    BY <1>2, <1>4, <2>1, OthersStay
  <2>3. Backed(h.id)'
    BY <1>2, <1>4, <2>1 DEF Backed, FilesAt, Holding
  <2>4. handler'[a] = Free
    BY <1>5 DEF Goes, TypeOK
  <2> QED BY <2>2, <2>3, <2>4, AllTogether, DoneWork
<1>6. CASE rows' = rows /\ Goes(a, [h EXCEPT !.pc = "unrename"])
  <2>1. PICK state : state = [h EXCEPT !.pc = "unrename"]
    OBVIOUS
  <2>2. state.pc = "unrename" /\ state.id = h.id /\ state.name = h.name /\ state.to = h.to
    BY <1>3, <2>1 DEF Renaming
  <2>3. /\ IsLive(h.id, h.name)' /\ Live(h.to)' = {} /\ OthersBacked(h.id)'
        /\ FilesAt(Root(h.to), h.id)'
    BY <1>2, <1>4, <1>6 DEF IsLive, Live, OthersBacked, Backed, FilesAt, Holding
  <2>4. WorkInv(a, state)'
    BY <1>2, <1>4, <2>2, <2>3, MovedWork
  <2>5. handler'[a] = state
    BY <1>6, <2>1 DEF Goes, TypeOK
  <2> QED BY <2>4, <2>5
<1> QED BY <1>1, <1>5, <1>6 DEF CommitRename, CommitRenameFails

LEMMA UndoRenameWork ==
    ASSUME TypeOK, LiveOnce, NEW a \in Handlers, WorkInv(a, handler[a]), UndoRename(a)
    PROVE  WorkInv(a, handler[a])'
<1>1. PICK h : h = handler[a]
  OBVIOUS
<1>2. h.pc = "unrename" /\ rows' = rows /\ Goes(a, Free)
  BY <1>1 DEF UndoRename
<1>3. h.name \in Names /\ h.to \in Names /\ h.id \in Ids
  BY <1>1, <1>2, FormOfHandler DEF TypeOK, Renaming
<1>4. /\ IsLive(h.id, h.name) /\ Live(h.to) = {} /\ OthersBacked(h.id)
      /\ FilesAt(Root(h.to), h.id) /\ disk[Root(h.to)].exists /\ ~disk[Root(h.name)].exists
  BY <1>1, <1>2 DEF WorkInv, RenameInv
<1>5. Move(Root(h.to), Root(h.name))
  BY <1>1, <1>4 DEF UndoRename, CanMove
<1>6. Root(h.name) # Root(h.to)
  <2>1. h.name # h.to
    BY <1>4 DEF IsLive, Live
  <2> QED BY <2>1, RootsDiffer
<1>7. /\ disk'[Root(h.name)] = disk[Root(h.to)]
      /\ \A q \in Places \ {Root(h.name), Root(h.to)} : disk'[q] = disk[q]
  BY <1>3, <1>5, <1>6, MoveEffect, PlaceForms
<1>8. \A m \in Names \ {h.name, h.to} : disk'[Root(m)].holds = disk[Root(m)].holds
  BY <1>7, PlaceForms, RootsDiffer
<1>9. OthersBacked(h.id)'
  BY <1>2, <1>4, <1>8, OthersStay
<1>10. Backed(h.id)'
  BY <1>2, <1>4, <1>7 DEF Backed, IsLive, FilesAt, Holding
<1>11. handler'[a] = Free
  BY <1>2 DEF Goes, TypeOK
<1> QED BY <1>9, <1>10, <1>11, AllTogether, DoneWork

LEMMA BeginDeleteWork ==
    ASSUME TypeOK, NEW a \in Handlers, WorkInv(a, handler[a]), handler[a] = Free, NEW n \in Names,
           NEW one \in {{}} \cup {{v} : v \in Versions}, BeginDelete(a, n, one)
    PROVE  WorkInv(a, handler[a])'
<1>1. PICK id, doomed :
         /\ id \in Live(n) /\ doomed \subseteq Holding(id)
         /\ Goes(a, [pc |-> "delete", id |-> id, name |-> n, loaded |-> doomed, left |-> doomed])
  <2>1. PICK id \in Live(n) :
           LET loaded == {v \in Versions : rows[id].held[v] # None}
               doomed == IF one = {} THEN loaded ELSE one IN
           /\ one \subseteq loaded
           /\ Goes(a, [pc |-> "delete", id |-> id, name |-> n, loaded |-> doomed, left |-> doomed])
    BY DEF BeginDelete
  <2>2. PICK doomed : doomed = IF one = {} THEN Holding(id) ELSE one
    OBVIOUS
  <2> QED BY <2>1, <2>2 DEF Holding
<1>2. PICK state : state = [pc |-> "delete", id |-> id, name |-> n, loaded |-> doomed, left |-> doomed]
  OBVIOUS
<1>3. rows' = rows /\ disk' = disk
  BY DEF BeginDelete
<1>4. IsLive(id, n) /\ AllBacked
  BY <1>1 DEF IsLive, Live, WorkInv
<1>5. IsLive(id, n)' /\ OthersBacked(id)' /\ FilesAt(Root(n), id)' /\ doomed \subseteq Holding(id)'
  BY <1>1, <1>3, <1>4 DEF IsLive, OthersBacked, AllBacked, Backed, FilesAt, Holding
<1>6. WorkInv(a, state)'
  BY <1>2, <1>5 DEF WorkInv, UploadInv, RenameInv, DeletionInv, FilesAt, Free
<1>7. handler'[a] = state
  BY <1>1, <1>2 DEF Goes, TypeOK
<1> QED BY <1>6, <1>7

(* A deletion finds the files it is to remove, so it gets to its commit.   *)
LEMMA DeleteFilesWork ==
    ASSUME TypeOK, LiveOnce, NEW a \in Handlers, WorkInv(a, handler[a]), DeleteFiles(a)
    PROVE  WorkInv(a, handler[a])'
<1>1. PICK h : h = handler[a]
  OBVIOUS
<1>2. h.pc = "delete" /\ rows' = rows
  BY <1>1, Zenon DEF DeleteFiles
<1>3. h \in Deletion /\ h.id \in Ids /\ h.loaded \in SUBSET Versions /\ h.left \in SUBSET Versions
  BY <1>1, <1>2, FormOfHandler DEF TypeOK, Deletion
<1>4. PICK n \in Names : n = h.name
  BY <1>3 DEF Deletion
<1>5. /\ IsLive(h.id, n) /\ OthersBacked(h.id)
      /\ h.left \subseteq h.loaded /\ h.loaded \subseteq Holding(h.id)
      /\ \A v \in Holding(h.id) \ (h.loaded \ h.left) :
            disk[Root(n)].holds[v] = rows[h.id].held[v]
  BY <1>1, <1>2, <1>4 DEF WorkInv, DeletionInv
<1>6. PICK v, state :
         /\ v \in h.left /\ Remove(n, v) /\ state = [h EXCEPT !.left = @ \ {v}]
         /\ Goes(a, IF Has(n, v) THEN state ELSE Free)
  BY <1>1, <1>4, Zenon DEF DeleteFiles
<1>7. v \in Versions /\ v \in h.left /\ v \in h.loaded /\ Has(n, v)
  <2>1. v \in h.left
    BY <1>6, Zenon
  <2> QED BY <1>3, <1>5, <2>1 DEF Has, Holding
<1>8. /\ \A p \in Places \ {Root(n)} : disk'[p] = disk[p]
      /\ \A w \in Versions \ {v} : disk'[Root(n)].holds[w] = disk[Root(n)].holds[w]
  <2>1. disk[Root(n)] \in Dir /\ Root(n) \in Places
    BY DirAt, PlaceForms
  <2>2. PICK dir \in Dir : dir = Without(disk[Root(n)], v)
    BY <1>7, <2>1, WithoutForm
  <2>3. Remove(n, v)
    BY <1>6, Zenon
  <2>4. disk' = [disk EXCEPT ![Root(n)] = dir]
    BY <1>7, <2>2, <2>3 DEF Remove
  <2>5. \A w \in Versions \ {v} : dir.holds[w] = disk[Root(n)].holds[w]
    BY <1>7, <2>1, <2>2, WithoutHolds
  <2> QED BY <2>1, <2>4, <2>5, PutDir
<1>9. OthersBacked(h.id)'
  <2>1. \A m \in Names \ {n, n} : disk'[Root(m)].holds = disk[Root(m)].holds
    BY <1>8, PlaceForms, RootsDiffer
  <2> QED BY <1>2, <1>5, <2>1, OthersStay
<1>10. /\ state.pc = "delete" /\ state.id = h.id /\ state.name = n /\ state.loaded = h.loaded
       /\ state.left = h.left \ {v} /\ state # Free
  <2>1. state = [h EXCEPT !.left = @ \ {v}]
    BY <1>6, Zenon
  <2> QED BY <1>2, <1>3, <1>4, <2>1 DEF Deletion, Free
<1>11. IsLive(h.id, n)' /\ Holding(h.id)' = Holding(h.id)
  BY <1>2, <1>5 DEF IsLive, Holding
<1>12. ASSUME NEW w \in Holding(h.id) \ (state.loaded \ state.left)
       PROVE  disk'[Root(n)].holds[w] = rows'[h.id].held[w]
  <2>1. w \in Versions /\ w # v /\ w \in Holding(h.id) \ (h.loaded \ h.left)
    BY <1>7, <1>10 DEF Holding
  <2> QED BY <1>2, <1>5, <1>8, <2>1
<1>13. DeletionInv(state)'
  BY <1>5, <1>9, <1>10, <1>11, <1>12 DEF DeletionInv
<1>14. WorkInv(a, state)'
  BY <1>10, <1>13 DEF WorkInv, UploadInv, RenameInv
<1>15. handler'[a] = state
  <2>1. Goes(a, state)
    BY <1>6, <1>7, Zenon
  <2> QED BY <2>1 DEF Goes, TypeOK
<1> QED BY <1>14, <1>15

(* What a deletion's commit leaves of its row.                             *)
LEMMA ForgottenRow ==
    ASSUME TypeOK, NEW a \in Handlers, NEW h, h = handler[a], CommitDelete(a)
    PROVE  /\ h \in Deletion /\ h.pc = "delete" /\ h.left = {} /\ h.id \in Ids
           /\ disk' = disk /\ Goes(a, Free)
           /\ \A i \in Ids \ {h.id} : rows'[i] = rows[i]
           /\ rows'[h.id].name = rows[h.id].name
           /\ rows'[h.id].state = "live" => rows[h.id].state = "live"
           /\ \A v \in Versions :
                 rows'[h.id].held[v] = IF v \in h.loaded THEN None ELSE rows[h.id].held[v]
<1>1. h.pc = "delete" /\ h.left = {} /\ disk' = disk /\ Goes(a, Free)
  BY Zenon DEF CommitDelete
<1>2. h \in Deletion /\ h.id \in Ids
  BY <1>1, FormOfHandler DEF TypeOK, Deletion
<1>3. PICK id \in Ids : id = h.id
  BY <1>2
<1>4. PICK left : left = [v \in Versions |-> IF v \in h.loaded THEN None ELSE rows[id].held[v]]
  OBVIOUS
<1>5. rows[id] \in Row
  BY DEF TypeOK
<1>6. PICK partly : partly = [rows EXCEPT ![id].held = left]
  OBVIOUS
<1>7. /\ DOMAIN partly = Ids /\ partly[id].name = rows[id].name /\ partly[id].held = left
      /\ partly[id].state = rows[id].state /\ DOMAIN partly[id] = {"name", "state", "held"}
      /\ \A i \in Ids \ {id} : partly[i] = rows[i]
  BY <1>5, <1>6 DEF TypeOK, Row
<1>8. rows' = [partly EXCEPT ![id].state = IF left = NoFiles THEN "deleted" ELSE @]
  BY <1>3, <1>4, <1>6, Zenon DEF CommitDelete
<1>9. PICK state : state = IF left = NoFiles THEN "deleted" ELSE rows[id].state
  OBVIOUS
<1>10. rows' = [partly EXCEPT ![id].state = state]
  BY <1>7, <1>8, <1>9
<1>11. /\ rows'[id].name = rows[id].name /\ rows'[id].held = left /\ rows'[id].state = state
       /\ \A i \in Ids \ {id} : rows'[i] = rows[i]
  BY <1>7, <1>10
<1> QED BY <1>1, <1>2, <1>3, <1>4, <1>9, <1>11

LEMMA CommitDeleteWork ==
    ASSUME TypeOK, LiveOnce, NEW a \in Handlers, WorkInv(a, handler[a]), CommitDelete(a)
    PROVE  WorkInv(a, handler[a])'
<1>1. PICK h : h = handler[a]
  OBVIOUS
<1>2. /\ h.pc = "delete" /\ h.left = {} /\ h.id \in Ids /\ disk' = disk /\ Goes(a, Free)
      /\ \A i \in Ids \ {h.id} : rows'[i] = rows[i]
      /\ rows'[h.id].name = rows[h.id].name
      /\ \A v \in Versions :
            rows'[h.id].held[v] = IF v \in h.loaded THEN None ELSE rows[h.id].held[v]
  BY <1>1, ForgottenRow
<1>3. /\ IsLive(h.id, h.name) /\ OthersBacked(h.id)
      /\ \A v \in Holding(h.id) \ (h.loaded \ h.left) :
            disk[Root(h.name)].holds[v] = rows[h.id].held[v]
  BY <1>1, <1>2 DEF WorkInv, DeletionInv
<1>4. OthersBacked(h.id)'
  BY <1>2, <1>3, OthersStay
<1>5. ASSUME NEW v \in Holding(h.id)' PROVE disk'[Root(h.name)].holds[v] = rows'[h.id].held[v]
  <2>1. v \in Holding(h.id) /\ v \notin h.loaded /\ rows'[h.id].held[v] = rows[h.id].held[v]
    BY <1>2, <1>5 DEF Holding
  <2> QED BY <1>2, <1>3, <2>1
<1>6. Backed(h.id)'
  BY <1>2, <1>3, <1>5 DEF Backed, FilesAt, IsLive
<1>7. handler'[a] = Free
  BY <1>2 DEF Goes, TypeOK
<1> QED BY <1>4, <1>6, <1>7, AllTogether, DoneWork

(* Every step of a handler that nobody would have to put right.            *)
LEMMA HandlerWork ==
    ASSUME TypeOK, StashInv, LiveOnce, NEW a \in Handlers, WorkInv(a, handler[a]),
           HandlerStep(a), Calm'
    PROVE  WorkInv(a, handler[a])'
<1>0. faults' \cap {"crash", "undo", "refresh", "delete", "flush"} = {}
  BY DEF Calm
<1>1. CASE UploadStep(a)
  BY <1>0, <1>1, ReadModelWork, StashWork, SaveWork, CommitWork, DiscardWork, UndoSaveWork,
     RestoreWork DEF UploadStep
<1>2. CASE UploadFault(a)
  <2>1. ~UndoFails(a) /\ ~FlushFails(a)
    BY <1>0 DEF UndoFails, FlushFails, Fault
  <2> QED BY <1>2, <2>1, UploadFaultWork, DiscardWork DEF UploadFault
<1>3. CASE RenameStep(a)
  BY <1>0, <1>3, RenameMoves, SettleWork, UndoRenameWork DEF RenameStep
<1>4. CASE RenameFault(a)
  <2>1. ~RefreshFails(a) /\ ~UndoRenameFails(a) /\ ~FlushRenameFails(a)
    BY <1>0 DEF RefreshFails, UndoRenameFails, FlushRenameFails, Fault
  <2> QED BY <1>0, <1>4, <2>1, RenameMoves, SettleWork DEF RenameFault
<1>5. CASE DeleteStep(a)
  <2>1. ~DeleteFails(a)
    BY <1>0 DEF DeleteFails, Fault
  <2> QED BY <1>5, <2>1, DeleteFilesWork, CommitDeleteWork DEF DeleteStep
<1>6. ASSUME \/ \E bundle \in Bundles, update \in BOOLEAN :
                   BeginUpload(a, bundle[1], bundle[2], update)
             \/ \E n, to \in Names : BeginRename(a, n, to)
             \/ \E n \in Names, one \in {{}} \cup {{v} : v \in Versions} : BeginDelete(a, n, one)
      PROVE  WorkInv(a, handler[a])'
  <2>1. PICK operation : Arrives(a, operation)
    BY <1>6 DEF BeginUpload, BeginRename, BeginDelete
  <2>2. handler[a] = Free
    BY <2>1 DEF Arrives, Busy, Calm
  <2> QED BY <1>6, <2>2, BeginUploadWork, BeginRenameWork, BeginDeleteWork
<1> QED BY <1>1, <1>2, <1>3, <1>4, <1>5, <1>6 DEF HandlerStep

-----------------------------------------------------------------------------
(* One live row a name *)

LEMMA CommitOnce ==
    ASSUME TypeOK, LiveOnce, NEW a \in Handlers, Commit(a)
    PROVE  LiveOnce'
<1>1. PICK h : h = handler[a]
  OBVIOUS
<1>2. CASE rows' = rows
  BY <1>2 DEF LiveOnce
<1>3. CASE Fits(h) /\ rows' = Written(a)
  <2>1. h \in Upload
    BY <1>1, UploadAt DEF Commit, Uploading
  <2>2. ASSUME NEW i \in Ids
        PROVE  WrittenAnew(a, h, i) \/ (rows'[i].name = rows[i].name /\ rows'[i].state = rows[i].state)
    <3>1. \/ WrittenAnew(a, h, i)
          \/ \E e \in h.edits : e.id = i /\ Rewritten(a, h, e)
          \/ LeftAlone(a, h, i)
      BY <1>1, <1>3, <2>1, WrittenRow, Zenon
    <3>2. ASSUME NEW e, e.id = i, Rewritten(a, h, e)
          PROVE  rows'[i].name = rows[i].name /\ rows'[i].state = rows[i].state
      BY <3>2 DEF Rewritten
    <3> QED BY <3>1, <3>2, Zenon DEF LeftAlone
  <2>3. \A i \in Ids : WrittenAnew(a, h, i) =>
           i = <<a, rows'[i].name>> /\ Live(rows'[i].name) = {}
    <3>1. ASSUME NEW i \in Ids, WrittenAnew(a, h, i)
          PROVE  i = <<a, rows'[i].name>> /\ Live(rows'[i].name) = {}
      <4>1. i[1] = a /\ i[2] \in h.created /\ rows'[i].name = i[2]
        BY <3>1 DEF WrittenAnew, IsNew
      <4>2. i = <<i[1], i[2]>>
        BY DEF Ids
      <4> QED BY <1>3, <4>1, <4>2 DEF Fits
    <3> QED BY <3>1
  <2> SUFFICES ASSUME NEW i \in Ids, NEW j \in Ids,
                      rows'[i].state = "live", rows'[j].state = "live", rows'[i].name = rows'[j].name
               PROVE  i = j
    BY DEF LiveOnce
  <2>4. CASE WrittenAnew(a, h, i) /\ WrittenAnew(a, h, j)
    BY <2>3, <2>4
  <2>5. CASE ~WrittenAnew(a, h, i) /\ ~WrittenAnew(a, h, j)
    BY <2>2, <2>5 DEF LiveOnce
  <2>6. ASSUME NEW m \in Ids, NEW k \in Ids, WrittenAnew(a, h, m), ~WrittenAnew(a, h, k),
               rows'[k].state = "live", rows'[m].name = rows'[k].name
        PROVE  FALSE
    BY <2>2, <2>3, <2>6 DEF Live
  <2> QED BY <2>4, <2>5, <2>6
<1> QED BY <1>1, <1>2, <1>3 DEF Commit

LEMMA RenameOnce ==
    ASSUME TypeOK, LiveOnce, NEW a \in Handlers, CommitRename(a) \/ RefreshFails(a)
    PROVE  LiveOnce'
<1>1. PICK h : h = handler[a]
  OBVIOUS
<1>2. CASE rows' = rows
  BY <1>2 DEF LiveOnce
<1>3. CASE RenameFits(h) /\ rows' = [rows EXCEPT ![h.id].name = h.to]
  <2>1. h.id \in Ids /\ h.to \in Names
    BY <1>1, FormOfHandler DEF TypeOK, Renaming, CommitRename, RefreshFails
  <2>2. /\ rows'[h.id].name = h.to /\ rows'[h.id].state = rows[h.id].state
        /\ \A i \in Ids \ {h.id} : rows'[i] = rows[i]
    BY <1>3, <2>1 DEF TypeOK, Row
  <2>3. rows[h.id].state = "live" =>
           \A i \in Ids \ {h.id} : rows[i].state = "live" => rows[i].name # h.to
    BY <1>3 DEF RenameFits, Live
  <2> QED BY <2>1, <2>2, <2>3 DEF LiveOnce
<1> QED BY <1>1, <1>2, <1>3 DEF CommitRename, RefreshFails

LEMMA DeleteOnce ==
    ASSUME TypeOK, LiveOnce, NEW a \in Handlers, CommitDelete(a)
    PROVE  LiveOnce'
<1>1. PICK h : h = handler[a]
  OBVIOUS
<1>2. \A i \in Ids : rows'[i].name = rows[i].name /\ (rows'[i].state = "live" => rows[i].state = "live")
  BY <1>1, ForgottenRow
<1> QED BY <1>2 DEF LiveOnce

LEMMA HandlerOnce ==
    ASSUME TypeOK, LiveOnce, NEW a \in Handlers, HandlerStep(a)
    PROVE  LiveOnce'
<1>0. ASSUME rows' = rows PROVE LiveOnce'
  BY <1>0 DEF LiveOnce
<1>1. CASE UploadStep(a)
  <2>1. ReadModel(a) \/ Stash(a) \/ Save(a) => rows' = rows
    BY Zenon DEF ReadModel, Stash, Save
  <2>2. Discard(a) \/ UndoSave(a) \/ Restore(a) => rows' = rows
    BY DEF Discard, UndoSave, Restore
  <2> QED BY <1>0, <1>1, <2>1, <2>2, CommitOnce DEF UploadStep
<1>2. CASE UploadFault(a)
  <2>1. SaveFails(a) => rows' = rows
    BY Zenon DEF SaveFails
  <2> QED BY <1>0, <1>2, <2>1
          DEF UploadFault, StashFails, CommitFails, FlushFails, DiscardFails, UndoFails
<1>3. CASE RenameStep(a) \/ RenameFault(a)
  <2>1. Rename(a) => rows' = rows
    BY Zenon DEF Rename
  <2> QED BY <1>0, <1>3, <2>1, RenameOnce
          DEF RenameStep, RenameFault, UndoRename, RenameFails, FlushRenameFails,
              CommitRenameFails, UndoRenameFails
<1>4. CASE DeleteStep(a)
  BY <1>0, <1>4, DeleteOnce DEF DeleteStep, DeleteFiles, DeleteFails
<1> QED BY <1>0, <1>1, <1>2, <1>3, <1>4 DEF HandlerStep, BeginUpload, BeginRename, BeginDelete

-----------------------------------------------------------------------------
(* The sweep *)

(* A sweep that nothing overlaps finds every request ended.                *)
LEMMA SweepKeeps ==
    ASSUME TypeOK, BackedInv, Sweep \/ SweepFails
    PROVE  BackedInv'
<1>0. rows' = rows /\ handler' = handler /\ requests' = requests /\ faults \subseteq faults'
  BY DEF Sweep, SweepFails, ListVersions, ReadRows, SweepDeletes, bounds, Fault
<1>1. LiveOnce' /\ Known' = Known
  BY <1>0 DEF BackedInv, LiveOnce, Known
<1>2. (~overlap' => ~overlap) /\ (~overlap' => \A a \in Handlers : handler[a] = Free)
  <2>1. CASE ListVersions
    BY <2>1 DEF ListVersions, Busy
  <2>2. CASE ReadRows \/ SweepDeletes \/ SweepFails
    <3>1. sweeper # Asleep /\ overlap' = overlap
      BY <2>2 DEF ReadRows, SweepDeletes, SweepFails, Asleep
    <3> QED BY <3>1 DEF BackedInv, Solo
  <2> QED BY <2>1, <2>2 DEF Sweep
<1>3. Solo'
  BY <1>0, <1>2 DEF BackedInv, Solo
<1>4. ASSUME Calm' PROVE CalmInv'
  <2>1. Calm /\ \A a \in Handlers : handler[a] = Free
    BY <1>0, <1>2, <1>4 DEF Calm
  <2>2. AllBacked /\ (sweeper.pc = "delete" => sweeper.found \cap Known = {})
    BY <2>1 DEF BackedInv, CalmInv
  <2>3. CASE disk' = disk
    <3>1. AllBacked'
      BY <1>0, <2>2, <2>3 DEF AllBacked, Backed, FilesAt, Holding
    <3>2. sweeper'.pc = "delete" => sweeper'.found \cap Known = {}
      <4>1. CASE ListVersions
        BY <4>1 DEF ListVersions
      <4>2. ASSUME NEW found, Sweeps(found), found \cap Known = {}
            PROVE  sweeper'.pc = "delete" => sweeper'.found \cap Known = {}
        BY <4>2 DEF Sweeps, Asleep
      <4>3. CASE ReadRows
        BY <4>2, <4>3 DEF ReadRows
      <4>4. CASE SweepDeletes
        BY <2>2, <4>2, <4>4 DEF SweepDeletes
      <4>5. CASE SweepFails
        BY <2>2, <4>2, <4>5 DEF SweepFails
      <4> QED BY <4>1, <4>3, <4>4, <4>5 DEF Sweep
    <3> QED BY <1>0, <1>1, <2>1, <3>1, <3>2 DEF CalmInv
  <2>4. CASE SweepDeletes
    <3>1. PICK nv, rest : /\ nv \in sweeper.found /\ rest = sweeper.found \ {nv}
                          /\ Remove(nv[1], nv[2]) /\ Sweeps(rest) /\ sweeper.pc = "delete"
      BY <2>4 DEF SweepDeletes
    <3>2. sweeper.found \in SUBSET (Names \X Versions)
      BY DEF TypeOK, Sweeper
    <3>3. PICK n \in Names, v \in Versions : nv = <<n, v>>
      BY <3>1, <3>2
    <3>4. Remove(n, v) /\ <<n, v>> \notin Known
      BY <2>2, <3>1, <3>3
    <3>5. \A p \in Places \ {Root(n)} : disk'[p] = disk[p]
      BY <3>4, RemoveEffect
    <3>6. \A w \in Versions \ {v} : disk'[Root(n)].holds[w] = disk[Root(n)].holds[w]
      <4>1. CASE Has(n, v)
        <5>1. disk[Root(n)] \in Dir /\ Root(n) \in Places
          BY DirAt, PlaceForms
        <5>2. PICK dir \in Dir : dir = Without(disk[Root(n)], v)
          BY <5>1, WithoutForm
        <5>3. disk' = [disk EXCEPT ![Root(n)] = dir]
          BY <3>4, <4>1, <5>2 DEF Remove
        <5>4. \A w \in Versions \ {v} : dir.holds[w] = disk[Root(n)].holds[w]
          BY <5>1, <5>2, WithoutHolds
        <5> QED BY <5>1, <5>3, <5>4, PutDir
      <4>2. CASE ~Has(n, v)
        BY <3>4, <4>2 DEF Remove
      <4> QED BY <4>1, <4>2
    <3>7. ASSUME NEW id \in Ids PROVE Backed(id)'
      <4>1. Backed(id) /\ rows[id].name \in Names
        BY <2>2 DEF AllBacked, TypeOK, Row
      <4>2. \A w \in Holding(id) : w \in Versions /\ (rows[id].name = n => w # v)
        BY <3>4 DEF Holding, Known
      <4>3. CASE rows[id].name = n
        BY <1>0, <3>6, <4>1, <4>2, <4>3 DEF Backed, FilesAt, Holding
      <4>4. CASE rows[id].name # n
        <5>1. disk'[Root(rows[id].name)] = disk[Root(rows[id].name)]
          BY <3>5, <4>1, <4>4, PlaceForms, RootsDiffer
        <5> QED BY <1>0, <4>1, <5>1 DEF Backed, FilesAt, Holding
      <4> QED BY <4>3, <4>4
    <3>8. sweeper'.pc = "delete" => sweeper'.found \cap Known = {}
      BY <2>2, <3>1 DEF Sweeps, Asleep
    <3> QED BY <1>0, <1>1, <2>1, <3>7, <3>8 DEF CalmInv, AllBacked
  <2>5. disk' = disk \/ SweepDeletes
    BY DEF Sweep, SweepFails, ListVersions, ReadRows
  <2> QED BY <2>3, <2>4, <2>5
<1> QED BY <1>1, <1>3, <1>4 DEF BackedInv

-----------------------------------------------------------------------------
(* The theorem *)

LEMMA BackedStart == Init => BackedInv
<1> SUFFICES ASSUME Init PROVE BackedInv
  OBVIOUS
<1>1. handler = [a \in Handlers |-> Free] /\ sweeper = Asleep
  BY DEF Init
<1>2. Solo
  BY <1>1 DEF Solo
<1>3. ASSUME NEW id \in Ids, rows[id].state = "live"
      PROVE  /\ rows[id].name = id[2] /\ id = <<0, id[2]>> /\ id[2] \in Registered
             /\ \A v \in Versions : rows[id].held[v] = IF v \in Shipped THEN id ELSE None
  BY <1>3 DEF Init, Ids
<1>4. LiveOnce
  BY <1>3 DEF LiveOnce
<1>5. \A n \in Registered : \A v \in Versions :
         disk[Root(n)].holds[v] = IF v \in Shipped THEN <<0, n>> ELSE None
  <2>1. ASSUME NEW n \in Registered, NEW p, p = Root(n)
        PROVE  \A v \in Versions : disk[p].holds[v] = IF v \in Shipped THEN <<0, n>> ELSE None
    <3>1. p \in Places /\ p[1] = "root" /\ p[2] = n
      BY <2>1, StoreStart, PlaceForms DEF Root
    <3>2. disk[p] = [exists |-> TRUE,
                     holds |-> [v \in Versions |-> IF v \in Shipped THEN <<0, n>> ELSE None]]
      BY <3>1 DEF Init
    <3> QED BY <3>2
  <2> QED BY <2>1
<1>6. AllBacked
  BY <1>3, <1>5 DEF AllBacked, Backed, FilesAt, Holding
<1> QED BY <1>1, <1>2, <1>4, <1>6 DEF BackedInv, CalmInv, Asleep

LEMMA CrashKeeps ==
    ASSUME BackedInv, Crash
    PROVE  BackedInv'
<1>1. /\ rows' = rows /\ sweeper' = sweeper /\ requests' = requests /\ overlap' = overlap
      /\ "crash" \in faults'
  BY DEF Crash, Fault
<1>2. \A a \in Handlers : handler'[a] = handler[a] \/ handler'[a] = Free
  BY DEF Crash
<1>3. Solo'
  BY <1>1, <1>2 DEF BackedInv, Solo
<1> QED BY <1>1, <1>3 DEF BackedInv, LiveOnce, Calm

LEMMA BackedStep == TypeOK /\ StashInv /\ BackedInv /\ [Next]_vars => BackedInv'
<1> SUFFICES ASSUME TypeOK, StashInv, BackedInv, [Next]_vars PROVE BackedInv'
  OBVIOUS
<1>1. CASE UNCHANGED vars
  <2>1. rows' = rows /\ disk' = disk /\ handler' = handler /\ sweeper' = sweeper
    BY <1>1 DEF vars
  <2>2. Solo' = Solo /\ Calm' = Calm /\ LiveOnce' = LiveOnce /\ Known' = Known
    BY <1>1 DEF vars, bounds, Solo, Calm, LiveOnce, Known
  <2>3. /\ AllBacked' = AllBacked
        /\ \A id : OthersBacked(id)' = OthersBacked(id) /\ Backed(id)' = Backed(id)
    BY <2>1 DEF AllBacked, OthersBacked, Backed, FilesAt, Holding
  <2>4. ASSUME NEW a \in Handlers, NEW h, WorkInv(a, h) PROVE WorkInv(a, h)'
    <3>1. UploadInv(a, h)'
      BY <2>1, <2>3, <2>4, KeepsSame DEF WorkInv, UploadInv, UploadSaved, IsLive, Mine, NamesOf
    <3>2. RenameInv(h)' /\ DeletionInv(h)'
      BY <2>1, <2>3, <2>4 DEF WorkInv, RenameInv, DeletionInv, IsLive, Live, FilesAt, Holding
    <3> QED BY <2>3, <2>4, <3>1, <3>2 DEF WorkInv
  <2>5. CalmInv => CalmInv'
    BY <2>1, <2>2, <2>3, <2>4 DEF CalmInv
  <2> QED BY <2>2, <2>5 DEF BackedInv
<1>2. ASSUME NEW a \in Handlers, HandlerStep(a) PROVE BackedInv'
  <2>1. \A b \in Handlers \ {a} : handler'[b] = handler[b]
    BY <1>2, HandlerSound DEF Sound
  <2>2. Turn(a)
    BY <1>2, HandlerTurn
  <2>3. Solo' /\ (Calm' => Calm)
    BY <2>1, <2>2, Alone DEF BackedInv
  <2>4. LiveOnce'
    BY <1>2, HandlerOnce DEF BackedInv
  <2>5. ASSUME Calm' PROVE CalmInv'
    <3>1. ~overlap' /\ CalmInv
      BY <2>3, <2>5 DEF Calm, BackedInv
    <3>2. WorkInv(a, handler[a])
      BY <2>1, <2>2, <3>1, AtHand DEF BackedInv
    <3>3. WorkInv(a, handler[a])'
      BY <1>2, <2>5, <3>2, HandlerWork DEF BackedInv
    <3> QED BY <2>1, <2>2, <3>1, <3>3, CalmStep DEF BackedInv
  <2> QED BY <2>3, <2>4, <2>5 DEF BackedInv
<1> QED BY <1>1, <1>2, CrashKeeps, SweepKeeps DEF Next

LEMMA BackedMeans == BackedInv => RowsAreBacked
<1> SUFFICES ASSUME BackedInv, Quiet, Calm, NEW id \in Ids, NEW v \in Versions,
                    rows[id].state = "live", rows[id].held[v] # None
             PROVE  disk[Root(rows[id].name)].holds[v] = rows[id].held[v]
  BY DEF RowsAreBacked, Calm
<1>1. AllBacked
  BY DEF BackedInv, CalmInv, Quiet
<1> QED BY <1>1 DEF AllBacked, Backed, FilesAt, Holding

(* While requests and sweeps run one at a time, a request that has ended - *)
(* done, refused, or failed in a move, a save or a COMMIT and unwound -    *)
(* left every live version with the files its row is about, where the name *)
(* of its model puts them.  It does not hold of a flush that failed, whose *)
(* undo breaks off.  The code behind it is what puts things right:         *)
(* create_models_from_source with its stashes and undos, edit_model_info,  *)
(* delete_model, and the sweep that spares what a row accounts for.        *)
THEOREM RowsStayBacked == Spec => []RowsAreBacked
<1>1. Spec => []TypeOK
  BY StoreTypeCorrect
<1>2. Init => StashInv
  <2>1. Init => \A a \in Handlers : Stashes(a) = {}
    BY FreeForm DEF Init, Stashes
  <2> QED BY <2>1 DEF StashInv
<1>3. TypeOK /\ StashInv /\ [Next]_vars => StashInv'
  BY StashInvStep
<1> QED BY <1>1, <1>2, <1>3, BackedStart, BackedStep, BackedMeans, PTL DEF Spec

-----------------------------------------------------------------------------
(* Whose files are where *)

(* Uploaded by request a; no such files, or no others, at a place.         *)
From(u, a) == u # None /\ u[1] = a
Clean(a, p) == \A v \in Versions : ~From(disk[p].holds[v], a)
OnlyFrom(a, p) == \A v \in Versions : disk[p].holds[v] # None => From(disk[p].holds[v], a)

(* Before an upload commits no row is about its files.  There are none in  *)
(* a stash or in a directory it has yet to reach; where it has stashed one *)
(* there are no others, so putting the stash back replaces its own alone.  *)
Unwritten(a, h) ==
    /\ \A n \in Names : Clean(a, Aside(n))
    /\ \A id \in Ids : \A v \in Versions : ~From(rows[id].held[v], a)
    /\ \A n \in h.todo : Clean(a, Root(n))
    /\ \A s \in h.staged : From(disk[Root(s[1])].holds[s[2]], a)
    /\ \A e \in h.edits : /\ OnlyFrom(a, Root(e.name))
                          /\ IsLive(e.id, e.name) /\ e.loaded = Holding(e.id)

(* Afterwards the rows it has updated are about nothing in their stashes.  *)
WrittenOut(a, h) ==
    /\ \A n \in Names : Clean(a, Aside(n))
    /\ \A e \in h.edits : \A id \in Live(e.name) : \A v \in Holding(id) : From(rows[id].held[v], a)

UploadOwns(a, h) ==
    /\ h.pc # "discard" => Unwritten(a, h)
    /\ h.pc = "discard" => WrittenOut(a, h)
    /\ h.pc = "stash" => Clean(a, Root(h.name)) /\ IsLive(h.id, h.name)
    /\ h.pc \in {"stash", "save"} => h.name \notin h.todo
    /\ h.pc = "restore" => h.staged = {}
Owns(a) == handler[a].pc \in Uploading => UploadOwns(a, handler[a])

(* Files are uploaded by requests that have arrived.                       *)
Numbered ==
    /\ \A p \in Places : \A v \in Versions :
          disk[p].holds[v] # None => disk[p].holds[v][1] <= requests
    /\ \A id \in Ids : \A v \in Holding(id) : rows[id].held[v][1] <= requests

OwnInv ==
    ~overlap => /\ Numbered /\ \A a \in Handlers : Owns(a)
                /\ sweeper.pc = "delete" => sweeper.found \cap Known = {}

(* A step loses no files, or only those a request uploaded; the files it   *)
(* brings, and has rows be about, are those of the request.                *)
LosesNone ==
    \A p \in Places : \A v \in Versions :
       disk[p].holds[v] # None => \E q \in Places : disk'[q].holds[v] = disk[p].holds[v]
LosesOwn(a) ==
    \A p \in Places : \A v \in Versions :
       disk[p].holds[v] # None /\ ~From(disk[p].holds[v], a)
          => \E q \in Places : disk'[q].holds[v] = disk[p].holds[v]
BringsOwn(a) ==
    \A p \in Places : \A v \in Versions :
       disk'[p].holds[v] # None /\ ~From(disk'[p].holds[v], a)
          => \E q \in Places : disk[q].holds[v] = disk'[p].holds[v]
WritesOwn(a) ==
    \A id \in Ids : \A v \in Versions :
       rows'[id].held[v] # None /\ ~From(rows'[id].held[v], a)
          => rows'[id].held[v] = rows[id].held[v]
KeepsCopies ==
    \A id \in Ids : \A v \in Versions :
       Kept(id, v) /\ rows'[id].held[v] = rows[id].held[v]
          => \E p \in Places : disk'[p].holds[v] = rows[id].held[v]
Careful(a) ==
    /\ BringsOwn(a) /\ WritesOwn(a) /\ Owns(a)'
    /\ handler[a].pc # "delete" => KeepsCopies

LEMMA LosingNone ==
    ASSUME TypeOK, LosesNone
    PROVE  KeepsCopies
<1> SUFFICES ASSUME NEW id \in Ids, NEW v \in Versions, Kept(id, v)
             PROVE  \E p \in Places : disk'[p].holds[v] = rows[id].held[v]
  BY DEF KeepsCopies
<1>1. rows[id].name \in Names
  BY DEF TypeOK, Row
<1>2. PICK p \in Places : disk[p].holds[v] = rows[id].held[v]
  BY <1>1, PlaceForms DEF Kept
<1>3. disk[p].holds[v] # None
  BY <1>2 DEF Kept
<1> QED BY <1>2, <1>3 DEF LosesNone

LEMMA LosingOwn ==
    ASSUME TypeOK, NEW a, LosesOwn(a), \A id \in Ids : \A v \in Versions : ~From(rows[id].held[v], a)
    PROVE  KeepsCopies
<1> SUFFICES ASSUME NEW id \in Ids, NEW v \in Versions, Kept(id, v)
             PROVE  \E p \in Places : disk'[p].holds[v] = rows[id].held[v]
  BY DEF KeepsCopies
<1>1. rows[id].name \in Names
  BY DEF TypeOK, Row
<1>2. PICK p \in Places : disk[p].holds[v] = rows[id].held[v]
  BY <1>1, PlaceForms DEF Kept
<1>3. disk[p].holds[v] # None /\ ~From(disk[p].holds[v], a)
  BY <1>2 DEF Kept
<1> QED BY <1>2, <1>3 DEF LosesOwn

LEMMA SameFiles ==
    ASSUME TypeOK, NEW a, disk' = disk
    PROVE  KeepsCopies /\ BringsOwn(a)
BY LosingNone DEF LosesNone, BringsOwn

LEMMA SameRows ==
    ASSUME NEW a, rows' = rows
    PROVE  WritesOwn(a)
BY DEF WritesOwn

LEMMA MovedFiles ==
    ASSUME TypeOK, NEW a, NEW from \in Places, NEW to \in Places, from # to, Move(from, to)
    PROVE  /\ BringsOwn(a)
           /\ ~disk[to].exists => LosesNone
           /\ OnlyFrom(a, to) => LosesOwn(a)
<1>1. /\ disk'[to] = disk[from] /\ disk'[from] = NoDir
      /\ \A q \in Places \ {from, to} : disk'[q] = disk[q]
  BY MoveEffect
<1>2. \A v \in Versions : NoDir.holds[v] = None
  BY DEF NoDir, NoFiles
<1>3. BringsOwn(a)
  <2>1. ASSUME NEW p \in Places, NEW v \in Versions, disk'[p].holds[v] # None
        PROVE  \E q \in Places : disk[q].holds[v] = disk'[p].holds[v]
    BY <1>1, <1>2, <2>1
  <2> QED BY <2>1 DEF BringsOwn
<1>4. \A p \in Places \ {to} : \A v \in Versions :
         disk[p].holds[v] # None => \E q \in Places : disk'[q].holds[v] = disk[p].holds[v]
  BY <1>1
<1>5. ~disk[to].exists => \A v \in Versions : disk[to].holds[v] = None
  BY <1>2 DEF TypeOK, Dir, NoDir
<1> QED BY <1>3, <1>4, <1>5 DEF LosesNone, LosesOwn, OnlyFrom

(* A version is put into a model's directory.                              *)
Puts(n, v, u) == disk' = [disk EXCEPT ![Root(n)] = With(disk[Root(n)], v, u)]

LEMMA PutsEffect ==
    ASSUME TypeOK, NEW n \in Names, NEW v \in Versions, NEW u \in Ids \cup {None}, Puts(n, v, u)
    PROVE  /\ \A p \in Places \ {Root(n)} : disk'[p] = disk[p]
           /\ disk'[Root(n)].holds[v] = u
           /\ \A w \in Versions \ {v} : disk'[Root(n)].holds[w] = disk[Root(n)].holds[w]
BY SaveEffect, Zenon DEF Puts

LEMMA PutFiles ==
    ASSUME TypeOK, NEW a, NEW n \in Names, NEW v \in Versions, NEW u \in Ids \cup {None},
           Puts(n, v, u), ~Has(n, v), u = None \/ u[1] = a
    PROVE  /\ BringsOwn(a) /\ KeepsCopies
           /\ \A p \in Places \ {Root(n)} : disk'[p] = disk[p]
           /\ disk'[Root(n)].holds[v] = u
           /\ \A w \in Versions \ {v} : disk'[Root(n)].holds[w] = disk[Root(n)].holds[w]
<1>1. /\ \A p \in Places \ {Root(n)} : disk'[p] = disk[p]
      /\ disk'[Root(n)].holds[v] = u
      /\ \A w \in Versions \ {v} : disk'[Root(n)].holds[w] = disk[Root(n)].holds[w]
  BY PutsEffect
<1>2. ASSUME NEW p \in Places, NEW w \in Versions
      PROVE  disk'[p].holds[w] = disk[p].holds[w] \/ (p = Root(n) /\ w = v)
  BY <1>1
<1>3. BringsOwn(a)
  <2> SUFFICES ASSUME NEW p \in Places, NEW w \in Versions,
                      disk'[p].holds[w] # None, ~From(disk'[p].holds[w], a)
               PROVE  disk[p].holds[w] = disk'[p].holds[w]
    BY DEF BringsOwn
  <2> QED BY <1>1, <1>2 DEF From
<1>4. LosesNone
  BY <1>2 DEF LosesNone, Has
<1> QED BY <1>1, <1>3, <1>4, LosingNone

(* What taking a version out of a directory leaves.                        *)
LEMMA TakenFiles ==
    ASSUME TypeOK, NEW a, NEW n \in Names, NEW v \in Versions, Remove(n, v)
    PROVE  /\ BringsOwn(a)
           /\ From(disk[Root(n)].holds[v], a) => LosesOwn(a)
           /\ \A p \in Places \ {Root(n)} : disk'[p] = disk[p]
           /\ \A w \in Versions \ {v} : disk'[Root(n)].holds[w] = disk[Root(n)].holds[w]
           /\ disk'[Root(n)].holds[v] = None
<1>1. \A p \in Places \ {Root(n)} : disk'[p] = disk[p]
  BY RemoveEffect
<1>2. /\ \A w \in Versions \ {v} : disk'[Root(n)].holds[w] = disk[Root(n)].holds[w]
      /\ disk'[Root(n)].holds[v] = None
  <2>1. CASE Has(n, v)
    <3>1. disk[Root(n)] \in Dir /\ Root(n) \in Places
      BY DirAt, PlaceForms
    <3>2. PICK dir \in Dir : dir = Without(disk[Root(n)], v)
      BY <3>1, WithoutForm
    <3>3. disk' = [disk EXCEPT ![Root(n)] = dir]
      BY <2>1, <3>2 DEF Remove
    <3>4. \A w \in Versions \ {v} : dir.holds[w] = disk[Root(n)].holds[w]
      BY <3>1, <3>2, WithoutHolds
    <3>5. dir.holds[v] = None
      <4>1. PICK left : left = [disk[Root(n)].holds EXCEPT ![v] = None]
        OBVIOUS
      <4>2. left[v] = None
        BY <3>1, <4>1, DirForms DEF Files
      <4>3. CASE left = NoFiles
        BY <3>2, <4>1, <4>3 DEF Without, NoDir, NoFiles
      <4>4. CASE left # NoFiles
        <5>1. dir = [disk[Root(n)] EXCEPT !.holds = left]
          BY <3>2, <4>1, <4>4 DEF Without
        <5>2. dir.holds = left
          BY <3>1, <5>1 DEF Dir
        <5> QED BY <4>2, <5>2
      <4> QED BY <4>3, <4>4
    <3> QED BY <3>1, <3>3, <3>4, <3>5, PutDir
  <2>2. CASE ~Has(n, v)
    BY <2>2 DEF Remove, Has
  <2> QED BY <2>1, <2>2
<1>3. ASSUME NEW p \in Places, NEW w \in Versions
      PROVE  disk'[p].holds[w] = disk[p].holds[w] \/ (p = Root(n) /\ w = v)
  BY <1>1, <1>2
<1>4. BringsOwn(a)
  BY <1>2, <1>3 DEF BringsOwn
<1>5. From(disk[Root(n)].holds[v], a) => LosesOwn(a)
  BY <1>3 DEF LosesOwn
<1> QED BY <1>1, <1>2, <1>4, <1>5

(* What an upload owns when it goes on, and when it gives up.              *)
LEMMA ForwardOwns ==
    ASSUME TypeOK, NEW a \in Handlers, NEW h \in Upload, Goes(a, h),
           h.pc \in {"model", "stash", "save", "commit"}, Unwritten(a, h)',
           h.pc = "stash" => Clean(a, Root(h.name))' /\ IsLive(h.id, h.name)',
           h.pc \in {"stash", "save"} => h.name \notin h.todo
    PROVE  Owns(a)'
<1>1. handler'[a] = h
  BY DEF Goes, TypeOK
<1>2. UploadOwns(a, h)'
  BY DEF UploadOwns
<1> QED BY <1>1, <1>2 DEF Owns

LEMMA UnwindOwns ==
    ASSUME TypeOK, NEW a \in Handlers, NEW h \in Upload, Unwind(a, h), Unwritten(a, h)'
    PROVE  Owns(a)'
<1>1. PICK state : /\ Goes(a, state)
                   /\ state = IF h.staged # {} THEN [h EXCEPT !.pc = "undo"]
                              ELSE IF h.edits # {} THEN [h EXCEPT !.pc = "restore"] ELSE Free
  BY DEF Unwind
<1>2. handler'[a] = state
  BY <1>1 DEF Goes, TypeOK
<1>3. CASE state = Free
  BY <1>2, <1>3 DEF Owns, Free, Uploading
<1>4. ASSUME NEW pc \in {"undo", "restore"}, state = [h EXCEPT !.pc = pc],
             pc = "restore" => h.staged = {}
      PROVE  Owns(a)'
  <2>1. /\ state.pc = pc /\ state.edits = h.edits /\ state.todo = h.todo
        /\ state.staged = h.staged
    BY <1>4 DEF Upload
  <2>2. Unwritten(a, state)'
    BY <2>1 DEF Unwritten
  <2>3. UploadOwns(a, state)'
    BY <1>4, <2>1, <2>2 DEF UploadOwns
  <2> QED BY <1>2, <2>3 DEF Owns
<1>5. h.staged # {} => state = [h EXCEPT !.pc = "undo"]
  BY <1>1
<1>6. h.staged = {} /\ h.edits # {} => state = [h EXCEPT !.pc = "restore"]
  BY <1>1
<1>7. h.staged = {} /\ h.edits = {} => state = Free
  BY <1>1
<1> QED BY <1>3, <1>4, <1>5, <1>6, <1>7

LEMMA UnwrittenSame ==
    ASSUME NEW a, NEW h, Unwritten(a, h), rows' = rows, disk' = disk
    PROVE  Unwritten(a, h)'
BY DEF Unwritten, Clean, OnlyFrom, IsLive, Holding

LEMMA AtWork ==
    ASSUME TypeOK, NEW a \in Handlers, NEW h, h = handler[a], Owns(a), h.pc \in Uploading
    PROVE  /\ h \in Upload
           /\ h.pc # "discard" => Unwritten(a, h)
           /\ h.pc = "discard" => WrittenOut(a, h)
           /\ h.pc = "stash" => Clean(a, Root(h.name)) /\ IsLive(h.id, h.name)
           /\ h.pc \in {"stash", "save"} => h.name \notin h.todo
           /\ h.pc = "restore" => h.staged = {}
BY UploadAt DEF Owns, UploadOwns

(* A request that arrives has uploaded nothing yet.                        *)
LEMMA BeginUploadCareful ==
    ASSUME TypeOK, NEW a \in Handlers, Numbered, handler[a] = Free,
           NEW bundle \in Bundles, NEW update \in BOOLEAN,
           BeginUpload(a, bundle[1], bundle[2], update)
    PROVE  Careful(a)
<1>1. bundle[1] \in SUBSET Names /\ bundle[2] \in SUBSET Versions
  BY StoreBundles
<1>2. PICK n, state :
         /\ n \in bundle[1]
         /\ state = [pc |-> "model", update |-> update, todo |-> bundle[1],
                     id |-> <<a, n>>, name |-> n, versions |-> bundle[2], left |-> {},
                     created |-> {}, edits |-> {}, staged |-> {}]
         /\ Goes(a, state)
  BY DEF BeginUpload
<1>3. n \in Names /\ <<a, n>> \in Ids
  BY <1>1, <1>2, StoreBounds DEF Handlers, Ids
<1>4. /\ state \in Upload /\ state.pc = "model" /\ state.todo \subseteq Names
      /\ state.edits = {} /\ state.staged = {}
  BY <1>1, <1>2, <1>3 DEF Upload, Uploading
<1>5. rows' = rows /\ disk' = disk /\ a = requests + 1
  BY DEF BeginUpload, Arrives
<1>6. requests \in Nat /\ \A u : From(u, a) => ~(u[1] <= requests)
  BY <1>5, StoreBounds DEF TypeOK, From
<1>7. \A p \in Places : Clean(a, p)
  BY <1>6 DEF Clean, Numbered, From
<1>8. \A id \in Ids : \A v \in Versions : ~From(rows[id].held[v], a)
  BY <1>6 DEF Numbered, Holding, From
<1>9. Unwritten(a, state)
  BY <1>4, <1>7, <1>8, PlaceForms DEF Unwritten
<1>10. Owns(a)'
  BY <1>2, <1>4, <1>5, <1>9, UnwrittenSame, ForwardOwns
<1> QED BY <1>5, <1>10, SameFiles, SameRows DEF Careful

LEMMA ReadModelCareful ==
    ASSUME TypeOK, NEW a \in Handlers, Owns(a), ReadModel(a)
    PROVE  Careful(a)
<1>1. PICK h : h = handler[a]
  OBVIOUS
<1>2. h \in Upload /\ h.pc = "model"
  <2>1. h.pc = "model"
    BY <1>1, Zenon DEF ReadModel
  <2> QED BY <1>1, <2>1, UploadAt DEF Uploading
<1>3. PICK n, read :
         /\ n \in h.todo
         /\ read = [h EXCEPT !.todo = @ \ {n}, !.name = n]
         /\ \/ /\ Live(n) = {}
               /\ Goes(a, [read EXCEPT !.pc = "save", !.id = <<a, n>>, !.left = h.versions,
                                       !.created = @ \cup {n}])
            \/ \E id \in Live(n) : Goes(a, [read EXCEPT !.pc = "stash", !.id = id])
            \/ Unwind(a, read)
  BY <1>1, Zenon DEF ReadModel
<1>4. n \in h.todo /\ n \in Names /\ <<a, n>> \in Ids
  <2>1. n \in h.todo
    BY <1>3, Zenon
  <2> QED BY <1>2, <2>1, UploadForm, StoreBounds DEF Handlers, Ids
<1>5. /\ read \in Upload /\ read.edits = h.edits /\ read.created = h.created /\ read.name = n
      /\ read.staged = h.staged /\ read.todo = h.todo \ {n} /\ read.versions = h.versions
  <2>1. read = [h EXCEPT !.todo = @ \ {n}, !.name = n]
    BY <1>3, Zenon
  <2> QED BY <1>2, <1>4, <2>1 DEF Upload
<1>6. rows' = rows /\ disk' = disk
  BY Zenon DEF ReadModel
<1>7. Unwritten(a, h) /\ Clean(a, Root(n))
  <2>1. Unwritten(a, h)
    BY <1>1, <1>2, AtWork DEF Uploading
  <2> QED BY <1>4, <2>1 DEF Unwritten
<1>8. ASSUME NEW st, st.edits = h.edits, st.staged = h.staged, st.todo = h.todo \ {n}
      PROVE  Unwritten(a, st)'
  <2>1. Unwritten(a, st)
    BY <1>7, <1>8 DEF Unwritten
  <2> QED BY <1>6, <2>1, UnwrittenSame
<1>9. ASSUME NEW state, Goes(a, state),
             state = [read EXCEPT !.pc = "save", !.id = <<a, n>>, !.left = h.versions,
                                  !.created = @ \cup {n}]
      PROVE  Owns(a)'
  <2>0. h.versions \in SUBSET Versions
    BY <1>2, UploadForm
  <2>1. /\ state \in Upload /\ state.pc = "save" /\ state.name = n
        /\ state.edits = h.edits /\ state.staged = h.staged /\ state.todo = h.todo \ {n}
    BY <1>4, <1>5, <1>9, <2>0 DEF Upload, Uploading
  <2>2. Unwritten(a, state)'
    BY <1>8, <2>1
  <2> QED BY <1>9, <2>1, <2>2, ForwardOwns
<1>10. ASSUME NEW id \in Live(n), NEW state, Goes(a, state),
              state = [read EXCEPT !.pc = "stash", !.id = id]
       PROVE  Owns(a)'
  <2>1. /\ state \in Upload /\ state.pc = "stash" /\ state.name = n /\ state.id = id
        /\ state.edits = h.edits /\ state.staged = h.staged /\ state.todo = h.todo \ {n}
    BY <1>5, <1>10 DEF Upload, Uploading, Live
  <2>2. Unwritten(a, state)'
    BY <1>8, <2>1
  <2>3. IsLive(id, n)' /\ Clean(a, Root(n))'
    BY <1>6, <1>7, <1>10 DEF IsLive, Live, Clean
  <2> QED BY <1>10, <2>1, <2>2, <2>3, ForwardOwns
<1>11. ASSUME Unwind(a, read) PROVE Owns(a)'
  <2>1. Unwritten(a, read)'
    BY <1>5, <1>8
  <2> QED BY <1>5, <1>11, <2>1, UnwindOwns
<1>12. Owns(a)'
  BY <1>3, <1>9, <1>10, <1>11, Zenon
<1> QED BY <1>6, <1>12, SameFiles, SameRows DEF Careful

LEMMA StashCareful ==
    ASSUME TypeOK, NEW a \in Handlers, Owns(a), Stash(a)
    PROVE  Careful(a)
<1>1. PICK h : h = handler[a]
  OBVIOUS
<1>2. h \in Upload /\ h.pc = "stash"
  <2>1. h.pc = "stash"
    BY <1>1, Zenon DEF Stash
  <2> QED BY <1>1, <2>1, UploadAt DEF Uploading
<1>3. rows' = rows
  BY Zenon DEF Stash
<1>4. PICK n \in Names : n = h.name
  BY <1>2, UploadForm
<1>5. Unwritten(a, h) /\ Clean(a, Root(n)) /\ IsLive(h.id, n) /\ n \notin h.todo
  BY <1>1, <1>2, <1>4, AtWork DEF Uploading
<1>6. CASE CanMove(Root(n), Aside(n)) /\ Stashed(a)
  <2>1. PICK e, state :
           /\ e = [id |-> h.id, name |-> n, loaded |-> Holding(h.id)]
           /\ state = [h EXCEPT !.pc = "save", !.left = h.versions, !.edits = @ \cup {e}]
           /\ Goes(a, state)
    BY <1>1, <1>4, <1>6, Zenon DEF Stashed, Holding
  <2>2. e \in Edit /\ e.id = h.id /\ e.name = n /\ e.loaded = Holding(h.id)
    <3>1. e = [id |-> h.id, name |-> n, loaded |-> Holding(h.id)]
      BY <2>1, Zenon
    <3>2. Holding(h.id) \in SUBSET Versions
      BY DEF Holding
    <3> QED BY <1>2, <3>1, <3>2, UploadForm DEF Edit
  <2>3. /\ state \in Upload /\ state.pc = "save" /\ state.name = n
        /\ state.edits = h.edits \cup {e} /\ state.staged = h.staged /\ state.todo = h.todo
    <3>1. state = [h EXCEPT !.pc = "save", !.left = h.versions, !.edits = @ \cup {e}]
      BY <2>1, Zenon
    <3> QED BY <1>2, <1>4, <2>2, <3>1 DEF Upload, Uploading
  <2>4. Move(Root(n), Aside(n)) /\ ~disk[Aside(n)].exists
    BY <1>1, <1>4, <1>6, Zenon DEF Stashed, CanMove
  <2>5. /\ Root(n) \in Places /\ Aside(n) \in Places /\ Root(n) # Aside(n)
        /\ disk'[Aside(n)] = disk[Root(n)] /\ disk'[Root(n)] = NoDir
        /\ \A q \in Places \ {Root(n), Aside(n)} : disk'[q] = disk[q]
    BY <2>4, MoveEffect, PlaceForms, PlacesDiffer
  <2>6. \A m \in Names \ {n} : disk'[Root(m)] = disk[Root(m)] /\ disk'[Aside(m)] = disk[Aside(m)]
    BY <2>5, PlaceForms, PlacesDiffer, RootsDiffer
  <2>7. \A m \in Names : Clean(a, Aside(m))'
    BY <1>5, <2>5, <2>6 DEF Unwritten, Clean
  <2>8. \A m \in h.todo : Clean(a, Root(m))'
    BY <1>2, <1>5, <2>6, UploadForm DEF Unwritten, Clean
  <2>9. ASSUME NEW s \in h.staged PROVE From(disk'[Root(s[1])].holds[s[2]], a)
    <3>1. s[1] \in Names /\ s[2] \in Versions
      BY <1>2, UploadForm
    <3>2. From(disk[Root(s[1])].holds[s[2]], a)
      BY <1>5 DEF Unwritten
    <3>3. s[1] # n
      BY <1>5, <3>1, <3>2 DEF Clean
    <3> QED BY <2>6, <3>1, <3>2, <3>3
  <2>10. \A v \in Versions : NoDir.holds[v] = None
    BY DEF NoDir, NoFiles
  <2>11. ASSUME NEW f \in h.edits \cup {e}
         PROVE  OnlyFrom(a, Root(f.name))' /\ IsLive(f.id, f.name)' /\ f.loaded = Holding(f.id)'
    <3>1. f.name \in Names
      BY <1>2, <2>2, UploadForm, EditForm
    <3>2. IsLive(f.id, f.name) /\ f.loaded = Holding(f.id)
      BY <1>5, <2>2 DEF Unwritten
    <3>3. CASE f.name = n
      BY <1>3, <2>5, <2>10, <3>2, <3>3 DEF OnlyFrom, IsLive, Holding
    <3>4. CASE f.name # n
      BY <1>3, <1>5, <2>2, <2>6, <3>1, <3>2, <3>4 DEF Unwritten, OnlyFrom, IsLive, Holding
    <3> QED BY <3>3, <3>4
  <2>12. \A id \in Ids : \A v \in Versions : ~From(rows'[id].held[v], a)
    BY <1>3, <1>5 DEF Unwritten
  <2>13. Unwritten(a, state)'
    BY <2>3, <2>7, <2>8, <2>9, <2>11, <2>12 DEF Unwritten
  <2>14. Goes(a, state)
    BY <2>1, Zenon
  <2>15. Owns(a)'
    BY <1>5, <2>3, <2>13, <2>14, ForwardOwns
  <2>16. BringsOwn(a) /\ LosesNone
    BY <2>4, <2>5, MovedFiles
  <2> QED BY <1>3, <2>15, <2>16, LosingNone, SameRows DEF Careful
<1>7. CASE Unwind(a, h) /\ disk' = disk
  BY <1>2, <1>3, <1>5, <1>7, UnwrittenSame, UnwindOwns, SameFiles, SameRows DEF Careful
<1>8. (CanMove(Root(n), Aside(n)) /\ Stashed(a)) \/ (Unwind(a, h) /\ disk' = disk)
  BY <1>1, <1>4, Zenon DEF Stash
<1> QED BY <1>6, <1>7, <1>8

(* What has been saved is the request's own, and so is all of its models'  *)
(* directories.                                                            *)
LEMMA SavedOwn ==
    ASSUME TypeOK, NEW a, NEW h \in Upload, Unwritten(a, h), rows' = rows,
           NEW n \in Names, n \notin h.todo, NEW v \in Versions, NEW u \in Ids \cup {None},
           u = None \/ u[1] = a, ~Has(n, v), Puts(n, v, u)
    PROVE  Unwritten(a, h)' /\ (u # None => From(disk'[Root(n)].holds[v], a))
<1>1. /\ \A p \in Places \ {Root(n)} : disk'[p] = disk[p]
      /\ disk'[Root(n)].holds[v] = u
      /\ \A w \in Versions \ {v} : disk'[Root(n)].holds[w] = disk[Root(n)].holds[w]
  BY PutsEffect
<1>2. \A m \in Names \ {n} : disk'[Root(m)] = disk[Root(m)]
  BY <1>1, PlaceForms, RootsDiffer
<1>3. \A m \in Names : disk'[Aside(m)] = disk[Aside(m)]
  BY <1>1, PlaceForms, PlacesDiffer
<1>4. \A m \in Names : Clean(a, Aside(m))'
  BY <1>3 DEF Unwritten, Clean
<1>5. \A m \in h.todo : Clean(a, Root(m))'
  BY <1>2, UploadForm DEF Unwritten, Clean
<1>6. ASSUME NEW s \in h.staged PROVE From(disk'[Root(s[1])].holds[s[2]], a)
  <2>1. s[1] \in Names /\ s[2] \in Versions /\ From(disk[Root(s[1])].holds[s[2]], a)
    BY UploadForm DEF Unwritten
  <2>2. CASE s[1] # n
    BY <1>2, <2>1, <2>2
  <2>3. CASE s[1] = n
    <3>1. s[2] # v
      BY <2>1, <2>3 DEF Has, From
    <3> QED BY <1>1, <2>1, <2>3, <3>1
  <2> QED BY <2>2, <2>3
<1>7. ASSUME NEW e \in h.edits
      PROVE  OnlyFrom(a, Root(e.name))' /\ IsLive(e.id, e.name)' /\ e.loaded = Holding(e.id)'
  <2>1. /\ e.name \in Names /\ OnlyFrom(a, Root(e.name))
        /\ IsLive(e.id, e.name) /\ e.loaded = Holding(e.id)
    BY UploadForm, EditForm DEF Unwritten
  <2>2. OnlyFrom(a, Root(e.name))'
    <3>1. CASE e.name # n
      BY <1>2, <2>1, <3>1 DEF OnlyFrom
    <3>2. CASE e.name = n
      <4>1. u # None => From(u, a)
        BY DEF From
      <4> QED BY <1>1, <2>1, <3>2, <4>1 DEF OnlyFrom
    <3> QED BY <3>1, <3>2
  <2> QED BY <2>1, <2>2 DEF IsLive, Holding
<1>8. \A id \in Ids : \A w \in Versions : ~From(rows'[id].held[w], a)
  BY DEF Unwritten
<1> QED BY <1>1, <1>4, <1>5, <1>6, <1>7, <1>8 DEF Unwritten, From

LEMMA SaveCareful ==
    ASSUME TypeOK, NEW a \in Handlers, Owns(a), Save(a)
    PROVE  Careful(a)
<1>1. PICK h : h = handler[a]
  OBVIOUS
<1>2. h \in Upload /\ h.pc = "save"
  <2>1. h.pc = "save"
    BY <1>1, Zenon DEF Save
  <2> QED BY <1>1, <2>1, UploadAt DEF Uploading
<1>3. rows' = rows
  BY Zenon DEF Save
<1>4. PICK n \in Names : n = h.name
  BY <1>2, UploadForm
<1>5. Unwritten(a, h) /\ n \notin h.todo
  BY <1>1, <1>2, <1>4, AtWork DEF Uploading
<1>6. PICK v, state :
         /\ v \in h.left
         /\ state = [h EXCEPT !.left = @ \ {v}, !.staged = @ \cup {<<n, v>>},
                              !.pc = IF h.left # {v} THEN "save"
                                     ELSE IF h.todo # {} THEN "model" ELSE "commit"]
         /\ \/ /\ ~Has(n, v)
               /\ Puts(n, v, <<a, n>>)
               /\ Goes(a, state)
            \/ Unwind(a, h) /\ disk' = disk
  BY <1>1, <1>4, Zenon DEF Save, Puts
<1>7. v \in Versions /\ v \in h.left /\ <<a, n>> \in Ids
  <2>1. v \in h.left
    BY <1>6, Zenon
  <2> QED BY <1>2, <2>1, UploadForm, StoreBounds DEF Handlers, Ids
<1>8. ASSUME ~Has(n, v), Puts(n, v, <<a, n>>), Goes(a, state)
      PROVE  Careful(a)
  <2>1. /\ state \in Upload /\ state.pc \in {"save", "model", "commit"} /\ state.name = n
        /\ state.staged = h.staged \cup {<<n, v>>} /\ state.edits = h.edits /\ state.todo = h.todo
    <3>1. state = [h EXCEPT !.left = @ \ {v}, !.staged = @ \cup {<<n, v>>},
                            !.pc = IF h.left # {v} THEN "save"
                                   ELSE IF h.todo # {} THEN "model" ELSE "commit"]
      BY <1>6, Zenon
    <3>2. PICK pc, left, staged :
             /\ pc = IF h.left # {v} THEN "save" ELSE IF h.todo # {} THEN "model" ELSE "commit"
             /\ left = h.left \ {v} /\ staged = h.staged \cup {<<n, v>>}
             /\ state = [h EXCEPT !.left = left, !.staged = staged, !.pc = pc]
      BY <3>1, Zenon
    <3>3. pc \in {"save", "model", "commit"}
      BY <3>2
    <3>4. left = h.left \ {v} /\ staged = h.staged \cup {<<n, v>>}
      BY <3>2, Zenon
    <3>5. left \in SUBSET Versions /\ staged \in SUBSET (Names \X Versions)
      BY <1>2, <1>7, <3>4, UploadForm
    <3>6. state = [h EXCEPT !.left = left, !.staged = staged, !.pc = pc]
      BY <3>2, Zenon
    <3> QED BY <1>2, <1>4, <3>3, <3>4, <3>5, <3>6 DEF Upload, Uploading
  <2>2. PICK u \in Ids : u = <<a, n>>
    BY <1>7
  <2>3. u[1] = a /\ u # None
    BY <2>2, StoreNone
  <2>4. Puts(n, v, u)
    BY <1>8, <2>2
  <2>5. Unwritten(a, h)' /\ From(disk'[Root(n)].holds[v], a)
    BY <1>2, <1>3, <1>5, <1>7, <1>8, <2>3, <2>4, SavedOwn
  <2>6. Unwritten(a, state)'
    BY <2>1, <2>5 DEF Unwritten
  <2>7. Owns(a)'
    BY <1>5, <1>8, <2>1, <2>6, ForwardOwns
  <2>8. BringsOwn(a) /\ KeepsCopies
    BY <1>7, <1>8, <2>3, <2>4, PutFiles
  <2> QED BY <1>3, <2>7, <2>8, SameRows DEF Careful
<1>9. CASE Unwind(a, h) /\ disk' = disk
  BY <1>2, <1>3, <1>5, <1>9, UnwrittenSame, UnwindOwns, SameFiles, SameRows DEF Careful
<1> QED BY <1>6, <1>8, <1>9, Zenon

LEMMA UploadFaultCareful ==
    ASSUME TypeOK, NEW a \in Handlers, Owns(a), StashFails(a) \/ SaveFails(a) \/ CommitFails(a)
    PROVE  Careful(a)
<1>1. PICK h : h = handler[a]
  OBVIOUS
<1>2. h.pc \in {"stash", "save", "commit"} /\ rows' = rows /\ Unwind(a, h)
  BY <1>1, Zenon DEF StashFails, SaveFails, CommitFails
<1>3. h \in Upload /\ Unwritten(a, h)
  BY <1>1, <1>2, AtWork DEF Uploading
<1>4. CASE StashFails(a) \/ CommitFails(a)
  <2>1. disk' = disk
    BY <1>4 DEF StashFails, CommitFails
  <2> QED BY <1>2, <1>3, <2>1, UnwrittenSame, UnwindOwns, SameFiles, SameRows DEF Careful
<1>5. CASE SaveFails(a)
  <2>1. PICK n \in Names : n = h.name
    BY <1>3, UploadForm
  <2>2. h.pc = "save"
    BY <1>1, <1>5, Zenon DEF SaveFails
  <2>3. n \notin h.todo
    BY <1>1, <2>1, <2>2, AtWork DEF Uploading
  <2>4. PICK v, part :
           /\ v \in h.left /\ part \in {None, <<a, n>>}
           /\ ~Has(n, v) /\ Puts(n, v, part)
    BY <1>1, <1>5, <2>1, Zenon DEF SaveFails, Puts
  <2>5. v \in Versions /\ part \in Ids \cup {None} /\ (part = None \/ part[1] = a)
    <3>1. v \in h.left /\ part \in {None, <<a, n>>}
      BY <2>4, Zenon
    <3> QED BY <1>3, <3>1, UploadForm, StoreBounds DEF Handlers, Ids
  <2>6. Unwritten(a, h)'
    BY <1>2, <1>3, <2>3, <2>4, <2>5, SavedOwn
  <2>7. BringsOwn(a) /\ KeepsCopies
    BY <2>4, <2>5, PutFiles
  <2> QED BY <1>2, <1>3, <2>6, <2>7, UnwindOwns, SameRows DEF Careful
<1> QED BY <1>4, <1>5

LEMMA CutShortCareful ==
    ASSUME TypeOK, NEW a \in Handlers, NEW h \in Upload, CutShort(a, h), Unwritten(a, h),
           disk' = disk, rows' = rows
    PROVE  Careful(a)
<1>1. PICK given \in Upload :
         /\ Unwind(a, given) /\ given.edits = {}
         /\ given.todo = h.todo /\ given.staged \subseteq h.staged
  BY CutShortForm
<1>2. Unwritten(a, given)
  BY <1>1 DEF Unwritten
<1> QED BY <1>1, <1>2, UnwrittenSame, UnwindOwns, SameFiles, SameRows DEF Careful

LEMMA CommitCareful ==
    ASSUME TypeOK, LiveOnce, NEW a \in Handlers, Owns(a), Commit(a)
    PROVE  Careful(a)
<1>1. PICK h : h = handler[a]
  OBVIOUS
<1>2. h \in Upload /\ h.pc = "commit" /\ disk' = disk
  BY <1>1, UploadAt DEF Commit, Uploading
<1>3. Unwritten(a, h)
  BY <1>1, <1>2, AtWork DEF Uploading
<1>4. CASE rows' = Written(a) /\ Goes(a, IF h.edits = {} THEN Free ELSE [h EXCEPT !.pc = "discard"])
  <2>1. ASSUME NEW id \in Ids, NEW v \in Versions
        PROVE  \/ rows'[id].held[v] = None \/ From(rows'[id].held[v], a)
               \/ LeftAlone(a, h, id)
    <3>1. ASSUME WrittenAnew(a, h, id)
          PROVE  rows'[id].held[v] = None \/ From(rows'[id].held[v], a)
      BY <3>1 DEF WrittenAnew, IsNew, From
    <3>2. ASSUME NEW e \in h.edits, e.id = id, Rewritten(a, h, e)
          PROVE  rows'[id].held[v] = None \/ From(rows'[id].held[v], a)
      <4>1. e.loaded = {w \in Versions : rows[id].held[w] # None}
        BY <1>3, <3>2 DEF Unwritten, Holding
      <4>2. rows'[id].held[v] = IF v \in h.versions THEN <<a, e.name>>
                                ELSE IF v \in e.loaded THEN None ELSE rows[id].held[v]
        BY <3>2 DEF Rewritten
      <4> QED BY <4>1, <4>2 DEF From
    <3> QED BY <1>1, <1>2, <1>4, <3>1, <3>2, WrittenRow
  <2>2. WritesOwn(a)
    BY <2>1 DEF WritesOwn, LeftAlone
  <2>3. PICK st : st = IF h.edits = {} THEN Free ELSE [h EXCEPT !.pc = "discard"]
    OBVIOUS
  <2>4. handler'[a] = st
    BY <1>4, <2>3 DEF Goes, TypeOK
  <2>5. CASE st = Free
    <3>1. Owns(a)'
      BY <2>4, <2>5 DEF Owns, Free, Uploading
    <3> QED BY <1>2, <2>2, <3>1, SameFiles DEF Careful
  <2>6. CASE st = [h EXCEPT !.pc = "discard"]
    <3>1. st.pc = "discard" /\ st.edits = h.edits
      BY <1>2, <2>6 DEF Upload
    <3>2. \A n \in Names : Clean(a, Aside(n))'
      BY <1>2, <1>3 DEF Unwritten, Clean
    <3>3. ASSUME NEW e \in h.edits, NEW id \in Live(e.name)', NEW v \in Holding(id)'
          PROVE  From(rows'[id].held[v], a)
      <4>1. id \in Ids /\ v \in Versions /\ rows'[id].held[v] # None
        BY DEF Live, Holding
      <4>2. ~LeftAlone(a, h, id)
        <5>1. IsLive(e.id, e.name)
          BY <1>3 DEF Unwritten
        <5>2. LeftAlone(a, h, id) => id \in Live(e.name) /\ e.id # id
          BY DEF LeftAlone, Live
        <5> QED BY <5>1, <5>2 DEF LiveOnce, Live, IsLive
      <4> QED BY <2>1, <4>1, <4>2
    <3>4. WrittenOut(a, st)'
      BY <3>1, <3>2, <3>3 DEF WrittenOut
    <3>5. Owns(a)'
      BY <2>4, <3>1, <3>4 DEF Owns, UploadOwns
    <3> QED BY <1>2, <2>2, <3>5, SameFiles DEF Careful
  <2> QED BY <2>3, <2>5, <2>6
<1>5. CASE Unwind(a, h) /\ rows' = rows
  BY <1>2, <1>3, <1>5, UnwrittenSame, UnwindOwns, SameFiles, SameRows DEF Careful
<1>6. CASE CutShort(a, h) /\ rows' = rows
  BY <1>2, <1>3, <1>6, CutShortCareful
<1> QED BY <1>1, <1>4, <1>5, <1>6 DEF Commit

LEMMA FlushFailsCareful ==
    ASSUME TypeOK, NEW a \in Handlers, Owns(a), FlushFails(a)
    PROVE  Careful(a)
<1>1. handler[a].pc = "commit" /\ CutShort(a, handler[a]) /\ rows' = rows /\ disk' = disk
  BY Zenon DEF FlushFails
<1>2. handler[a] \in Upload /\ Unwritten(a, handler[a])
  BY <1>1, AtWork DEF Uploading
<1> QED BY <1>1, <1>2, CutShortCareful

(* The files set aside are no longer what their rows are about.            *)
LEMMA DiscardCareful ==
    ASSUME TypeOK, NEW a \in Handlers, Owns(a), Discard(a) \/ DiscardFails(a)
    PROVE  Careful(a)
<1>1. PICK h : h = handler[a]
  OBVIOUS
<1>2. h \in Upload /\ h.pc = "discard" /\ rows' = rows
  BY <1>1, UploadAt DEF Discard, DiscardFails, Uploading
<1>3. WrittenOut(a, h)
  BY <1>1, <1>2, AtWork DEF Uploading
<1>4. PICK state : /\ handler'[a] = state
                   /\ state = Free \/ (state.pc = "discard" /\ state.edits \subseteq h.edits)
  BY <1>1, DiscardGoes
<1>5. ASSUME \A p \in Places : \A v \in Versions :
                disk'[p].holds[v] = None \/ disk'[p].holds[v] = disk[p].holds[v]
      PROVE  BringsOwn(a) /\ Owns(a)'
  <2>1. BringsOwn(a)
    BY <1>5 DEF BringsOwn
  <2>2. \A n \in Names : Clean(a, Aside(n))'
    BY <1>3, <1>5, PlaceForms DEF WrittenOut, Clean, From
  <2>3. state = Free => Owns(a)'
    BY <1>4 DEF Owns, Free, Uploading
  <2>4. state # Free => WrittenOut(a, state)'
    BY <1>2, <1>3, <1>4, <2>2 DEF WrittenOut, Live, Holding
  <2>5. state # Free => Owns(a)'
    BY <1>4, <2>4 DEF Owns, UploadOwns
  <2> QED BY <2>1, <2>3, <2>5
<1>6. CASE disk' = disk
  BY <1>2, <1>5, <1>6, SameFiles, SameRows DEF Careful
<1>7. ASSUME NEW e \in h.edits, disk' = [disk EXCEPT ![Aside(e.name)] = NoDir]
      PROVE  Careful(a)
  <2>1. e.name \in Names /\ Aside(e.name) \in Places
    BY <1>2, UploadForm, EditForm, PlaceForms
  <2>2. disk'[Aside(e.name)] = NoDir /\ \A p \in Places \ {Aside(e.name)} : disk'[p] = disk[p]
    BY <1>7, <2>1, PutDir, DirForms
  <2>3. \A p \in Places : \A v \in Versions :
           disk'[p].holds[v] = None \/ disk'[p].holds[v] = disk[p].holds[v]
    BY <2>2 DEF NoDir, NoFiles
  <2>4. ASSUME NEW id \in Ids, NEW v \in Versions, Kept(id, v)
        PROVE  \E p \in Places : disk'[p].holds[v] = rows[id].held[v]
    <3>1. rows[id].name \in Names /\ rows[id].state = "live" /\ rows[id].held[v] # None
      BY <2>4 DEF TypeOK, Row, Kept
    <3>2. PICK p \in {Root(rows[id].name), Aside(rows[id].name)} :
             disk[p].holds[v] = rows[id].held[v]
      BY <2>4 DEF Kept
    <3>3. p \in Places
      BY <3>1, <3>2, PlaceForms
    <3>4. CASE p = Aside(e.name)
      <4>1. rows[id].name = e.name
        BY <3>2, <3>4, PlacesDiffer
      <4>2. From(rows[id].held[v], a)
        BY <1>3, <3>1, <4>1 DEF WrittenOut, Live, Holding
      <4> QED BY <1>3, <2>1, <3>2, <3>4, <4>2 DEF WrittenOut, Clean
    <3>5. CASE p # Aside(e.name)
      BY <2>2, <3>2, <3>3, <3>5
    <3> QED BY <3>4, <3>5
  <2>5. KeepsCopies
    BY <2>4 DEF KeepsCopies
  <2> QED BY <1>2, <1>5, <2>3, <2>5, SameRows DEF Careful
<1> QED BY <1>1, <1>6, <1>7 DEF Discard, DiscardFails

(* Undoing saves takes nothing but files the request has uploaded.         *)
LEMMA ShrunkOwn ==
    ASSUME NEW a, NEW h \in Upload, Unwritten(a, h), rows' = rows,
           \A p \in Places : \A v \in Versions :
              disk'[p].holds[v] = None \/ disk'[p].holds[v] = disk[p].holds[v],
           NEW st, st.todo = h.todo, st.edits \subseteq h.edits,
           \A s \in st.staged : From(disk'[Root(s[1])].holds[s[2]], a)
    PROVE  Unwritten(a, st)'
<1>1. \A p \in Places : Clean(a, p) => Clean(a, p)'
  BY DEF Clean, From
<1>2. \A p \in Places : OnlyFrom(a, p) => OnlyFrom(a, p)'
  BY DEF OnlyFrom
<1>3. \A n \in Names : Clean(a, Aside(n))'
  BY <1>1, PlaceForms DEF Unwritten
<1>4. \A n \in st.todo : Clean(a, Root(n))'
  BY <1>1, UploadForm, PlaceForms DEF Unwritten
<1>5. ASSUME NEW e \in st.edits
      PROVE  OnlyFrom(a, Root(e.name))' /\ IsLive(e.id, e.name)' /\ e.loaded = Holding(e.id)'
  <2>1. e.name \in Names /\ Root(e.name) \in Places
    BY UploadForm, EditForm, PlaceForms
  <2> QED BY <1>2, <2>1 DEF Unwritten, IsLive, Holding
<1>6. \A id \in Ids : \A w \in Versions : ~From(rows'[id].held[w], a)
  BY DEF Unwritten
<1> QED BY <1>3, <1>4, <1>5, <1>6 DEF Unwritten

LEMMA UndoSaveCareful ==
    ASSUME TypeOK, NEW a \in Handlers, Owns(a), UndoSave(a)
    PROVE  Careful(a)
<1>1. PICK h : h = handler[a]
  OBVIOUS
<1>2. h \in Upload /\ h.pc = "undo" /\ rows' = rows
  BY <1>1, UploadAt DEF UndoSave, Uploading
<1>3. Unwritten(a, h)
  BY <1>1, <1>2, AtWork DEF Uploading
<1>4. PICK s, undone :
         /\ s \in h.staged
         /\ Remove(s[1], s[2])
         /\ undone = [h EXCEPT !.staged = @ \ {s}]
         /\ Unwind(a, undone)
  BY <1>1 DEF UndoSave
<1>5. PICK n \in Names, v \in Versions : s = <<n, v>>
  BY <1>2, <1>4, UploadForm
<1>6. From(disk[Root(n)].holds[v], a) /\ Remove(n, v)
  BY <1>3, <1>4, <1>5 DEF Unwritten
<1>7. /\ BringsOwn(a) /\ LosesOwn(a)
      /\ \A p \in Places \ {Root(n)} : disk'[p] = disk[p]
      /\ \A w \in Versions \ {v} : disk'[Root(n)].holds[w] = disk[Root(n)].holds[w]
      /\ disk'[Root(n)].holds[v] = None
  BY <1>6, TakenFiles
<1>8. /\ undone \in Upload /\ undone.edits = h.edits /\ undone.todo = h.todo
      /\ undone.staged = h.staged \ {s}
  BY <1>2, <1>4 DEF Upload
<1>9. ASSUME NEW t \in undone.staged PROVE From(disk'[Root(t[1])].holds[t[2]], a)
  <2>1. /\ t[1] \in Names /\ t[2] \in Versions /\ t = <<t[1], t[2]>> /\ t # s
        /\ From(disk[Root(t[1])].holds[t[2]], a)
    BY <1>2, <1>3, <1>8, UploadForm DEF Unwritten
  <2>2. CASE t[1] = n
    BY <1>5, <1>7, <2>1, <2>2
  <2>3. CASE t[1] # n
    <3>1. Root(t[1]) \in Places \ {Root(n)}
      BY <2>1, <2>3, PlaceForms, RootsDiffer
    <3> QED BY <1>7, <2>1, <3>1
  <2> QED BY <2>2, <2>3
<1>10. \A p \in Places : \A w \in Versions :
          disk'[p].holds[w] = None \/ disk'[p].holds[w] = disk[p].holds[w]
  BY <1>7
<1>11. Unwritten(a, undone)'
  BY <1>2, <1>3, <1>8, <1>9, <1>10, ShrunkOwn
<1>12. KeepsCopies
  BY <1>3, <1>7, LosingOwn DEF Unwritten
<1> QED BY <1>2, <1>4, <1>7, <1>8, <1>11, <1>12, UnwindOwns, SameRows DEF Careful

(* A stash that goes back replaces files the request has uploaded, if any, *)
(* also when it does not get past clearing their place.                    *)
LEMMA RestoreCareful ==
    ASSUME TypeOK, StashInv, NEW a \in Handlers, Owns(a), Restore(a)
    PROVE  Careful(a)
<1>1. PICK h : h = handler[a]
  OBVIOUS
<1>2. h \in Upload /\ h.pc = "restore" /\ rows' = rows /\ Stashes(a) = h.edits
  BY <1>1, UploadAt DEF Restore, Uploading, Stashes
<1>3. Unwritten(a, h) /\ h.staged = {}
  BY <1>1, <1>2, AtWork DEF Uploading
<1>4. PICK e, given :
         /\ e \in h.edits
         /\ IF disk[Aside(e.name)].exists THEN Move(Aside(e.name), Root(e.name)) ELSE UNCHANGED disk
         /\ given = [h EXCEPT !.edits = @ \ {e}]
         /\ Unwind(a, given)
  BY <1>1 DEF Restore
<1>5. PICK n \in Names : n = e.name
  BY <1>2, <1>4, UploadForm, EditForm
<1>6. disk[Aside(n)].exists /\ \A f \in h.edits : f.name = n => f = e
  BY <1>2, <1>4, <1>5 DEF StashInv
<1>7. Move(Aside(n), Root(n))
  BY <1>4, <1>5, <1>6
<1>8. /\ Root(n) \in Places /\ Aside(n) \in Places /\ Root(n) # Aside(n)
      /\ disk'[Root(n)] = disk[Aside(n)] /\ disk'[Aside(n)] = NoDir
      /\ \A p \in Places \ {Root(n), Aside(n)} : disk'[p] = disk[p]
  BY <1>7, MoveEffect, PlaceForms, PlacesDiffer
<1>9. \A m \in Names \ {n} : disk'[Root(m)] = disk[Root(m)] /\ disk'[Aside(m)] = disk[Aside(m)]
  BY <1>8, PlaceForms, PlacesDiffer, RootsDiffer
<1>10. /\ given \in Upload /\ given.edits = h.edits \ {e} /\ given.todo = h.todo
       /\ given.staged = {}
  BY <1>2, <1>3, <1>4 DEF Upload
<1>11. \A m \in Names : Clean(a, Aside(m))'
  BY <1>3, <1>8, <1>9 DEF Unwritten, Clean, From, NoDir, NoFiles
<1>12. \A m \in h.todo : Clean(a, Root(m))'
  <2>1. ASSUME NEW m \in h.todo PROVE Clean(a, Root(m))'
    <3>1. m \in Names
      BY <1>2, UploadForm
    <3>2. CASE m = n
      BY <1>3, <1>8, <3>2 DEF Unwritten, Clean
    <3>3. CASE m # n
      BY <1>3, <1>9, <3>1, <3>3 DEF Unwritten, Clean
    <3> QED BY <3>2, <3>3
  <2> QED BY <2>1
<1>13. ASSUME NEW f \in given.edits
       PROVE  OnlyFrom(a, Root(f.name))' /\ IsLive(f.id, f.name)' /\ f.loaded = Holding(f.id)'
  <2>1. f \in h.edits /\ f.name \in Names /\ f.name # n
    BY <1>2, <1>6, <1>10, UploadForm, EditForm
  <2> QED BY <1>2, <1>3, <1>9, <2>1 DEF Unwritten, OnlyFrom, IsLive, Holding
<1>14. \A id \in Ids : \A v \in Versions : ~From(rows'[id].held[v], a)
  BY <1>2, <1>3 DEF Unwritten
<1>15. Unwritten(a, given)'
  BY <1>10, <1>11, <1>12, <1>13, <1>14 DEF Unwritten
<1>16. BringsOwn(a) /\ LosesOwn(a)
  <2>1. OnlyFrom(a, Root(n))
    BY <1>3, <1>4, <1>5 DEF Unwritten
  <2> QED BY <1>7, <1>8, <2>1, MovedFiles
<1>17. KeepsCopies
  BY <1>3, <1>16, LosingOwn DEF Unwritten
<1> QED BY <1>2, <1>4, <1>10, <1>15, <1>16, <1>17, UnwindOwns, SameRows DEF Careful

LEMMA UndoFailsCareful ==
    ASSUME TypeOK, NEW a \in Handlers, Owns(a), UndoFails(a)
    PROVE  Careful(a)
<1>1. PICK h : h = handler[a]
  OBVIOUS
<1>2. h \in Upload /\ h.pc \in {"undo", "restore"} /\ rows' = rows
  BY <1>1, UploadAt DEF UndoFails, Uploading
<1>3. Unwritten(a, h) /\ (h.pc = "restore" => h.staged = {})
  BY <1>1, <1>2, AtWork DEF Uploading
<1>4. CASE disk' = disk
  <2>1. PICK given : /\ Unwind(a, given)
                     /\ \/ \E s \in h.staged : given = [h EXCEPT !.staged = @ \ {s}]
                        \/ \E e \in h.edits : given = [h EXCEPT !.edits = @ \ {e}]
    BY <1>1 DEF UndoFails
  <2>2. /\ given \in Upload /\ given.edits \subseteq h.edits /\ given.todo = h.todo
        /\ given.staged \subseteq h.staged
    BY <1>2, <2>1 DEF Upload
  <2>3. Unwritten(a, given)
    BY <1>3, <2>2 DEF Unwritten
  <2> QED BY <1>2, <1>4, <2>1, <2>2, <2>3, UnwrittenSame, UnwindOwns, SameFiles, SameRows DEF Careful
<1>5. ASSUME h.pc = "restore", NEW e \in h.edits, disk' = [disk EXCEPT ![Root(e.name)] = NoDir],
             Unwind(a, [h EXCEPT !.edits = @ \ {e}])
      PROVE  Careful(a)
  <2>1. e.name \in Names /\ Root(e.name) \in Places
    BY <1>2, UploadForm, EditForm, PlaceForms
  <2>2. disk'[Root(e.name)] = NoDir /\ \A p \in Places \ {Root(e.name)} : disk'[p] = disk[p]
    BY <1>5, <2>1, PutDir, DirForms
  <2>3. \A p \in Places : \A v \in Versions :
           disk'[p].holds[v] = None \/ disk'[p].holds[v] = disk[p].holds[v]
    BY <2>2 DEF NoDir, NoFiles
  <2>4. PICK given : given = [h EXCEPT !.edits = @ \ {e}]
    OBVIOUS
  <2>5. /\ given \in Upload /\ given.edits = h.edits \ {e} /\ given.todo = h.todo
        /\ given.staged = {}
    BY <1>2, <1>3, <1>5, <2>4 DEF Upload
  <2>6. Unwritten(a, given)'
    BY <1>2, <1>3, <2>3, <2>5, ShrunkOwn
  <2>7. Owns(a)'
    BY <1>5, <2>4, <2>5, <2>6, UnwindOwns
  <2>8. LosesOwn(a)
    <3>1. OnlyFrom(a, Root(e.name))
      BY <1>3 DEF Unwritten
    <3> QED BY <2>2, <3>1 DEF LosesOwn, OnlyFrom
  <2>9. KeepsCopies
    BY <1>3, <2>8, LosingOwn DEF Unwritten
  <2>10. BringsOwn(a)
    BY <2>3 DEF BringsOwn
  <2> QED BY <1>2, <2>7, <2>9, <2>10, SameRows DEF Careful
<1> QED BY <1>1, <1>4, <1>5 DEF UndoFails

(* Renames move files to where there are none.                             *)
LEMMA OwnsNothing ==
    ASSUME NEW a, handler'[a].pc \notin Uploading
    PROVE  Owns(a)'
BY DEF Owns

LEMMA MovingCareful ==
    ASSUME TypeOK, NEW a, NEW n \in Names, NEW m \in Names, handler'[a].pc \notin Uploading,
           CanMove(Root(n), Root(m)), Move(Root(n), Root(m)), rows' = rows
    PROVE  Careful(a)
<1>1. ~disk[Root(m)].exists /\ Root(n) # Root(m) /\ Root(n) \in Places /\ Root(m) \in Places
  BY PlaceForms DEF CanMove
<1>2. BringsOwn(a) /\ LosesNone
  BY <1>1, MovedFiles
<1> QED BY <1>2, OwnsNothing, LosingNone, SameRows DEF Careful

LEMMA RestingCareful ==
    ASSUME TypeOK, NEW a, handler'[a].pc \notin Uploading, disk' = disk, WritesOwn(a)
    PROVE  Careful(a)
BY OwnsNothing, SameFiles DEF Careful

LEMMA RenameCareful ==
    ASSUME TypeOK, NEW a \in Handlers, RenameStep(a) \/ RenameFault(a)
    PROVE  Careful(a)
<1>1. PICK h : h = handler[a]
  OBVIOUS
<1>2. h.pc \in {"rename", "settle", "unrename"}
  <2>1. Rename(a) => h.pc = "rename"
    BY <1>1, Zenon DEF Rename
  <2> QED BY <1>1, <2>1 DEF RenameStep, RenameFault, CommitRename, UndoRename, RenameFails,
                            FlushRenameFails, CommitRenameFails, RefreshFails, UndoRenameFails
<1>3. h \in Renaming /\ h.name \in Names /\ h.to \in Names /\ h.id \in Ids
  BY <1>1, <1>2, FormOfHandler DEF TypeOK, Renaming
<1>4. \A state : Goes(a, state) => handler'[a] = state
  BY DEF Goes, TypeOK
<1>5. Goes(a, Free) \/ Goes(a, [h EXCEPT !.pc = "unrename"]) => handler'[a].pc \notin Uploading
  BY <1>3, <1>4 DEF Free, Renaming, Uploading
<1>6. ASSUME rows' = [rows EXCEPT ![h.id].name = h.to] PROVE WritesOwn(a)
  <2>1. \A id \in Ids : rows'[id].held = rows[id].held
    BY <1>3, <1>6 DEF TypeOK, Row
  <2> QED BY <2>1 DEF WritesOwn
<1>7. CASE Rename(a)
  <2>1. rows' = rows
    BY <1>7, Zenon DEF Rename
  <2>2. PICK loaded :
           \/ /\ CanMove(Root(h.name), Root(h.to)) /\ Move(Root(h.name), Root(h.to))
              /\ Goes(a, [h EXCEPT !.pc = "settle", !.loaded = loaded])
           \/ Goes(a, Free) /\ disk' = disk
    BY <1>1, <1>7, Zenon DEF Rename
  <2>3. Goes(a, [h EXCEPT !.pc = "settle", !.loaded = loaded]) => handler'[a].pc \notin Uploading
    BY <1>3, <1>4 DEF Renaming, Uploading
  <2>4. CASE Goes(a, Free) /\ disk' = disk
    BY <1>5, <2>1, <2>4, RestingCareful, SameRows
  <2>5. CASE /\ CanMove(Root(h.name), Root(h.to)) /\ Move(Root(h.name), Root(h.to))
             /\ Goes(a, [h EXCEPT !.pc = "settle", !.loaded = loaded])
    BY <1>3, <2>1, <2>3, <2>5, MovingCareful
  <2> QED BY <2>2, <2>4, <2>5
<1>8. CASE CommitRename(a) \/ CommitRenameFails(a) \/ RefreshFails(a)
  <2>1. disk' = disk /\ (rows' = rows \/ rows' = [rows EXCEPT ![h.id].name = h.to])
    BY <1>1, <1>8 DEF CommitRename, CommitRenameFails, RefreshFails
  <2>2. Goes(a, Free) \/ Goes(a, [h EXCEPT !.pc = "unrename"])
    BY <1>1, <1>8 DEF CommitRename, CommitRenameFails, RefreshFails
  <2> QED BY <1>5, <1>6, <2>1, <2>2, RestingCareful, SameRows
<1>9. CASE UndoRename(a)
  <2>1. rows' = rows /\ Goes(a, Free)
    BY <1>9 DEF UndoRename
  <2>2. \/ CanMove(Root(h.to), Root(h.name)) /\ Move(Root(h.to), Root(h.name))
        \/ disk' = disk
    BY <1>1, <1>9 DEF UndoRename
  <2> QED BY <1>3, <1>5, <2>1, <2>2, MovingCareful, RestingCareful, SameRows
<1>10. CASE RenameFails(a) \/ FlushRenameFails(a) \/ UndoRenameFails(a)
  BY <1>5, <1>10, RestingCareful, SameRows DEF RenameFails, FlushRenameFails, UndoRenameFails
<1> QED BY <1>7, <1>8, <1>9, <1>10 DEF RenameStep, RenameFault

LEMMA DeleteCareful ==
    ASSUME TypeOK, NEW a \in Handlers, DeleteStep(a)
    PROVE  Careful(a)
<1>1. PICK h : h = handler[a]
  OBVIOUS
<1>2. h.pc = "delete"
  <2>1. CommitDelete(a) \/ DeleteFiles(a) => h.pc = "delete"
    BY <1>1, Zenon DEF CommitDelete, DeleteFiles
  <2> QED BY <1>1, <2>1 DEF DeleteStep, DeleteFails
<1>3. h \in Deletion
  BY <1>1, <1>2, FormOfHandler DEF TypeOK
<1>4. \A state : Goes(a, state) => handler'[a] = state
  BY DEF Goes, TypeOK
<1>5. Goes(a, Free) => handler'[a].pc \notin Uploading
  BY <1>4 DEF Free, Uploading
<1>6. CASE CommitDelete(a)
  <2>1. /\ disk' = disk /\ Goes(a, Free)
        /\ \A i \in Ids \ {h.id} : rows'[i] = rows[i]
        /\ \A v \in Versions :
              rows'[h.id].held[v] = IF v \in h.loaded THEN None ELSE rows[h.id].held[v]
    BY <1>1, <1>6, ForgottenRow
  <2>2. WritesOwn(a)
    <3>1. ASSUME NEW i \in Ids, NEW v \in Versions
          PROVE  rows'[i].held[v] = None \/ rows'[i].held[v] = rows[i].held[v]
      BY <2>1
    <3> QED BY <3>1 DEF WritesOwn
  <2> QED BY <1>5, <2>1, <2>2, RestingCareful
<1>7. CASE DeleteFiles(a)
  <2>1. rows' = rows
    BY <1>7, Zenon DEF DeleteFiles
  <2>2. PICK v, state :
           /\ v \in h.left /\ Remove(h.name, v) /\ state = [h EXCEPT !.left = @ \ {v}]
           /\ Goes(a, IF Has(h.name, v) THEN state ELSE Free)
    BY <1>1, <1>7, Zenon DEF DeleteFiles
  <2>3. v \in h.left /\ Remove(h.name, v)
    BY <2>2, Zenon
  <2>4. h.name \in Names /\ v \in Versions
    BY <1>3, <2>3 DEF Deletion
  <2>5. state.pc = "delete"
    <3>1. state = [h EXCEPT !.left = @ \ {v}]
      BY <2>2, Zenon
    <3> QED BY <1>3, <3>1 DEF Deletion
  <2>6. Goes(a, state) \/ Goes(a, Free)
    BY <2>2, Zenon
  <2>7. handler'[a].pc \notin Uploading
    BY <1>4, <1>5, <2>5, <2>6 DEF Uploading
  <2>8. BringsOwn(a)
    BY <2>3, <2>4, TakenFiles
  <2> QED BY <1>1, <1>2, <2>1, <2>7, <2>8, OwnsNothing, SameRows DEF Careful
<1>8. CASE DeleteFails(a)
  BY <1>5, <1>8, RestingCareful, SameRows DEF DeleteFails
<1> QED BY <1>6, <1>7, <1>8 DEF DeleteStep

LEMMA ArrivingCareful ==
    ASSUME TypeOK, NEW a \in Handlers,
           \/ \E n, to \in Names : BeginRename(a, n, to)
           \/ \E n \in Names, one \in {{}} \cup {{v} : v \in Versions} : BeginDelete(a, n, one)
    PROVE  Careful(a)
<1>1. rows' = rows /\ disk' = disk
  BY DEF BeginRename, BeginDelete
<1>2. PICK state : Goes(a, state) /\ state.pc \in {"rename", "delete"}
  <2>1. ASSUME NEW n, NEW to, BeginRename(a, n, to)
        PROVE  \E state : Goes(a, state) /\ state.pc \in {"rename", "delete"}
    <3>1. PICK id : Goes(a, [pc |-> "rename", id |-> id, name |-> n, to |-> to, loaded |-> {}])
      BY <2>1 DEF BeginRename
    <3> QED BY <3>1
  <2>2. ASSUME NEW n, NEW one, BeginDelete(a, n, one)
        PROVE  \E state : Goes(a, state) /\ state.pc \in {"rename", "delete"}
    <3>1. PICK id, doomed :
             Goes(a, [pc |-> "delete", id |-> id, name |-> n, loaded |-> doomed, left |-> doomed])
      BY <2>2, Zenon DEF BeginDelete
    <3> QED BY <3>1
  <2> QED BY <2>1, <2>2
<1>3. handler'[a].pc \notin Uploading
  BY <1>2 DEF Goes, TypeOK, Uploading
<1> QED BY <1>1, <1>3, RestingCareful, SameRows

(* Every step of a handler nothing overlaps, whatever fails in it.         *)
LEMMA HandlerCareful ==
    ASSUME TypeOK, StashInv, LiveOnce, Numbered, NEW a \in Handlers, Owns(a), HandlerStep(a),
           ~overlap'
    PROVE  Careful(a)
<1>1. CASE UploadStep(a)
  BY <1>1, ReadModelCareful, StashCareful, SaveCareful, CommitCareful, DiscardCareful,
     UndoSaveCareful, RestoreCareful DEF UploadStep
<1>2. CASE UploadFault(a)
  BY <1>2, UploadFaultCareful, FlushFailsCareful, DiscardCareful, UndoFailsCareful DEF UploadFault
<1>3. CASE RenameStep(a) \/ RenameFault(a)
  BY <1>3, RenameCareful
<1>4. CASE DeleteStep(a)
  BY <1>4, DeleteCareful
<1>5. ASSUME \E bundle \in Bundles, update \in BOOLEAN :
                BeginUpload(a, bundle[1], bundle[2], update)
      PROVE  Careful(a)
  <2>1. PICK operation : Arrives(a, operation)
    BY <1>5 DEF BeginUpload
  <2>2. handler[a] = Free
    BY <2>1 DEF Arrives, Busy
  <2> QED BY <1>5, <2>2, BeginUploadCareful
<1> QED BY <1>1, <1>2, <1>3, <1>4, <1>5, ArrivingCareful DEF HandlerStep

-----------------------------------------------------------------------------
(* No copy is lost *)

KeepsOnly == ~overlap' /\ ~Deleting => KeepsCopies

LEMMA NumbersStay ==
    ASSUME TypeOK, TypeOK', Numbered, NEW a \in Handlers, BringsOwn(a), WritesOwn(a),
           requests <= requests', a <= requests'
    PROVE  Numbered'
<1>1. \A u \in Ids : u[1] \in Nat
  BY StoreBounds DEF Ids
<1>2. requests \in Nat /\ requests' \in Nat /\ a \in Nat
  BY StoreBounds DEF TypeOK, Handlers
<1>3. ASSUME NEW p \in Places, NEW v \in Versions, disk'[p].holds[v] # None
      PROVE  disk'[p].holds[v][1] <= requests'
  <2>1. PICK u \in Ids : u = disk'[p].holds[v]
    BY <1>3 DEF TypeOK, Dir, Files
  <2>2. CASE From(u, a)
    BY <2>1, <2>2 DEF From
  <2>3. CASE ~From(u, a)
    <3>1. PICK q \in Places : disk[q].holds[v] = u
      BY <1>3, <2>1, <2>3 DEF BringsOwn
    <3>2. u[1] <= requests
      BY <1>3, <2>1, <3>1 DEF Numbered
    <3> QED BY <1>1, <1>2, <2>1, <3>2
  <2> QED BY <2>2, <2>3
<1>4. ASSUME NEW id \in Ids, NEW v \in Holding(id)'
      PROVE  rows'[id].held[v][1] <= requests'
  <2>1. PICK u \in Ids : u = rows'[id].held[v] /\ v \in Versions
    BY DEF TypeOK, Row, Files, Holding
  <2>2. CASE From(u, a)
    BY <2>1, <2>2 DEF From
  <2>3. CASE ~From(u, a)
    <3>1. rows[id].held[v] = u /\ u # None
      BY <2>1, <2>3 DEF WritesOwn, Holding
    <3>2. u[1] <= requests
      BY <2>1, <3>1 DEF Numbered, Holding
    <3> QED BY <1>1, <1>2, <2>1, <3>2
  <2> QED BY <2>2, <2>3
<1> QED BY <1>3, <1>4 DEF Numbered

LEMMA OwnsStays ==
    ASSUME NEW a, Owns(a), rows' = rows, disk' = disk, handler'[a] = handler[a]
    PROVE  Owns(a)'
<1>1. ASSUME NEW h, UploadOwns(a, h) PROVE UploadOwns(a, h)'
  <2>1. h.pc # "discard" => Unwritten(a, h)'
    BY <1>1, UnwrittenSame DEF UploadOwns
  <2>2. h.pc = "discard" => WrittenOut(a, h)'
    BY <1>1 DEF UploadOwns, WrittenOut, Clean, Live, Holding
  <2> QED BY <1>1, <2>1, <2>2 DEF UploadOwns, Clean, IsLive
<1> QED BY <1>1 DEF Owns

LEMMA HandlerOwn ==
    ASSUME TypeOK, TypeOK', StashInv, Solo, LiveOnce, OwnInv, NEW a \in Handlers, HandlerStep(a)
    PROVE  OwnInv' /\ KeepsOnly
<1> SUFFICES ASSUME ~overlap' PROVE OwnInv' /\ (~Deleting => KeepsCopies)
  BY DEF OwnInv, KeepsOnly
<1>1. \A b \in Handlers \ {a} : handler'[b] = handler[b]
  BY HandlerSound DEF Sound
<1>2. Turn(a)
  BY HandlerTurn
<1>3. (\A b \in Handlers \ {a} : handler[b] = Free) /\ sweeper' = Asleep
  BY <1>1, <1>2, Alone
<1>4. ~overlap /\ requests <= requests' /\ a <= requests'
  <2>0. requests \in Nat /\ a \in Nat
    BY StoreBounds DEF TypeOK, Handlers
  <2>1. CASE handler[a] # Free /\ requests' = requests /\ overlap' = overlap
    BY <2>0, <2>1 DEF Solo
  <2>2. CASE \E operation \in Operations : Arrives(a, operation)
    <3>1. a = requests + 1 /\ requests' = a /\ overlap' = (overlap \/ Busy)
      BY <2>2 DEF Arrives
    <3>2. ~overlap
      BY <3>1
    <3>3. requests <= requests' /\ a <= requests'
      BY <2>0, <3>1
    <3> QED BY <3>2, <3>3
  <2> QED BY <1>2, <2>1, <2>2 DEF Turn
<1>5. Numbered /\ Owns(a)
  BY <1>4 DEF OwnInv
<1>6. Careful(a)
  BY <1>5, HandlerCareful
<1>7. Numbered'
  BY <1>4, <1>5, <1>6, NumbersStay DEF Careful
<1>8. \A b \in Handlers : Owns(b)'
  <2>1. ASSUME NEW b \in Handlers \ {a} PROVE Owns(b)'
    BY <1>1, <1>3, OwnsNothing DEF Free, Uploading
  <2> QED BY <1>6, <2>1 DEF Careful
<1>9. OwnInv'
  BY <1>3, <1>7, <1>8 DEF OwnInv, Asleep
<1> QED BY <1>6, <1>9 DEF Careful, Deleting

LEMMA SweepOwn ==
    ASSUME TypeOK, TypeOK', Solo, OwnInv, Sweep \/ SweepFails
    PROVE  OwnInv' /\ KeepsOnly
<1> SUFFICES ASSUME ~overlap' PROVE OwnInv' /\ KeepsCopies
  BY DEF OwnInv, KeepsOnly
<1>0. rows' = rows /\ handler' = handler /\ requests' = requests
  BY DEF Sweep, SweepFails, ListVersions, ReadRows, SweepDeletes, bounds
<1>1. ~overlap /\ \A a \in Handlers : handler[a] = Free
  <2>1. CASE ListVersions
    BY <2>1 DEF ListVersions, Busy
  <2>2. CASE ReadRows \/ SweepDeletes \/ SweepFails
    <3>1. sweeper # Asleep /\ overlap' = overlap
      BY <2>2 DEF ReadRows, SweepDeletes, SweepFails, Asleep
    <3> QED BY <3>1 DEF Solo
  <2> QED BY <2>1, <2>2 DEF Sweep
<1>2. Numbered /\ (sweeper.pc = "delete" => sweeper.found \cap Known = {}) /\ Known' = Known
  BY <1>0, <1>1 DEF OwnInv, Known
<1>3. \A a \in Handlers : Owns(a)'
  BY <1>0, <1>1, OwnsNothing DEF Free, Uploading
<1>4. sweeper'.pc = "delete" => sweeper'.found \cap Known' = {}
  <2>1. CASE ListVersions
    BY <2>1 DEF ListVersions
  <2>2. ASSUME NEW found, Sweeps(found), found \cap Known = {}
        PROVE  sweeper'.pc = "delete" => sweeper'.found \cap Known = {}
    BY <2>2 DEF Sweeps, Asleep
  <2>3. CASE ReadRows
    BY <1>2, <2>2, <2>3 DEF ReadRows
  <2>4. CASE SweepDeletes
    BY <1>2, <2>2, <2>4 DEF SweepDeletes
  <2>5. CASE SweepFails
    BY <1>2, <2>2, <2>5 DEF SweepFails
  <2> QED BY <1>2, <2>1, <2>3, <2>4, <2>5 DEF Sweep
<1>5. ASSUME NEW n \in Names, NEW v \in Versions, Remove(n, v), <<n, v>> \notin Known
      PROVE  Numbered' /\ KeepsCopies
  <2>1. /\ \A p \in Places \ {Root(n)} : disk'[p] = disk[p]
        /\ \A w \in Versions \ {v} : disk'[Root(n)].holds[w] = disk[Root(n)].holds[w]
        /\ disk'[Root(n)].holds[v] = None
    BY <1>5, TakenFiles
  <2>2. ASSUME NEW p \in Places, NEW w \in Versions
        PROVE  disk'[p].holds[w] = disk[p].holds[w] \/ (p = Root(n) /\ w = v)
    BY <2>1
  <2>3. Numbered'
    <3>1. \A p \in Places : \A w \in Versions :
             disk'[p].holds[w] # None => disk'[p].holds[w] = disk[p].holds[w]
      BY <2>1, <2>2
    <3>2. \A id \in Ids : Holding(id)' = Holding(id)
      BY <1>0 DEF Holding
    <3> QED BY <1>0, <1>2, <3>1, <3>2 DEF Numbered
  <2>4. ASSUME NEW id \in Ids, NEW w \in Versions, Kept(id, w)
        PROVE  \E p \in Places : disk'[p].holds[w] = rows[id].held[w]
    <3>1. rows[id].name \in Names /\ rows[id].held[w] # None
      BY <2>4 DEF TypeOK, Row, Kept
    <3>2. PICK p \in {Root(rows[id].name), Aside(rows[id].name)} :
             disk[p].holds[w] = rows[id].held[w]
      BY <2>4 DEF Kept
    <3>3. p \in Places
      BY <3>1, <3>2, PlaceForms
    <3>4. ~(p = Root(n) /\ w = v)
      <4>1. p = Root(n) => rows[id].name = n
        BY <3>2, RootsDiffer, PlacesDiffer
      <4> QED BY <1>5, <3>1, <4>1 DEF Known
    <3> QED BY <2>2, <3>2, <3>3, <3>4
  <2> QED BY <2>3, <2>4 DEF KeepsCopies
<1>6. CASE SweepDeletes
  <2>1. PICK nv \in sweeper.found : Remove(nv[1], nv[2]) /\ sweeper.pc = "delete"
    BY <1>6 DEF SweepDeletes
  <2>2. PICK n \in Names, v \in Versions : nv = <<n, v>>
    BY <2>1 DEF TypeOK, Sweeper
  <2>3. Remove(n, v) /\ <<n, v>> \notin Known
    BY <1>2, <2>1, <2>2
  <2>4. Numbered' /\ KeepsCopies
    BY <1>5, <2>3
  <2> QED BY <1>3, <1>4, <2>4 DEF OwnInv
<1>7. CASE disk' = disk
  <2>1. Numbered'
    BY <1>0, <1>2, <1>7 DEF Numbered, Holding
  <2>2. KeepsCopies
    BY <1>7, SameFiles
  <2> QED BY <1>3, <1>4, <2>1, <2>2 DEF OwnInv
<1> QED BY <1>6, <1>7 DEF Sweep, SweepFails, ListVersions, ReadRows

LEMMA CrashOwn ==
    ASSUME TypeOK, OwnInv, Crash
    PROVE  OwnInv' /\ KeepsOnly
<1>1. /\ rows' = rows /\ disk' = disk /\ sweeper' = sweeper /\ requests' = requests
      /\ overlap' = overlap
  BY DEF Crash
<1>2. \A a \in Handlers : handler'[a] = handler[a] \/ handler'[a] = Free
  BY DEF Crash
<1>3. ASSUME ~overlap, NEW a \in Handlers PROVE Owns(a)'
  <2>1. CASE handler'[a] = Free
    BY <2>1, OwnsNothing DEF Free, Uploading
  <2>2. CASE handler'[a] = handler[a]
    BY <1>1, <1>3, <2>2, OwnsStays DEF OwnInv
  <2> QED BY <1>2, <2>1, <2>2
<1>4. Numbered => Numbered'
  BY <1>1 DEF Numbered, Holding
<1>5. Known' = Known
  BY <1>1 DEF Known
<1>6. OwnInv'
  BY <1>1, <1>3, <1>4, <1>5 DEF OwnInv
<1> QED BY <1>1, <1>6, SameFiles DEF KeepsOnly

LEMMA OwnStart == Init => OwnInv
<1> SUFFICES ASSUME Init PROVE OwnInv
  OBVIOUS
<1>1. handler = [a \in Handlers |-> Free] /\ sweeper = Asleep /\ requests = 0
  BY DEF Init
<1>2. \A a \in Handlers : Owns(a)
  BY <1>1 DEF Owns, Free, Uploading
<1>3. ASSUME NEW p \in Places, NEW v \in Versions, disk[p].holds[v] # None
      PROVE  disk[p].holds[v][1] <= requests
  <2>1. disk[p] = IF p[1] = "root" /\ p[2] \in Registered
                  THEN [exists |-> TRUE,
                        holds |-> [w \in Versions |-> IF w \in Shipped THEN <<0, p[2]>> ELSE None]]
                  ELSE NoDir
    BY DEF Init
  <2>2. NoDir.holds[v] = None
    BY DEF NoDir, NoFiles
  <2>3. p[1] = "root" /\ p[2] \in Registered
    BY <1>3, <2>1, <2>2
  <2>4. disk[p].holds[v] = <<0, p[2]>>
    BY <1>3, <2>1, <2>3
  <2> QED BY <1>1, <2>4
<1>4. ASSUME NEW id \in Ids, NEW v \in Holding(id) PROVE rows[id].held[v][1] <= requests
  <2>1. rows[id].held = [w \in Versions |->
           IF id[1] = 0 /\ id[2] \in Registered /\ w \in Shipped THEN id ELSE None]
    BY DEF Init
  <2>2. rows[id].held[v] = id /\ id[1] = 0
    BY <2>1 DEF Holding
  <2> QED BY <1>1, <2>2
<1> QED BY <1>1, <1>2, <1>3, <1>4 DEF OwnInv, Numbered, Asleep

LEMMA OwnStep == TypeOK /\ TypeOK' /\ StashInv /\ BackedInv /\ OwnInv /\ [Next]_vars
                    => OwnInv' /\ KeepsOnly
<1> SUFFICES ASSUME TypeOK, TypeOK', StashInv, BackedInv, OwnInv, [Next]_vars
             PROVE  OwnInv' /\ KeepsOnly
  OBVIOUS
<1>1. CASE UNCHANGED vars
  <2>1. rows' = rows /\ disk' = disk /\ handler' = handler /\ sweeper' = sweeper
    BY <1>1 DEF vars
  <2>2. requests' = requests /\ overlap' = overlap
    BY <1>1 DEF vars, bounds
  <2>3. ASSUME NEW a \in Handlers, Owns(a) PROVE Owns(a)'
    BY <2>1, <2>3, OwnsStays
  <2>4. (Numbered => Numbered') /\ Known' = Known
    BY <2>1, <2>2 DEF Numbered, Holding, Known
  <2>5. OwnInv'
    BY <2>1, <2>2, <2>3, <2>4 DEF OwnInv
  <2> QED BY <2>1, <2>5, SameFiles DEF KeepsOnly
<1>2. ASSUME NEW a \in Handlers, HandlerStep(a) PROVE OwnInv' /\ KeepsOnly
  BY <1>2, HandlerOwn DEF BackedInv
<1> QED BY <1>1, <1>2, CrashOwn, SweepOwn DEF BackedInv, Next

(* While requests and sweeps run one at a time, files a live row is about  *)
(* are not lost before the model is deleted, whatever fails, wherever the  *)
(* process dies, and whatever earlier failures have left.  The code behind *)
(* it: a save fails on a version that is there, rename and stash refuse a  *)
(* place that is taken, only a stash that is put back replaces what is at  *)
(* its place, and what is there by then is the failed request's own.       *)
THEOREM OnlyCopySafe == Spec => OnlyCopyIsKept
<1>1. KeepsOnly =>
         (~overlap' /\ ~Deleting =>
             \A id \in Ids : \A v \in Versions :
                Kept(id, v) /\ rows'[id].held[v] = rows[id].held[v]
                   => \E p \in Places : disk'[p].holds[v] = rows[id].held[v])
  BY DEF KeepsOnly, KeepsCopies
<1>2. Spec => []TypeOK
  BY StoreTypeCorrect
<1>3. Init => StashInv
  <2>1. Init => \A a \in Handlers : Stashes(a) = {}
    BY FreeForm DEF Init, Stashes
  <2> QED BY <2>1 DEF StashInv
<1>4. TypeOK /\ StashInv /\ [Next]_vars => StashInv'
  BY StashInvStep
<1> QED BY <1>1, <1>2, <1>3, <1>4, BackedStart, BackedStep, OwnStart, OwnStep, PTL
        DEF Spec, OnlyCopyIsKept
=============================================================================
