--------------------------- MODULE ModelStoreProofs ---------------------------
(***************************************************************************)
(* What TLAPS proves of the model registry, for any models, versions,      *)
(* bundles, number of requests and faults: type correctness, and that      *)
(* nothing touches the files an update moved aside but the update itself.  *)
(***************************************************************************)
EXTENDS ModelStore, TLAPS

-----------------------------------------------------------------------------
(* Places and directories *)

LEMMA PlaceForms ==
    \A n \in Names : Root(n) \in Places /\ Aside(n) \in Places
BY DEF Root, Aside, Places

LEMMA PlacesDiffer ==
    /\ \A n, m : Root(n) # Aside(m)
    /\ \A n, m : Aside(n) = Aside(m) => n = m
BY DEF Root, Aside

LEMMA DirForms ==
    /\ NoDir \in Dir
    /\ \A dir \in Dir : dir.exists \in BOOLEAN /\ dir.holds \in Files
    /\ \A holds \in Files : [exists |-> TRUE, holds |-> holds] \in Dir
<1>1. NoFiles \in Files
  BY DEF NoFiles, Files
<1> QED BY <1>1 DEF Dir, NoDir

LEMMA DirAt ==
    ASSUME TypeOK, NEW p \in Places
    PROVE  disk[p] \in Dir /\ disk[p].exists \in BOOLEAN /\ disk[p].holds \in Files
BY DirForms DEF TypeOK

(* The disk after one directory became another.                            *)
LEMMA PutDir ==
    ASSUME TypeOK, NEW p \in Places, NEW dir \in Dir, disk' = [disk EXCEPT ![p] = dir]
    PROVE  /\ disk' \in [Places -> Dir]
           /\ disk'[p] = dir
           /\ \A q \in Places \ {p} : disk'[q] = disk[q]
BY DEF TypeOK

LEMMA MoveEffect ==
    ASSUME TypeOK, NEW from \in Places, NEW to \in Places, from # to, Move(from, to)
    PROVE  /\ disk' \in [Places -> Dir]
           /\ disk'[to] = disk[from] /\ disk'[from] = NoDir
           /\ \A q \in Places \ {from, to} : disk'[q] = disk[q]
<1>1. PICK moved : moved = [disk EXCEPT ![to] = disk[from]]
  OBVIOUS
<1>2. moved \in [Places -> Dir]
  BY <1>1 DEF TypeOK
<1>3. disk' = [moved EXCEPT ![from] = NoDir]
  BY <1>1, Zenon DEF Move
<1> QED BY <1>1, <1>2, <1>3, DirForms DEF TypeOK

LEMMA WithForm ==
    ASSUME NEW dir \in Dir, NEW v \in Versions, NEW u \in Ids \cup {None}
    PROVE  With(dir, v, u) \in Dir
<1>1. [dir.holds EXCEPT ![v] = u] \in Files
  BY DirForms DEF Files
<1> QED BY <1>1, DirForms DEF With

LEMMA WithoutForm ==
    ASSUME NEW dir \in Dir, NEW v \in Versions
    PROVE  Without(dir, v) \in Dir
<1>1. PICK left : left = [dir.holds EXCEPT ![v] = None]
  OBVIOUS
<1>2. left \in Files
  BY <1>1, DirForms DEF Files
<1>3. CASE left = NoFiles
  BY <1>1, <1>3, DirForms DEF Without
<1>4. CASE left # NoFiles
  <2>1. Without(dir, v) = [dir EXCEPT !.holds = left]
    BY <1>1, <1>4 DEF Without
  <2>2. dir.holds # NoFiles
    BY <1>1, <1>2, <1>4, DirForms DEF NoFiles, Files
  <2> QED BY <1>2, <2>1, <2>2 DEF Dir
<1> QED BY <1>3, <1>4

LEMMA RemoveEffect ==
    ASSUME TypeOK, NEW n \in Names, NEW v \in Versions, Remove(n, v)
    PROVE  /\ disk' \in [Places -> Dir]
           /\ \A p \in Places \ {Root(n)} : disk'[p] = disk[p]
<1>1. CASE Has(n, v)
  <2>1. disk' = [disk EXCEPT ![Root(n)] = Without(disk[Root(n)], v)]
    BY <1>1 DEF Remove
  <2>2. Without(disk[Root(n)], v) \in Dir
    BY DirAt, PlaceForms, WithoutForm
  <2> QED BY <2>1, <2>2, PutDir, PlaceForms
<1>2. CASE ~Has(n, v)
  BY <1>2 DEF Remove, TypeOK
<1> QED BY <1>1, <1>2

-----------------------------------------------------------------------------
(* Handlers *)

EditsOf(h) == IF h.pc \in Uploading THEN h.edits ELSE {}

LEMMA FormOfHandler ==
    ASSUME NEW h \in Handler
    PROVE  /\ h.pc \in Uploading => h \in Upload
           /\ h.pc \in {"rename", "settle", "unrename"} => h \in Renaming
           /\ h.pc = "delete" => h \in Deletion
BY DEF Handler, Free, Upload, Uploading, Renaming, Deletion

LEMMA GoesEffect ==
    ASSUME TypeOK, NEW a \in Handlers, NEW state \in Handler, Goes(a, state)
    PROVE  /\ handler' \in [Handlers -> Handler]
           /\ handler'[a] = state
           /\ \A b \in Handlers \ {a} : handler'[b] = handler[b]
BY DEF TypeOK, Goes

LEMMA FreeForm == Free \in Handler /\ EditsOf(Free) = {}
BY DEF Handler, Free, EditsOf, Uploading

LEMMA UploadForm ==
    ASSUME NEW h \in Upload
    PROVE  /\ h.pc \in Uploading /\ h.todo \in SUBSET Names /\ h.id \in Ids /\ h.name \in Names
           /\ h.versions \in SUBSET Versions /\ h.left \in SUBSET Versions
           /\ h.edits \in SUBSET Edit /\ h.staged \in SUBSET (Names \X Versions)
           /\ h.created \in SUBSET Names /\ EditsOf(h) = h.edits /\ h \in Handler
           /\ \A pc \in Uploading : /\ [h EXCEPT !.pc = pc] \in Upload
                                    /\ [h EXCEPT !.pc = pc].edits = h.edits
BY DEF Upload, EditsOf, Handler

LEMMA UnwindForm ==
    ASSUME NEW a, NEW h \in Upload, Unwind(a, h)
    PROVE  \E state \in Handler :
              Goes(a, state) /\ (state = Free => h.edits = {}) /\ EditsOf(state) = h.edits
<1>1. PICK state : /\ Goes(a, state)
                   /\ state = IF h.staged # {} THEN [h EXCEPT !.pc = "undo"]
                              ELSE IF h.edits # {} THEN [h EXCEPT !.pc = "restore"] ELSE Free
  BY DEF Unwind
<1>2. "undo" \in Uploading /\ "restore" \in Uploading
  BY DEF Uploading
<1>3. CASE state = Free
  <2>1. h.edits = {}
    BY <1>1, <1>2, <1>3, UploadForm DEF Free
  <2> QED BY <1>1, <1>3, <2>1, FreeForm
<1>4. CASE state \in Upload /\ state.edits = h.edits
  <2>1. state # Free
    BY <1>4 DEF Upload, Uploading, Free
  <2> QED BY <1>1, <1>4, <2>1, UploadForm
<1> QED BY <1>1, <1>2, <1>3, <1>4, UploadForm

-----------------------------------------------------------------------------
(* What a step of a handler does to the stashes: it leaves them alone, or  *)
(* takes one where there was none, or gives up one of its own.             *)

Leaves(a) ==
    /\ EditsOf(handler'[a]) \subseteq EditsOf(handler[a])
    /\ \A n \in Names : disk'[Aside(n)] = disk[Aside(n)]
Takes(a) ==
    \E e \in Edit :
       /\ EditsOf(handler'[a]) \subseteq EditsOf(handler[a]) \cup {e}
       /\ ~disk[Aside(e.name)].exists /\ disk'[Aside(e.name)].exists
       /\ \A n \in Names \ {e.name} : disk'[Aside(n)] = disk[Aside(n)]
GivesUp(a) ==
    \E e \in EditsOf(handler[a]) :
       /\ EditsOf(handler'[a]) \subseteq EditsOf(handler[a]) \ {e}
       /\ \A n \in Names \ {e.name} : disk'[Aside(n)] = disk[Aside(n)]

Sound(a) ==
    /\ handler' \in [Handlers -> Handler]
    /\ disk' \in [Places -> Dir]
    /\ \A b \in Handlers \ {a} : handler'[b] = handler[b]
    /\ Leaves(a) \/ Takes(a) \/ GivesUp(a)

(* No stash is touched, and no edit is noted.                              *)
LEMMA SoundGoes ==
    ASSUME TypeOK, NEW a \in Handlers, NEW state \in Handler, Goes(a, state),
           EditsOf(state) \subseteq EditsOf(handler[a]),
           disk' \in [Places -> Dir], \A n \in Names : disk'[Aside(n)] = disk[Aside(n)]
    PROVE  Sound(a)
BY GoesEffect DEF Sound, Leaves

LEMMA SameDisk ==
    ASSUME TypeOK, disk' = disk
    PROVE  disk' \in [Places -> Dir] /\ \A n \in Names : disk'[Aside(n)] = disk[Aside(n)]
BY DEF TypeOK

LEMMA SoundUnwind ==
    ASSUME TypeOK, NEW a \in Handlers, NEW h \in Upload, Unwind(a, h),
           h.edits \subseteq EditsOf(handler[a]),
           disk' \in [Places -> Dir], \A n \in Names : disk'[Aside(n)] = disk[Aside(n)]
    PROVE  Sound(a)
<1>1. PICK state \in Handler : Goes(a, state) /\ EditsOf(state) = h.edits
  BY UnwindForm
<1> QED BY <1>1, SoundGoes

LEMMA UploadAt ==
    ASSUME TypeOK, NEW a \in Handlers, handler[a].pc \in Uploading
    PROVE  handler[a] \in Upload /\ EditsOf(handler[a]) = handler[a].edits
BY FormOfHandler, UploadForm DEF TypeOK

LEMMA BeginSound ==
    ASSUME TypeOK, NEW a \in Handlers,
           \/ \E bundle \in Bundles, update \in BOOLEAN :
                 BeginUpload(a, bundle[1], bundle[2], update)
           \/ \E n, to \in Names : BeginRename(a, n, to)
           \/ \E n \in Names, one \in {{}} \cup {{v} : v \in Versions} : BeginDelete(a, n, one)
    PROVE  Sound(a)
<1>1. ASSUME NEW bundle \in Bundles, NEW update \in BOOLEAN,
             BeginUpload(a, bundle[1], bundle[2], update)
      PROVE  Sound(a)
  <2>1. bundle[1] \in SUBSET Names /\ bundle[2] \in SUBSET Versions
    BY StoreBundles
  <2>2. PICK n \in bundle[1] :
           Goes(a, [pc |-> "model", update |-> update, todo |-> bundle[1],
                    id |-> <<a, n>>, name |-> n, versions |-> bundle[2], left |-> {},
                    created |-> {}, edits |-> {}, staged |-> {}])
    BY <1>1 DEF BeginUpload
  <2>3. PICK state :
           state = [pc |-> "model", update |-> update, todo |-> bundle[1],
                    id |-> <<a, n>>, name |-> n, versions |-> bundle[2], left |-> {},
                    created |-> {}, edits |-> {}, staged |-> {}]
    OBVIOUS
  <2>4. n \in Names /\ <<a, n>> \in Ids
    BY <2>1, StoreBounds DEF Handlers, Ids
  <2>5. state \in Upload /\ state.edits = {}
    BY <2>1, <2>3, <2>4 DEF Upload, Uploading
  <2>6. state \in Handler /\ EditsOf(state) = {}
    BY <2>5, UploadForm
  <2>7. disk' = disk
    BY <1>1 DEF BeginUpload
  <2> QED BY <2>2, <2>3, <2>6, <2>7, SameDisk, SoundGoes
<1>2. ASSUME NEW n \in Names, NEW to \in Names, BeginRename(a, n, to) PROVE Sound(a)
  <2>1. PICK id \in Ids :
           Goes(a, [pc |-> "rename", id |-> id, name |-> n, to |-> to, loaded |-> {}])
    BY <1>2 DEF BeginRename, Live
  <2>2. PICK state : state = [pc |-> "rename", id |-> id, name |-> n, to |-> to, loaded |-> {}]
    OBVIOUS
  <2>3. state \in Handler /\ EditsOf(state) = {}
    BY <2>2 DEF Handler, Renaming, EditsOf, Uploading
  <2>4. disk' = disk
    BY <1>2 DEF BeginRename
  <2> QED BY <2>1, <2>2, <2>3, <2>4, SameDisk, SoundGoes
<1>3. ASSUME NEW n \in Names, NEW one \in {{}} \cup {{v} : v \in Versions}, BeginDelete(a, n, one)
      PROVE  Sound(a)
  <2>1. PICK id, doomed :
           /\ id \in Ids
           /\ doomed = IF one = {} THEN {v \in Versions : rows[id].held[v] # None} ELSE one
           /\ Goes(a, [pc |-> "delete", id |-> id, name |-> n, loaded |-> doomed, left |-> doomed])
    BY <1>3 DEF BeginDelete, Live
  <2>2. doomed \in SUBSET Versions
    BY <2>1
  <2>3. PICK state :
           state = [pc |-> "delete", id |-> id, name |-> n, loaded |-> doomed, left |-> doomed]
    OBVIOUS
  <2>4. state \in Handler /\ EditsOf(state) = {}
    BY <2>1, <2>2, <2>3 DEF Handler, Deletion, EditsOf, Uploading
  <2>5. disk' = disk
    BY <1>3 DEF BeginDelete
  <2> QED BY <2>1, <2>3, <2>4, <2>5, SameDisk, SoundGoes
<1> QED BY <1>1, <1>2, <1>3

LEMMA ReadModelSound ==
    ASSUME TypeOK, NEW a \in Handlers, ReadModel(a)
    PROVE  Sound(a)
<1>1. handler[a] \in Upload /\ EditsOf(handler[a]) = handler[a].edits
  <2>1. handler[a].pc = "model"
    BY Zenon DEF ReadModel
  <2> QED BY <2>1, UploadAt DEF Uploading
<1>2. PICK n, read :
         /\ n \in handler[a].todo
         /\ read = [handler[a] EXCEPT !.todo = @ \ {n}, !.name = n]
         /\ \/ Goes(a, [read EXCEPT !.pc = "save", !.id = <<a, n>>, !.left = handler[a].versions,
                                    !.created = @ \cup {n}])
            \/ \E id \in Live(n) : Goes(a, [read EXCEPT !.pc = "stash", !.id = id])
            \/ Unwind(a, read)
  BY Zenon DEF ReadModel
<1>3. n \in Names /\ <<a, n>> \in Ids
  <2>1. n \in handler[a].todo
    BY <1>2, Zenon
  <2> QED BY <1>1, <2>1, UploadForm, StoreBounds DEF Handlers, Ids
<1>4. read \in Upload /\ read.edits = handler[a].edits
  <2>1. read = [handler[a] EXCEPT !.todo = @ \ {n}, !.name = n]
    BY <1>2, Zenon
  <2> QED BY <1>1, <1>3, <2>1 DEF Upload
<1>5. disk' = disk
  BY Zenon DEF ReadModel
<1>6. ASSUME NEW state \in Upload, Goes(a, state), state.edits = handler[a].edits PROVE Sound(a)
  BY <1>1, <1>5, <1>6, SameDisk, UploadForm, SoundGoes
<1>7. ASSUME Goes(a, [read EXCEPT !.pc = "save", !.id = <<a, n>>, !.left = handler[a].versions,
                                  !.created = @ \cup {n}])
      PROVE  Sound(a)
  <2>1. PICK state :
           state = [read EXCEPT !.pc = "save", !.id = <<a, n>>, !.left = handler[a].versions,
                                !.created = @ \cup {n}]
    OBVIOUS
  <2>2. handler[a].versions \in SUBSET Versions /\ "save" \in Uploading
    BY <1>1, UploadForm DEF Uploading
  <2>3. state \in Upload /\ state.edits = handler[a].edits
    BY <1>3, <1>4, <2>1, <2>2 DEF Upload
  <2> QED BY <1>6, <1>7, <2>1, <2>3, Zenon
<1>8. ASSUME NEW id \in Live(n), Goes(a, [read EXCEPT !.pc = "stash", !.id = id]) PROVE Sound(a)
  <2>1. PICK state : state = [read EXCEPT !.pc = "stash", !.id = id]
    OBVIOUS
  <2>2. state \in Upload /\ state.edits = handler[a].edits
    BY <1>4, <1>8, <2>1 DEF Upload, Uploading, Live
  <2> QED BY <1>6, <1>8, <2>1, <2>2, Zenon
<1>9. ASSUME Unwind(a, read) PROVE Sound(a)
  BY <1>1, <1>4, <1>5, <1>9, SameDisk, SoundUnwind
<1> QED BY <1>2, <1>7, <1>8, <1>9, Zenon

LEMMA StashSound ==
    ASSUME TypeOK, NEW a \in Handlers, Stash(a)
    PROVE  Sound(a)
<1>1. handler[a] \in Upload /\ EditsOf(handler[a]) = handler[a].edits /\ handler[a].name \in Names
  <2>1. handler[a].pc = "stash"
    BY Zenon DEF Stash
  <2> QED BY <2>1, UploadAt, UploadForm DEF Uploading
<1>2. PICK n \in Names : n = handler[a].name
  BY <1>1
<1>3. CASE CanMove(Root(n), Aside(n)) /\ Stashed(a)
  <2>1. PICK loaded : loaded = {v \in Versions : rows[handler[a].id].held[v] # None}
    OBVIOUS
  <2>2. PICK e : e = [id |-> handler[a].id, name |-> n, loaded |-> loaded]
    OBVIOUS
  <2>3. PICK state :
           /\ state = [handler[a] EXCEPT !.pc = "save", !.left = handler[a].versions,
                                         !.edits = @ \cup {e}]
           /\ Goes(a, state)
    BY <1>2, <1>3, <2>1, <2>2, Zenon DEF Stashed
  <2>4. e \in Edit /\ e.name = n
    BY <1>1, <2>1, <2>2, UploadForm DEF Edit
  <2>5. state \in Upload /\ state.edits = handler[a].edits \cup {e}
    BY <1>1, <2>3, <2>4 DEF Upload, Uploading
  <2>6. EditsOf(state) = handler[a].edits \cup {e} /\ state \in Handler
    BY <2>5, UploadForm
  <2>7. Move(Root(n), Aside(n))
    BY <1>2, <1>3 DEF Stashed
  <2>8. /\ disk' \in [Places -> Dir] /\ disk'[Aside(n)] = disk[Root(n)]
        /\ \A q \in Places \ {Root(n), Aside(n)} : disk'[q] = disk[q]
    BY <2>7, MoveEffect, PlaceForms, PlacesDiffer
  <2>9. ~disk[Aside(n)].exists /\ disk'[Aside(n)].exists
    BY <1>3, <2>8 DEF CanMove
  <2>10. \A m \in Names \ {n} : disk'[Aside(m)] = disk[Aside(m)]
    BY <2>8, PlaceForms, PlacesDiffer
  <2>11. handler'[a] = state /\ handler' \in [Handlers -> Handler]
         /\ \A b \in Handlers \ {a} : handler'[b] = handler[b]
    BY <2>3, <2>6, GoesEffect
  <2>12. Takes(a)
    BY <1>1, <2>4, <2>6, <2>9, <2>10, <2>11 DEF Takes
  <2> QED BY <2>8, <2>11, <2>12 DEF Sound
<1>4. CASE Unwind(a, handler[a]) /\ disk' = disk
  BY <1>1, <1>4, SameDisk, SoundUnwind
<1> QED BY <1>2, <1>3, <1>4 DEF Stash

LEMMA SaveSound ==
    ASSUME TypeOK, NEW a \in Handlers, Save(a)
    PROVE  Sound(a)
<1>1. handler[a] \in Upload /\ EditsOf(handler[a]) = handler[a].edits
  <2>1. handler[a].pc = "save"
    BY Zenon DEF Save
  <2> QED BY <2>1, UploadAt DEF Uploading
<1>2. PICK n \in Names : n = handler[a].name
  BY <1>1, UploadForm
<1>3. PICK v \in handler[a].left :
         \/ /\ disk' = [disk EXCEPT ![Root(n)] = With(disk[Root(n)], v, <<a, n>>)]
            /\ Goes(a, [handler[a] EXCEPT
                          !.left = @ \ {v}, !.staged = @ \cup {<<n, v>>},
                          !.pc = IF handler[a].left # {v} THEN "save"
                                 ELSE IF handler[a].todo # {} THEN "model" ELSE "commit"])
         \/ Unwind(a, handler[a]) /\ disk' = disk
  BY <1>2, Zenon DEF Save
<1>4. v \in Versions /\ <<a, n>> \in Ids \cup {None}
  BY <1>1, UploadForm, StoreBounds DEF Handlers, Ids
<1>5. CASE Unwind(a, handler[a]) /\ disk' = disk
  BY <1>1, <1>5, SameDisk, SoundUnwind
<1>6. CASE /\ disk' = [disk EXCEPT ![Root(n)] = With(disk[Root(n)], v, <<a, n>>)]
           /\ Goes(a, [handler[a] EXCEPT
                         !.left = @ \ {v}, !.staged = @ \cup {<<n, v>>},
                         !.pc = IF handler[a].left # {v} THEN "save"
                                ELSE IF handler[a].todo # {} THEN "model" ELSE "commit"])
  <2>1. PICK pc \in {"save", "model", "commit"} :
           pc = IF handler[a].left # {v} THEN "save"
                ELSE IF handler[a].todo # {} THEN "model" ELSE "commit"
    OBVIOUS
  <2>2. PICK state :
           /\ state = [handler[a] EXCEPT !.left = @ \ {v}, !.staged = @ \cup {<<n, v>>}, !.pc = pc]
           /\ Goes(a, state)
    BY <1>6, <2>1, Zenon
  <2>3. state \in Upload /\ state.edits = handler[a].edits
    <3>1. PICK left, staged :
             left = handler[a].left \ {v} /\ staged = handler[a].staged \cup {<<n, v>>}
      OBVIOUS
    <3>2. state = [handler[a] EXCEPT !.left = left, !.staged = staged, !.pc = pc]
      BY <2>2, <3>1
    <3>3. handler[a].left \in SUBSET Versions /\ handler[a].staged \in SUBSET (Names \X Versions)
      BY <1>1, UploadForm
    <3>4. /\ left \in SUBSET Versions /\ staged \in SUBSET (Names \X Versions)
          /\ pc \in Uploading
      BY <1>4, <3>1, <3>3 DEF Uploading
    <3> QED BY <1>1, <3>2, <3>4 DEF Upload
  <2>4. With(disk[Root(n)], v, <<a, n>>) \in Dir
    BY <1>4, DirAt, PlaceForms, WithForm
  <2>5. disk' \in [Places -> Dir] /\ \A m \in Names : disk'[Aside(m)] = disk[Aside(m)]
    <3>1. disk' = [disk EXCEPT ![Root(n)] = With(disk[Root(n)], v, <<a, n>>)]
      BY <1>6, Zenon
    <3> QED BY <2>4, <3>1, PutDir, PlaceForms, PlacesDiffer
  <2> QED BY <1>1, <2>2, <2>3, <2>5, UploadForm, SoundGoes
<1> QED BY <1>3, <1>5, <1>6, Zenon

LEMMA CutShortForm ==
    ASSUME NEW a, NEW h \in Upload, CutShort(a, h)
    PROVE  \E given \in Upload :
              /\ Unwind(a, given) /\ given.edits = {}
              /\ given.todo = h.todo /\ given.staged \subseteq h.staged
<1>1. PICK reached \in SUBSET h.created :
         Unwind(a, [h EXCEPT !.edits = {}, !.staged = {s \in @ : s[1] \in reached}])
  BY Zenon DEF CutShort
<1>2. PICK kept : kept = {s \in h.staged : s[1] \in reached}
  OBVIOUS
<1>3. PICK given : given = [h EXCEPT !.edits = {}, !.staged = kept]
  OBVIOUS
<1>4. Unwind(a, given)
  BY <1>1, <1>2, <1>3, Zenon
<1>5. kept \in SUBSET (Names \X Versions)
  BY <1>2, UploadForm
<1>6. given \in Upload /\ given.edits = {} /\ given.todo = h.todo /\ given.staged = kept
  BY <1>3, <1>5 DEF Upload
<1> QED BY <1>2, <1>4, <1>6

LEMMA SoundCutShort ==
    ASSUME TypeOK, NEW a \in Handlers, handler[a] \in Upload, CutShort(a, handler[a]),
           disk' = disk
    PROVE  Sound(a)
<1>1. PICK given \in Upload : Unwind(a, given) /\ given.edits = {}
  BY CutShortForm
<1> QED BY <1>1, SameDisk, SoundUnwind

LEMMA CommitSound ==
    ASSUME TypeOK, NEW a \in Handlers, Commit(a)
    PROVE  Sound(a)
<1>1. handler[a] \in Upload /\ EditsOf(handler[a]) = handler[a].edits
  BY UploadAt DEF Commit, Uploading
<1>2. disk' = disk
  BY DEF Commit
<1>3. CASE Unwind(a, handler[a])
  BY <1>1, <1>2, <1>3, SameDisk, SoundUnwind
<1>4. CASE Goes(a, Free)
  BY <1>2, <1>4, SameDisk, FreeForm, SoundGoes
<1>5. CASE Goes(a, [handler[a] EXCEPT !.pc = "discard"])
  <2>1. PICK state : state = [handler[a] EXCEPT !.pc = "discard"]
    OBVIOUS
  <2>2. state \in Upload /\ state.edits = handler[a].edits
    BY <1>1, <2>1, UploadForm DEF Uploading
  <2> QED BY <1>1, <1>2, <1>5, <2>1, <2>2, SameDisk, UploadForm, SoundGoes
<1>6. CASE CutShort(a, handler[a])
  BY <1>1, <1>2, <1>6, SoundCutShort
<1> QED BY <1>3, <1>4, <1>5, <1>6 DEF Commit

(* Giving up the stash of e.                                               *)
LEMMA SoundGivesUp ==
    ASSUME TypeOK, NEW a \in Handlers, NEW e \in EditsOf(handler[a]), NEW state \in Handler,
           Goes(a, state), EditsOf(state) \subseteq EditsOf(handler[a]) \ {e},
           disk' \in [Places -> Dir],
           \A n \in Names \ {e.name} : disk'[Aside(n)] = disk[Aside(n)]
    PROVE  Sound(a)
<1>1. handler'[a] = state /\ handler' \in [Handlers -> Handler]
      /\ \A b \in Handlers \ {a} : handler'[b] = handler[b]
  BY GoesEffect
<1>2. GivesUp(a)
  BY <1>1 DEF GivesUp
<1> QED BY <1>1, <1>2 DEF Sound

LEMMA DiscardSound ==
    ASSUME TypeOK, NEW a \in Handlers, Discard(a)
    PROVE  Sound(a)
<1>1. handler[a] \in Upload /\ EditsOf(handler[a]) = handler[a].edits
  BY UploadAt DEF Discard, Uploading
<1>2. PICK e \in handler[a].edits :
         /\ disk' = [disk EXCEPT ![Aside(e.name)] = NoDir]
         /\ Goes(a, IF handler[a].edits = {e} THEN Free ELSE [handler[a] EXCEPT !.edits = @ \ {e}])
  BY DEF Discard
<1>3. e.name \in Names
  BY <1>1, UploadForm DEF Edit
<1>4. disk' \in [Places -> Dir] /\ \A n \in Names \ {e.name} : disk'[Aside(n)] = disk[Aside(n)]
  BY <1>2, <1>3, PutDir, DirForms, PlaceForms, PlacesDiffer
<1>5. PICK state :
         /\ state = IF handler[a].edits = {e} THEN Free ELSE [handler[a] EXCEPT !.edits = @ \ {e}]
         /\ Goes(a, state)
  BY <1>2
<1>6. state \in Handler /\ EditsOf(state) \subseteq handler[a].edits \ {e}
  <2>1. CASE state = Free
    BY <2>1, FreeForm
  <2>2. CASE state = [handler[a] EXCEPT !.edits = @ \ {e}]
    <3>1. state \in Upload /\ state.edits = handler[a].edits \ {e}
      BY <1>1, <2>2 DEF Upload
    <3> QED BY <3>1, UploadForm
  <2> QED BY <1>5, <2>1, <2>2
<1> QED BY <1>1, <1>4, <1>5, <1>6, SoundGivesUp

LEMMA UndoSaveSound ==
    ASSUME TypeOK, NEW a \in Handlers, UndoSave(a)
    PROVE  Sound(a)
<1>1. handler[a] \in Upload /\ EditsOf(handler[a]) = handler[a].edits
  BY UploadAt DEF UndoSave, Uploading
<1>2. PICK s, state :
         /\ s \in handler[a].staged
         /\ Remove(s[1], s[2])
         /\ state = [handler[a] EXCEPT !.staged = @ \ {s}]
         /\ Unwind(a, state)
  BY DEF UndoSave
<1>3. s[1] \in Names /\ s[2] \in Versions
  BY <1>1, <1>2, UploadForm
<1>4. state \in Upload /\ state.edits = handler[a].edits
  BY <1>1, <1>2 DEF Upload
<1>5. disk' \in [Places -> Dir] /\ \A n \in Names : disk'[Aside(n)] = disk[Aside(n)]
  <2>1. PICK m \in Names, v \in Versions : m = s[1] /\ v = s[2]
    BY <1>3
  <2>2. Remove(m, v)
    BY <1>2, <2>1
  <2> QED BY <2>2, RemoveEffect, PlaceForms, PlacesDiffer
<1> QED BY <1>1, <1>2, <1>4, <1>5, SoundUnwind

LEMMA RestoreSound ==
    ASSUME TypeOK, NEW a \in Handlers, Restore(a)
    PROVE  Sound(a)
<1>1. handler[a] \in Upload /\ EditsOf(handler[a]) = handler[a].edits
  BY UploadAt DEF Restore, Uploading
<1>2. PICK e, given :
         /\ e \in handler[a].edits
         /\ IF disk[Aside(e.name)].exists THEN Move(Aside(e.name), Root(e.name)) ELSE disk' = disk
         /\ given = [handler[a] EXCEPT !.edits = @ \ {e}]
         /\ Unwind(a, given)
  BY DEF Restore
<1>3. e.name \in Names
  BY <1>1, <1>2, UploadForm DEF Edit
<1>4. given \in Upload /\ given.edits = handler[a].edits \ {e}
  BY <1>1, <1>2 DEF Upload
<1>5. disk' \in [Places -> Dir] /\ \A n \in Names \ {e.name} : disk'[Aside(n)] = disk[Aside(n)]
  <2>1. CASE Move(Aside(e.name), Root(e.name))
    BY <1>3, <2>1, MoveEffect, PlaceForms, PlacesDiffer
  <2>2. CASE disk' = disk
    BY <2>2, SameDisk
  <2> QED BY <1>2, <2>1, <2>2
<1>6. PICK state \in Handler : Goes(a, state) /\ EditsOf(state) = given.edits
  <2>1. Unwind(a, given)
    BY <1>2, Zenon
  <2> QED BY <1>4, <2>1, UnwindForm
<1>7. e \in EditsOf(handler[a]) /\ EditsOf(state) \subseteq EditsOf(handler[a]) \ {e}
  BY <1>1, <1>2, <1>4, <1>6
<1> QED BY <1>5, <1>6, <1>7, SoundGivesUp

LEMMA UploadFaultSound ==
    ASSUME TypeOK, NEW a \in Handlers, UploadFault(a)
    PROVE  Sound(a)
<1>1. CASE StashFails(a) \/ CommitFails(a)
  <2>1. handler[a] \in Upload /\ EditsOf(handler[a]) = handler[a].edits
    BY <1>1, UploadAt DEF StashFails, CommitFails, Uploading
  <2>2. Unwind(a, handler[a]) /\ disk' = disk
    BY <1>1 DEF StashFails, CommitFails
  <2> QED BY <2>1, <2>2, SameDisk, SoundUnwind
<1>2. CASE SaveFails(a)
  <2>1. handler[a] \in Upload /\ EditsOf(handler[a]) = handler[a].edits
    <3>1. handler[a].pc = "save"
      BY <1>2, Zenon DEF SaveFails
    <3> QED BY <3>1, UploadAt DEF Uploading
  <2>2. PICK n \in Names : n = handler[a].name
    BY <2>1, UploadForm
  <2>3. PICK v, part :
           /\ v \in handler[a].left /\ part \in {None, <<a, n>>}
           /\ disk' = [disk EXCEPT ![Root(n)] = With(disk[Root(n)], v, part)]
    BY <1>2, <2>2, Zenon DEF SaveFails
  <2>4. v \in Versions /\ part \in Ids \cup {None}
    BY <2>1, <2>3, UploadForm, StoreBounds DEF Handlers, Ids
  <2>5. With(disk[Root(n)], v, part) \in Dir
    BY <2>4, DirAt, PlaceForms, WithForm
  <2>6. disk' \in [Places -> Dir] /\ \A m \in Names : disk'[Aside(m)] = disk[Aside(m)]
    BY <2>3, <2>5, PutDir, PlaceForms, PlacesDiffer
  <2>7. Unwind(a, handler[a])
    BY <1>2, Zenon DEF SaveFails
  <2> QED BY <2>1, <2>6, <2>7, SoundUnwind
<1>3. CASE DiscardFails(a)
  <2>1. handler[a] \in Upload /\ EditsOf(handler[a]) = handler[a].edits
    BY <1>3, UploadAt DEF DiscardFails, Uploading
  <2>2. PICK kept, state :
           /\ state = IF handler[a].edits = kept THEN Free ELSE [handler[a] EXCEPT !.edits = @ \ kept]
           /\ Goes(a, state)
    BY <1>3 DEF DiscardFails
  <2>3. state \in Handler /\ EditsOf(state) \subseteq EditsOf(handler[a])
    <3>1. CASE state = Free
      BY <3>1, FreeForm
    <3>2. CASE state = [handler[a] EXCEPT !.edits = @ \ kept]
      <4>1. state \in Upload /\ state.edits = handler[a].edits \ kept
        BY <2>1, <3>2 DEF Upload
      <4> QED BY <2>1, <4>1, UploadForm
    <3> QED BY <2>2, <3>1, <3>2
  <2>4. disk' = disk
    BY <1>3 DEF DiscardFails
  <2> QED BY <2>2, <2>3, <2>4, SameDisk, SoundGoes
<1>4. CASE UndoFails(a) /\ handler[a].pc = "undo"
  <2>1. handler[a] \in Upload /\ EditsOf(handler[a]) = handler[a].edits
    BY <1>4, UploadAt DEF Uploading
  <2>2. PICK s, given : /\ given = [handler[a] EXCEPT !.staged = @ \ {s}]
                        /\ Unwind(a, given)
    BY <1>4 DEF UndoFails
  <2>3. given \in Upload /\ given.edits = handler[a].edits
    BY <2>1, <2>2 DEF Upload
  <2>4. disk' = disk
    BY <1>4 DEF UndoFails
  <2> QED BY <2>1, <2>2, <2>3, <2>4, SameDisk, SoundUnwind
<1>5. CASE UndoFails(a) /\ handler[a].pc = "restore"
  <2>1. handler[a] \in Upload /\ EditsOf(handler[a]) = handler[a].edits
    BY <1>5, UploadAt DEF Uploading
  <2>2. PICK e, given :
           /\ e \in handler[a].edits
           /\ disk' \in {disk, [disk EXCEPT ![Root(e.name)] = NoDir]}
           /\ given = [handler[a] EXCEPT !.edits = @ \ {e}]
           /\ Unwind(a, given)
    BY <1>5 DEF UndoFails
  <2>3. e.name \in Names
    BY <2>1, <2>2, UploadForm DEF Edit
  <2>4. given \in Upload /\ given.edits = handler[a].edits \ {e}
    BY <2>1, <2>2 DEF Upload
  <2>5. disk' \in [Places -> Dir] /\ \A n \in Names : disk'[Aside(n)] = disk[Aside(n)]
    BY <2>2, <2>3, PutDir, DirForms, SameDisk, PlaceForms, PlacesDiffer
  <2> QED BY <2>1, <2>2, <2>4, <2>5, SoundUnwind
<1>6. CASE FlushFails(a)
  BY <1>6, UploadAt, SoundCutShort DEF FlushFails, Uploading
<1> QED BY <1>1, <1>2, <1>3, <1>4, <1>5, <1>6 DEF UploadFault, UndoFails

LEMMA RenameSound ==
    ASSUME TypeOK, NEW a \in Handlers, RenameStep(a) \/ RenameFault(a)
    PROVE  Sound(a)
<1>1. handler[a] \in Renaming
  BY FormOfHandler DEF TypeOK, RenameStep, RenameFault, Rename, CommitRename, UndoRename,
                       RenameFails, FlushRenameFails, CommitRenameFails, RefreshFails,
                       UndoRenameFails
<1>2. /\ handler[a].name \in Names /\ handler[a].to \in Names
      /\ \A state \in Renaming : state \in Handler /\ EditsOf(state) = {}
  BY <1>1 DEF Renaming, Handler, EditsOf, Uploading
<1>3. ASSUME Goes(a, Free), disk' = disk PROVE Sound(a)
  BY <1>3, FreeForm, SameDisk, SoundGoes
<1>4. ASSUME NEW pc \in {"settle", "unrename"}, NEW loaded \in SUBSET Versions,
             Goes(a, [handler[a] EXCEPT !.pc = pc, !.loaded = loaded]),
             disk' \in [Places -> Dir], \A n \in Names : disk'[Aside(n)] = disk[Aside(n)]
      PROVE  Sound(a)
  <2>1. PICK state : /\ state = [handler[a] EXCEPT !.pc = pc, !.loaded = loaded]
                     /\ Goes(a, state)
    BY <1>4, Zenon
  <2>2. state \in Renaming
    BY <1>1, <2>1 DEF Renaming
  <2> QED BY <1>2, <1>4, <2>1, <2>2, SoundGoes
<1>5. ASSUME Goes(a, [handler[a] EXCEPT !.pc = "unrename"]), disk' = disk PROVE Sound(a)
  <2>1. PICK state : state = [handler[a] EXCEPT !.pc = "unrename"] /\ Goes(a, state)
    BY <1>5
  <2>2. state \in Renaming
    BY <1>1, <2>1 DEF Renaming
  <2> QED BY <1>2, <1>5, <2>1, <2>2, SameDisk, SoundGoes
<1>6. ASSUME NEW n \in Names, NEW m \in Names, Move(Root(n), Root(m)), n # m
      PROVE  disk' \in [Places -> Dir] /\ \A k \in Names : disk'[Aside(k)] = disk[Aside(k)]
  <2>1. Root(n) # Root(m)
    BY <1>6 DEF Root
  <2> QED BY <1>6, <2>1, MoveEffect, PlaceForms, PlacesDiffer
<1>7. ASSUME NEW n \in Names, NEW m \in Names, CanMove(Root(n), Root(m)) PROVE n # m
  BY <1>7 DEF CanMove
<1>8. CASE Rename(a)
  <2>1. PICK loaded \in SUBSET Versions : loaded = {v \in Versions : rows[handler[a].id].held[v] # None}
    OBVIOUS
  <2>2. CASE /\ CanMove(Root(handler[a].name), Root(handler[a].to))
             /\ Move(Root(handler[a].name), Root(handler[a].to))
             /\ Goes(a, [handler[a] EXCEPT !.pc = "settle", !.loaded = loaded])
    <3>1. disk' \in [Places -> Dir] /\ \A k \in Names : disk'[Aside(k)] = disk[Aside(k)]
      <4>1. PICK n \in Names, m \in Names : n = handler[a].name /\ m = handler[a].to
        BY <1>2
      <4>2. CanMove(Root(n), Root(m)) /\ Move(Root(n), Root(m))
        BY <2>2, <4>1, Zenon
      <4> QED BY <1>6, <1>7, <4>2
    <3> QED BY <1>4, <2>2, <3>1, Zenon
  <2>3. CASE Goes(a, Free) /\ disk' = disk
    BY <1>3, <2>3
  <2> QED BY <1>8, <2>1, <2>2, <2>3, Zenon DEF Rename
<1>9. CASE UndoRename(a)
  <2>1. CASE Move(Root(handler[a].to), Root(handler[a].name)) /\
             CanMove(Root(handler[a].to), Root(handler[a].name))
    <3>1. disk' \in [Places -> Dir] /\ \A k \in Names : disk'[Aside(k)] = disk[Aside(k)]
      <4>1. PICK n \in Names, m \in Names : n = handler[a].to /\ m = handler[a].name
        BY <1>2
      <4> QED BY <1>6, <1>7, <2>1, <4>1
    <3> QED BY <1>9, <3>1, FreeForm, SoundGoes DEF UndoRename
  <2>2. CASE disk' = disk
    BY <1>3, <1>9, <2>2 DEF UndoRename
  <2> QED BY <1>9, <2>1, <2>2 DEF UndoRename
<1>10. CASE CommitRename(a) \/ CommitRenameFails(a) \/ RefreshFails(a)
  BY <1>3, <1>5, <1>10 DEF CommitRename, CommitRenameFails, RefreshFails
<1>11. CASE RenameFails(a) \/ FlushRenameFails(a) \/ UndoRenameFails(a)
  BY <1>3, <1>11 DEF RenameFails, FlushRenameFails, UndoRenameFails
<1> QED BY <1>8, <1>9, <1>10, <1>11 DEF RenameStep, RenameFault

LEMMA DeleteSound ==
    ASSUME TypeOK, NEW a \in Handlers, DeleteStep(a)
    PROVE  Sound(a)
<1>1. handler[a] \in Deletion
  BY FormOfHandler DEF TypeOK, DeleteStep, DeleteFiles, CommitDelete, DeleteFails
<1>2. CASE CommitDelete(a) \/ DeleteFails(a)
  <2>1. Goes(a, Free) /\ disk' = disk
    <3>1. CASE CommitDelete(a)
      BY <3>1, Zenon DEF CommitDelete
    <3>2. CASE DeleteFails(a)
      BY <3>2 DEF DeleteFails
    <3> QED BY <1>2, <3>1, <3>2
  <2> QED BY <2>1, FreeForm, SameDisk, SoundGoes
<1>3. CASE DeleteFiles(a)
  <2>1. PICK v, state :
           /\ v \in handler[a].left /\ Remove(handler[a].name, v)
           /\ state = IF Has(handler[a].name, v) THEN [handler[a] EXCEPT !.left = @ \ {v}] ELSE Free
           /\ Goes(a, state)
    BY <1>3 DEF DeleteFiles
  <2>2. state \in Handler /\ EditsOf(state) = {}
    <3>1. CASE state = Free
      BY <3>1, FreeForm
    <3>2. CASE state = [handler[a] EXCEPT !.left = @ \ {v}]
      BY <1>1, <3>2 DEF Deletion, Handler, EditsOf, Uploading
    <3> QED BY <2>1, <3>1, <3>2
  <2>3. handler[a].name \in Names /\ v \in Versions
    BY <1>1, <2>1 DEF Deletion
  <2>4. disk' \in [Places -> Dir] /\ \A m \in Names : disk'[Aside(m)] = disk[Aside(m)]
    BY <2>1, <2>3, RemoveEffect, PlaceForms, PlacesDiffer
  <2> QED BY <2>1, <2>2, <2>4, SoundGoes
<1> QED BY <1>2, <1>3 DEF DeleteStep

LEMMA HandlerSound ==
    ASSUME TypeOK, NEW a \in Handlers, HandlerStep(a)
    PROVE  Sound(a)
<1>1. CASE UploadStep(a)
  BY <1>1, ReadModelSound, StashSound, SaveSound, CommitSound, DiscardSound, UndoSaveSound,
     RestoreSound DEF UploadStep
<1> QED BY <1>1, BeginSound, UploadFaultSound, RenameSound, DeleteSound DEF HandlerStep

-----------------------------------------------------------------------------
(* Type correctness *)

LEMMA RowsKeepType == TypeOK /\ [Next]_vars => rows' \in [Ids -> Row]
<1> SUFFICES ASSUME TypeOK, [Next]_vars PROVE rows' \in [Ids -> Row]
  OBVIOUS
<1>1. CASE rows' = rows
  BY <1>1 DEF TypeOK
<1>2. ASSUME NEW a \in Handlers, Commit(a) PROVE rows' \in [Ids -> Row]
  <2>1. handler[a] \in Upload
    BY <1>2, UploadAt DEF Commit, Uploading
  <2>2. handler[a].versions \in SUBSET Versions /\ handler[a].edits \in SUBSET Edit
    BY <2>1, UploadForm
  <2>3. ASSUME NEW id \in Ids PROVE Written(a)[id] \in Row
    <3>1. CASE id[1] = a /\ id[2] \in handler[a].created
      <4>1. Written(a)[id] = [name |-> id[2], state |-> "live",
                held |-> [v \in Versions |-> IF v \in handler[a].versions THEN id ELSE None]]
        BY <3>1 DEF Written
      <4> QED BY <4>1 DEF Row, Files, Ids
    <3>2. CASE /\ ~(id[1] = a /\ id[2] \in handler[a].created)
               /\ \E e \in handler[a].edits : e.id = id
      <4>1. PICK e : e = CHOOSE f \in handler[a].edits : f.id = id
        OBVIOUS
      <4>2. e \in Edit /\ e.name \in Names
        BY <2>2, <3>2, <4>1 DEF Edit
      <4>3. PICK held : held = [v \in Versions |->
                IF v \in handler[a].versions THEN <<a, e.name>>
                ELSE IF v \in e.loaded THEN None ELSE rows[id].held[v]]
        OBVIOUS
      <4>4. rows[id] \in Row /\ rows[id].held \in Files
        BY DEF TypeOK, Row
      <4>5. held \in Files
        BY <4>2, <4>3, <4>4, StoreBounds DEF Files, Ids, Handlers
      <4>6. Written(a)[id] = [rows[id] EXCEPT !.held = held]
        BY <3>2, <4>1, <4>3, Zenon DEF Written
      <4> QED BY <4>4, <4>5, <4>6 DEF Row
    <3>3. CASE /\ ~(id[1] = a /\ id[2] \in handler[a].created)
               /\ ~\E e \in handler[a].edits : e.id = id
      BY <3>3 DEF Written, TypeOK
    <3> QED BY <3>1, <3>2, <3>3
  <2>4. Written(a) = [id \in Ids |-> Written(a)[id]]
    BY DEF Written
  <2>5. Written(a) \in [Ids -> Row]
    BY <2>3, <2>4
  <2> QED BY <1>1, <1>2, <2>5 DEF Commit
<1>3. ASSUME NEW a \in Handlers, CommitRename(a) \/ RefreshFails(a) PROVE rows' \in [Ids -> Row]
  <2>1. handler[a] \in Renaming
    BY <1>3, FormOfHandler DEF CommitRename, RefreshFails, TypeOK
  <2>2. CASE rows' = [rows EXCEPT ![handler[a].id].name = handler[a].to]
    BY <2>1, <2>2 DEF TypeOK, Row, Renaming
  <2> QED BY <1>1, <1>3, <2>2 DEF CommitRename, RefreshFails
<1>4. ASSUME NEW a \in Handlers, CommitDelete(a) PROVE rows' \in [Ids -> Row]
  <2>1. handler[a].pc = "delete"
    BY <1>4, Zenon DEF CommitDelete
  <2>2. handler[a] \in Deletion
    BY <2>1, FormOfHandler DEF TypeOK
  <2>3. PICK id \in Ids : id = handler[a].id
    BY <2>2 DEF Deletion
  <2>4. PICK left : left = [v \in Versions |-> IF v \in handler[a].loaded THEN None ELSE rows[id].held[v]]
    OBVIOUS
  <2>5. rows[id] \in Row /\ rows[id].held \in Files
    BY DEF TypeOK, Row
  <2>6. left \in Files
    BY <2>4, <2>5 DEF Files
  <2>7. PICK state \in {"absent", "live", "deleted"} :
           state = IF left = NoFiles THEN "deleted" ELSE rows[id].state
    BY <2>5 DEF Row
  <2>8. PICK partly : partly = [rows EXCEPT ![id].held = left]
    OBVIOUS
  <2>9. partly \in [Ids -> Row] /\ partly[id].state = rows[id].state
    BY <2>5, <2>6, <2>8 DEF TypeOK, Row
  <2>10. rows' = [partly EXCEPT ![id].state = IF left = NoFiles THEN "deleted" ELSE @]
    BY <1>4, <2>3, <2>4, <2>8, Zenon DEF CommitDelete
  <2>11. rows' = [partly EXCEPT ![id].state = state]
    BY <2>7, <2>9, <2>10
  <2> QED BY <2>9, <2>11 DEF Row
<1>5. ASSUME NEW a \in Handlers, HandlerStep(a) PROVE rows' \in [Ids -> Row]
  <2>1. CASE UploadStep(a)
    <3>1. ReadModel(a) \/ Stash(a) \/ Save(a) => rows' = rows
      BY Zenon DEF ReadModel, Stash, Save
    <3>2. Discard(a) \/ UndoSave(a) \/ Restore(a) => rows' = rows
      BY DEF Discard, UndoSave, Restore
    <3> QED BY <1>1, <1>2, <2>1, <3>1, <3>2 DEF UploadStep
  <2>2. CASE UploadFault(a)
    <3>1. SaveFails(a) => rows' = rows
      BY Zenon DEF SaveFails
    <3> QED BY <1>1, <2>2, <3>1
            DEF UploadFault, StashFails, CommitFails, FlushFails, DiscardFails, UndoFails
  <2>3. CASE RenameStep(a) \/ RenameFault(a)
    <3>1. Rename(a) => rows' = rows
      BY Zenon DEF Rename
    <3> QED BY <1>1, <1>3, <2>3, <3>1
            DEF RenameStep, RenameFault, UndoRename, RenameFails, FlushRenameFails,
                CommitRenameFails, UndoRenameFails
  <2>4. CASE DeleteStep(a)
    BY <1>1, <1>4, <2>4 DEF DeleteStep, DeleteFiles, DeleteFails
  <2> QED BY <1>1, <1>5, <2>1, <2>2, <2>3, <2>4
          DEF HandlerStep, BeginUpload, BeginRename, BeginDelete
<1> QED BY <1>1, <1>5 DEF Next, vars, Crash, Sweep, SweepFails, ListVersions, ReadRows, SweepDeletes

(* A flush may be refused without a fault of its own.                      *)
Books ==
    /\ sweeper' = sweeper
    /\ \/ requests' = requests /\ overlap' = overlap
       \/ \E a \in Handlers, operation \in Operations : Arrives(a, operation)
    /\ \/ faults' = faults \/ faults' = faults \cup {"flush"}
       \/ \E kind \in FaultKinds : Fault(kind)

LEMMA HandlerBooks ==
    ASSUME NEW a \in Handlers, HandlerStep(a)
    PROVE  Books
<1>1. CASE UploadStep(a)
  <2>1. ReadModel(a) \/ Stash(a) \/ Save(a) => UNCHANGED <<sweeper, bounds, overlap>>
    BY Zenon DEF ReadModel, Stash, Save
  <2>2. Discard(a) \/ UndoSave(a) \/ Restore(a) => UNCHANGED <<sweeper, bounds, overlap>>
    BY DEF Discard, UndoSave, Restore
  <2>3. Commit(a) => /\ UNCHANGED <<sweeper, requests, overlap>>
                     /\ faults' = faults \/ faults' = faults \cup {"flush"}
    BY Zenon DEF Commit, CutShort
  <2> QED BY <1>1, <2>1, <2>2, <2>3 DEF UploadStep, Books, bounds
<1>2. ASSUME NEW kind, Fault(kind), UNCHANGED <<sweeper, requests, overlap>> PROVE Books
  BY <1>2 DEF Books, Fault
<1>3. CASE UploadFault(a)
  <2>1. SaveFails(a) => Fault("save") /\ UNCHANGED <<sweeper, requests, overlap>>
    BY Zenon DEF SaveFails
  <2>2. FlushFails(a) => Fault("flush") /\ UNCHANGED <<sweeper, requests, overlap>>
    BY Zenon DEF FlushFails
  <2> QED BY <1>2, <1>3, <2>1, <2>2
          DEF UploadFault, StashFails, CommitFails, DiscardFails, UndoFails
<1>4. CASE RenameStep(a)
  <2>1. Rename(a) => UNCHANGED <<sweeper, bounds, overlap>>
    BY Zenon DEF Rename
  <2>2. CommitRename(a) => /\ UNCHANGED <<sweeper, requests, overlap>>
                           /\ faults' = faults \/ faults' = faults \cup {"flush"}
    BY Zenon DEF CommitRename
  <2> QED BY <1>4, <2>1, <2>2 DEF RenameStep, UndoRename, Books, bounds
<1>5. CASE RenameFault(a)
  BY <1>2, <1>5
     DEF RenameFault, RenameFails, FlushRenameFails, CommitRenameFails, RefreshFails, UndoRenameFails
<1>6. CASE DeleteStep(a)
  <2>1. CommitDelete(a) => UNCHANGED <<sweeper, bounds, overlap>>
    BY Zenon DEF CommitDelete
  <2> QED BY <1>2, <1>6, <2>1 DEF DeleteStep, DeleteFiles, DeleteFails, Books, bounds
<1>7. ASSUME \E bundle \in Bundles, update \in BOOLEAN :
                BeginUpload(a, bundle[1], bundle[2], update)
      PROVE  Books
  BY <1>7 DEF BeginUpload, Books, Arrives
<1>8. ASSUME \/ \E n, to \in Names : BeginRename(a, n, to)
             \/ \E n \in Names, one \in {{}} \cup {{v} : v \in Versions} : BeginDelete(a, n, one)
      PROVE  Books
  BY <1>8 DEF BeginRename, BeginDelete, Books, Arrives
<1> QED BY <1>1, <1>3, <1>4, <1>5, <1>6, <1>7, <1>8 DEF HandlerStep

LEMMA BooksKeepType ==
    ASSUME TypeOK, Books
    PROVE  /\ sweeper' \in Sweeper /\ requests' \in 0 .. MaxRequests
           /\ faults' \subseteq AllFaults /\ overlap' \in BOOLEAN
<1>1. requests' \in 0 .. MaxRequests /\ overlap' \in BOOLEAN
  <2>1. CASE requests' = requests /\ overlap' = overlap
    BY <2>1 DEF TypeOK
  <2>2. ASSUME NEW a \in Handlers, NEW operation, Arrives(a, operation)
        PROVE  requests' \in 0 .. MaxRequests /\ overlap' \in BOOLEAN
    <3>1. requests' = a /\ overlap' = (overlap \/ Busy)
      BY <2>2 DEF Arrives
    <3>2. overlap' \in BOOLEAN
      BY <3>1, Zenon DEF TypeOK
    <3> QED BY <3>1, <3>2, StoreBounds DEF Handlers
  <2> QED BY <2>1, <2>2 DEF Books
<1>2. faults' \subseteq AllFaults
  BY StoreKinds DEF TypeOK, Books, Fault, AllFaults
<1> QED BY <1>1, <1>2 DEF TypeOK, Books

LEMMA SweepKeepsType ==
    ASSUME TypeOK, Sweep \/ SweepFails
    PROVE  /\ TypeOK'
           /\ \A n \in Names : disk'[Aside(n)] = disk[Aside(n)]
           /\ handler' = handler
<1>1. sweeper.found \in SUBSET (Names \X Versions)
  BY DEF TypeOK, Sweeper
<1>2. ASSUME NEW found \in SUBSET (Names \X Versions), Sweeps(found) PROVE sweeper' \in Sweeper
  BY <1>2 DEF Sweeps, Sweeper, Asleep
<1>3. CASE ListVersions
  <2>1. Stored \in SUBSET (Names \X Versions)
    BY DEF Stored
  <2>2. PICK found \in SUBSET Stored : sweeper' = [pc |-> "listed", found |-> found]
    BY <1>3, Zenon DEF ListVersions
  <2>3. sweeper' \in Sweeper
    BY <2>1, <2>2 DEF Sweeper
  <2>4. overlap' \in BOOLEAN
    BY <1>3, Zenon DEF ListVersions, TypeOK
  <2> QED BY <1>3, <2>3, <2>4 DEF ListVersions, TypeOK, bounds
<1>4. CASE ReadRows
  <2>1. sweeper' \in Sweeper
    <3>1. PICK found : /\ found = IF Known = {} THEN {} ELSE sweeper.found \ Known
                       /\ Sweeps(found)
      BY <1>4 DEF ReadRows
    <3> QED BY <1>1, <1>2, <3>1
  <2> QED BY <1>4, <2>1 DEF ReadRows, TypeOK, bounds
<1>5. CASE SweepDeletes
  <2>1. PICK nv, rest : /\ nv \in sweeper.found /\ rest = sweeper.found \ {nv}
                        /\ Remove(nv[1], nv[2]) /\ Sweeps(rest)
    BY <1>5 DEF SweepDeletes
  <2>2. sweeper' \in Sweeper
    BY <1>1, <1>2, <2>1
  <2>3. PICK n \in Names, v \in Versions : n = nv[1] /\ v = nv[2]
    BY <1>1, <2>1
  <2>4. disk' \in [Places -> Dir] /\ \A m \in Names : disk'[Aside(m)] = disk[Aside(m)]
    BY <2>1, <2>3, RemoveEffect, PlaceForms, PlacesDiffer
  <2> QED BY <1>5, <2>2, <2>4 DEF SweepDeletes, TypeOK, bounds
<1>6. CASE SweepFails
  <2>1. PICK rest : /\ rest \in {{}} \cup {sweeper.found \ {nv} : nv \in sweeper.found}
                    /\ Sweeps(rest)
    BY <1>6 DEF SweepFails
  <2>2. sweeper' \in Sweeper
    BY <1>1, <1>2, <2>1
  <2> QED BY <1>6, <2>2, StoreKinds DEF SweepFails, Fault, TypeOK
<1> QED BY <1>3, <1>4, <1>5, <1>6 DEF Sweep

LEMMA StartType == Init => TypeOK
<1> SUFFICES ASSUME Init PROVE TypeOK
  OBVIOUS
<1>1. rows \in [Ids -> Row]
  <2>1. ASSUME NEW id \in Ids
        PROVE  [name |-> id[2],
                state |-> IF id[1] = 0 /\ id[2] \in Registered THEN "live" ELSE "absent",
                held |-> [v \in Versions |->
                   IF id[1] = 0 /\ id[2] \in Registered /\ v \in Shipped THEN id ELSE None]] \in Row
    BY DEF Row, Files, Ids
  <2> QED BY <2>1 DEF Init
<1>2. disk \in [Places -> Dir]
  <2>1. ASSUME NEW p \in Places
        PROVE  (IF p[1] = "root" /\ p[2] \in Registered
                THEN [exists |-> TRUE,
                      holds |-> [v \in Versions |-> IF v \in Shipped THEN <<0, p[2]>> ELSE None]]
                ELSE NoDir) \in Dir
    <3>1. <<0, p[2]>> \in Ids
      BY StoreBounds DEF Places, Ids
    <3>2. [v \in Versions |-> IF v \in Shipped THEN <<0, p[2]>> ELSE None] \in Files
      BY <3>1 DEF Files
    <3> QED BY <3>2, DirForms
  <2> QED BY <2>1 DEF Init
<1>3. handler \in [Handlers -> Handler]
  BY FreeForm DEF Init
<1>4. sweeper \in Sweeper
  BY DEF Init, Asleep, Sweeper
<1>5. requests \in 0 .. MaxRequests /\ faults \subseteq AllFaults /\ overlap \in BOOLEAN
  <2>1. requests = 0 /\ faults = {} /\ overlap = FALSE
    BY Zenon DEF Init
  <2>2. 0 \in 0 .. MaxRequests
    BY StoreBounds
  <2> QED BY Zenon, <2>1, <2>2
<1> QED BY <1>1, <1>2, <1>3, <1>4, <1>5 DEF TypeOK

LEMMA TypeStep == TypeOK /\ [Next]_vars => TypeOK'
<1> SUFFICES ASSUME TypeOK, [Next]_vars PROVE TypeOK'
  OBVIOUS
<1>1. CASE UNCHANGED vars
  BY <1>1 DEF vars, TypeOK, bounds
<1>2. ASSUME NEW a \in Handlers, HandlerStep(a) PROVE TypeOK'
  <2>1. Books /\ Sound(a)
    BY <1>2, HandlerBooks, HandlerSound
  <2> QED BY <2>1, BooksKeepType, RowsKeepType DEF Sound, TypeOK
<1>3. CASE Crash
  <2>1. handler' \in [Handlers -> Handler]
    BY <1>3, FreeForm DEF Crash, TypeOK
  <2> QED BY <1>3, <2>1, StoreKinds DEF Crash, Fault, TypeOK
<1>4. CASE Sweep \/ SweepFails
  BY <1>4, SweepKeepsType
<1> QED BY <1>1, <1>2, <1>3, <1>4 DEF Next

(* Rows, directories, requests and the sweep keep their types, in          *)
(* particular: a directory that is gone holds nothing.                     *)
THEOREM StoreTypeCorrect == Spec => []TypeOK
BY StartType, TypeStep, PTL DEF Spec

-----------------------------------------------------------------------------
(* Stashes *)

(* Every stash an update has noted down is there, and only that update has *)
(* noted it down.                                                          *)
Stashes(a) == EditsOf(handler[a])
StashInv ==
    /\ \A a \in Handlers : \A e \in Stashes(a) : e.name \in Names /\ disk[Aside(e.name)].exists
    /\ \A a, b \in Handlers : \A e \in Stashes(a), f \in Stashes(b) :
          e.name = f.name => a = b /\ e = f

LEMMA StashesForm ==
    ASSUME TypeOK, NEW a \in Handlers
    PROVE  Stashes(a) \subseteq Edit
BY FormOfHandler, UploadForm DEF TypeOK, Stashes, EditsOf

LEMMA EditForm == \A e \in Edit : e.name \in Names
BY DEF Edit

LEMMA StashStep ==
    ASSUME TypeOK, StashInv, NEW a \in Handlers, Sound(a)
    PROVE  StashInv'
<1>1. \A b \in Handlers \ {a} : Stashes(b)' = Stashes(b)
  BY DEF Sound, Stashes, EditsOf
<1>2. Stashes(a)' = EditsOf(handler'[a])
  BY DEF Stashes, EditsOf
<1>3. CASE Leaves(a)
  <2>1. Stashes(a)' \subseteq Stashes(a)
    BY <1>2, <1>3 DEF Leaves, Stashes
  <2>2. \A n \in Names : disk'[Aside(n)] = disk[Aside(n)]
    BY <1>3 DEF Leaves
  <2>3. \A b \in Handlers : Stashes(b)' \subseteq Stashes(b)
    BY <1>1, <2>1
  <2> QED BY <2>2, <2>3 DEF StashInv
<1>4. CASE Takes(a)
  <2>1. PICK e \in Edit :
           /\ EditsOf(handler'[a]) \subseteq EditsOf(handler[a]) \cup {e}
           /\ ~disk[Aside(e.name)].exists /\ disk'[Aside(e.name)].exists
           /\ \A n \in Names \ {e.name} : disk'[Aside(n)] = disk[Aside(n)]
    BY <1>4 DEF Takes
  <2>2. \A b \in Handlers : \A f \in Stashes(b) : f.name \in Names /\ f.name # e.name
    BY <2>1 DEF StashInv
  <2>3. Stashes(a)' \subseteq Stashes(a) \cup {e} /\ e.name \in Names
    BY <1>2, <2>1, EditForm DEF Stashes
  <2>4. \A b \in Handlers : \A f \in Stashes(b)' :
           f.name \in Names /\ (f \in Stashes(b) \/ (b = a /\ f = e))
    BY <1>1, <2>2, <2>3
  <2>5. \A b \in Handlers : \A f \in Stashes(b)' : disk'[Aside(f.name)].exists
    <3>1. ASSUME NEW b \in Handlers, NEW f \in Stashes(b)' PROVE disk'[Aside(f.name)].exists
      <4>1. CASE f = e
        BY <2>1, <4>1
      <4>2. CASE f \in Stashes(b)
        BY <2>1, <2>2, <4>2 DEF StashInv
      <4> QED BY <2>4, <4>1, <4>2
    <3> QED BY <3>1
  <2>6. ASSUME NEW b \in Handlers, NEW c \in Handlers, NEW f \in Stashes(b)',
               NEW g \in Stashes(c)', f.name = g.name
        PROVE  b = c /\ f = g
    BY <2>2, <2>4, <2>6 DEF StashInv
  <2> QED BY <2>4, <2>5, <2>6 DEF StashInv
<1>5. CASE GivesUp(a)
  <2>1. PICK e \in Stashes(a) :
           /\ EditsOf(handler'[a]) \subseteq Stashes(a) \ {e}
           /\ \A n \in Names \ {e.name} : disk'[Aside(n)] = disk[Aside(n)]
    BY <1>5 DEF GivesUp, Stashes
  <2>2. \A b \in Handlers : \A f \in Stashes(b)' : f \in Stashes(b) /\ ~(b = a /\ f = e)
    BY <1>1, <1>2, <2>1
  <2>3. \A b \in Handlers : \A f \in Stashes(b)' : f.name # e.name
    BY <2>1, <2>2 DEF StashInv
  <2> QED BY <2>1, <2>2, <2>3 DEF StashInv
<1> QED BY <1>3, <1>4, <1>5 DEF Sound

LEMMA StashInvStep == TypeOK /\ StashInv /\ [Next]_vars => StashInv'
<1> SUFFICES ASSUME TypeOK, StashInv, [Next]_vars PROVE StashInv'
  OBVIOUS
<1>1. ASSUME \A a \in Handlers : handler'[a] = handler[a] \/ handler'[a] = Free,
             \A n \in Names : disk'[Aside(n)] = disk[Aside(n)]
      PROVE  StashInv'
  <2>1. \A a \in Handlers : Stashes(a)' = EditsOf(handler'[a])
    BY DEF Stashes, EditsOf
  <2>2. \A a \in Handlers : Stashes(a)' \subseteq Stashes(a)
    BY <1>1, <2>1, FreeForm DEF Stashes
  <2> QED BY <1>1, <2>2 DEF StashInv
<1>2. CASE UNCHANGED vars
  BY <1>1, <1>2 DEF vars
<1>3. CASE Crash
  <2>1. \A a \in Handlers : handler'[a] = handler[a] \/ handler'[a] = Free
    BY <1>3 DEF Crash, TypeOK
  <2> QED BY <1>1, <1>3, <2>1 DEF Crash
<1>4. CASE Sweep \/ SweepFails
  BY <1>1, <1>4, SweepKeepsType
<1>5. ASSUME NEW a \in Handlers, HandlerStep(a) PROVE StashInv'
  BY <1>5, HandlerSound, StashStep
<1> QED BY <1>2, <1>3, <1>4, <1>5 DEF Next

(* A step changes the stash of an update that stands still only if it was  *)
(* none.                                                                   *)
LEMMA StashStays ==
    ASSUME TypeOK, StashInv, [Next]_vars, NEW a \in Handlers, NEW e \in Stashes(a),
           handler'[a] = handler[a]
    PROVE  disk[Aside(e.name)].exists /\ disk'[Aside(e.name)] = disk[Aside(e.name)]
<1>1. e.name \in Names /\ disk[Aside(e.name)].exists
  BY DEF StashInv
<1>2. CASE UNCHANGED vars \/ Crash
  BY <1>1, <1>2 DEF vars, Crash
<1>3. CASE Sweep \/ SweepFails
  BY <1>1, <1>3, SweepKeepsType
<1>4. ASSUME NEW b \in Handlers, HandlerStep(b)
      PROVE  disk'[Aside(e.name)] = disk[Aside(e.name)]
  <2>1. Sound(b)
    BY <1>4, HandlerSound
  <2>2. CASE Leaves(b)
    BY <1>1, <2>2 DEF Leaves
  <2>3. CASE Takes(b)
    BY <1>1, <2>3 DEF Takes
  <2>4. CASE GivesUp(b)
    <3>1. PICK f \in Stashes(b) :
             /\ EditsOf(handler'[b]) \subseteq Stashes(b) \ {f}
             /\ \A n \in Names \ {f.name} : disk'[Aside(n)] = disk[Aside(n)]
      BY <2>4 DEF GivesUp, Stashes
    <3>2. CASE f.name = e.name
      <4>1. a = b /\ e = f
        BY <3>1, <3>2 DEF StashInv
      <4> QED BY <3>1, <4>1 DEF Stashes
    <3>3. CASE f.name # e.name
      BY <1>1, <3>1, <3>3
    <3> QED BY <3>2, <3>3
  <2> QED BY <2>1, <2>2, <2>3, <2>4 DEF Sound
<1> QED BY <1>1, <1>2, <1>3, <1>4 DEF Next

(* As long as an update stands still, no other request, no sweep, no crash *)
(* of another and no undo takes or changes the files it moved aside: it    *)
(* can put them back whenever it has to.                                   *)
THEOREM StashesAreSafe == Spec => StashWaitsForItsUpdate
<1> DEFINE Waits == \A a \in Handlers : \A n \in Names :
          Holds(a, n) /\ handler[a].pc # "discard" /\ handler'[a] = handler[a]
             => disk[Aside(n)].exists /\ disk'[Aside(n)] = disk[Aside(n)]
<1>1. Init => StashInv
  <2>1. Init => \A a \in Handlers : Stashes(a) = {}
    BY FreeForm DEF Init, Stashes
  <2> QED BY <2>1 DEF StashInv
<1>2. TypeOK /\ StashInv /\ [Next]_vars => [Waits]_vars
  <2> SUFFICES ASSUME TypeOK, StashInv, [Next]_vars, NEW a \in Handlers, NEW n \in Names,
                      Holds(a, n), handler'[a] = handler[a]
               PROVE  disk[Aside(n)].exists /\ disk'[Aside(n)] = disk[Aside(n)]
    OBVIOUS
  <2>1. PICK e \in Stashes(a) : e.name = n
    BY DEF Holds, Stashes, EditsOf
  <2> QED BY <2>1, StashStays
<1> QED BY <1>1, <1>2, StashInvStep, StoreTypeCorrect, PTL DEF Spec, StashWaitsForItsUpdate
=============================================================================
