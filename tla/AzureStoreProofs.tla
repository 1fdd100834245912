--------------------------- MODULE AzureStoreProofs ---------------------------
(***************************************************************************)
(* What TLAPS proves of the Azure backend, for any models, files, versions *)
(* and faults: type correctness, that no move costs the only copy of a     *)
(* file, and that the backend keeps what ModelFiles promises.              *)
(***************************************************************************)
EXTENDS AzureStore, TLAPS

-----------------------------------------------------------------------------
(* Blobs and places *)

LEMMA PlaceForms ==
    \A n \in Names : Root(n) \in Places /\ Aside(n) \in Places
BY DEF Root, Aside, Places

LEMMA PutEffect ==
    ASSUME TypeOK, NEW p \in Places, NEW f \in Files, NEW content \in Content, Put(p, f, content)
    PROVE  /\ blobs' \in [Places -> [Files -> Content]]
           /\ blobs'[p][f] = content
           /\ \A q \in Places, g \in Files : q # p \/ g # f => blobs'[q][g] = blobs[q][g]
BY DEF TypeOK, Put

LEMMA CopyEffect ==
    ASSUME TypeOK, NEW p \in Places, NEW f \in Files, NEW status \in Content \cup {Failed},
           copy' = [copy EXCEPT ![p][f] = status]
    PROVE  /\ copy' \in [Places -> [Files -> Content \cup {Failed}]]
           /\ copy'[p][f] = status
           /\ \A q \in Places, g \in Files : q # p \/ g # f => copy'[q][g] = copy[q][g]
BY DEF TypeOK

(* The part of type correctness that is about the container.               *)
Stored ==
    /\ blobs \in [Places -> [Files -> Content]]
    /\ copy \in [Places -> [Files -> Content \cup {Failed}]]
    /\ \A p \in Places, f \in Files : ~Settled(p, f) => blobs[p][f] = Partial

LEMMA WriteEffect ==
    ASSUME TypeOK, NEW p \in Places, NEW f \in Files, NEW content \in Content,
           NEW status \in Content \cup {Failed}, content = Partial \/ status = None,
           Put(p, f, content), copy' = [copy EXCEPT ![p][f] = status]
    PROVE  /\ Stored'
           /\ blobs'[p][f] = content /\ copy'[p][f] = status
           /\ \A q \in Places, g \in Files :
                 q # p \/ g # f => blobs'[q][g] = blobs[q][g] /\ copy'[q][g] = copy[q][g]
BY PutEffect, CopyEffect DEF Stored, TypeOK, Settled

LEMMA RemoveEffect ==
    ASSUME TypeOK, NEW p \in Places, NEW f \in Files, Remove(p, f)
    PROVE  /\ Stored'
           /\ blobs'[p][f] = None /\ copy'[p][f] = None
           /\ \A q \in Places, g \in Files :
                 q # p \/ g # f => blobs'[q][g] = blobs[q][g] /\ copy'[q][g] = copy[q][g]
BY WriteEffect DEF Remove, Content

-----------------------------------------------------------------------------
(* Type correctness *)

LEMMA FormOfCall ==
    ASSUME TypeOK
    PROVE  /\ call.op = "save" => call \in Saving
           /\ call.op = "delete" => call \in Deleting
           /\ call.op = "move" => call \in Moving
           /\ call.op = "discard" => call \in Discarding
           /\ call \in Saving \cup Deleting \cup Moving \cup Discarding => call # Idle
BY DEF TypeOK, Call, Idle, Saving, Deleting, Moving, Discarding

LEMMA BeginType == TypeOK /\ Begin => TypeOK'
<1> SUFFICES ASSUME TypeOK, Begin PROVE TypeOK'
  OBVIOUS
<1>1. ASSUME NEW c \in Call, Starts(c), answer' \in {"done", "raised"} PROVE TypeOK'
  BY <1>1, AzureBounds DEF Starts, TypeOK, Settled
<1>2. ASSUME NEW c \in Call, Proceeds(c) PROVE TypeOK'
  BY <1>1, <1>2 DEF Proceeds, TypeOK
<1>3. ASSUME Refused PROVE TypeOK'
  BY <1>1, <1>3 DEF Refused, Call
<1>4. \A p \in Places : Under(p) \in SUBSET Files
  BY DEF Under
<1>5. ASSUME NEW n \in Names, NEW v \in Versions, NEW config \in SUBSET {Config},
             BeginSave(n, v, config)
      PROVE  TypeOK'
  <2>1. ASSUME calls < MaxCalls
        PROVE  [op |-> "save", at |-> Root(n), upload |-> calls + 1,
                todo |-> FilesOf(v), config |-> config] \in Call
    BY <2>1, PlaceForms, AzureBounds DEF Call, Saving, FilesOf, Uploads, TypeOK
  <2> QED BY <1>2, <1>3, <1>5, <2>1 DEF BeginSave, Proceeds, Starts
<1>6. ASSUME NEW n \in Names, NEW v \in Versions, BeginDelete(n, v) PROVE TypeOK'
  <2>1. [op |-> "delete", at |-> Root(n), pc |-> "version",
         todo |-> Under(Root(n)) \cap FilesOf(v)] \in Call
    BY PlaceForms DEF Call, Deleting, FilesOf
  <2> QED BY <1>2, <1>3, <1>6, <2>1 DEF BeginDelete
<1>7. ASSUME NEW from \in Places, NEW to \in Places, NEW pc \in {"clear", "copy"},
             NEW todo \in SUBSET Files
      PROVE  Mover(from, to, pc, todo) \in Call
  BY <1>4 DEF Call, Mover, Moving
<1>8. ASSUME NEW n \in Names, NEW m \in Names, BeginRename(n, m) PROVE TypeOK'
  BY <1>2, <1>3, <1>4, <1>7, <1>8, PlaceForms DEF BeginRename
<1>9. ASSUME NEW n \in Names, BeginStash(n) PROVE TypeOK'
  BY <1>2, <1>3, <1>4, <1>7, <1>9, PlaceForms DEF BeginStash
<1>10. ASSUME NEW n \in Names, BeginRestore(n) PROVE TypeOK'
  BY <1>2, <1>3, <1>4, <1>7, <1>10, PlaceForms DEF BeginRestore
<1>11. ASSUME NEW n \in Names, BeginDiscard(n) PROVE TypeOK'
  <2>1. [op |-> "discard", at |-> Aside(n), todo |-> Under(Aside(n))] \in Call
    BY <1>4, PlaceForms DEF Call, Discarding
  <2> QED BY <1>2, <1>11, <2>1 DEF BeginDiscard
<1> QED BY <1>5, <1>6, <1>8, <1>9, <1>10, <1>11 DEF Begin

LEMMA ProceedType == TypeOK /\ Proceed => TypeOK'
<1> SUFFICES ASSUME TypeOK, Proceed PROVE TypeOK'
  OBVIOUS
<1>1. ASSUME NEW c \in Call, Continues(c), Stored' PROVE TypeOK'
  BY <1>1 DEF Continues, TypeOK, Stored, bounds, Settled
<1>2. ASSUME UNCHANGED <<blobs, copy, before, calls>>, call' = Idle,
             answer' \in {"done", "raised"}, UNCHANGED faults
      PROVE  TypeOK'
  BY <1>2 DEF TypeOK, Call, Settled
<1>3. ASSUME NEW c \in Call, Continues(c), UNCHANGED <<blobs, copy>> PROVE TypeOK'
  BY <1>1, <1>3 DEF TypeOK, Stored, Settled
<1>4. CASE Upload
  <2>1. call \in Saving
    BY <1>4, FormOfCall DEF Upload
  <2>2. PICK f \in Files :
           IF Settled(call.at, f)
           THEN /\ Put(call.at, f, call.upload)
                /\ copy' = [copy EXCEPT ![call.at][f] = None]
                /\ Continues([call EXCEPT !.todo = @ \ {f}, !.config = @ \ {f}])
           ELSE Raises /\ UNCHANGED <<blobs, copy, faults>>
    BY <1>4, <2>1, AzureFiles DEF Upload, Saving
  <2>3. CASE Settled(call.at, f)
    <3>1. call.at \in Places /\ call.upload \in Content /\ None \in Content
      BY <2>1 DEF Saving, Content
    <3>2. Stored'
      BY <2>2, <2>3, <3>1, WriteEffect
    <3>3. [call EXCEPT !.todo = @ \ {f}, !.config = @ \ {f}] \in Saving
      BY <2>1 DEF Saving
    <3>4. [call EXCEPT !.todo = @ \ {f}, !.config = @ \ {f}] \in Call
      BY <3>3 DEF Call
    <3> QED BY <1>1, <2>2, <2>3, <3>2, <3>4
  <2>4. CASE ~Settled(call.at, f)
    BY <1>2, <2>2, <2>4 DEF Raises
  <2> QED BY <2>3, <2>4
<1>5. CASE DeleteBlob
  <2>1. call \in Deleting \cup Discarding
    BY <1>5, FormOfCall DEF DeleteBlob
  <2>2. PICK f \in Files : Remove(call.at, f) /\ Continues([call EXCEPT !.todo = @ \ {f}])
    BY <1>5, <2>1 DEF DeleteBlob, Deleting, Discarding
  <2>3. Stored'
    BY <2>1, <2>2, RemoveEffect DEF Deleting, Discarding
  <2>4. [call EXCEPT !.todo = @ \ {f}] \in Call
    BY <2>1 DEF Deleting, Discarding, Call
  <2> QED BY <1>1, <2>2, <2>3, <2>4
<1>6. CASE DeleteRest
  <2>1. call \in Deleting
    BY <1>6, FormOfCall DEF DeleteRest
  <2>2. [call EXCEPT !.pc = "rest",
                     !.todo = IF Under(call.at) \subseteq {Config} THEN Under(call.at) ELSE {}]
        \in Call
    BY <2>1 DEF Deleting, Call, Under
  <2> QED BY <1>3, <1>6, <2>2 DEF DeleteRest
<1>7. CASE Clear
  <2>1. call \in Moving
    BY <1>7, FormOfCall DEF Clear
  <2>2. ASSUME NEW f \in Files, Remove(call.to, f), Continues([call EXCEPT !.todo = @ \ {f}])
        PROVE  TypeOK'
    <3>1. [call EXCEPT !.todo = @ \ {f}] \in Call
      BY <2>1 DEF Moving, Call
    <3> QED BY <1>1, <2>1, <2>2, <3>1, RemoveEffect DEF Moving
  <2>3. [call EXCEPT !.pc = "copy", !.todo = call.names] \in Call
    BY <2>1 DEF Moving, Call
  <2> QED BY <1>3, <1>7, <2>1, <2>2, <2>3 DEF Clear, Moving
<1>8. CASE StartCopy
  <2>1. call \in Moving
    BY <1>8, FormOfCall DEF StartCopy
  <2>2. PICK f \in call.todo :
          IF Settled(call.from, f)
          THEN /\ Put(call.to, f, Partial)
               /\ copy' = [copy EXCEPT ![call.to][f] = blobs[call.from][f]]
               /\ Continues(IF call.todo = {f} THEN [call EXCEPT !.pc = "await", !.todo = call.names]
                            ELSE [call EXCEPT !.todo = @ \ {f}])
          ELSE Raises /\ UNCHANGED <<blobs, copy, faults>>
    BY <1>8 DEF StartCopy
  <2>3. CASE Settled(call.from, f)
    <3>1. /\ f \in Files /\ call.to \in Places /\ Partial \in Content
          /\ blobs[call.from][f] \in Content
      BY <2>1 DEF Moving, TypeOK, Content
    <3>2. Stored'
      BY <2>2, <2>3, <3>1, WriteEffect
    <3>3. /\ [call EXCEPT !.pc = "await", !.todo = call.names] \in Call
          /\ [call EXCEPT !.todo = @ \ {f}] \in Call
      BY <2>1 DEF Moving, Call
    <3> QED BY <1>1, <2>2, <2>3, <3>2, <3>3
  <2>4. CASE ~Settled(call.from, f)
    BY <1>2, <2>2, <2>4 DEF Raises
  <2> QED BY <2>3, <2>4
<1>9. CASE AwaitCopy
  <2>1. call \in Moving
    BY <1>9, FormOfCall DEF AwaitCopy
  <2>2. ASSUME NEW f \in Files
        PROVE  (IF call.todo = {f} THEN [call EXCEPT !.pc = "remove", !.todo = call.names]
                ELSE [call EXCEPT !.todo = @ \ {f}]) \in Call
    BY <2>1 DEF Moving, Call
  <2> QED BY <1>2, <1>3, <1>9, <2>1, <2>2 DEF AwaitCopy, Moving, Raises
<1>10. CASE Deadline
  BY <1>2, <1>10 DEF Deadline, Raises
<1>11. CASE RemoveOriginal
  <2>1. call \in Moving
    BY <1>11, FormOfCall DEF RemoveOriginal
  <2>2. PICK f \in Files : Remove(call.from, f) /\ Continues([call EXCEPT !.todo = @ \ {f}])
    BY <1>11, <2>1 DEF RemoveOriginal, Moving
  <2>3. [call EXCEPT !.todo = @ \ {f}] \in Call
    BY <2>1 DEF Moving, Call
  <2> QED BY <1>1, <2>1, <2>2, <2>3, RemoveEffect DEF Moving
<1>12. CASE Return
  BY <1>2, <1>12 DEF Return, Ends, bounds
<1> QED BY <1>4, <1>5, <1>6, <1>7, <1>8, <1>9, <1>10, <1>11, <1>12 DEF Proceed

(* What the end of a copy does.                                            *)
LEMMA CopyEndsEffect ==
    ASSUME TypeOK, NEW p \in Places, NEW f \in Files, CopyEnds(p, f)
    PROVE  /\ Stored'
           /\ blobs[p][f] = Partial /\ copy[p][f] \in Content \ {None}
           /\ blobs'[p][f] = copy[p][f] /\ copy'[p][f] = None
           /\ \A q \in Places, g \in Files :
                 q # p \/ g # f => blobs'[q][g] = blobs[q][g] /\ copy'[q][g] = copy[q][g]
           /\ before' \in [Places -> [Files -> Content]]
           /\ before'[p][f] = IF before[p][f] = Partial THEN copy[p][f] ELSE before[p][f]
           /\ \A q \in Places, g \in Files : q # p \/ g # f => before'[q][g] = before[q][g]
<1>1. blobs[p][f] = Partial /\ copy[p][f] \in Content \ {None}
  BY DEF CopyEnds, TypeOK, Settled
<1>2. None \in Content
  BY DEF Content
<1>3. /\ Stored' /\ blobs'[p][f] = copy[p][f] /\ copy'[p][f] = None
      /\ \A q \in Places, g \in Files :
            q # p \/ g # f => blobs'[q][g] = blobs[q][g] /\ copy'[q][g] = copy[q][g]
  BY <1>1, <1>2, PutEffect, CopyEffect DEF CopyEnds, Stored, TypeOK, Settled
<1>4. before' = [before EXCEPT ![p][f] = copy[p][f]] \/ (before' = before /\ before[p][f] # Partial)
  BY DEF CopyEnds
<1> QED BY <1>1, <1>3, <1>4 DEF CopyEnds, TypeOK

LEMMA CopyFailsEffect ==
    ASSUME TypeOK, NEW p \in Places, NEW f \in Files, CopyFails(p, f)
    PROVE  /\ Stored' /\ UNCHANGED <<blobs, call, answer, before, calls>>
           /\ ~Settled(p, f) /\ copy'[p][f] = Failed
           /\ \A q \in Places, g \in Files : q # p \/ g # f => copy'[q][g] = copy[q][g]
<1>1. UNCHANGED <<blobs, call, answer, before, calls>> /\ ~Settled(p, f)
  BY DEF CopyFails
<1>2. /\ copy' \in [Places -> [Files -> Content \cup {Failed}]]
      /\ copy'[p][f] = Failed
      /\ \A q \in Places, g \in Files : q # p \/ g # f => copy'[q][g] = copy[q][g]
  BY CopyEffect DEF CopyFails
<1> QED BY <1>1, <1>2 DEF Stored, TypeOK, Settled

LEMMA WorldType ==
    ASSUME TypeOK,
           Interrupted \/ \E p \in Places, f \in Files : CopyEnds(p, f) \/ CopyFails(p, f)
    PROVE  TypeOK'
<1>1. CASE Interrupted
  BY <1>1 DEF Interrupted, Fault, Raises, TypeOK, Call, Settled
<1>2. ASSUME NEW p \in Places, NEW f \in Files, CopyEnds(p, f) PROVE TypeOK'
  <2>1. Stored' /\ before' \in [Places -> [Files -> Content]]
    BY <1>2, CopyEndsEffect
  <2> QED BY <1>2, <2>1 DEF CopyEnds, Stored, TypeOK, bounds, Settled
<1>3. ASSUME NEW p \in Places, NEW f \in Files, CopyFails(p, f) PROVE TypeOK'
  <2>1. Stored' /\ UNCHANGED <<blobs, call, answer, before, calls>>
    BY <1>3, CopyFailsEffect
  <2>2. faults' \subseteq FaultKinds
    BY <1>3 DEF CopyFails, Fault, TypeOK
  <2> QED BY <2>1, <2>2 DEF Stored, TypeOK, Settled
<1> QED BY <1>1, <1>2, <1>3

LEMMA StartType == Init => TypeOK
<1> SUFFICES ASSUME Init PROVE TypeOK
  OBVIOUS
<1>1. 0 \in Uploads /\ 0 \in Content /\ None \in Content
  BY AzureBounds DEF Uploads, Content
<1>2. blobs \in [Places -> [Files -> Content]]
  BY <1>1 DEF Init
<1>3. copy \in [Places -> [Files -> Content \cup {Failed}]]
  BY <1>1 DEF Init
<1> QED BY <1>1, <1>2, <1>3, AzureBounds DEF Init, TypeOK, Call, Settled

(* Blobs, copies and calls keep their types, in particular: a blob a copy  *)
(* is still going into has nothing whole in it.                            *)
THEOREM AzureTypeCorrect == Spec => []TypeOK
<1>1. TypeOK /\ [Next]_vars => TypeOK'
  <2> SUFFICES ASSUME TypeOK, [Next]_vars PROVE TypeOK'
    OBVIOUS
  <2>1. CASE UNCHANGED vars
    BY <2>1 DEF vars, TypeOK, bounds, Settled
  <2>2. CASE Next
    BY <2>2, BeginType, ProceedType, WorldType DEF Next
  <2> QED BY <2>1, <2>2
<1> QED BY <1>1, StartType, PTL DEF Spec

-----------------------------------------------------------------------------
(* How far a call has got, in terms of what it found *)

Same(p, f) == blobs[p][f] = before[p][f]
Gone(p, f) == blobs[p][f] = None
Had(p) == {f \in Files : before[p][f] # None}
SameBut(changed) == \A p \in Places \ changed, f \in Files : Same(p, f)

Saved(n, v, config, upload, todo, left) ==
    /\ Config \in Had(Root(n)) \cup config
    /\ todo \subseteq FilesOf(v) /\ left \subseteq config
    /\ SameBut({Root(n)})
    /\ \A f \in Files :
          IF f \in (FilesOf(v) \ todo) \cup (config \ left)
          THEN blobs[Root(n)][f] = upload /\ copy[Root(n)][f] = None
          ELSE Same(Root(n), f)

Deleted(n, v, pc, todo) ==
    /\ Had(Root(n)) \cap FilesOf(v) # {}
    /\ SameBut({Root(n)})
    /\ \/ /\ pc = "version" /\ todo \subseteq FilesOf(v)
          /\ \A f \in Files : IF f \in FilesOf(v) \ todo THEN Gone(Root(n), f)
                              ELSE Same(Root(n), f)
       \/ /\ pc = "rest" /\ Had(Root(n)) \subseteq FilesOf(v) \cup {Config}
          /\ todo \subseteq {Config}
          /\ \A f \in Files : IF f \in todo THEN Same(Root(n), f) ELSE Gone(Root(n), f)
       \/ /\ pc = "rest" /\ ~(Had(Root(n)) \subseteq FilesOf(v) \cup {Config})
          /\ todo = {}
          /\ \A f \in Files : IF f \in FilesOf(v) THEN Gone(Root(n), f) ELSE Same(Root(n), f)

Discarded(n, todo) ==
    /\ todo \subseteq Had(Aside(n))
    /\ SameBut({Aside(n)})
    /\ \A f \in Files : IF f \in todo THEN Same(Aside(n), f) ELSE Gone(Aside(n), f)

(* A copy that is under way ends in what was found, as nothing is being    *)
(* copied into its source.                                                 *)
Copied(from, to, f) ==
    Settled(from, f) /\ copy[to][f] = None /\ blobs[to][f] = before[from][f]
Copying(from, to, f) ==
    \/ Copied(from, to, f)
    \/ Settled(from, f) /\ blobs[to][f] = Partial /\ copy[to][f] \in {before[from][f], Failed}

Moved(from, to, pc, names, todo) ==
    /\ names = Had(from) /\ names # {}
    /\ <<from, to>> \in Promised!Moves => Had(to) = {}
    /\ SameBut({from, to})
    /\ pc \in {"clear", "copy", "await"} => \A f \in Files : Same(from, f)
    /\ pc = "clear" => \A f \in Files : IF f \in todo THEN Same(to, f) ELSE Gone(to, f)
    /\ pc = "copy" => /\ todo \subseteq names
                      /\ \A f \in Files : IF f \in names \ todo THEN Copying(from, to, f)
                                          ELSE Gone(to, f)
    /\ pc = "await" => /\ todo \subseteq names
                       /\ \A f \in Files :
                             /\ IF f \in names THEN Copying(from, to, f) ELSE Gone(to, f)
                             /\ f \in names \ todo => Copied(from, to, f)
    /\ pc = "remove" => /\ todo \subseteq names
                        /\ \A f \in Files :
                              /\ IF f \in names THEN Copied(from, to, f) ELSE Gone(to, f)
                              /\ IF f \in todo THEN Same(from, f) ELSE Gone(from, f)

Routes == Promised!Moves \cup Promised!Restores

SavedInv ==
    call.op = "save" =>
       \E n \in Names, v \in Versions, config \in SUBSET {Config} :
          call.at = Root(n) /\ Saved(n, v, config, call.upload, call.todo, call.config)
DeletedInv ==
    call.op = "delete" =>
       \E n \in Names, v \in Versions : call.at = Root(n) /\ Deleted(n, v, call.pc, call.todo)
DiscardedInv ==
    call.op = "discard" => \E n \in Names : call.at = Aside(n) /\ Discarded(n, call.todo)
MovedInv ==
    call.op = "move" =>
       /\ <<call.from, call.to>> \in Routes
       /\ Moved(call.from, call.to, call.pc, call.names, call.todo)

ProgressInv == SavedInv /\ DeletedInv /\ DiscardedInv /\ MovedInv

-----------------------------------------------------------------------------
(* The invariant for a call that runs, with what it is busy with named *)

LEMMA RouteForms ==
    ASSUME NEW from, NEW to, <<from, to>> \in Routes
    PROVE  /\ from \in Places /\ to \in Places
           /\ from = to => <<from, to>> \in Promised!Moves
BY PlaceForms DEF Routes, Promised!Moves, Promised!Restores, Promised!Root, Promised!Aside,
                  Root, Aside, Places

LEMMA Routed ==
    ASSUME NEW from, NEW to, NEW pc, NEW names, NEW todo,
           <<from, to>> \in Routes, Moved(from, to, pc, names, todo)
    PROVE  from \in Places /\ to \in Places /\ from # to
BY RouteForms DEF Moved

LEMMA IsSaving ==
    ASSUME TypeOK, ProgressInv, call.op = "save"
    PROVE  \E n \in Names, v \in Versions, config \in SUBSET {Config},
              upload \in Uploads, todo \in SUBSET Files, left \in SUBSET {Config} :
              /\ call = [op |-> "save", at |-> Root(n), upload |-> upload, todo |-> todo,
                         config |-> left]
              /\ Saved(n, v, config, upload, todo, left)
<1>1. call \in Saving
  BY FormOfCall
<1>2. PICK n \in Names, v \in Versions, config \in SUBSET {Config} :
         call.at = Root(n) /\ Saved(n, v, config, call.upload, call.todo, call.config)
  BY DEF ProgressInv, SavedInv
<1>3. PICK upload \in Uploads, todo \in SUBSET Files, left \in SUBSET {Config} :
         upload = call.upload /\ todo = call.todo /\ left = call.config
  BY <1>1 DEF Saving
<1>4. call = [op |-> "save", at |-> Root(n), upload |-> upload, todo |-> todo, config |-> left]
  BY <1>1, <1>2, <1>3 DEF Saving
<1> QED BY <1>2, <1>3, <1>4

LEMMA IsDeleting ==
    ASSUME TypeOK, ProgressInv, call.op = "delete"
    PROVE  \E n \in Names, v \in Versions, pc \in {"version", "rest"}, todo \in SUBSET Files :
              /\ call = [op |-> "delete", at |-> Root(n), pc |-> pc, todo |-> todo]
              /\ Deleted(n, v, pc, todo)
<1>1. call \in Deleting
  BY FormOfCall
<1>2. PICK n \in Names, v \in Versions : call.at = Root(n) /\ Deleted(n, v, call.pc, call.todo)
  BY DEF ProgressInv, DeletedInv
<1>3. PICK pc \in {"version", "rest"}, todo \in SUBSET Files : pc = call.pc /\ todo = call.todo
  BY <1>1 DEF Deleting
<1>4. call = [op |-> "delete", at |-> Root(n), pc |-> pc, todo |-> todo]
  BY <1>1, <1>2, <1>3 DEF Deleting
<1> QED BY <1>2, <1>3, <1>4

LEMMA IsDiscarding ==
    ASSUME TypeOK, ProgressInv, call.op = "discard"
    PROVE  \E n \in Names, todo \in SUBSET Files :
              /\ call = [op |-> "discard", at |-> Aside(n), todo |-> todo]
              /\ Discarded(n, todo)
<1>1. call \in Discarding
  BY FormOfCall
<1>2. PICK n \in Names : call.at = Aside(n) /\ Discarded(n, call.todo)
  BY DEF ProgressInv, DiscardedInv
<1>3. PICK todo \in SUBSET Files : todo = call.todo
  BY <1>1 DEF Discarding
<1>4. call = [op |-> "discard", at |-> Aside(n), todo |-> todo]
  BY <1>1, <1>2, <1>3 DEF Discarding
<1> QED BY <1>2, <1>3, <1>4

LEMMA IsMoving ==
    ASSUME TypeOK, ProgressInv, call.op = "move"
    PROVE  \E from \in Places, to \in Places, pc \in {"clear", "copy", "await", "remove"},
              names \in SUBSET Files, todo \in SUBSET Files :
              /\ call = [op |-> "move", from |-> from, to |-> to, pc |-> pc, names |-> names,
                         todo |-> todo]
              /\ <<from, to>> \in Routes /\ from # to
              /\ Moved(from, to, pc, names, todo)
<1>1. call \in Moving
  BY FormOfCall
<1>2. PICK from \in Places, to \in Places, pc \in {"clear", "copy", "await", "remove"},
           names \in SUBSET Files, todo \in SUBSET Files :
         call = [op |-> "move", from |-> from, to |-> to, pc |-> pc, names |-> names, todo |-> todo]
  BY <1>1 DEF Moving
<1>3. <<from, to>> \in Routes /\ Moved(from, to, pc, names, todo)
  BY <1>2 DEF ProgressInv, MovedInv
<1> QED BY <1>2, <1>3, Routed

LEMMA StaysSaving ==
    ASSUME NEW n \in Names, NEW v \in Versions, NEW config \in SUBSET {Config},
           NEW upload, NEW todo, NEW left,
           call' = [op |-> "save", at |-> Root(n), upload |-> upload, todo |-> todo,
                    config |-> left],
           Saved(n, v, config, upload, todo, left)'
    PROVE  ProgressInv'
<1>1. /\ call'.op = "save" /\ call'.at = Root(n) /\ call'.upload = upload
      /\ call'.todo = todo /\ call'.config = left
  OBVIOUS
<1>2. SavedInv'
  BY <1>1 DEF SavedInv, Saved, SameBut, Same, Had
<1> QED BY <1>1, <1>2 DEF ProgressInv, DeletedInv, DiscardedInv, MovedInv

LEMMA StaysDeleting ==
    ASSUME NEW n \in Names, NEW v \in Versions, NEW pc, NEW todo,
           call' = [op |-> "delete", at |-> Root(n), pc |-> pc, todo |-> todo],
           Deleted(n, v, pc, todo)'
    PROVE  ProgressInv'
<1>1. call'.op = "delete" /\ call'.at = Root(n) /\ call'.pc = pc /\ call'.todo = todo
  OBVIOUS
<1>2. DeletedInv'
  BY <1>1 DEF DeletedInv, Deleted, SameBut, Same, Gone, Had
<1> QED BY <1>1, <1>2 DEF ProgressInv, SavedInv, DiscardedInv, MovedInv

LEMMA StaysDiscarding ==
    ASSUME NEW n \in Names, NEW todo,
           call' = [op |-> "discard", at |-> Aside(n), todo |-> todo],
           Discarded(n, todo)'
    PROVE  ProgressInv'
<1>1. call'.op = "discard" /\ call'.at = Aside(n) /\ call'.todo = todo
  OBVIOUS
<1>2. DiscardedInv'
  BY <1>1 DEF DiscardedInv, Discarded, SameBut, Same, Gone, Had
<1> QED BY <1>1, <1>2 DEF ProgressInv, SavedInv, DeletedInv, MovedInv

LEMMA StaysMoving ==
    ASSUME NEW from, NEW to, NEW pc, NEW names, NEW todo, <<from, to>> \in Routes,
           call' = [op |-> "move", from |-> from, to |-> to, pc |-> pc, names |-> names,
                    todo |-> todo],
           Moved(from, to, pc, names, todo)'
    PROVE  ProgressInv'
<1>1. /\ call'.op = "move" /\ call'.from = from /\ call'.to = to /\ call'.pc = pc
      /\ call'.names = names /\ call'.todo = todo
  OBVIOUS
<1>2. MovedInv'
  BY <1>1 DEF MovedInv, Moved, Copying, Copied, Settled, SameBut, Same, Gone, Had
<1> QED BY <1>1, <1>2 DEF ProgressInv, SavedInv, DeletedInv, DiscardedInv

LEMMA Stops ==
    ASSUME call' = Idle
    PROVE  ProgressInv'
BY DEF ProgressInv, SavedInv, DeletedInv, DiscardedInv, MovedInv, Idle

-----------------------------------------------------------------------------
(* Steps of a call *)

(* As a call begins, nothing has changed.                                  *)
LEMMA BeginProgress == TypeOK /\ Begin => ProgressInv'
<1> SUFFICES ASSUME TypeOK, Begin PROVE ProgressInv'
  OBVIOUS
<1>1. ASSUME Refused PROVE ProgressInv'
  BY <1>1, Stops DEF Refused, Starts
<1>2. ASSUME NEW c, Proceeds(c)
      PROVE  /\ call' = c
             /\ \A p \in Places, f \in Files : Same(p, f)'
             /\ \A p \in Places : Had(p)' = Under(p)
             /\ \A p \in Places, f \in Files : f \notin Under(p) => Gone(p, f)'
             /\ SameBut({})'
  BY <1>2 DEF Proceeds, Starts, Same, Had, Under, Gone, SameBut
<1>3. ASSUME NEW n \in Names, NEW v \in Versions, NEW config \in SUBSET {Config},
             BeginSave(n, v, config)
      PROVE  ProgressInv'
  <2> DEFINE c == [op |-> "save", at |-> Root(n), upload |-> calls + 1,
                   todo |-> FilesOf(v), config |-> config]
  <2>1. ASSUME Proceeds(c), Config \in Under(Root(n)) \cup config PROVE ProgressInv'
    <3>1. PICK upload : upload = calls + 1
      OBVIOUS
    <3>2. call' = [op |-> "save", at |-> Root(n), upload |-> upload, todo |-> FilesOf(v),
                   config |-> config]
      BY <1>2, <2>1, <3>1
    <3>3. Saved(n, v, config, upload, FilesOf(v), config)'
      BY <1>2, <2>1, PlaceForms DEF Saved, SameBut
    <3> QED BY <3>2, <3>3, StaysSaving
  <2> QED BY <1>1, <1>3, <2>1 DEF BeginSave
<1>4. ASSUME NEW n \in Names, NEW v \in Versions, BeginDelete(n, v) PROVE ProgressInv'
  <2>1. PICK found : found = Under(Root(n)) \cap FilesOf(v)
    OBVIOUS
  <2>2. ASSUME Proceeds([op |-> "delete", at |-> Root(n), pc |-> "version", todo |-> found]),
               found # {}
        PROVE  ProgressInv'
    <3>1. Deleted(n, v, "version", found)'
      BY <1>2, <2>1, <2>2, PlaceForms DEF Deleted, SameBut
    <3>2. call' = [op |-> "delete", at |-> Root(n), pc |-> "version", todo |-> found]
      BY <1>2, <2>2
    <3> QED BY <3>1, <3>2, StaysDeleting
  <2> QED BY <1>1, <1>4, <2>1, <2>2 DEF BeginDelete
<1>5. ASSUME NEW n \in Names, BeginDiscard(n) PROVE ProgressInv'
  <2>1. PICK found : found = Under(Aside(n))
    OBVIOUS
  <2>2. Proceeds([op |-> "discard", at |-> Aside(n), todo |-> found])
    BY <1>5, <2>1 DEF BeginDiscard
  <2>3. call' = [op |-> "discard", at |-> Aside(n), todo |-> found]
    BY <1>2, <2>2
  <2>4. Discarded(n, found)'
    BY <1>2, <2>1, <2>2, PlaceForms DEF Discarded, SameBut
  <2> QED BY <2>3, <2>4, StaysDiscarding
<1>6. ASSUME NEW from \in Places, NEW to \in Places, Under(from) # {}, <<from, to>> \in Routes,
             <<from, to>> \in Promised!Moves => Under(to) = {},
             NEW pc \in {"clear", "copy"}, NEW todo,
             \/ pc = "copy" /\ Under(to) = {} /\ todo = Under(from)
             \/ pc = "clear" /\ todo = Under(to),
             Proceeds(Mover(from, to, pc, todo))
      PROVE  ProgressInv'
  <2>1. PICK names : names = Under(from)
    OBVIOUS
  <2>2. call' = [op |-> "move", from |-> from, to |-> to, pc |-> pc, names |-> names,
                 todo |-> todo]
    BY <1>2, <1>6, <2>1 DEF Mover
  <2>3. /\ Had(from)' = names /\ Had(to)' = Under(to)
        /\ \A f \in Files : Same(from, f)' /\ Same(to, f)'
        /\ \A f \in Files : f \notin Under(to) => Gone(to, f)'
        /\ SameBut({from, to})'
    BY <1>2, <1>6, <2>1 DEF SameBut
  <2>4. Moved(from, to, pc, names, todo)'
    BY <1>6, <2>1, <2>3 DEF Moved
  <2> QED BY <1>6, <2>2, <2>4, StaysMoving
<1>7. ASSUME NEW n \in Names, NEW m \in Names, BeginRename(n, m) PROVE ProgressInv'
  <2>1. <<Root(n), Root(m)>> \in Promised!Moves
    BY DEF Promised!Moves, Promised!Root, Root
  <2>2. PICK found : found = Under(Root(n))
    OBVIOUS
  <2> QED BY <1>1, <1>6, <1>7, <2>1, <2>2, PlaceForms DEF BeginRename, Routes
<1>8. ASSUME NEW n \in Names, BeginStash(n) PROVE ProgressInv'
  <2>1. <<Root(n), Aside(n)>> \in Promised!Moves
    BY DEF Promised!Moves, Promised!Root, Promised!Aside, Root, Aside
  <2>2. PICK found : found = Under(Root(n))
    OBVIOUS
  <2> QED BY <1>1, <1>6, <1>8, <2>1, <2>2, PlaceForms DEF BeginStash, Routes
<1>9. ASSUME NEW n \in Names, BeginRestore(n) PROVE ProgressInv'
  <2>1. /\ <<Aside(n), Root(n)>> \in Promised!Restores
        /\ <<Aside(n), Root(n)>> \notin Promised!Moves
    BY DEF Promised!Restores, Promised!Moves, Promised!Root, Promised!Aside, Root, Aside
  <2>2. PICK found : found = Under(Root(n))
    OBVIOUS
  <2> QED BY <1>1, <1>6, <1>9, <2>1, <2>2, PlaceForms DEF BeginRestore, Routes
<1> QED BY <1>3, <1>4, <1>5, <1>7, <1>8, <1>9 DEF Begin

(* What a removal does, in terms of what was found.                        *)
LEMMA RemovalKeeps ==
    ASSUME TypeOK, NEW p \in Places, NEW f \in Files, Remove(p, f), before' = before
    PROVE  /\ Gone(p, f)' /\ Settled(p, f)'
           /\ \A q \in Places : Had(q)' = Had(q)
           /\ \A q \in Places, g \in Files :
                 q # p \/ g # f =>
                    /\ Same(q, g)' = Same(q, g) /\ Gone(q, g)' = Gone(q, g)
                    /\ blobs'[q][g] = blobs[q][g] /\ copy'[q][g] = copy[q][g]
BY RemoveEffect DEF Gone, Had, Same, Settled

LEMMA UploadProgress ==
    ASSUME TypeOK, ProgressInv, Upload
    PROVE  ProgressInv'
<1>1. PICK n \in Names, v \in Versions, config \in SUBSET {Config},
           upload \in Uploads, todo \in SUBSET Files, left \in SUBSET {Config} :
         /\ call = [op |-> "save", at |-> Root(n), upload |-> upload, todo |-> todo,
                    config |-> left]
         /\ Saved(n, v, config, upload, todo, left)
  BY IsSaving DEF Upload
<1>2. PICK f \in IF call.todo # {} THEN call.todo ELSE call.config :
         IF Settled(call.at, f)
         THEN /\ Put(call.at, f, call.upload)
              /\ copy' = [copy EXCEPT ![call.at][f] = None]
              /\ Continues([call EXCEPT !.todo = @ \ {f}, !.config = @ \ {f}])
         ELSE Raises /\ UNCHANGED <<blobs, copy, faults>>
  BY Zenon DEF Upload
<1>3. CASE ~Settled(Root(n), f)
  <2>1. call.at = Root(n)
    BY <1>1
  <2> QED BY <1>2, <1>3, <2>1, Stops, Zenon DEF Raises
<1>4. CASE Settled(Root(n), f)
  <2>1. /\ Root(n) \in Places /\ upload \in Content /\ None \in Content
        /\ f \in Files /\ f \in todo \cup left
    <3>1. f \in IF todo # {} THEN todo ELSE left
      BY <1>1, <1>2, Zenon
    <3> QED BY <3>1, PlaceForms, AzureFiles DEF Content
  <2>2. /\ blobs'[Root(n)][f] = upload /\ copy'[Root(n)][f] = None
        /\ \A q \in Places, g \in Files :
              q # Root(n) \/ g # f => blobs'[q][g] = blobs[q][g] /\ copy'[q][g] = copy[q][g]
    <3>1. call.at = Root(n) /\ call.upload = upload
      BY <1>1
    <3>2. Put(Root(n), f, upload) /\ copy' = [copy EXCEPT ![Root(n)][f] = None]
      BY <1>2, <1>4, <3>1, Zenon
    <3>3. /\ blobs'[Root(n)][f] = upload
          /\ \A q \in Places, g \in Files : q # Root(n) \/ g # f => blobs'[q][g] = blobs[q][g]
      BY <2>1, <3>2, PutEffect
    <3>4. /\ copy'[Root(n)][f] = None
          /\ \A q \in Places, g \in Files : q # Root(n) \/ g # f => copy'[q][g] = copy[q][g]
      BY <2>1, <3>2 DEF TypeOK
    <3> QED BY <3>3, <3>4
  <2>3. /\ call' = [op |-> "save", at |-> Root(n), upload |-> upload, todo |-> todo \ {f},
                    config |-> left \ {f}]
        /\ before' = before
    <3>1. [call EXCEPT !.todo = @ \ {f}, !.config = @ \ {f}] =
             [op |-> "save", at |-> Root(n), upload |-> upload, todo |-> todo \ {f},
              config |-> left \ {f}]
      <4>1. PICK c : c = [call EXCEPT !.todo = @ \ {f}, !.config = @ \ {f}]
        OBVIOUS
      <4>2. call \in Saving
        BY <1>1, FormOfCall
      <4>3. c \in Saving
        BY <4>1, <4>2 DEF Saving
      <4>4. c.at = Root(n) /\ c.upload = upload /\ c.todo = todo \ {f} /\ c.config = left \ {f}
        BY <1>1, <4>1, <4>2 DEF Saving
      <4>5. PICK a \in Places, u \in Uploads, t \in SUBSET Files, l \in SUBSET {Config} :
               c = [op |-> "save", at |-> a, upload |-> u, todo |-> t, config |-> l]
        BY <4>3 DEF Saving
      <4>6. a = Root(n) /\ u = upload /\ t = todo \ {f} /\ l = left \ {f}
        BY <4>4, <4>5
      <4> QED BY <4>1, <4>5, <4>6
    <3>2. call.at = Root(n)
      BY <1>1
    <3>3. Continues([call EXCEPT !.todo = @ \ {f}, !.config = @ \ {f}])
      BY <1>2, <1>4, <3>2, Zenon
    <3> QED BY <3>1, <3>3, Zenon DEF Continues
  <2>4. Saved(n, v, config, upload, todo \ {f}, left \ {f})'
    <3>1. SameBut({Root(n)})' /\ Had(Root(n))' = Had(Root(n))
      BY <1>1, <2>2, <2>3 DEF Saved, SameBut, Same, Had
    <3>2. ASSUME NEW g \in Files
          PROVE  IF g \in (FilesOf(v) \ (todo \ {f})) \cup (config \ (left \ {f}))
                 THEN blobs'[Root(n)][g] = upload /\ copy'[Root(n)][g] = None
                 ELSE Same(Root(n), g)'
      BY <1>1, <2>1, <2>2, <2>3 DEF Saved, Same
    <3> QED BY <1>1, <3>1, <3>2 DEF Saved
  <2> QED BY <2>3, <2>4, StaysSaving
<1> QED BY <1>3, <1>4

LEMMA DeleteBlobProgress ==
    ASSUME TypeOK, ProgressInv, DeleteBlob
    PROVE  ProgressInv'
<1>1. CASE call.op = "delete"
  <2>1. PICK n \in Names, v \in Versions, pc \in {"version", "rest"}, todo \in SUBSET Files :
           /\ call = [op |-> "delete", at |-> Root(n), pc |-> pc, todo |-> todo]
           /\ Deleted(n, v, pc, todo)
    BY <1>1, IsDeleting
  <2>2. PICK f \in todo :
           /\ Remove(Root(n), f) /\ before' = before
           /\ call' = [op |-> "delete", at |-> Root(n), pc |-> pc, todo |-> todo \ {f}]
    BY <2>1 DEF DeleteBlob, Continues
  <2>3. Deleted(n, v, pc, todo \ {f})'
    <3>1. /\ Gone(Root(n), f)' /\ Had(Root(n))' = Had(Root(n))
          /\ \A q \in Places, g \in Files :
                q # Root(n) \/ g # f => /\ Same(q, g)' = Same(q, g) /\ Gone(q, g)' = Gone(q, g)
      BY <2>2, PlaceForms, RemovalKeeps
    <3>2. SameBut({Root(n)})'
      BY <2>1, <3>1 DEF Deleted, SameBut
    <3>3. CASE pc = "version"
      BY <2>1, <2>2, <3>1, <3>2, <3>3, PlaceForms DEF Deleted
    <3>4. CASE pc = "rest"
      BY <2>1, <2>2, <3>1, <3>2, <3>4, PlaceForms DEF Deleted
    <3> QED BY <3>3, <3>4
  <2> QED BY <2>2, <2>3, StaysDeleting
<1>2. CASE call.op = "discard"
  <2>1. PICK n \in Names, todo \in SUBSET Files :
           /\ call = [op |-> "discard", at |-> Aside(n), todo |-> todo]
           /\ Discarded(n, todo)
    BY <1>2, IsDiscarding
  <2>2. PICK f \in todo :
           /\ Remove(Aside(n), f) /\ before' = before
           /\ call' = [op |-> "discard", at |-> Aside(n), todo |-> todo \ {f}]
    BY <2>1 DEF DeleteBlob, Continues
  <2>3. Discarded(n, todo \ {f})'
    <3>1. /\ Gone(Aside(n), f)' /\ Had(Aside(n))' = Had(Aside(n))
          /\ \A q \in Places, g \in Files :
                q # Aside(n) \/ g # f => /\ Same(q, g)' = Same(q, g) /\ Gone(q, g)' = Gone(q, g)
      BY <2>2, PlaceForms, RemovalKeeps
    <3>2. SameBut({Aside(n)})'
      BY <2>1, <3>1 DEF Discarded, SameBut
    <3> QED BY <2>1, <2>2, <3>1, <3>2, PlaceForms DEF Discarded
  <2> QED BY <2>2, <2>3, StaysDiscarding
<1> QED BY <1>1, <1>2 DEF DeleteBlob

LEMMA DeleteRestProgress ==
    ASSUME TypeOK, ProgressInv, DeleteRest
    PROVE  ProgressInv'
<1>1. PICK n \in Names, v \in Versions, pc \in {"version", "rest"}, todo \in SUBSET Files :
         /\ call = [op |-> "delete", at |-> Root(n), pc |-> pc, todo |-> todo]
         /\ Deleted(n, v, pc, todo)
  BY IsDeleting DEF DeleteRest
<1>2. PICK under : under = Under(Root(n))
  OBVIOUS
<1>3. PICK rest : rest = IF under \subseteq {Config} THEN under ELSE {}
  OBVIOUS
<1>4. /\ call' = [op |-> "delete", at |-> Root(n), pc |-> "rest", todo |-> rest]
      /\ pc = "version" /\ todo = {} /\ UNCHANGED <<blobs, before>>
  BY <1>1, <1>2, <1>3 DEF DeleteRest, Continues
<1>5. /\ Had(Root(n)) \cap FilesOf(v) # {} /\ SameBut({Root(n)})
      /\ \A f \in Files : IF f \in FilesOf(v) THEN Gone(Root(n), f) ELSE Same(Root(n), f)
  BY <1>1, <1>4 DEF Deleted
<1>6. under = Had(Root(n)) \ FilesOf(v)
  BY <1>2, <1>5 DEF Under, Had, Same, Gone
<1>7. Deleted(n, v, "rest", rest)'
  <2>1. /\ Had(Root(n))' = Had(Root(n)) /\ SameBut({Root(n)})'
        /\ \A f \in Files : /\ Same(Root(n), f)' = Same(Root(n), f)
                            /\ Gone(Root(n), f)' = Gone(Root(n), f)
    BY <1>4, <1>5 DEF Had, SameBut, Same, Gone
  <2>2. CASE under \subseteq {Config}
    <3>1. \A f \in Files : IF f \in rest THEN Same(Root(n), f) ELSE Gone(Root(n), f)
      BY <1>2, <1>3, <1>5, <1>6, <2>2 DEF Under, Gone
    <3>2. Had(Root(n)) \subseteq FilesOf(v) \cup {Config} /\ rest \subseteq {Config}
      BY <1>3, <1>6, <2>2
    <3> QED BY <1>5, <2>1, <3>1, <3>2 DEF Deleted
  <2>3. CASE ~(under \subseteq {Config})
    <3>1. ~(Had(Root(n)) \subseteq FilesOf(v) \cup {Config}) /\ rest = {}
      BY <1>3, <1>6, <2>3
    <3> QED BY <1>5, <2>1, <3>1 DEF Deleted
  <2> QED BY <2>2, <2>3
<1> QED BY <1>4, <1>7, StaysDeleting

(* A step of a call that touches no blob but that of f at p.               *)
Touches(p, f) ==
    /\ before' = before
    /\ \A q \in Places, g \in Files :
          q # p \/ g # f => blobs'[q][g] = blobs[q][g] /\ copy'[q][g] = copy[q][g]

LEMMA MoveProgress ==
    ASSUME TypeOK, ProgressInv, Clear \/ StartCopy \/ AwaitCopy \/ RemoveOriginal
    PROVE  ProgressInv'
<1>1. PICK from \in Places, to \in Places, pc \in {"clear", "copy", "await", "remove"},
           names \in SUBSET Files, todo \in SUBSET Files :
         /\ call = [op |-> "move", from |-> from, to |-> to, pc |-> pc, names |-> names,
                    todo |-> todo]
         /\ <<from, to>> \in Routes /\ from # to
         /\ Moved(from, to, pc, names, todo)
  BY IsMoving DEF Clear, StartCopy, AwaitCopy, RemoveOriginal
<1>2. ASSUME NEW pc1, NEW todo1, Moved(from, to, pc1, names, todo1)',
             call' = [op |-> "move", from |-> from, to |-> to, pc |-> pc1, names |-> names,
                      todo |-> todo1]
      PROVE  ProgressInv'
  BY <1>1, <1>2, StaysMoving
<1>3. ASSUME NEW pc1, NEW todo1, UNCHANGED <<blobs, copy, before>>,
             Moved(from, to, pc1, names, todo1)
      PROVE  Moved(from, to, pc1, names, todo1)'
  BY <1>3 DEF Moved, Copied, Copying, Settled, Same, Gone, SameBut, Had
<1>4. ASSUME NEW p \in {from, to}, NEW f \in Files, Touches(p, f)
      PROVE  /\ Had(from)' = names /\ names # {} /\ SameBut({from, to})'
             /\ <<from, to>> \in Promised!Moves => Had(to)' = {}
             /\ \A q \in Places, g \in Files :
                   q # p \/ g # f => Same(q, g)' = Same(q, g) /\ Gone(q, g)' = Gone(q, g)
             /\ \A g \in Files \ {f} : /\ Copied(from, to, g)' = Copied(from, to, g)
                                       /\ Copying(from, to, g)' = Copying(from, to, g)
  <2>1. /\ Had(from)' = names /\ names # {}
        /\ <<from, to>> \in Promised!Moves => Had(to)' = {}
    BY <1>1, <1>4 DEF Moved, Had, Touches
  <2>2. \A q \in Places, g \in Files :
           q # p \/ g # f => Same(q, g)' = Same(q, g) /\ Gone(q, g)' = Gone(q, g)
    BY <1>4 DEF Same, Gone, Touches
  <2>3. SameBut({from, to})'
    BY <1>1, <2>2 DEF Moved, SameBut
  <2>4. ASSUME NEW g \in Files \ {f}
        PROVE  /\ Copied(from, to, g)' = Copied(from, to, g)
               /\ Copying(from, to, g)' = Copying(from, to, g)
    BY <1>1, <1>4 DEF Copied, Copying, Settled, Touches
  <2> QED BY <2>1, <2>2, <2>3, <2>4
<1>5. CASE Clear
  <2>1. pc = "clear"
    BY <1>1, <1>5 DEF Clear
  <2>2. ASSUME NEW f \in todo, Remove(to, f), Continues([call EXCEPT !.todo = @ \ {f}])
        PROVE  ProgressInv'
    <3>1. before' = before /\ Gone(to, f)'
      BY <2>2, RemovalKeeps DEF Continues
    <3>2. \A q \in Places, g \in Files :
             q # to \/ g # f => blobs'[q][g] = blobs[q][g] /\ copy'[q][g] = copy[q][g]
      BY <2>2, RemoveEffect
    <3>3. /\ Had(from)' = names /\ names # {} /\ SameBut({from, to})'
          /\ <<from, to>> \in Promised!Moves => Had(to)' = {}
          /\ \A q \in Places, g \in Files :
                q # to \/ g # f => Same(q, g)' = Same(q, g) /\ Gone(q, g)' = Gone(q, g)
      BY <1>1, <1>4, <3>1, <3>2 DEF Touches
    <3>4. Moved(from, to, "clear", names, todo \ {f})'
      BY <1>1, <2>1, <3>1, <3>3 DEF Moved
    <3>5. call' = [op |-> "move", from |-> from, to |-> to, pc |-> "clear", names |-> names,
                   todo |-> todo \ {f}]
      BY <1>1, <2>1, <2>2 DEF Continues
    <3> QED BY <1>2, <3>4, <3>5
  <2>3. ASSUME todo = {}, Continues([call EXCEPT !.pc = "copy", !.todo = call.names]),
               UNCHANGED <<blobs, copy>>
        PROVE  ProgressInv'
    <3>1. Moved(from, to, "copy", names, names)
      BY <1>1, <2>1, <2>3 DEF Moved
    <3>2. UNCHANGED <<blobs, copy, before>>
      BY <2>3 DEF Continues
    <3>3. call' = [op |-> "move", from |-> from, to |-> to, pc |-> "copy", names |-> names,
                   todo |-> names]
      BY <1>1, <2>3 DEF Continues
    <3> QED BY <1>2, <1>3, <3>1, <3>2, <3>3
  <2> QED BY <1>1, <1>5, <2>2, <2>3 DEF Clear
<1>6. CASE StartCopy
  <2>1. pc = "copy"
    BY <1>1, <1>6 DEF StartCopy
  <2>2. PICK f \in todo :
          IF Settled(from, f)
          THEN /\ Put(to, f, Partial)
               /\ copy' = [copy EXCEPT ![to][f] = blobs[from][f]]
               /\ Continues(IF todo = {f} THEN [call EXCEPT !.pc = "await", !.todo = call.names]
                            ELSE [call EXCEPT !.todo = @ \ {f}])
          ELSE Raises /\ UNCHANGED <<blobs, copy, faults>>
    BY <1>1, <1>6 DEF StartCopy
  <2>3. CASE ~Settled(from, f)
    BY <2>2, <2>3, Stops DEF Raises
  <2>4. CASE Settled(from, f)
    <3>1. f \in names /\ Same(from, f) /\ Partial \in Content /\ blobs[from][f] \in Content
      BY <1>1, <2>1 DEF Moved, Content, TypeOK
    <3>2. /\ blobs'[to][f] = Partial /\ copy'[to][f] = blobs[from][f]
          /\ \A q \in Places, g \in Files :
                q # to \/ g # f => blobs'[q][g] = blobs[q][g] /\ copy'[q][g] = copy[q][g]
      BY <2>2, <2>4, <3>1, PutEffect DEF TypeOK
    <3>3. before' = before
      BY <2>2, <2>4 DEF Continues
    <3>4. Copying(from, to, f)'
      BY <1>1, <2>4, <3>1, <3>2, <3>3 DEF Copying, Settled, Same
    <3>5. /\ Had(from)' = names /\ names # {} /\ SameBut({from, to})'
          /\ <<from, to>> \in Promised!Moves => Had(to)' = {}
          /\ \A q \in Places, g \in Files :
                q # to \/ g # f => Same(q, g)' = Same(q, g) /\ Gone(q, g)' = Gone(q, g)
          /\ \A g \in Files \ {f} : Copying(from, to, g)' = Copying(from, to, g)
      BY <1>1, <1>4, <3>1, <3>2, <3>3 DEF Touches
    <3>6. CASE todo = {f}
      <4>1. Moved(from, to, "await", names, names)'
        BY <1>1, <2>1, <3>1, <3>4, <3>5, <3>6 DEF Moved
      <4>2. call' = [op |-> "move", from |-> from, to |-> to, pc |-> "await", names |-> names,
                     todo |-> names]
        BY <1>1, <2>2, <2>4, <3>6 DEF Continues
      <4> QED BY <1>2, <4>1, <4>2
    <3>7. CASE todo # {f}
      <4>1. Moved(from, to, "copy", names, todo \ {f})'
        BY <1>1, <2>1, <3>1, <3>4, <3>5 DEF Moved
      <4>2. call' = [op |-> "move", from |-> from, to |-> to, pc |-> "copy", names |-> names,
                     todo |-> todo \ {f}]
        BY <1>1, <2>1, <2>2, <2>4, <3>7 DEF Continues
      <4> QED BY <1>2, <4>1, <4>2
    <3> QED BY <3>6, <3>7
  <2> QED BY <2>3, <2>4
<1>7. CASE AwaitCopy
  <2>1. pc = "await" /\ UNCHANGED <<blobs, copy>>
    BY <1>1, <1>7 DEF AwaitCopy
  <2>2. PICK f \in todo :
           \/ /\ copy[to][f] = None
              /\ Continues(IF todo = {f} THEN [call EXCEPT !.pc = "remove", !.todo = call.names]
                           ELSE [call EXCEPT !.todo = @ \ {f}])
           \/ copy[to][f] = Failed /\ Raises /\ UNCHANGED faults
    BY <1>1, <1>7 DEF AwaitCopy
  <2>3. CASE Raises
    BY <2>3, Stops DEF Raises
  <2>4. CASE copy[to][f] = None /\
             Continues(IF todo = {f} THEN [call EXCEPT !.pc = "remove", !.todo = call.names]
                       ELSE [call EXCEPT !.todo = @ \ {f}])
    <3>1. f \in names /\ f \in Files /\ before[from][f] # None
      BY <1>1, <2>1 DEF Moved, Had
    <3>2. Copied(from, to, f)
      BY <1>1, <2>1, <2>4, <3>1, AzureValues DEF Moved, Copying
    <3>3. UNCHANGED <<blobs, copy, before>>
      BY <2>1, <2>4 DEF Continues
    <3>4. CASE todo = {f}
      <4>1. \A g \in Files : Same(from, g) /\ (g \notin names => Gone(from, g))
        BY <1>1, <2>1 DEF Moved, Had, Same, Gone
      <4>2. Moved(from, to, "remove", names, names)
        BY <1>1, <2>1, <3>2, <3>4, <4>1 DEF Moved
      <4>3. call' = [op |-> "move", from |-> from, to |-> to, pc |-> "remove", names |-> names,
                     todo |-> names]
        BY <1>1, <2>4, <3>4 DEF Continues
      <4> QED BY <1>2, <1>3, <3>3, <4>2, <4>3
    <3>5. CASE todo # {f}
      <4>1. Moved(from, to, "await", names, todo \ {f})
        BY <1>1, <2>1, <3>1, <3>2 DEF Moved
      <4>2. call' = [op |-> "move", from |-> from, to |-> to, pc |-> "await", names |-> names,
                     todo |-> todo \ {f}]
        BY <1>1, <2>1, <2>4, <3>5 DEF Continues
      <4> QED BY <1>2, <1>3, <3>3, <4>1, <4>2
    <3> QED BY <3>4, <3>5
  <2> QED BY <2>2, <2>3, <2>4
<1>8. CASE RemoveOriginal
  <2>1. pc = "remove"
    BY <1>1, <1>8 DEF RemoveOriginal
  <2>2. PICK f \in todo : Remove(from, f) /\ Continues([call EXCEPT !.todo = @ \ {f}])
    BY <1>1, <1>8 DEF RemoveOriginal
  <2>3. before' = before /\ Gone(from, f)' /\ Settled(from, f)'
    BY <2>2, RemovalKeeps DEF Continues
  <2>4. \A q \in Places, g \in Files :
           q # from \/ g # f => blobs'[q][g] = blobs[q][g] /\ copy'[q][g] = copy[q][g]
    BY <2>2, RemoveEffect
  <2>5. /\ Had(from)' = names /\ names # {} /\ SameBut({from, to})'
        /\ <<from, to>> \in Promised!Moves => Had(to)' = {}
        /\ \A q \in Places, g \in Files :
              q # from \/ g # f => Same(q, g)' = Same(q, g) /\ Gone(q, g)' = Gone(q, g)
        /\ \A g \in Files \ {f} : Copied(from, to, g)' = Copied(from, to, g)
    BY <1>1, <1>4, <2>2, <2>3, <2>4 DEF Touches
  <2>6. Copied(from, to, f)'
    <3>1. Copied(from, to, f)
      BY <1>1, <2>1 DEF Moved
    <3> QED BY <1>1, <2>3, <2>4, <3>1 DEF Copied
  <2>7. Moved(from, to, "remove", names, todo \ {f})'
    BY <1>1, <2>1, <2>3, <2>5, <2>6 DEF Moved
  <2>8. call' = [op |-> "move", from |-> from, to |-> to, pc |-> "remove", names |-> names,
                 todo |-> todo \ {f}]
    BY <1>1, <2>1, <2>2 DEF Continues
  <2> QED BY <1>2, <2>7, <2>8
<1> QED BY <1>5, <1>6, <1>7, <1>8

-----------------------------------------------------------------------------
(* Steps of the service *)

(* What the invariant needs of a step that no call takes.                  *)
Keeps ==
    /\ call' = call
    /\ \A p \in Places : Had(p)' = Had(p)
    /\ \A p \in Places, f \in Files :
          /\ Same(p, f) => Same(p, f)'
          /\ Gone(p, f) => Gone(p, f)'
          /\ copy[p][f] = None => copy'[p][f] = None /\ blobs'[p][f] = blobs[p][f]
    /\ \A p \in Places, q \in Places, f \in Files :
          /\ Copied(p, q, f) => Copied(p, q, f)'
          /\ Copying(p, q, f) => Copying(p, q, f)'

LEMMA CopyEndsKeeps ==
    ASSUME TypeOK, NEW p \in Places, NEW f \in Files, CopyEnds(p, f)
    PROVE  Keeps
<1>1. /\ call' = call /\ ~Settled(p, f)
      /\ blobs[p][f] = Partial /\ copy[p][f] \in Content \ {None}
      /\ blobs'[p][f] = copy[p][f] /\ copy'[p][f] = None
      /\ before'[p][f] = IF before[p][f] = Partial THEN copy[p][f] ELSE before[p][f]
  <2>1. call' = call /\ ~Settled(p, f)
    BY DEF CopyEnds
  <2> QED BY <2>1, CopyEndsEffect
<1>2. \A q \in Places, g \in Files :
         q # p \/ g # f => /\ blobs'[q][g] = blobs[q][g] /\ copy'[q][g] = copy[q][g]
                           /\ before'[q][g] = before[q][g]
  BY CopyEndsEffect
<1>3. ASSUME NEW q \in Places PROVE Had(q)' = Had(q)
  <2>1. ASSUME NEW g \in Files PROVE before'[q][g] # None <=> before[q][g] # None
    <3>1. CASE q = p /\ g = f
      BY <1>1, <3>1, AzureValues
    <3>2. CASE q # p \/ g # f
      BY <1>2, <3>2
    <3> QED BY <3>1, <3>2
  <2> QED BY <2>1 DEF Had
<1>4. ASSUME NEW q \in Places, NEW g \in Files
      PROVE  /\ Same(q, g) => Same(q, g)'
             /\ Gone(q, g) => Gone(q, g)'
             /\ copy[q][g] = None => copy'[q][g] = None /\ blobs'[q][g] = blobs[q][g]
  BY <1>1, <1>2, AzureValues DEF Same, Gone, Settled
<1>5. ASSUME NEW q \in Places, NEW g \in Files, Settled(q, g)
      PROVE  Settled(q, g)' /\ before'[q][g] = before[q][g]
  BY <1>1, <1>2, <1>5 DEF Settled
<1>6. ASSUME NEW q \in Places, NEW r \in Places, NEW g \in Files
      PROVE  /\ Copied(q, r, g) => Copied(q, r, g)'
             /\ Copying(q, r, g) => Copying(q, r, g)'
  <2>1. Copied(q, r, g) => Copied(q, r, g)'
    BY <1>4, <1>5 DEF Copied
  <2>2. CASE Settled(q, g) /\ blobs[r][g] = Partial /\ copy[r][g] \in {before[q][g], Failed}
    <3>1. Settled(q, g)' /\ before'[q][g] = before[q][g]
      BY <1>5, <2>2
    <3>2. CASE r = p /\ g = f
      <4>1. copy[r][g] = before[q][g]
        BY <1>1, <2>2, <3>2 DEF Settled
      <4>2. copy'[r][g] = None /\ blobs'[r][g] = before[q][g]
        BY <1>1, <3>2, <4>1
      <4> QED BY <3>1, <4>2 DEF Copying, Copied
    <3>3. CASE r # p \/ g # f
      <4>1. blobs'[r][g] = Partial /\ copy'[r][g] \in {before'[q][g], Failed}
        BY <1>2, <2>2, <3>1, <3>3
      <4> QED BY <2>1, <3>1, <4>1 DEF Copying
    <3> QED BY <3>2, <3>3
  <2> QED BY <2>1, <2>2 DEF Copying
<1> QED BY <1>1, <1>3, <1>4, <1>6 DEF Keeps

LEMMA CopyFailsKeeps ==
    ASSUME TypeOK, NEW p \in Places, NEW f \in Files, CopyFails(p, f)
    PROVE  Keeps
<1>1. /\ UNCHANGED <<blobs, call, before>> /\ ~Settled(p, f) /\ copy'[p][f] = Failed
      /\ \A q \in Places, g \in Files : q # p \/ g # f => copy'[q][g] = copy[q][g]
  BY CopyFailsEffect
<1>2. \A q \in Places, g \in Files :
         /\ Same(q, g)' = Same(q, g) /\ Gone(q, g)' = Gone(q, g)
         /\ Settled(q, g) => Settled(q, g)' /\ copy'[q][g] = copy[q][g]
         /\ copy'[q][g] \in {copy[q][g], Failed}
  BY <1>1 DEF Same, Gone, Settled
<1>3. \A q \in Places : Had(q)' = Had(q)
  BY <1>1 DEF Had
<1>4. ASSUME NEW q \in Places, NEW r \in Places, NEW g \in Files
      PROVE  /\ Copied(q, r, g) => Copied(q, r, g)'
             /\ Copying(q, r, g) => Copying(q, r, g)'
  <2>1. Copied(q, r, g) => Copied(q, r, g)'
    BY <1>1, <1>2 DEF Copied, Settled
  <2> QED BY <1>1, <1>2, <2>1 DEF Copying
<1> QED BY <1>1, <1>2, <1>3, <1>4 DEF Keeps, Settled

LEMMA KeepsProgress ==
    ASSUME TypeOK, ProgressInv, Keeps
    PROVE  ProgressInv'
<1>1. ASSUME NEW changed, SameBut(changed) PROVE SameBut(changed)'
  BY <1>1 DEF SameBut, Keeps
<1>2. CASE call = Idle
  BY <1>2, Stops DEF Keeps
<1>3. CASE call.op = "save"
  <2>1. PICK n \in Names, v \in Versions, config \in SUBSET {Config},
             upload \in Uploads, todo \in SUBSET Files, left \in SUBSET {Config} :
           /\ call = [op |-> "save", at |-> Root(n), upload |-> upload, todo |-> todo,
                      config |-> left]
           /\ Saved(n, v, config, upload, todo, left)
    BY <1>3, IsSaving
  <2>2. Saved(n, v, config, upload, todo, left)'
    <3>1. SameBut({Root(n)})' /\ Had(Root(n))' = Had(Root(n))
      BY <1>1, <2>1, PlaceForms DEF Saved, Keeps
    <3> QED BY <2>1, <3>1, PlaceForms DEF Saved, Keeps
  <2> QED BY <2>1, <2>2, StaysSaving DEF Keeps
<1>4. CASE call.op = "delete"
  <2>1. PICK n \in Names, v \in Versions, pc \in {"version", "rest"}, todo \in SUBSET Files :
           /\ call = [op |-> "delete", at |-> Root(n), pc |-> pc, todo |-> todo]
           /\ Deleted(n, v, pc, todo)
    BY <1>4, IsDeleting
  <2>2. Deleted(n, v, pc, todo)'
    <3>1. SameBut({Root(n)})' /\ Had(Root(n))' = Had(Root(n))
      BY <1>1, <2>1, PlaceForms DEF Deleted, Keeps
    <3>2. \A f \in Files : /\ Same(Root(n), f) => Same(Root(n), f)'
                           /\ Gone(Root(n), f) => Gone(Root(n), f)'
      BY PlaceForms DEF Keeps
    <3> QED BY <2>1, <3>1, <3>2 DEF Deleted
  <2> QED BY <2>1, <2>2, StaysDeleting DEF Keeps
<1>5. CASE call.op = "discard"
  <2>1. PICK n \in Names, todo \in SUBSET Files :
           /\ call = [op |-> "discard", at |-> Aside(n), todo |-> todo]
           /\ Discarded(n, todo)
    BY <1>5, IsDiscarding
  <2>2. Discarded(n, todo)'
    <3>1. SameBut({Aside(n)})' /\ Had(Aside(n))' = Had(Aside(n))
      BY <1>1, <2>1, PlaceForms DEF Discarded, Keeps
    <3> QED BY <2>1, <3>1, PlaceForms DEF Discarded, Keeps
  <2> QED BY <2>1, <2>2, StaysDiscarding DEF Keeps
<1>6. CASE call.op = "move"
  <2>1. PICK from \in Places, to \in Places, pc \in {"clear", "copy", "await", "remove"},
             names \in SUBSET Files, todo \in SUBSET Files :
           /\ call = [op |-> "move", from |-> from, to |-> to, pc |-> pc, names |-> names,
                      todo |-> todo]
           /\ <<from, to>> \in Routes /\ from # to
           /\ Moved(from, to, pc, names, todo)
    BY <1>6, IsMoving
  <2>2. Moved(from, to, pc, names, todo)'
    <3>1. SameBut({from, to})' /\ Had(from)' = Had(from) /\ Had(to)' = Had(to)
      BY <1>1, <2>1 DEF Moved, Keeps
    <3>2. \A f \in Files : /\ Same(from, f) => Same(from, f)'
                           /\ Gone(from, f) => Gone(from, f)'
                           /\ Same(to, f) => Same(to, f)'
                           /\ Gone(to, f) => Gone(to, f)'
                           /\ Copied(from, to, f) => Copied(from, to, f)'
                           /\ Copying(from, to, f) => Copying(from, to, f)'
      BY DEF Keeps
    <3> QED BY <2>1, <3>1, <3>2 DEF Moved
  <2> QED BY <2>1, <2>2, StaysMoving DEF Keeps
<1> QED BY <1>2, <1>3, <1>4, <1>5, <1>6 DEF TypeOK, Call, Saving, Deleting, Moving, Discarding

-----------------------------------------------------------------------------
(* The invariant, and what follows from it *)

LEMMA ProgressStep == TypeOK /\ ProgressInv /\ [Next]_vars => ProgressInv'
<1> SUFFICES ASSUME TypeOK, ProgressInv, [Next]_vars PROVE ProgressInv'
  OBVIOUS
<1>1. CASE UNCHANGED vars
  <2>1. Keeps
    BY <1>1 DEF vars, Keeps, Had, Same, Gone, Copied, Copying, Settled
  <2> QED BY <2>1, KeepsProgress
<1>2. CASE Begin
  BY <1>2, BeginProgress
<1>3. CASE Proceed
  <2>1. CASE Deadline \/ Return
    BY <2>1, Stops DEF Deadline, Return, Raises, Ends
  <2> QED BY <1>3, <2>1, UploadProgress, DeleteBlobProgress, DeleteRestProgress, MoveProgress
          DEF Proceed
<1>4. CASE Interrupted
  BY <1>4, Stops DEF Interrupted, Raises
<1>5. ASSUME NEW p \in Places, NEW f \in Files, CopyEnds(p, f) \/ CopyFails(p, f)
      PROVE  ProgressInv'
  BY <1>5, CopyEndsKeeps, CopyFailsKeeps, KeepsProgress
<1> QED BY <1>1, <1>2, <1>3, <1>4, <1>5 DEF Next

LEMMA AlwaysProgress == Spec => [](TypeOK /\ ProgressInv)
<1>1. Init => ProgressInv
  BY DEF Init, ProgressInv, SavedInv, DeletedInv, DiscardedInv, MovedInv, Idle
<1> QED BY <1>1, AzureTypeCorrect, ProgressStep, PTL DEF Spec

(* "A failed or slow copy never costs the only copy of a model": at every  *)
(* moment of a move each file is whole at its old place or at its new one. *)
THEOREM MovesAreSafe == Spec => []MovesKeepTheOnlyCopy
<1>1. TypeOK /\ ProgressInv => MovesKeepTheOnlyCopy
  <2> SUFFICES ASSUME TypeOK, ProgressInv, call.op = "move", NEW f \in Files
               PROVE  before[call.from][f] \in {blobs[call.from][f], blobs[call.to][f]}
    BY DEF MovesKeepTheOnlyCopy
  <2>1. PICK from \in Places, to \in Places, pc \in {"clear", "copy", "await", "remove"},
             names \in SUBSET Files, todo \in SUBSET Files :
           /\ call = [op |-> "move", from |-> from, to |-> to, pc |-> pc, names |-> names,
                      todo |-> todo]
           /\ <<from, to>> \in Routes /\ from # to
           /\ Moved(from, to, pc, names, todo)
    BY IsMoving
  <2>2. CASE pc \in {"clear", "copy", "await"}
    BY <2>1, <2>2 DEF Moved, Same
  <2>3. CASE pc = "remove"
    BY <2>1, <2>3 DEF Moved, Copied, Gone, Had
  <2> QED BY <2>1, <2>2, <2>3
<1> QED BY <1>1, AlwaysProgress, PTL

-----------------------------------------------------------------------------
(* What is promised *)

LEMMA SameWords ==
    /\ \A n \in Names : Promised!Root(n) = Root(n) /\ Promised!Aside(n) = Aside(n)
    /\ \A v \in Versions : Promised!FilesOf(v) = FilesOf(v)
    /\ Promised!Places = Places
    /\ call # Idle => \A p \in Places : Promised!Under(p) = Had(p)
BY DEF Promised!Root, Promised!Aside, Promised!FilesOf, Promised!Places, Promised!Under,
       Root, Aside, FilesOf, Places, Had

(* A call that ends leaves one place changed, ...                          *)
LEMMA ChangedAt ==
    ASSUME TypeOK, NEW p \in Places, SameBut({p}), NEW content \in [Files -> Content],
           \A f \in Files : blobs[p][f] = content[f]
    PROVE  blobs = [before EXCEPT ![p] = content]
<1>1. ASSUME NEW q \in Places PROVE blobs[q] = [before EXCEPT ![p] = content][q]
  <2>1. CASE q = p
    BY <2>1 DEF TypeOK
  <2>2. CASE q # p
    BY <2>2 DEF TypeOK, SameBut, Same
  <2> QED BY <2>1, <2>2
<1> QED BY <1>1 DEF TypeOK

(* ... or none.                                                            *)
LEMMA SameAt ==
    ASSUME TypeOK, NEW p \in Places, \A f \in Files : Same(p, f)
    PROVE  blobs[p] = before[p]
BY DEF TypeOK, Same

LEMMA SaveKeepsPromise ==
    ASSUME TypeOK, ProgressInv, call.op = "save", call' = Idle, blobs' = blobs,
           answer' = "raised" \/ (answer' = "done" /\ call.todo = {} /\ call.config = {})
    PROVE  Promised!Next
<1>1. PICK n \in Names, v \in Versions, config \in SUBSET {Config},
           upload \in Uploads, todo \in SUBSET Files, left \in SUBSET {Config} :
         /\ call = [op |-> "save", at |-> Root(n), upload |-> upload, todo |-> todo,
                    config |-> left]
         /\ Saved(n, v, config, upload, todo, left)
  BY IsSaving
<1>2. PICK saved : saved = (FilesOf(v) \ todo) \cup (config \ left)
  OBVIOUS
<1>3. call # Idle /\ Root(n) \in Places
  BY <1>1, PlaceForms DEF Idle
<1>4. Promised!Stored(n, upload, saved)
  <2>1. PICK content : content = [f \in Files |-> IF f \in saved THEN upload ELSE before[Root(n)][f]]
    OBVIOUS
  <2>2. content \in [Files -> Content]
    BY <1>3, <2>1 DEF TypeOK, Content
  <2>3. \A f \in Files : blobs[Root(n)][f] = content[f]
    BY <1>1, <1>2, <2>1 DEF Saved, Same
  <2>4. blobs = [before EXCEPT ![Root(n)] = content]
    BY <1>1, <1>3, <2>2, <2>3, ChangedAt DEF Saved
  <2> QED BY <1>3, <2>1, <2>4, SameWords DEF Promised!Stored
<1>5. saved \in SUBSET (Promised!FilesOf(v) \cup config)
  BY <1>1, <1>2, SameWords
<1>6. CASE answer' = "raised"
  BY <1>4, <1>5, <1>6 DEF Promised!Next, Promised!SaveRaises
<1>7. CASE answer' = "done" /\ call.todo = {} /\ call.config = {}
  <2>1. saved = Promised!FilesOf(v) \cup config
    BY <1>1, <1>2, <1>7, SameWords
  <2>2. Config \in Promised!Under(Promised!Root(n)) \cup config
    BY <1>1, <1>3, SameWords DEF Saved
  <2> QED BY <1>4, <1>7, <2>1, <2>2 DEF Promised!Next, Promised!Save
<1> QED BY <1>6, <1>7

LEMMA DeleteKeepsPromise ==
    ASSUME TypeOK, ProgressInv, call.op = "delete", call' = Idle, blobs' = blobs,
           answer' = "raised" \/ (answer' = "done" /\ call.pc = "rest" /\ call.todo = {})
    PROVE  Promised!Next
<1>1. PICK n \in Names, v \in Versions, pc \in {"version", "rest"}, todo \in SUBSET Files :
         /\ call = [op |-> "delete", at |-> Root(n), pc |-> pc, todo |-> todo]
         /\ Deleted(n, v, pc, todo)
  BY IsDeleting
<1>2. call # Idle /\ Root(n) \in Places
  BY <1>1, PlaceForms DEF Idle
<1>3. ASSUME NEW gone, \A f \in Files : IF f \in gone THEN Gone(Root(n), f) ELSE Same(Root(n), f)
      PROVE  Promised!Without(gone, Promised!Root(n))
  <2>1. PICK content : content = [f \in Files |-> IF f \in gone THEN None ELSE before[Root(n)][f]]
    OBVIOUS
  <2>2. content \in [Files -> Content]
    BY <1>2, <2>1 DEF TypeOK, Content
  <2>3. \A f \in Files : blobs[Root(n)][f] = content[f]
    BY <1>3, <2>1 DEF Same, Gone
  <2>4. blobs = [before EXCEPT ![Root(n)] = content]
    BY <1>1, <1>2, <2>2, <2>3, ChangedAt DEF Deleted
  <2> QED BY <1>2, <2>1, <2>4, SameWords DEF Promised!Without
<1>4. Had(Root(n)) \subseteq Files /\ \A f \in Files \ Had(Root(n)) : Same(Root(n), f) => Gone(Root(n), f)
  BY DEF Had, Same, Gone
<1>5. CASE answer' = "raised"
  <2>1. ASSUME NEW gone \in SUBSET (FilesOf(v) \cup {Config}),
               Config \in gone => Had(Root(n)) \subseteq gone,
               \A f \in Files : IF f \in gone THEN Gone(Root(n), f) ELSE Same(Root(n), f)
        PROVE  Promised!Next
    <3>1. Promised!DeleteRaises(n, v)
      BY <1>2, <1>3, <1>5, <2>1, SameWords DEF Promised!DeleteRaises
    <3> QED BY <3>1 DEF Promised!Next
  <2>2. Config \notin FilesOf(v)
    BY DEF FilesOf
  <2>3. CASE pc = "version"
    <3>1. PICK gone : gone = FilesOf(v) \ todo
      OBVIOUS
    <3> QED BY <1>1, <2>1, <2>2, <2>3, <3>1 DEF Deleted
  <2>4. CASE pc = "rest" /\ Had(Root(n)) \subseteq FilesOf(v) \cup {Config}
    <3>1. PICK gone : gone = (FilesOf(v) \cup {Config}) \ todo
      OBVIOUS
    <3>2. todo \subseteq {Config} /\
          \A f \in Files : IF f \in todo THEN Same(Root(n), f) ELSE Gone(Root(n), f)
      BY <1>1, <2>4 DEF Deleted
    <3>3. \A f \in Files \ Had(Root(n)) : Same(Root(n), f)
      BY <1>2, <1>4, <3>2 DEF Had, Same, Gone
    <3>4. \A f \in Files : IF f \in gone THEN Gone(Root(n), f) ELSE Same(Root(n), f)
      BY <2>4, <3>1, <3>2, <3>3
    <3>5. Config \in gone => Had(Root(n)) \subseteq gone
      BY <2>4, <3>1, <3>2
    <3>6. gone \in SUBSET (FilesOf(v) \cup {Config})
      BY <3>1
    <3> QED BY <2>1, <3>4, <3>5, <3>6
  <2>5. CASE pc = "rest" /\ ~(Had(Root(n)) \subseteq FilesOf(v) \cup {Config})
    <3>1. PICK gone : gone = FilesOf(v)
      OBVIOUS
    <3> QED BY <1>1, <2>1, <2>2, <2>5, <3>1 DEF Deleted
  <2> QED BY <2>3, <2>4, <2>5
<1>6. CASE answer' = "done" /\ call.pc = "rest" /\ call.todo = {}
  <2>1. pc = "rest" /\ todo = {}
    BY <1>1, <1>6
  <2>2. PICK gone : gone = IF Had(Root(n)) \ FilesOf(v) \subseteq {Config} THEN Files ELSE FilesOf(v)
    OBVIOUS
  <2>3. \A f \in Files : IF f \in gone THEN Gone(Root(n), f) ELSE Same(Root(n), f)
    BY <1>1, <2>1, <2>2 DEF Deleted
  <2>4. Promised!Without(gone, Promised!Root(n))
    BY <1>3, <2>3
  <2>5. Had(Root(n)) \cap FilesOf(v) # {}
    BY <1>1 DEF Deleted
  <2>6. Promised!Delete(n, v)
    BY <1>2, <1>6, <2>2, <2>4, <2>5, SameWords DEF Promised!Delete
  <2> QED BY <2>6 DEF Promised!Next
<1> QED BY <1>5, <1>6

LEMMA DiscardKeepsPromise ==
    ASSUME TypeOK, ProgressInv, call.op = "discard", call' = Idle, blobs' = blobs,
           answer' = "raised" \/ (answer' = "done" /\ call.todo = {})
    PROVE  Promised!Next
<1>1. PICK n \in Names, todo \in SUBSET Files :
         /\ call = [op |-> "discard", at |-> Aside(n), todo |-> todo]
         /\ Discarded(n, todo)
  BY IsDiscarding
<1>2. call # Idle /\ Aside(n) \in Places
  BY <1>1, PlaceForms DEF Idle
<1>3. ASSUME NEW gone, \A f \in Files : IF f \in gone THEN Gone(Aside(n), f) ELSE Same(Aside(n), f)
      PROVE  Promised!Without(gone, Promised!Aside(n))
  <2>1. PICK content : content = [f \in Files |-> IF f \in gone THEN None ELSE before[Aside(n)][f]]
    OBVIOUS
  <2>2. content \in [Files -> Content]
    BY <1>2, <2>1 DEF TypeOK, Content
  <2>3. \A f \in Files : blobs[Aside(n)][f] = content[f]
    BY <1>3, <2>1 DEF Same, Gone
  <2>4. blobs = [before EXCEPT ![Aside(n)] = content]
    BY <1>1, <1>2, <2>2, <2>3, ChangedAt DEF Discarded
  <2> QED BY <1>2, <2>1, <2>4, SameWords DEF Promised!Without
<1>4. CASE answer' = "raised"
  <2>1. PICK gone : gone = Had(Aside(n)) \ todo
    OBVIOUS
  <2>2. \A f \in Files : IF f \in gone THEN Gone(Aside(n), f) ELSE Same(Aside(n), f)
    BY <1>1, <2>1 DEF Discarded, Same, Gone, Had
  <2>3. gone \in SUBSET Promised!Under(Promised!Aside(n))
    BY <1>2, <2>1, SameWords
  <2> QED BY <1>3, <1>4, <2>2, <2>3 DEF Promised!Next, Promised!DiscardRaises
<1>5. CASE answer' = "done" /\ call.todo = {}
  <2>1. \A f \in Files : Gone(Aside(n), f)
    BY <1>1, <1>5 DEF Discarded
  <2> QED BY <1>3, <1>5, <2>1 DEF Promised!Next, Promised!Discard
<1> QED BY <1>4, <1>5

LEMMA MoveKeepsPromise ==
    ASSUME TypeOK, ProgressInv, call.op = "move", call' = Idle, blobs' = blobs,
           answer' = "raised" \/ (answer' = "done" /\ call.pc = "remove" /\ call.todo = {})
    PROVE  Promised!Next
<1>1. PICK from \in Places, to \in Places, pc \in {"clear", "copy", "await", "remove"},
           names \in SUBSET Files, todo \in SUBSET Files :
         /\ call = [op |-> "move", from |-> from, to |-> to, pc |-> pc, names |-> names,
                    todo |-> todo]
         /\ <<from, to>> \in Routes /\ from # to
         /\ Moved(from, to, pc, names, todo)
  BY IsMoving
<1>2. call # Idle
  BY <1>1 DEF Idle
<1>3. /\ Promised!Under(from) # {}
      /\ <<from, to>> \in Promised!Moves => Promised!Under(to) = {}
  BY <1>1, <1>2, SameWords DEF Moved
<1>4. \A p \in Places \ {from, to} : blobs[p] = before[p]
  BY <1>1, SameAt DEF Moved, SameBut
<1>5. CASE answer' = "raised"
  <2>1. ASSUME NEW f \in Files
        PROVE  /\ blobs[from][f] \in {before[from][f], None}
               /\ blobs[to][f] \in {before[to][f], before[from][f], Partial, None}
    <3>1. CASE pc \in {"clear", "copy", "await"}
      BY <1>1, <3>1 DEF Moved, Same, Gone, Copied, Copying
    <3>2. CASE pc = "remove"
      BY <1>1, <3>2 DEF Moved, Same, Gone, Copied
    <3> QED BY <3>1, <3>2
  <2>2. ASSUME blobs[from] # before[from] PROVE blobs[to] = before[from]
    <3>1. pc = "remove"
      BY <1>1, <2>2, SameAt DEF Moved
    <3>2. \A f \in Files : blobs[to][f] = before[from][f]
      BY <1>1, <3>1 DEF Moved, Copied, Gone, Had
    <3> QED BY <3>2 DEF TypeOK
  <2>3. Promised!MoveRaises(from, to)
    BY <1>2, <1>3, <1>4, <1>5, <2>1, <2>2, SameWords DEF Promised!MoveRaises
  <2> QED BY <1>1, <2>3 DEF Promised!Next, Routes
<1>6. CASE answer' = "done" /\ call.pc = "remove" /\ call.todo = {}
  <2>1. /\ \A f \in Files : blobs[to][f] = before[from][f]
        /\ \A f \in Files : blobs[from][f] = None
    BY <1>1, <1>6 DEF Moved, Copied, Gone, Had
  <2>2. blobs[to] = before[from] /\ blobs[from] = Promised!Nothing
    BY <2>1 DEF TypeOK, Promised!Nothing
  <2>3. PICK arrived : arrived = [before EXCEPT ![to] = before[from]]
    OBVIOUS
  <2>4. blobs = [arrived EXCEPT ![from] = Promised!Nothing]
    BY <1>1, <1>4, <2>2, <2>3 DEF TypeOK
  <2>5. blobs = [before EXCEPT ![to] = before[from], ![from] = Promised!Nothing]
    BY <2>3, <2>4, Zenon
  <2>6. Promised!Move(from, to)
    BY <1>2, <1>3, <1>6, <2>5, Zenon DEF Promised!Move
  <2> QED BY <1>1, <2>6 DEF Promised!Next, Routes
<1> QED BY <1>5, <1>6

(* Call by call the backend does what the storage promises: a call that    *)
(* returns has done all it says, one that raises or dies half-way leaves   *)
(* what ModelFiles allows, and a copy given up on settles at most itself.  *)
THEOREM BackendKeepsPromises == Spec => ImplementsModelFiles
<1>1. Init => Promised!Init
  <2> SUFFICES ASSUME Init PROVE Promised!Init
    OBVIOUS
  <2>1. 0 \in Uploads
    BY AzureBounds DEF Uploads
  <2>2. blobs \in [Places -> [Files -> Uploads \cup {None}]]
    BY <2>1 DEF Init
  <2> QED BY <2>2, SameWords DEF Init, Promised!Init
<1>2. TypeOK /\ ProgressInv /\ [Next]_vars => [Promised!Next]_(Promised!vars)
  <2> SUFFICES ASSUME TypeOK, ProgressInv, [Next]_vars PROVE [Promised!Next]_(Promised!vars)
    OBVIOUS
  <2>1. ASSUME call # Idle, call' = Idle, blobs' = blobs,
               \/ answer' = "raised"
               \/ /\ answer' = "done" /\ call.todo = {}
                  /\ \/ call.op = "save" /\ call.config = {}
                     \/ call.op = "delete" /\ call.pc = "rest"
                     \/ call.op = "move" /\ call.pc = "remove"
                     \/ call.op = "discard"
        PROVE  Promised!Next
    <3>1. call.op \in {"save", "delete", "move", "discard"}
      BY <2>1 DEF TypeOK, Call, Saving, Deleting, Moving, Discarding
    <3> QED BY <2>1, <3>1, SaveKeepsPromise, DeleteKeepsPromise, MoveKeepsPromise,
               DiscardKeepsPromise
  <2>2. ASSUME NEW c, c # Idle, call # Idle, Continues(c) PROVE UNCHANGED Promised!vars
    BY <2>2 DEF Continues, Promised!vars
  <2>3. CASE UNCHANGED vars
    BY <2>3 DEF vars, Promised!vars
  <2>4. CASE Begin
    <3>1. ASSUME NEW c, c # Idle, Proceeds(c) PROVE UNCHANGED Promised!vars
      BY <3>1 DEF Proceeds, Starts, Promised!vars
    <3>2. ASSUME Refused, NEW n \in Names PROVE Promised!Next
      <4>1. Promised!MoveRaises(Promised!Root(n), Promised!Root(n))
        BY <3>2 DEF Refused, Starts, Promised!MoveRaises
      <4>2. <<Promised!Root(n), Promised!Root(n)>> \in Promised!Moves
        BY DEF Promised!Moves
      <4> QED BY <4>1, <4>2 DEF Promised!Next
    <3>3. ASSUME NEW from, NEW to, NEW pc, NEW todo PROVE Mover(from, to, pc, todo) # Idle
      BY DEF Mover, Idle
    <3>4. ASSUME NEW n \in Names, NEW v \in Versions, NEW config \in SUBSET {Config},
                 BeginSave(n, v, config)
          PROVE  [Promised!Next]_(Promised!vars)
      BY <3>1, <3>2, <3>4 DEF BeginSave, Idle
    <3>5. ASSUME NEW n \in Names, NEW v \in Versions, BeginDelete(n, v)
          PROVE  [Promised!Next]_(Promised!vars)
      BY <3>1, <3>2, <3>5 DEF BeginDelete, Idle
    <3>6. ASSUME NEW n \in Names, NEW m \in Names, BeginRename(n, m)
          PROVE  [Promised!Next]_(Promised!vars)
      BY <3>1, <3>2, <3>3, <3>6 DEF BeginRename
    <3>7. ASSUME NEW n \in Names, BeginStash(n) \/ BeginRestore(n)
          PROVE  [Promised!Next]_(Promised!vars)
      BY <3>1, <3>2, <3>3, <3>7 DEF BeginStash, BeginRestore
    <3>8. ASSUME NEW n \in Names, BeginDiscard(n) PROVE UNCHANGED Promised!vars
      BY <3>1, <3>8 DEF BeginDiscard, Idle
    <3> QED BY <2>4, <3>4, <3>5, <3>6, <3>7, <3>8 DEF Begin
  <2>5. CASE Proceed
    <3>1. ASSUME call # Idle, Raises, blobs' = blobs PROVE Promised!Next
      BY <2>1, <3>1 DEF Raises
    <3>2. ASSUME NEW c, c.op = call.op, call # Idle, Continues(c) PROVE UNCHANGED Promised!vars
      BY <2>2, <3>2 DEF TypeOK, Call, Idle, Saving, Deleting, Moving, Discarding
    <3>3. ASSUME call \in Saving, Upload PROVE [Promised!Next]_(Promised!vars)
      <4>1. PICK f : IF Settled(call.at, f)
                     THEN Continues([call EXCEPT !.todo = @ \ {f}, !.config = @ \ {f}])
                     ELSE Raises /\ UNCHANGED <<blobs, copy, faults>>
        BY <3>3, Zenon DEF Upload
      <4>2. [call EXCEPT !.todo = @ \ {f}, !.config = @ \ {f}].op = call.op
        BY <3>3 DEF Saving
      <4>3. CASE Settled(call.at, f)
        BY <3>2, <3>3, <4>1, <4>2, <4>3, FormOfCall, Zenon
      <4>4. CASE ~Settled(call.at, f)
        BY <3>1, <3>3, <4>1, <4>4, FormOfCall, Zenon
      <4> QED BY <4>3, <4>4
    <3>4. ASSUME call \in Deleting \cup Discarding, DeleteBlob PROVE UNCHANGED Promised!vars
      <4>1. PICK f : Continues([call EXCEPT !.todo = @ \ {f}])
        BY <3>4 DEF DeleteBlob
      <4>2. [call EXCEPT !.todo = @ \ {f}].op = call.op
        BY <3>4 DEF Deleting, Discarding
      <4> QED BY <3>2, <3>4, <4>1, <4>2, FormOfCall
    <3>5. ASSUME call \in Deleting, DeleteRest PROVE UNCHANGED Promised!vars
      <4>1. PICK rest : Continues([call EXCEPT !.pc = "rest", !.todo = rest])
        BY <3>5, Zenon DEF DeleteRest
      <4>2. [call EXCEPT !.pc = "rest", !.todo = rest].op = call.op
        BY <3>5 DEF Deleting
      <4> QED BY <3>2, <3>5, <4>1, <4>2, FormOfCall, Zenon
    <3>6. ASSUME call \in Moving PROVE /\ \A f : [call EXCEPT !.todo = @ \ {f}].op = "move"
                                        /\ \A pc : [call EXCEPT !.pc = pc, !.todo = call.names].op = "move"
                                        /\ call.op = "move" /\ call # Idle
      BY <3>6, FormOfCall DEF Moving
    <3>7. ASSUME call \in Moving, Clear PROVE UNCHANGED Promised!vars
      <4>1. \/ \E f : Continues([call EXCEPT !.todo = @ \ {f}])
            \/ Continues([call EXCEPT !.pc = "copy", !.todo = call.names])
        BY <3>7, Zenon DEF Clear
      <4> QED BY <3>2, <3>6, <3>7, <4>1, Zenon
    <3>8. ASSUME call \in Moving, StartCopy PROVE [Promised!Next]_(Promised!vars)
      <4>1. \/ Raises /\ blobs' = blobs
            \/ \E f : Continues(IF call.todo = {f} THEN [call EXCEPT !.pc = "await", !.todo = call.names]
                                 ELSE [call EXCEPT !.todo = @ \ {f}])
        BY <3>8, Zenon DEF StartCopy
      <4> QED BY <3>1, <3>2, <3>6, <3>8, <4>1, Zenon
    <3>9. ASSUME call \in Moving, AwaitCopy PROVE [Promised!Next]_(Promised!vars)
      <4>1. \/ Raises /\ blobs' = blobs
            \/ \E f : Continues(IF call.todo = {f} THEN [call EXCEPT !.pc = "remove", !.todo = call.names]
                                 ELSE [call EXCEPT !.todo = @ \ {f}])
        BY <3>9, Zenon DEF AwaitCopy
      <4> QED BY <3>1, <3>2, <3>6, <3>9, <4>1, Zenon
    <3>10. ASSUME call \in Moving, RemoveOriginal PROVE UNCHANGED Promised!vars
      <4>1. PICK f : Continues([call EXCEPT !.todo = @ \ {f}])
        BY <3>10 DEF RemoveOriginal
      <4> QED BY <3>2, <3>6, <3>10, <4>1, Zenon
    <3>11. ASSUME call \in Moving, Deadline PROVE Promised!Next
      BY <3>1, <3>6, <3>11 DEF Deadline
    <3>12. ASSUME Return PROVE Promised!Next
      BY <2>1, <3>12 DEF Return, Ends
    <3>13. /\ Upload => call.op = "save"
           /\ DeleteBlob => call.op \in {"delete", "discard"}
           /\ DeleteRest => call.op = "delete"
           /\ Clear \/ StartCopy \/ AwaitCopy \/ RemoveOriginal \/ Deadline => call.op = "move"
      BY Zenon DEF Upload, DeleteBlob, DeleteRest, Clear, StartCopy, AwaitCopy, RemoveOriginal,
                   Deadline
    <3> QED BY <2>5, <3>3, <3>4, <3>5, <3>7, <3>8, <3>9, <3>10, <3>11, <3>12, <3>13, FormOfCall
            DEF Proceed
  <2>6. CASE Interrupted
    BY <2>1, <2>6 DEF Interrupted, Raises
  <2>7. ASSUME NEW p \in Places, NEW f \in Files, CopyEnds(p, f)
        PROVE  [Promised!Next]_(Promised!vars)
    <3>1. /\ blobs[p][f] = Partial /\ copy[p][f] \in Uploads \cup {Partial}
          /\ call' = call /\ answer' = answer
      <4>1. blobs[p][f] = Partial /\ copy[p][f] \in Content \ {None}
        BY <2>7, CopyEndsEffect
      <4> QED BY <2>7, <4>1 DEF CopyEnds, Content
    <3>2. blobs' = [blobs EXCEPT ![p][f] = copy[p][f]]
      BY <2>7 DEF CopyEnds, Put
    <3>3. \/ before[p][f] = Partial /\ before' = [before EXCEPT ![p][f] = copy[p][f]]
          \/ before' = before
      BY <2>7 DEF CopyEnds
    <3>4. CASE copy[p][f] = Partial
      <4>1. blobs' = blobs /\ before' = before
        BY <3>1, <3>2, <3>3, <3>4 DEF TypeOK
      <4> QED BY <3>1, <4>1 DEF Promised!vars
    <3>5. CASE copy[p][f] \in Uploads
      <4>1. CASE call = Idle
        <5>1. Promised!Settle(p, f)
          BY <3>1, <3>2, <3>5, <4>1 DEF Promised!Settle
        <5> QED BY <5>1, SameWords DEF Promised!Next
      <4>2. CASE call # Idle /\ before' = before
        BY <3>1, <4>2 DEF Promised!vars
      <4>3. CASE call # Idle /\ before[p][f] = Partial /\ before' = [before EXCEPT ![p][f] = copy[p][f]]
        <5>1. Promised!Settle(p, f)
          BY <3>1, <3>5, <4>3 DEF Promised!Settle
        <5> QED BY <5>1, SameWords DEF Promised!Next
      <4> QED BY <3>3, <4>1, <4>2, <4>3
    <3> QED BY <3>1, <3>4, <3>5
  <2>8. ASSUME NEW p \in Places, NEW f \in Files, CopyFails(p, f) PROVE UNCHANGED Promised!vars
    BY <2>8 DEF CopyFails, Promised!vars
  <2> QED BY <2>3, <2>4, <2>5, <2>6, <2>7, <2>8 DEF Next
<1> QED BY <1>1, <1>2, AlwaysProgress, PTL DEF Spec, ImplementsModelFiles, Promised!Spec
=============================================================================
