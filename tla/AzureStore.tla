------------------------------ MODULE AzureStore ------------------------------
(***************************************************************************)
(* The Azure backend of the model storage, blob by blob.  A directory is   *)
(* the blobs that share a prefix; moving one starts a copy of each blob,   *)
(* waits for all, then deletes the originals.  Any call on the service may *)
(* raise, a copy may fail or take longer than anyone waits, and the        *)
(* process may die between any two calls.  One storage call runs at a      *)
(* time; what several do to each other is ModelStore's subject.            *)
(***************************************************************************)
EXTENDS Naturals, FiniteSets

CONSTANTS
    Names, Versions, Files, Config, VersionOf, \* as in ModelFiles
    Registered,  \* models there at the start
    Shipped,     \* the files those have
    MaxCalls,    \* bound: storage calls in a behaviour
    FaultKinds,  \* the faults in play, each at most once
    MaxFaults,   \* bound: faults in a behaviour
    None, Partial, \* no blob; a blob that is not whole
    Failed       \* the status of a copy that failed

ASSUME AzureFiles == Config \in Files /\ VersionOf \in [Files \ {Config} -> Versions]
ASSUME AzureStart == Registered \subseteq Names /\ Shipped \subseteq Files
ASSUME AzureBounds == MaxCalls \in Nat /\ MaxFaults \in Nat
ASSUME AzureFaults == FaultKinds \subseteq {"interruption", "copy"}

(* A blob is known by the call that uploaded it, 0 for those of the start. *)
Uploads == 0 .. MaxCalls
ASSUME AzureValues ==
    /\ None \notin Uploads /\ Partial \notin Uploads /\ Failed \notin Uploads
    /\ None # Partial /\ None # Failed /\ Partial # Failed
Content == Uploads \cup {None, Partial}

Root(n) == <<"root", n>>
Aside(n) == <<"stash", n>>
Places == {"root", "stash"} \X Names
FilesOf(v) == {f \in Files \ {Config} : VersionOf[f] = v}

VARIABLES
    blobs,   \* the container: what is at each place
    copy,    \* status of the copy into each blob: None, what is being copied, Failed
    call,    \* the storage call that runs
    answer,  \* how the last one ended
    before,  \* history: the container as the call found it
    calls, faults \* calls so far; kinds of faults so far

bounds == <<calls, faults>>
vars == <<blobs, copy, call, answer, before, bounds>>

Idle == [op |-> "none"]
Saving == [op: {"save"}, at: Places, upload: Uploads, todo: SUBSET Files, config: SUBSET {Config}]
Deleting == [op: {"delete"}, at: Places, pc: {"version", "rest"}, todo: SUBSET Files]
Moving == [op: {"move"}, from: Places, to: Places, pc: {"clear", "copy", "await", "remove"},
           names: SUBSET Files, todo: SUBSET Files]
Discarding == [op: {"discard"}, at: Places, todo: SUBSET Files]
Call == {Idle} \cup Saving \cup Deleting \cup Moving \cup Discarding

Init ==
    /\ blobs = [p \in Places |-> [f \in Files |->
                  IF p[1] = "root" /\ p[2] \in Registered /\ f \in Shipped THEN 0 ELSE None]]
    /\ copy = [p \in Places |-> [f \in Files |-> None]]
    /\ call = Idle /\ answer = "done" /\ before = blobs
    /\ calls = 0 /\ faults = {}

Under(p) == {f \in Files : blobs[p][f] # None}

(* A call starts with a look at what is there, and may end at it.          *)
Starts(c) ==
    /\ call = Idle /\ calls < MaxCalls
    /\ calls' = calls + 1 /\ before' = blobs
    /\ call' = c
    /\ UNCHANGED <<blobs, copy, faults>>
Refused == Starts(Idle) /\ answer' = "raised"
Proceeds(c) == Starts(c) /\ UNCHANGED answer

Continues(c) == call' = c /\ UNCHANGED <<answer, before, bounds>>
Ends == call' = Idle /\ answer' = "done" /\ UNCHANGED <<before, bounds>>
Raises == call' = Idle /\ answer' = "raised" /\ UNCHANGED <<before, calls>>

Fault(kind) ==
    /\ kind \in FaultKinds \ faults /\ Cardinality(faults) < MaxFaults
    /\ faults' = faults \cup {kind}

Put(p, f, content) == blobs' = [blobs EXCEPT ![p][f] = content]

Settled(p, f) == copy[p][f] \in {None, Failed}

(* Assumed of the service: deleting a blob ends a copy into it.            *)
Remove(p, f) == Put(p, f, None) /\ copy' = [copy EXCEPT ![p][f] = None]

-----------------------------------------------------------------------------
(* save                                                                    *)

BeginSave(n, v, config) ==
    IF Config \in Under(Root(n)) \cup config
    THEN Proceeds([op |-> "save", at |-> Root(n), upload |-> calls + 1,
                   todo |-> FilesOf(v), config |-> config])
    ELSE Refused

(* The files of the version, then the config; whatever is there is written *)
(* over, unless a copy into it is still under way.                         *)
Upload ==
    /\ call.op = "save"
    /\ \E f \in IF call.todo # {} THEN call.todo ELSE call.config :
          IF Settled(call.at, f)
          THEN /\ Put(call.at, f, call.upload)
               /\ copy' = [copy EXCEPT ![call.at][f] = None]
               /\ Continues([call EXCEPT !.todo = @ \ {f}, !.config = @ \ {f}])
          ELSE Raises /\ UNCHANGED <<blobs, copy, faults>>

-----------------------------------------------------------------------------
(* delete                                                                  *)

BeginDelete(n, v) ==
    LET found == Under(Root(n)) \cap FilesOf(v) IN
    IF found # {} THEN Proceeds([op |-> "delete", at |-> Root(n), pc |-> "version", todo |-> found])
    ELSE Refused

DeleteBlob ==
    /\ call.op \in {"delete", "discard"}
    /\ \E f \in call.todo : Remove(call.at, f) /\ Continues([call EXCEPT !.todo = @ \ {f}])

(* Mutant: a config that is left alone stays.                              *)
DeleteNoRest ==
    /\ call.op = "delete" /\ call.pc = "version" /\ call.todo = {}
    /\ Continues([call EXCEPT !.pc = "rest"])
    /\ UNCHANGED <<blobs, copy>>

(* Once nothing but the config is left, it goes as well.                   *)
DeleteRest ==
    /\ call.op = "delete" /\ call.pc = "version" /\ call.todo = {}
    /\ Continues([call EXCEPT !.pc = "rest",
                              !.todo = IF Under(call.at) \subseteq {Config} THEN Under(call.at) ELSE {}])
    /\ UNCHANGED <<blobs, copy>>

-----------------------------------------------------------------------------
(* rename, stash, restore and _move                                        *)

Mover(from, to, pc, todo) ==
    [op |-> "move", from |-> from, to |-> to, pc |-> pc, names |-> Under(from), todo |-> todo]

BeginRename(n, m) ==
    IF Under(Root(n)) # {} /\ Under(Root(m)) = {}
    THEN Proceeds(Mover(Root(n), Root(m), "copy", Under(Root(n)))) ELSE Refused

BeginStash(n) ==
    IF Under(Root(n)) # {} /\ Under(Aside(n)) = {}
    THEN Proceeds(Mover(Root(n), Aside(n), "copy", Under(Root(n)))) ELSE Refused

(* What is at the model's place is deleted first.                          *)
BeginRestore(n) ==
    IF Under(Aside(n)) # {}
    THEN Proceeds(Mover(Aside(n), Root(n), "clear", Under(Root(n)))) ELSE Refused

Clear ==
    /\ call.op = "move" /\ call.pc = "clear"
    /\ \/ \E f \in call.todo : Remove(call.to, f) /\ Continues([call EXCEPT !.todo = @ \ {f}])
       \/ /\ call.todo = {}
          /\ Continues([call EXCEPT !.pc = "copy", !.todo = call.names])
          /\ UNCHANGED <<blobs, copy>>

(* Mutant: a copy is there at once.                                        *)
StartCopyAtOnce ==
    /\ call.op = "move" /\ call.pc = "copy"
    /\ \E f \in call.todo :
          /\ Put(call.to, f, blobs[call.from][f])
          /\ copy' = [copy EXCEPT ![call.to][f] = blobs[call.from][f]]
          /\ Continues(IF call.todo = {f} THEN [call EXCEPT !.pc = "await", !.todo = call.names]
                       ELSE [call EXCEPT !.todo = @ \ {f}])

(* Until a copy ends there is a blob with nothing in it.  Assumed of the   *)
(* service: it does not copy from a blob that is being copied into.        *)
StartCopy ==
    /\ call.op = "move" /\ call.pc = "copy"
    /\ \E f \in call.todo :
          IF Settled(call.from, f)
          THEN /\ Put(call.to, f, Partial)
               /\ copy' = [copy EXCEPT ![call.to][f] = blobs[call.from][f]]
               /\ Continues(IF call.todo = {f} THEN [call EXCEPT !.pc = "await", !.todo = call.names]
                            ELSE [call EXCEPT !.todo = @ \ {f}])
          ELSE Raises /\ UNCHANGED <<blobs, copy, faults>>

(* Mutant: a copy is taken for done once it is started.                    *)
AwaitNothing ==
    /\ call.op = "move" /\ call.pc = "await"
    /\ Continues([call EXCEPT !.pc = "remove", !.todo = call.names])
    /\ UNCHANGED <<blobs, copy>>

(* Each copy is waited for, in turn; one that failed raises.               *)
AwaitCopy ==
    /\ call.op = "move" /\ call.pc = "await"
    /\ \E f \in call.todo :
          \/ /\ copy[call.to][f] = None
             /\ Continues(IF call.todo = {f} THEN [call EXCEPT !.pc = "remove", !.todo = call.names]
                          ELSE [call EXCEPT !.todo = @ \ {f}])
          \/ copy[call.to][f] = Failed /\ Raises /\ UNCHANGED faults
    /\ UNCHANGED <<blobs, copy>>

(* Mutant: the poll has no deadline.                                       *)
NoDeadline == FALSE

(* A copy that takes longer than COPY_POLL_TIMEOUT raises, and goes on.    *)
Deadline ==
    /\ call.op = "move" /\ call.pc = "await"
    /\ \E f \in call.todo : ~Settled(call.to, f)
    /\ Raises
    /\ UNCHANGED <<blobs, copy, faults>>

RemoveOriginal ==
    /\ call.op = "move" /\ call.pc = "remove"
    /\ \E f \in call.todo : Remove(call.from, f) /\ Continues([call EXCEPT !.todo = @ \ {f}])

-----------------------------------------------------------------------------
(* discard is quiet when there is nothing.                                 *)
BeginDiscard(n) == Proceeds([op |-> "discard", at |-> Aside(n), todo |-> Under(Aside(n))])

Return ==
    /\ call # Idle /\ call.todo = {}
    /\ \/ call.op = "save" /\ call.config = {}
       \/ call.op = "delete" /\ call.pc = "rest"
       \/ call.op = "move" /\ call.pc = "remove"
       \/ call.op = "discard"
    /\ Ends
    /\ UNCHANGED <<blobs, copy>>

-----------------------------------------------------------------------------
(* The service and the process                                             *)

(* A copy ends whole only while its source is still what it was.  One that *)
(* was given up on before the call that runs ends in what that found, too. *)
CopyEnds(p, f) ==
    /\ ~Settled(p, f)
    /\ \E q \in Places \ {p} : blobs[q][f] = copy[p][f]
    /\ Put(p, f, copy[p][f])
    /\ copy' = [copy EXCEPT ![p][f] = None]
    /\ before' = IF before[p][f] = Partial THEN [before EXCEPT ![p][f] = copy[p][f]] ELSE before
    /\ UNCHANGED <<call, answer, bounds>>

CopyFails(p, f) ==
    /\ ~Settled(p, f)
    /\ \/ Fault("copy")
       \/ (\A q \in Places \ {p} : blobs[q][f] # copy[p][f]) /\ UNCHANGED faults
    /\ copy' = [copy EXCEPT ![p][f] = Failed]
    /\ UNCHANGED <<blobs, call, answer, before, calls>>

(* A request to the service raises, or the process dies.                   *)
Interrupted ==
    /\ call # Idle
    /\ Fault("interruption")
    /\ Raises
    /\ UNCHANGED <<blobs, copy>>

-----------------------------------------------------------------------------
Begin ==
    \/ \E n \in Names, v \in Versions, config \in SUBSET {Config} : BeginSave(n, v, config)
    \/ \E n \in Names, v \in Versions : BeginDelete(n, v)
    \/ \E n, m \in Names : BeginRename(n, m)
    \/ \E n \in Names : BeginStash(n) \/ BeginRestore(n) \/ BeginDiscard(n)

Proceed ==
    \/ Upload \/ DeleteBlob \/ DeleteRest
    \/ Clear \/ StartCopy \/ AwaitCopy \/ Deadline \/ RemoveOriginal
    \/ Return

Next ==
    \/ Begin
    \/ Proceed
    \/ Interrupted
    \/ \E p \in Places, f \in Files : CopyEnds(p, f) \/ CopyFails(p, f)

(* A call that has begun goes on; nothing makes a copy end.                *)
Spec == Init /\ [][Next]_vars /\ WF_vars(Proceed)

-----------------------------------------------------------------------------
TypeOK ==
    /\ blobs \in [Places -> [Files -> Content]]
    /\ copy \in [Places -> [Files -> Content \cup {Failed}]]
    /\ \A p \in Places, f \in Files : ~Settled(p, f) => blobs[p][f] = Partial
    /\ call \in Call
    /\ answer \in {"done", "raised"}
    /\ before \in [Places -> [Files -> Content]]
    /\ calls \in 0 .. MaxCalls
    /\ faults \subseteq FaultKinds

(* "nothing is deleted until every copy in the batch is confirmed, so a    *)
(* failed or slow copy never costs the only copy of a model": at every     *)
(* moment of a move each file is whole where it was or where it goes.      *)
MovesKeepTheOnlyCopy ==
    call.op = "move" =>
       \A f \in Files : before[call.from][f] \in {blobs[call.from][f], blobs[call.to][f]}

(* Whatever the service does, a storage call comes to its end.             *)
CallsEnd == call # Idle ~> call = Idle

(* Between calls the container is what the storage promises: the calls     *)
(* that return have done all they say, those that raise or die have not    *)
(* lost what they moved.                                                   *)
Promised == INSTANCE ModelFiles WITH held <- IF call = Idle THEN blobs ELSE before
ImplementsModelFiles == Promised!Spec
=============================================================================
