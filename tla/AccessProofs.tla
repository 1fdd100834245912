----------------------------- MODULE AccessProofs -----------------------------
(***************************************************************************)
(* What TLAPS proves of the API keys, for any keys, services and requests: *)
(* type correctness, what an attachment stands for, who can wake a         *)
(* service, and that what was taken back, or given by others, stays so.    *)
(***************************************************************************)
EXTENDS Access, TLAPS

-----------------------------------------------------------------------------
(* Type correctness *)

(* The kind of a request's state is known by its pc.                       *)
LEMMA PcForms ==
    ASSUME TypeOK, NEW a \in Handlers
    PROVE  /\ handler[a].pc = "resolve" => handler[a] \in Polling
           /\ handler[a].pc = "record" => handler[a] \in Recording
           /\ handler[a].pc = "create" => handler[a] \in Creation
           /\ handler[a].pc \in {"attach", "detach"} => handler[a] \in Change
           /\ handler[a].pc = "revoke" => handler[a] \in Revocation
<1>1. handler[a] \in Handler
  BY DEF TypeOK
<1> QED BY <1>1 DEF Handler, Free, Polling, Recording, Creation, Change, Revocation

LEMMA NextForms ==
    /\ Free \in Handler
    /\ [pc |-> "read"] \in Handler
    /\ \A k \in Keys, n \in Names : [pc |-> "resolve", key |-> k, name |-> n] \in Handler
    /\ \A k \in Keys, id \in Ids : [pc |-> "record", key |-> k, id |-> id] \in Handler
    /\ \A kind \in {"admin", "user"} : [pc |-> "create", kind |-> kind, ids |-> {}] \in Handler
    /\ \A id \in Ids : [pc |-> "create", kind |-> "service", ids |-> {id}] \in Handler
    /\ \A pc \in {"attach", "detach"}, k \in Keys, id \in Ids, ids \in SUBSET Ids :
          [pc |-> pc, key |-> k, id |-> id, ids |-> ids] \in Handler
    /\ \A k \in Keys, ids \in SUBSET Ids : [pc |-> "revoke", key |-> k, ids |-> ids] \in Handler
BY DEF Handler, Free, Polling, Recording, Creation, Change, Revocation

LEMMA Moves ==
    ASSUME TypeOK, NEW a \in Handlers, NEW state \in Handler, Goes(a, state)
    PROVE  /\ handler' \in [Handlers -> Handler]
           /\ handler'[a] = state
           /\ \A b \in Handlers \ {a} : handler'[b] = handler[b]
BY DEF TypeOK, Goes

LEMMA StatusType ==
    ASSUME TypeOK, NEW a \in Handlers, StatusStep(a)
    PROVE  TypeOK'
<1>1. ASSUME NEW k \in Keys, NEW n \in Names, BeginStatus(a, k, n) PROVE TypeOK'
  <2>1. handler' \in [Handlers -> Handler]
    BY <1>1, NextForms, Moves DEF BeginStatus
  <2> QED BY <1>1, <2>1 DEF BeginStatus, TypeOK, bounds, history
<1>2. CASE Resolve(a)
  <2>1. handler[a].key \in Keys
    BY <1>2, PcForms DEF Resolve, Polling
  <2>2. handler' \in [Handlers -> Handler]
    BY <1>2, <2>1, NextForms, Moves DEF Resolve
  <2> QED BY <1>2, <2>2 DEF Resolve, TypeOK, bounds, history
<1>3. CASE Record(a)
  <2>1. handler[a].id \in Ids
    BY <1>3, PcForms DEF Record, Recording
  <2>2. handler' \in [Handlers -> Handler]
    BY <1>3, NextForms, Moves DEF Record
  <2> QED BY <1>3, <2>1, <2>2 DEF Record, TypeOK, bounds, history
<1> QED BY <1>1, <1>2, <1>3 DEF StatusStep

LEMMA ReadType ==
    ASSUME TypeOK, NEW a \in Handlers,
           Admitted(a) \/ ReadForKey(a) \/ ReadForChange(a) \/ ReadForRevocation(a)
    PROVE  TypeOK'
<1>1. \A k \in Keys : AttachedTo(k) \in SUBSET Ids
  BY DEF AttachedTo
<1>2. handler' \in [Handlers -> Handler]
  <2>1. CASE Admitted(a)
    BY <2>1, NextForms, Moves DEF Admitted
  <2>2. CASE ReadForKey(a)
    BY <2>2, NextForms, Moves DEF ReadForKey
  <2>3. CASE ReadForChange(a)
    <3>1. PICK k \in Keys, id \in Ids :
             Goes(a, [pc |-> IF <<k, id>> \in attached THEN "detach" ELSE "attach",
                      key |-> k, id |-> id, ids |-> AttachedTo(k)])
      BY <2>3 DEF ReadForChange
    <3>2. [pc |-> IF <<k, id>> \in attached THEN "detach" ELSE "attach",
           key |-> k, id |-> id, ids |-> AttachedTo(k)] \in Handler
      BY <1>1, NextForms
    <3> QED BY <3>1, <3>2, Moves
  <2>4. CASE ReadForRevocation(a)
    BY <1>1, <2>4, NextForms, Moves DEF ReadForRevocation
  <2> QED BY <2>1, <2>2, <2>3, <2>4
<1>3. changes' \in 0 .. MaxChanges
  BY AccessBounds DEF TypeOK, Admitted, ReadForKey, ReadForChange, ReadForRevocation, bounds
<1> QED BY <1>2, <1>3 DEF TypeOK, Admitted, ReadForKey, ReadForChange, ReadForRevocation,
           bounds, history

LEMMA CommitType ==
    ASSUME TypeOK, NEW a \in Handlers, CommitKey(a) \/ Attach(a) \/ Detach(a) \/ Revoke(a)
    PROVE  TypeOK'
<1>1. handler' \in [Handlers -> Handler]
  BY NextForms, Moves DEF CommitKey, Attach, Detach, Revoke
<1>2. CASE CommitKey(a)
  <2>1. handler[a].ids \subseteq Ids /\ handler[a].kind \in Kinds
    BY <1>2, PcForms DEF CommitKey, Creation, Kinds
  <2>2. keys' \in [Keys -> Key]
    BY <1>2, <2>1 DEF CommitKey, TypeOK, Key
  <2>3. attached' \subseteq Keys \X Ids /\ given' \subseteq Keys \X Ids
    BY <1>2, <2>1 DEF CommitKey, TypeOK
  <2> QED BY <1>1, <1>2, <2>2, <2>3 DEF CommitKey, TypeOK, bounds
<1>3. CASE Attach(a) \/ Detach(a)
  <2>1. <<handler[a].key, handler[a].id>> \in Keys \X Ids
    BY <1>3, PcForms DEF Attach, Detach, Change
  <2> QED BY <1>1, <1>3, <2>1 DEF Attach, Detach, TypeOK, bounds, history
<1>4. CASE Revoke(a)
  <2>1. handler[a].key \in Keys
    BY <1>4, PcForms DEF Revoke, Revocation
  <2>2. keys' \in [Keys -> Key]
    BY <1>4, <2>1 DEF Revoke, TypeOK, Key
  <2> QED BY <1>1, <1>4, <2>1, <2>2 DEF Revoke, TypeOK, bounds
<1> QED BY <1>2, <1>3, <1>4

LEMMA WorldType ==
    ASSUME TypeOK, (\E k \in Keys : Expire(k)) \/ Replace \/ Age
    PROVE  TypeOK'
<1>1. ASSUME NEW k \in Keys, Expire(k) PROVE TypeOK'
  <2>1. keys' \in [Keys -> Key]
    BY <1>1 DEF Expire, TypeOK, Key
  <2> QED BY <1>1, <2>1 DEF Expire, TypeOK, bounds, history
<1>2. CASE Replace
  <2>1. services' \in [Ids -> Service]
    BY <1>2 DEF Replace, TypeOK, Service
  <2>2. replaced' \in 0 .. MaxReplaced
    BY <1>2, AccessBounds DEF Replace, TypeOK
  <2> QED BY <1>2, <2>1, <2>2 DEF Replace, TypeOK, history
<1>3. CASE Age
  BY <1>3 DEF Age, TypeOK, bounds, history
<1> QED BY <1>1, <1>2, <1>3

LEMMA StartType == Init => TypeOK
<1> SUFFICES ASSUME Init PROVE TypeOK
  OBVIOUS
<1>1. keys \in [Keys -> Key]
  BY AccessStart DEF Init, Key, Kinds
<1>2. services \in [Ids -> Service]
  BY AccessNames, AccessStart DEF Init, Service
<1>3. Attached \subseteq Keys \X Ids
  BY AccessStart
<1>4. handler \in [Handlers -> Handler]
  BY NextForms DEF Init
<1> QED BY <1>1, <1>2, <1>3, <1>4, AccessBounds DEF Init, TypeOK

(* Keys, services, attachments and requests under way keep their types, in *)
(* particular: only a service key is ever created attached.                *)
THEOREM AccessTypeCorrect == Spec => []TypeOK
<1>1. TypeOK /\ [Next]_vars => TypeOK'
  <2> SUFFICES ASSUME TypeOK, [Next]_vars PROVE TypeOK'
    OBVIOUS
  <2>1. CASE UNCHANGED vars
    BY <2>1 DEF vars, TypeOK, bounds, history
  <2>2. CASE Next
    BY <2>2, StatusType, ReadType, CommitType, WorldType DEF Next, KeyStep
  <2> QED BY <2>1, <2>2
<1> QED BY <1>1, StartType, PTL DEF Spec

-----------------------------------------------------------------------------
(* What an attachment stands for *)

(* What a request has read of keys and services, as far as it stays true   *)
(* until the request commits: keys are revoked but never become unused, or *)
(* of another kind, again; services are deleted but never absent again.    *)
Made(k) == keys[k].state # "unused"
ReadHolds(a) ==
    LET h == handler[a] IN
    /\ h.pc \in {"resolve", "record", "attach", "detach", "revoke"} => Made(h.key)
    /\ h.pc = "record" => keys[h.key].kind = "admin" \/ <<h.key, h.id>> \in given
    /\ h.pc \in {"attach", "detach"} => /\ keys[h.key].kind = "service"
                                        /\ services[h.id].state # "absent"
    /\ h.pc = "create" => \A id \in h.ids : services[id].state # "absent"
AccessInv ==
    /\ AttachmentsHold
    /\ \A pair \in barred : Made(pair[1])
    /\ \A a \in Handlers : ReadHolds(a)

(* What a step leaves alone suffices to keep what the requests have read.  *)
LEMMA ReadStays ==
    ASSUME TypeOK, NEW a \in Handlers, ReadHolds(a), handler'[a] = handler[a],
           \A k \in Keys : Made(k) => Made(k)' /\ keys'[k].kind = keys[k].kind,
           \A id \in Ids : services[id].state # "absent" => services'[id].state # "absent",
           given \subseteq given'
    PROVE  ReadHolds(a)'
<1>1. CASE handler[a].pc \in {"resolve", "record"}
  <2>1. handler[a].key \in Keys
    BY <1>1, PcForms DEF Polling, Recording
  <2> QED BY <1>1, <2>1 DEF ReadHolds
<1>2. CASE handler[a].pc \in {"attach", "detach", "revoke"}
  <2>1. /\ handler[a].key \in Keys
        /\ handler[a].pc # "revoke" => handler[a].id \in Ids
    BY <1>2, PcForms DEF Change, Revocation
  <2> QED BY <1>2, <2>1 DEF ReadHolds
<1>3. CASE handler[a].pc = "create"
  <2>1. handler[a].ids \subseteq Ids
    BY <1>3, PcForms DEF Creation
  <2> QED BY <1>3, <2>1 DEF ReadHolds
<1> QED BY <1>1, <1>2, <1>3 DEF ReadHolds

LEMMA OthersStay ==
    ASSUME TypeOK, AccessInv, NEW a \in Handlers, NEW state \in Handler, Goes(a, state),
           \A k \in Keys : Made(k) => Made(k)' /\ keys'[k].kind = keys[k].kind,
           UNCHANGED services, given \subseteq given',
           ReadHolds(a)'
    PROVE  \A b \in Handlers : ReadHolds(b)'
<1> SUFFICES ASSUME NEW b \in Handlers, b # a PROVE ReadHolds(b)'
  OBVIOUS
<1> QED BY Moves, ReadStays DEF AccessInv

LEMMA StatusInv ==
    ASSUME TypeOK, AccessInv, NEW a \in Handlers, StatusStep(a)
    PROVE  AccessInv'
<1>1. UNCHANGED <<keys, services, attached, history>>
  BY DEF StatusStep, BeginStatus, Resolve, Record
<1>2. AttachmentsHold' /\ (\A pair \in barred : Made(pair[1]))'
  BY <1>1 DEF AccessInv, AttachmentsHold, Exists, Made, history
<1>3. \A b \in Handlers : ReadHolds(b)'
  <2>1. ASSUME NEW k \in Keys, NEW n \in Names, BeginStatus(a, k, n)
        PROVE  \A b \in Handlers : ReadHolds(b)'
    <3> DEFINE s == [pc |-> "resolve", key |-> k, name |-> n]
    <3>1. s \in Handler /\ Goes(a, s)
      BY <2>1, NextForms DEF BeginStatus
    <3>2. ReadHolds(a)'
      BY <1>1, <2>1, <3>1, Moves DEF ReadHolds, BeginStatus, Made
    <3> QED BY <1>1, <3>1, <3>2, OthersStay DEF Made, history
  <2>2. CASE Resolve(a)
    <3> DEFINE h == handler[a]
    <3>1. h.key \in Keys /\ Made(h.key)
      BY <2>2, PcForms DEF Resolve, Polling, AccessInv, ReadHolds
    <3>2. ASSUME NEW id \in Ids, Allows(h.key, id),
                 Goes(a, [pc |-> "record", key |-> h.key, id |-> id])
          PROVE  \A b \in Handlers : ReadHolds(b)'
      <4> DEFINE s == [pc |-> "record", key |-> h.key, id |-> id]
      <4>1. s \in Handler /\ Goes(a, s)
        BY <3>1, <3>2, NextForms
      <4>2. keys[h.key].kind = "admin" \/ <<h.key, id>> \in given
        BY <3>2 DEF Allows, Associated, AccessInv, AttachmentsHold
      <4>3. ReadHolds(a)'
        <5>1. handler'[a] = s
          BY <4>1, Moves
        <5> QED BY <1>1, <3>1, <4>2, <5>1 DEF ReadHolds, Made, history
      <4> QED BY <1>1, <4>1, <4>3, OthersStay DEF Made, history
    <3>3. ASSUME Goes(a, Free) PROVE \A b \in Handlers : ReadHolds(b)'
      <4>1. ReadHolds(a)'
        BY <3>3, NextForms, Moves DEF ReadHolds, Free
      <4> QED BY <1>1, <3>3, <4>1, NextForms, OthersStay DEF Made, history
    <3> QED BY <2>2, <3>2, <3>3 DEF Resolve
  <2>3. CASE Record(a)
    <3>1. ReadHolds(a)'
      BY <2>3, NextForms, Moves DEF Record, ReadHolds, Free
    <3> QED BY <1>1, <2>3, <3>1, NextForms, OthersStay DEF Record, Made, history
  <2> QED BY <2>1, <2>2, <2>3 DEF StatusStep
<1> QED BY <1>2, <1>3 DEF AccessInv

LEMMA ReadInv ==
    ASSUME TypeOK, AccessInv, NEW a \in Handlers,
           Admitted(a) \/ ReadForKey(a) \/ ReadForChange(a) \/ ReadForRevocation(a)
    PROVE  AccessInv'
<1>1. UNCHANGED <<keys, services, attached, history>>
  BY DEF Admitted, ReadForKey, ReadForChange, ReadForRevocation
<1>2. AttachmentsHold' /\ (\A pair \in barred : Made(pair[1]))'
  BY <1>1 DEF AccessInv, AttachmentsHold, Exists, Made, history
<1>3. ASSUME NEW state \in Handler, Goes(a, state),
             state.pc \in {"attach", "detach", "revoke"} => Made(state.key),
             state.pc \in {"attach", "detach"} => /\ keys[state.key].kind = "service"
                                                  /\ services[state.id].state # "absent",
             state.pc = "create" => \A id \in state.ids : services[id].state # "absent",
             state.pc \notin {"resolve", "record"}
      PROVE  \A b \in Handlers : ReadHolds(b)'
  <2>1. handler'[a] = state
    BY <1>3, Moves
  <2>2. ReadHolds(a)'
    BY <1>1, <1>3, <2>1 DEF ReadHolds, Made
  <2> QED BY <1>1, <1>3, <2>2, OthersStay DEF Made, history
<1>4. CASE Admitted(a)
  BY <1>2, <1>3, <1>4, NextForms DEF Admitted, AccessInv
<1>5. CASE ReadForKey(a)
  <2>1. ASSUME NEW kind \in {"admin", "user"},
               Goes(a, [pc |-> "create", kind |-> kind, ids |-> {}])
        PROVE  AccessInv'
    BY <1>2, <1>3, <2>1, NextForms DEF AccessInv
  <2>2. ASSUME NEW id \in Ids, Live(id),
               Goes(a, [pc |-> "create", kind |-> "service", ids |-> {id}])
        PROVE  AccessInv'
    BY <1>2, <1>3, <2>2, NextForms DEF AccessInv, Live
  <2> QED BY <1>5, <2>1, <2>2 DEF ReadForKey
<1>6. CASE ReadForChange(a)
  <2>1. PICK k \in Keys, id \in Ids :
           /\ Exists(k) /\ keys[k].kind = "service" /\ Live(id)
           /\ Goes(a, [pc |-> IF <<k, id>> \in attached THEN "detach" ELSE "attach",
                       key |-> k, id |-> id, ids |-> AttachedTo(k)])
    BY <1>6 DEF ReadForChange
  <2> DEFINE s == [pc |-> IF <<k, id>> \in attached THEN "detach" ELSE "attach",
                   key |-> k, id |-> id, ids |-> AttachedTo(k)]
  <2>2. s \in Handler
    BY NextForms DEF AttachedTo
  <2>3. Made(k) /\ services[id].state # "absent"
    BY <2>1 DEF Exists, Made, Live
  <2> QED BY <1>2, <1>3, <2>1, <2>2, <2>3 DEF AccessInv
<1>7. CASE ReadForRevocation(a)
  <2>1. PICK k \in Keys :
           Exists(k) /\ Goes(a, [pc |-> "revoke", key |-> k, ids |-> AttachedTo(k)])
    BY <1>7 DEF ReadForRevocation
  <2>2. [pc |-> "revoke", key |-> k, ids |-> AttachedTo(k)] \in Handler
    BY NextForms DEF AttachedTo
  <2>3. Made(k)
    BY <2>1 DEF Exists, Made
  <2> QED BY <1>2, <1>3, <2>1, <2>2, <2>3 DEF AccessInv
<1> QED BY <1>4, <1>5, <1>6, <1>7

LEMMA CommitKeyInv ==
    ASSUME TypeOK, AccessInv, NEW a \in Handlers, CommitKey(a)
    PROVE  AccessInv'
<1> DEFINE h == handler[a]
<1>1. h \in Creation
  BY PcForms DEF CommitKey
<1>2. PICK k \in Keys :
         /\ keys[k].state = "unused"
         /\ keys' = [keys EXCEPT ![k] = [kind |-> h.kind, state |-> "valid"]]
         /\ attached' = attached \cup ({k} \X h.ids)
         /\ given' = given \cup ({k} \X h.ids)
  BY DEF CommitKey
<1>3. /\ keys'[k] = [kind |-> h.kind, state |-> "valid"]
      /\ \A j \in Keys \ {k} : keys'[j] = keys[j]
  BY <1>2 DEF TypeOK
<1>4. \A j \in Keys : Made(j) => Made(j)' /\ keys'[j].kind = keys[j].kind
  BY <1>2, <1>3 DEF Made
<1>5. UNCHANGED <<services, barred>> /\ Goes(a, Free)
  BY DEF CommitKey
<1>6. AttachmentsHold'
  <2> SUFFICES ASSUME NEW pair \in attached'
               PROVE  /\ keys'[pair[1]].state \in {"valid", "expired"}
                      /\ keys'[pair[1]].kind = "service"
                      /\ services[pair[2]].state # "absent"
                      /\ pair \in given' \ barred
    BY <1>5 DEF AttachmentsHold, Exists
  <2>1. CASE pair \in attached
    <3>1. pair[1] \in Keys /\ Exists(pair[1]) /\ keys[pair[1]].kind = "service"
      BY <2>1 DEF AccessInv, AttachmentsHold, TypeOK
    <3>2. pair[1] # k
      BY <1>2, <3>1 DEF Exists
    <3> QED BY <1>2, <1>3, <2>1, <3>1, <3>2 DEF AccessInv, AttachmentsHold, Exists
  <2>2. CASE pair \in {k} \X h.ids
    <3>1. pair[1] = k /\ pair[2] \in h.ids /\ h.kind = "service"
      BY <1>1, <2>2 DEF Creation
    <3>2. services[pair[2]].state # "absent"
      BY <3>1 DEF AccessInv, ReadHolds, CommitKey
    <3>3. pair \notin barred
      BY <1>2, <3>1 DEF AccessInv, Made
    <3> QED BY <1>2, <1>3, <2>2, <3>1, <3>2, <3>3
  <2> QED BY <1>2, <2>1, <2>2
<1>7. (\A pair \in barred : Made(pair[1]))'
  BY <1>4, <1>5 DEF AccessInv, TypeOK
<1>8. ReadHolds(a)'
  BY <1>5, NextForms, Moves DEF ReadHolds, Free
<1>9. \A b \in Handlers : ReadHolds(b)'
  BY <1>2, <1>4, <1>5, <1>8, NextForms, OthersStay
<1> QED BY <1>6, <1>7, <1>9 DEF AccessInv

LEMMA AttachInv ==
    ASSUME TypeOK, AccessInv, NEW a \in Handlers, Attach(a) \/ Detach(a)
    PROVE  AccessInv'
<1> DEFINE pair == <<handler[a].key, handler[a].id>>
<1>1. /\ pair \in Keys \X Ids /\ Made(handler[a].key)
      /\ keys[handler[a].key].kind = "service" /\ services[handler[a].id].state # "absent"
  BY PcForms DEF Attach, Detach, Change, AccessInv, ReadHolds
<1>2. UNCHANGED <<keys, services>> /\ Goes(a, Free) /\ given \subseteq given'
  BY DEF Attach, Detach, history
<1>3. AttachmentsHold'
  <2>1. CASE Attach(a)
    BY <1>1, <1>2, <2>1 DEF Attach, AccessInv, AttachmentsHold, Exists, history
  <2>2. CASE Detach(a)
    BY <1>1, <1>2, <2>2 DEF Detach, AccessInv, AttachmentsHold, Exists
  <2> QED BY <2>1, <2>2
<1>4. (\A p \in barred : Made(p[1]))'
  BY <1>1, <1>2 DEF AccessInv, Attach, Detach, Made, history
<1>5. ReadHolds(a)'
  BY <1>2, NextForms, Moves DEF ReadHolds, Free
<1>6. \A b \in Handlers : ReadHolds(b)'
  BY <1>2, <1>5, NextForms, OthersStay DEF Made
<1> QED BY <1>3, <1>4, <1>6 DEF AccessInv

LEMMA RevokeInv ==
    ASSUME TypeOK, AccessInv, NEW a \in Handlers, Revoke(a)
    PROVE  AccessInv'
<1> DEFINE k == handler[a].key
<1>1. k \in Keys /\ UNCHANGED <<services, given>> /\ Goes(a, Free)
  BY PcForms DEF Revoke, Revocation
<1>2. keys' = keys \/ keys' = [keys EXCEPT ![k].state = "revoked"]
  BY DEF Revoke
<1>3. /\ \A j \in Keys \ {k} : keys'[j] = keys[j]
      /\ \A j \in Keys : Made(j) => Made(j)' /\ keys'[j].kind = keys[j].kind
  BY <1>1, <1>2 DEF TypeOK, Key, Made
<1>4. AttachmentsHold'
  <2>1. CASE UNCHANGED <<keys, attached, barred>>
    BY <1>1, <2>1 DEF AccessInv, AttachmentsHold, Exists
  <2>2. CASE ~ UNCHANGED <<keys, attached, barred>>
    <3>1. /\ attached' = {pair \in attached : pair[1] # k}
          /\ barred' = barred \cup ({k} \X Ids)
      BY <2>2 DEF Revoke
    <3>2. \A pair \in attached' : pair[1] \in Keys \ {k}
      BY <3>1 DEF TypeOK
    <3> QED BY <1>1, <1>3, <3>1, <3>2 DEF AccessInv, AttachmentsHold, Exists
  <2> QED BY <2>1, <2>2
<1>5. (\A pair \in barred : Made(pair[1]))'
  <2>1. Made(k)
    BY DEF Revoke, AccessInv, ReadHolds
  <2>2. \A pair \in barred' : pair \in barred \/ pair[1] = k
    BY DEF Revoke
  <2> QED BY <1>1, <1>3, <2>1, <2>2 DEF AccessInv, TypeOK
<1>6. ReadHolds(a)'
  BY <1>1, NextForms, Moves DEF ReadHolds, Free
<1>7. \A b \in Handlers : ReadHolds(b)'
  BY <1>1, <1>3, <1>6, NextForms, OthersStay
<1> QED BY <1>4, <1>5, <1>7 DEF AccessInv

LEMMA WorldInv ==
    ASSUME TypeOK, AccessInv, (\E k \in Keys : Expire(k)) \/ Replace \/ Age
    PROVE  AccessInv'
<1>1. UNCHANGED <<attached, handler, history>>
  BY DEF Expire, Replace, Age
<1>2. \A k \in Keys : /\ Made(k) => Made(k)'
                      /\ Exists(k) => Exists(k)'
                      /\ keys'[k].kind = keys[k].kind
  BY DEF Expire, Replace, Age, TypeOK, Key, Made, Exists
<1>3. \A id \in Ids : services[id].state # "absent" => services'[id].state # "absent"
  BY DEF Expire, Replace, Age, TypeOK, Service, Live
<1>4. AttachmentsHold' /\ (\A pair \in barred : Made(pair[1]))'
  BY <1>1, <1>2, <1>3 DEF AccessInv, AttachmentsHold, TypeOK, history
<1>5. \A a \in Handlers : ReadHolds(a)'
  BY <1>1, <1>2, <1>3, ReadStays DEF AccessInv, history
<1> QED BY <1>4, <1>5 DEF AccessInv

LEMMA AccessInductive ==
    /\ Init => AccessInv
    /\ TypeOK /\ AccessInv /\ [Next]_vars => AccessInv'
<1>1. ASSUME Init PROVE AccessInv
  <2>1. AttachmentsHold
    BY <1>1, AccessStart DEF Init, AttachmentsHold, Exists
  <2>2. \A a \in Handlers : ReadHolds(a)
    BY <1>1 DEF Init, ReadHolds, Free
  <2> QED BY <1>1, <2>1, <2>2 DEF AccessInv, Init
<1>2. ASSUME TypeOK, AccessInv, [Next]_vars PROVE AccessInv'
  <2>1. CASE UNCHANGED vars
    BY <1>2, <2>1 DEF vars, history, AccessInv, AttachmentsHold, Exists, Made, ReadHolds
  <2>2. CASE Next
    BY <1>2, <2>2, StatusInv, ReadInv, CommitKeyInv, AttachInv, RevokeInv, WorldInv
    DEF Next, KeyStep
  <2> QED BY <1>2, <2>1, <2>2
<1> QED BY <1>1, <1>2

(* An attachment is about a service key that is not revoked and a service  *)
(* that was created, whatever was revoked or deleted between the read and  *)
(* the commit of the request that made it.                                 *)
THEOREM AttachmentsAlwaysHold == Spec => []AttachmentsHold
<1>1. AccessInv => AttachmentsHold
  BY DEF AccessInv
<1> QED BY <1>1, AccessInductive, AccessTypeCorrect, PTL DEF Spec

-----------------------------------------------------------------------------
(* Who reaches a service *)

(* Nobody but an admin's key, or a key that was attached to this very      *)
(* service, wakes it - not one attached to a service of the same name.     *)
THEOREM OnlyTheEntitledWakeServices == Spec => OnlyTheEntitledWake
<1> DEFINE Entitled(id) ==
              \E a \in Handlers :
                 /\ handler[a].pc = "record" /\ handler[a].id = id
                 /\ \/ keys[handler[a].key].kind = "admin"
                    \/ <<handler[a].key, id>> \in given
           A == \A id \in recent' \ recent : Entitled(id)
<1>1. TypeOK /\ AccessInv /\ [Next]_vars => [A]_vars
  <2> SUFFICES ASSUME TypeOK, AccessInv, Next, NEW id \in recent' \ recent PROVE Entitled(id)
    OBVIOUS
  <2>1. PICK a \in Handlers : Record(a)
    BY DEF Next, StatusStep, BeginStatus, Resolve, KeyStep, Admitted, ReadForKey,
       CommitKey, ReadForChange, Attach, Detach, ReadForRevocation, Revoke, Expire,
       Replace, Age
  <2> QED BY <2>1 DEF Record, AccessInv, ReadHolds
<1> QED BY <1>1, AccessInductive, AccessTypeCorrect, PTL DEF Spec, OnlyTheEntitledWake

(* A key that was detached from a service, or revoked, does not get past   *)
(* the entitlement, not even in a request that had already been let in.    *)
THEOREM TakenBackStaysAway == Spec => TakenBackIsTurnedAway
<1> DEFINE A == \A a \in Handlers :
                  handler[a].pc = "resolve" /\ handler'[a].pc = "record" =>
                     \/ keys[handler[a].key].kind = "admin"
                     \/ <<handler[a].key, handler'[a].id>> \notin barred
<1>1. TypeOK /\ AccessInv /\ [Next]_vars => [A]_vars
  <2> SUFFICES ASSUME TypeOK, AccessInv, Next, NEW a \in Handlers,
                      handler[a].pc = "resolve", handler'[a].pc = "record"
               PROVE  \/ keys[handler[a].key].kind = "admin"
                      \/ <<handler[a].key, handler'[a].id>> \notin barred
    OBVIOUS
  <2>1. ASSUME NEW b \in Handlers, StatusStep(b) \/ KeyStep(b) PROVE b = a
    <3>1. \E state : Goes(b, state)
      BY <2>1 DEF StatusStep, BeginStatus, Resolve, Record, KeyStep, Admitted,
         ReadForKey, CommitKey, ReadForChange, Attach, Detach, ReadForRevocation, Revoke
    <3> QED BY <3>1 DEF Goes, TypeOK
  <2>2. StatusStep(a) \/ KeyStep(a)
    BY <2>1 DEF Next, Expire, Replace, Age
  <2>3. Resolve(a)
    <3>1. ~KeyStep(a) /\ ~Record(a)
      BY DEF KeyStep, Record, ReadForKey, CommitKey, ReadForChange, Attach, Detach,
         ReadForRevocation, Revoke, Admitted, Free
    <3>2. ASSUME NEW k \in Keys, NEW n \in Names PROVE ~BeginStatus(a, k, n)
      BY DEF BeginStatus, Free
    <3> QED BY <2>2, <3>1, <3>2 DEF StatusStep
  <2>4. PICK id \in Ids : /\ Allows(handler[a].key, id)
                          /\ Goes(a, [pc |-> "record", key |-> handler[a].key, id |-> id])
    BY <2>3, NextForms, Moves DEF Resolve, Free
  <2>5. handler'[a].id = id
    BY <2>4 DEF Goes, TypeOK
  <2> QED BY <2>4, <2>5 DEF Allows, Associated, AccessInv, AttachmentsHold
<1> QED BY <1>1, AccessInductive, AccessTypeCorrect, PTL DEF Spec, TakenBackIsTurnedAway

(* Only a request to detach it, or to revoke its key, ends an attachment.  *)
THEOREM AttachmentsOfOthersStay == Spec => OthersKeepAttachments
<1> DEFINE Ended(pair) ==
              \E a \in Handlers :
                 /\ handler[a].pc \in {"detach", "revoke"} /\ handler'[a] = Free
                 /\ handler[a].key = pair[1]
                 /\ handler[a].pc = "detach" => handler[a].id = pair[2]
           A == \A pair \in attached \ attached' : Ended(pair)
<1>1. TypeOK /\ [Next]_vars => [A]_vars
  <2> SUFFICES ASSUME TypeOK, Next, NEW pair \in attached \ attached' PROVE Ended(pair)
    OBVIOUS
  <2>1. PICK a \in Handlers : Detach(a) \/ Revoke(a)
    BY DEF Next, StatusStep, BeginStatus, Resolve, Record, KeyStep, Admitted,
       ReadForKey, CommitKey, ReadForChange, Attach, ReadForRevocation, Expire,
       Replace, Age
  <2>2. handler'[a] = Free
    BY <2>1, NextForms, Moves DEF Detach, Revoke
  <2>3. CASE Detach(a)
    BY <2>2, <2>3 DEF Detach
  <2>4. CASE Revoke(a)
    BY <2>2, <2>4 DEF Revoke
  <2> QED BY <2>1, <2>3, <2>4
<1> QED BY <1>1, AccessTypeCorrect, PTL DEF Spec, OthersKeepAttachments
=============================================================================
