-------------------------------- MODULE Access --------------------------------
(***************************************************************************)
(* API keys: which services a key reaches, what /status makes of it, and   *)
(* the requests that create and revoke keys, attach services to them and   *)
(* detach them.  A request checks its own key as it arrives, then reads    *)
(* what it needs, then commits; nothing is locked in between.  Services    *)
(* come and go under it, and a name may pass from one to the next.         *)
(***************************************************************************)
EXTENDS Naturals, FiniteSets

CONSTANTS
    Keys,         \* key ids
    Names,        \* service names
    Ids,          \* service ids
    Starting,     \* service ids live at the start, each with its name
    Granted,      \* the keys there at the start, each with its kind
    Attached,     \* the services they are attached to
    Handlers,     \* requests that may be under way together
    MaxChanges,   \* bound: requests that change keys or services
    MaxReplaced   \* bound: services deleted, and created anew

Kinds == {"admin", "user", "service"}
ASSUME AccessNames == Names # {}
ASSUME AccessStart ==
    /\ DOMAIN Starting \subseteq Ids /\ \A id \in DOMAIN Starting : Starting[id] \in Names
    /\ DOMAIN Granted \subseteq Keys /\ \A k \in DOMAIN Granted : Granted[k] \in Kinds
    /\ Attached \subseteq (DOMAIN Granted) \X (DOMAIN Starting)
    /\ \A pair \in Attached : Granted[pair[1]] = "service"
    /\ \A i, j \in DOMAIN Starting : Starting[i] = Starting[j] => i = j
ASSUME AccessBounds == MaxChanges \in Nat /\ MaxReplaced \in Nat

VARIABLES
    keys,      \* api_keys: kind and state of each
    services,  \* services: name and state
    recent,    \* services whose last_active_time is recent
    attached,  \* key_service_association
    handler,   \* what each request handler does
    changes, replaced, \* counters behind the bounds
    given,     \* history: pairs a request was asked to attach and did
    barred     \* history: pairs taken back, by detaching or revoking, and not given since

bounds == <<changes, replaced>>
history == <<given, barred>>
vars == <<keys, services, recent, attached, handler, bounds, history>>

Key == [kind: Kinds, state: {"unused", "valid", "expired", "revoked"}]
Service == [name: Names, state: {"absent", "live", "deleted"}]
Free == [pc |-> "idle"]
Polling == [pc: {"resolve"}, key: Keys, name: Names]
Recording == [pc: {"record"}, key: Keys, id: Ids]
Creation == [pc: {"create"}, kind: {"admin", "user"}, ids: {{}}] \cup
            [pc: {"create"}, kind: {"service"}, ids: {{id} : id \in Ids}]
Change == [pc: {"attach", "detach"}, key: Keys, id: Ids, ids: SUBSET Ids]
Revocation == [pc: {"revoke"}, key: Keys, ids: SUBSET Ids]
Handler == {Free, [pc |-> "read"]} \cup Polling \cup Recording \cup Creation \cup Change \cup Revocation

Init ==
    /\ keys = [k \in Keys |-> IF k \in DOMAIN Granted THEN [kind |-> Granted[k], state |-> "valid"]
                             ELSE [kind |-> "service", state |-> "unused"]]
    /\ services = [id \in Ids |->
                     [name |-> IF id \in DOMAIN Starting THEN Starting[id] ELSE CHOOSE n \in Names : TRUE,
                      state |-> IF id \in DOMAIN Starting THEN "live" ELSE "absent"]]
    /\ recent = {}
    /\ attached = Attached /\ given = Attached /\ barred = {}
    /\ handler = [a \in Handlers |-> Free]
    /\ changes = 0 /\ replaced = 0

Goes(a, state) == handler' = [handler EXCEPT ![a] = state]
Live(id) == services[id].state = "live"
Exists(k) == keys[k].state \in {"valid", "expired"}
AttachedTo(k) == {id \in Ids : <<k, id>> \in attached}

-----------------------------------------------------------------------------
(* /status/{service_name}                                                  *)

(* validate_api_key and require_service: a key that exists, has not        *)
(* expired, and is not a user's.                                           *)
BeginStatus(a, k, n) ==
    /\ handler[a] = Free
    /\ keys[k].state = "valid" /\ keys[k].kind \in {"admin", "service"}
    /\ Goes(a, [pc |-> "resolve", key |-> k, name |-> n])
    /\ UNCHANGED <<keys, services, recent, attached, bounds, history>>

(* Mutant: being attached to any service of the name is enough.            *)
AssociatedByName(k, id) == \E i \in AttachedTo(k) : services[i].name = services[id].name

(* get_service_with_key_association, for the service it resolves to.       *)
Associated(k, id) == <<k, id>> \in attached

(* key_allows_service                                                      *)
Allows(k, id) == keys[k].kind = "admin" \/ Associated(k, id)

(* One statement finds the live service of the name and whether the key is *)
(* attached to it.  No service (404), no entitlement (403), or a service   *)
(* that, whatever the reconciler last wrote, is down for good (503) end    *)
(* the request.                                                            *)
Resolve(a) ==
    LET h == handler[a]
        entitled == {id \in Ids : Live(id) /\ services[id].name = h.name /\ Allows(h.key, id)} IN
    /\ h.pc = "resolve"
    /\ \/ \E id \in entitled :
             Goes(a, [pc |-> "record", key |-> h.key, id |-> id])
       \/ Goes(a, Free)
    /\ UNCHANGED <<keys, services, recent, attached, bounds, history>>

(* record_activity: recent activity is left as it is.                      *)
Record(a) ==
    /\ handler[a].pc = "record"
    /\ recent' = recent \cup {handler[a].id}
    /\ Goes(a, Free)
    /\ UNCHANGED <<keys, services, attached, bounds, history>>

-----------------------------------------------------------------------------
(* Requests on keys: an admin's valid key is all that lets one in          *)

Admitted(a) ==
    /\ handler[a] = Free /\ changes < MaxChanges /\ changes' = changes + 1
    /\ \E k \in Keys : keys[k] = [kind |-> "admin", state |-> "valid"]
    /\ Goes(a, [pc |-> "read"])
    /\ UNCHANGED <<keys, services, recent, attached, replaced, history>>

(* Mutant: create_api_key makes keys of any kind.                          *)
ReadForAnyKey(a) ==
    /\ handler[a].pc = "read"
    /\ \/ \E kind \in Kinds : Goes(a, [pc |-> "create", kind |-> kind, ids |-> {}])
       \/ \E id \in Ids :
             Live(id) /\ Goes(a, [pc |-> "create", kind |-> "service", ids |-> {id}])
    /\ UNCHANGED <<keys, services, recent, attached, bounds, history>>

(* create_api_key, for admins and users; create_service_key, which takes a *)
(* live service.                                                           *)
ReadForKey(a) ==
    /\ handler[a].pc = "read"
    /\ \/ \E kind \in {"admin", "user"} : Goes(a, [pc |-> "create", kind |-> kind, ids |-> {}])
       \/ \E id \in Ids :
             Live(id) /\ Goes(a, [pc |-> "create", kind |-> "service", ids |-> {id}])
    /\ UNCHANGED <<keys, services, recent, attached, bounds, history>>

(* generate_key                                                            *)
CommitKey(a) ==
    LET h == handler[a] IN
    /\ h.pc = "create"
    /\ \E k \in Keys :
          /\ keys[k].state = "unused"
          /\ keys' = [keys EXCEPT ![k] = [kind |-> h.kind, state |-> "valid"]]
          /\ attached' = attached \cup ({k} \X h.ids)
          /\ given' = given \cup ({k} \X h.ids)
    /\ Goes(a, Free)
    /\ UNCHANGED <<services, recent, bounds, barred>>

(* add_service_key and remove_service_key: the key is a service key, the   *)
(* service is live, and attached is what they make of it.                  *)
ReadForChange(a) ==
    /\ handler[a].pc = "read"
    /\ \E k \in Keys : \E id \in Ids :
          /\ Exists(k) /\ keys[k].kind = "service" /\ Live(id)
          /\ Goes(a, [pc |-> IF <<k, id>> \in attached THEN "detach" ELSE "attach",
                      key |-> k, id |-> id, ids |-> AttachedTo(k)])
    /\ UNCHANGED <<keys, services, recent, attached, bounds, history>>

(* Mutant: the key may be gone by now.                                     *)
AttachUnchecked(a) ==
    LET pair == <<handler[a].key, handler[a].id>> IN
    /\ handler[a].pc = "attach"
    /\ attached' = attached \cup {pair} /\ given' = given \cup {pair}
    /\ barred' = barred \ {pair}
    /\ Goes(a, Free)
    /\ UNCHANGED <<keys, services, recent, bounds>>

(* Mutant: the services read of the key are written back with the new one. *)
AttachWritesList(a) ==
    LET h == handler[a]
        pair == <<h.key, h.id>> IN
    /\ h.pc = "attach"
    /\ IF Exists(h.key) /\ pair \notin attached
       THEN /\ attached' = {p \in attached : p[1] # h.key} \cup ({h.key} \X (h.ids \cup {h.id}))
            /\ given' = given \cup {pair} /\ barred' = barred \ {pair}
       ELSE UNCHANGED <<attached, history>>
    /\ Goes(a, Free)
    /\ UNCHANGED <<keys, services, recent, bounds>>

(* One row is inserted; the key must still be there, and the row not yet.  *)
Attach(a) ==
    LET h == handler[a]
        pair == <<h.key, h.id>> IN
    /\ h.pc = "attach"
    /\ IF Exists(h.key) /\ pair \notin attached
       THEN /\ attached' = attached \cup {pair} /\ given' = given \cup {pair}
            /\ barred' = barred \ {pair}
       ELSE UNCHANGED <<attached, history>>
    /\ Goes(a, Free)
    /\ UNCHANGED <<keys, services, recent, bounds>>

(* One row is deleted; if it is no longer there the request fails.         *)
Detach(a) ==
    LET pair == <<handler[a].key, handler[a].id>> IN
    /\ handler[a].pc = "detach"
    /\ attached' = attached \ {pair}
    /\ barred' = barred \cup {pair}
    /\ Goes(a, Free)
    /\ UNCHANGED <<keys, services, recent, bounds, given>>

ReadForRevocation(a) ==
    /\ handler[a].pc = "read"
    /\ \E k \in Keys : Exists(k) /\ Goes(a, [pc |-> "revoke", key |-> k, ids |-> AttachedTo(k)])
    /\ UNCHANGED <<keys, services, recent, attached, bounds, history>>

(* Mutant: the attachments it did not load stay.                           *)
RevokeLoaded(a) ==
    LET h == handler[a] IN
    /\ h.pc = "revoke"
    /\ IF h.ids \subseteq AttachedTo(h.key)
       THEN /\ keys' = [keys EXCEPT ![h.key].state = "revoked"]
            /\ attached' = attached \ ({h.key} \X h.ids)
            /\ barred' = barred \cup ({h.key} \X Ids)
       ELSE UNCHANGED <<keys, attached, barred>>
    /\ Goes(a, Free)
    /\ UNCHANGED <<services, recent, bounds, given>>

(* revoke_key deletes the attachments it loaded, and fails if one is gone; *)
(* those it did not load go with the key.                                  *)
Revoke(a) ==
    LET h == handler[a] IN
    /\ h.pc = "revoke"
    /\ IF h.ids \subseteq AttachedTo(h.key)
       THEN /\ keys' = [keys EXCEPT ![h.key].state = "revoked"]
            /\ attached' = {pair \in attached : pair[1] # h.key}
            /\ barred' = barred \cup ({h.key} \X Ids)
       ELSE UNCHANGED <<keys, attached, barred>>
    /\ Goes(a, Free)
    /\ UNCHANGED <<services, recent, bounds, given>>

-----------------------------------------------------------------------------
(* The world                                                               *)

Expire(k) ==
    /\ keys[k].state = "valid"
    /\ keys' = [keys EXCEPT ![k].state = "expired"]
    /\ UNCHANGED <<services, recent, attached, handler, bounds, history>>

(* Services are deleted and created; attachments stay with the old id.     *)
Replace ==
    /\ replaced < MaxReplaced /\ replaced' = replaced + 1
    /\ \/ \E id \in Ids : Live(id) /\ services' = [services EXCEPT ![id].state = "deleted"]
       \/ \E id \in Ids : \E n \in Names :
             /\ services[id].state = "absent"
             /\ \A i \in Ids : ~(Live(i) /\ services[i].name = n)
             /\ services' = [services EXCEPT ![id].name = n, ![id].state = "live"]
    /\ UNCHANGED <<keys, recent, attached, handler, changes, history>>

Age ==
    /\ recent # {} /\ recent' = {}
    /\ UNCHANGED <<keys, services, attached, handler, bounds, history>>

-----------------------------------------------------------------------------
StatusStep(a) ==
    \/ \E k \in Keys : \E n \in Names : BeginStatus(a, k, n)
    \/ Resolve(a) \/ Record(a)

KeyStep(a) ==
    \/ Admitted(a)
    \/ ReadForKey(a) \/ CommitKey(a)
    \/ ReadForChange(a) \/ Attach(a) \/ Detach(a)
    \/ ReadForRevocation(a) \/ Revoke(a)

Next ==
    \/ \E a \in Handlers : StatusStep(a) \/ KeyStep(a)
    \/ \E k \in Keys : Expire(k)
    \/ Replace
    \/ Age

Spec == Init /\ [][Next]_vars

-----------------------------------------------------------------------------
TypeOK ==
    /\ keys \in [Keys -> Key]
    /\ services \in [Ids -> Service]
    /\ recent \subseteq Ids
    /\ attached \subseteq Keys \X Ids
    /\ handler \in [Handlers -> Handler]
    /\ changes \in 0 .. MaxChanges /\ replaced \in 0 .. MaxReplaced
    /\ given \subseteq Keys \X Ids /\ barred \subseteq Keys \X Ids

(* The row a key and a service are attached by is about both for as long   *)
(* as it is there: the key is a service key that is not revoked, whatever  *)
(* was revoked or deleted between the read and the commit that attached it.*)
AttachmentsHold ==
    \A pair \in attached :
       /\ Exists(pair[1]) /\ keys[pair[1]].kind = "service"
       /\ services[pair[2]].state # "absent" /\ pair \in given \ barred

(* "every non-terminal branch below records wake intent, which an          *)
(* unentitled caller must not be able to trigger": a service wakes for an  *)
(* admin's key, or for a key that was attached to this very service - not  *)
(* to one that had its name before.                                        *)
OnlyTheEntitledWake ==
    [][\A id \in recent' \ recent :
             \E a \in Handlers :
                /\ handler[a].pc = "record" /\ handler[a].id = id
                /\ \/ keys[handler[a].key].kind = "admin"
                   \/ <<handler[a].key, id>> \in given]_vars

(* A service key that was detached from a service, or revoked, does not    *)
(* get past the entitlement again, not even in a request that was under    *)
(* way with the key already accepted, until it is attached anew.           *)
TakenBackIsTurnedAway ==
    [][\A a \in Handlers :
          handler[a].pc = "resolve" /\ handler'[a].pc = "record" =>
             \/ keys[handler[a].key].kind = "admin"
             \/ <<handler[a].key, handler'[a].id>> \notin barred]_vars

(* An attachment goes by a request to detach it or to revoke its key, and  *)
(* by no other: requests on one key do not undo each other's work.         *)
OthersKeepAttachments ==
    [][\A pair \in attached \ attached' :
          \E a \in Handlers :
             /\ handler[a].pc \in {"detach", "revoke"} /\ handler'[a] = Free
             /\ handler[a].key = pair[1]
             /\ handler[a].pc = "detach" => handler[a].id = pair[2]]_vars
=============================================================================
