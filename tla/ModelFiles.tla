------------------------------ MODULE ModelFiles ------------------------------
(***************************************************************************)
(* What a model storage promises its callers (storage/base.py): a call     *)
(* either returns, having done all it says, or raises, having left         *)
(* something undone - but a move that raises leaves every file whole at    *)
(* the one place or the other.  Calls are single steps here.               *)
(***************************************************************************)
EXTENDS Naturals

CONSTANTS
    Names,      \* model names
    Versions,   \* version numbers
    Files,      \* the files a model may have
    Config,     \* the one that belongs to no version
    VersionOf,  \* the version of each other file
    Uploads,    \* what a file may come from
    None,       \* no file
    Partial     \* a file that is not whole

Root(n) == <<"root", n>>
Aside(n) == <<"stash", n>>
Places == {"root", "stash"} \X Names
Content == Uploads \cup {None, Partial}
FilesOf(v) == {f \in Files \ {Config} : VersionOf[f] = v}
Nothing == [f \in Files |-> None]

VARIABLES
    held,   \* the files at each place
    answer  \* how the last call ended

vars == <<held, answer>>

Under(p) == {f \in Files : held[p][f] # None}
Init == held \in [Places -> [Files -> Uploads \cup {None}]] /\ answer = "done"

Without(gone, p) == held' = [held EXCEPT ![p] = [f \in Files |-> IF f \in gone THEN None ELSE @[f]]]

(* A version and, if the bundle has one, the config; a model that has no   *)
(* config needs one.  Files of the version that are there stay, unless the *)
(* bundle has them.                                                        *)
Stored(n, u, saved) ==
    held' = [held EXCEPT ![Root(n)] = [f \in Files |-> IF f \in saved THEN u ELSE @[f]]]

Save(n, v, u, config) ==
    /\ answer' = "done"
    /\ Config \in Under(Root(n)) \cup config
    /\ Stored(n, u, FilesOf(v) \cup config)

SaveRaises(n, v, u, config) ==
    /\ answer' = "raised"
    /\ \E saved \in SUBSET (FilesOf(v) \cup config) : Stored(n, u, saved)

(* The model goes with its last version.                                   *)
Delete(n, v) ==
    LET left == Under(Root(n)) \ FilesOf(v) IN
    /\ answer' = "done"
    /\ Under(Root(n)) \cap FilesOf(v) # {}
    /\ Without(IF left \subseteq {Config} THEN Files ELSE FilesOf(v), Root(n))

DeleteRaises(n, v) ==
    /\ answer' = "raised"
    /\ \E gone \in SUBSET (FilesOf(v) \cup {Config}) :
          /\ Config \in gone => Under(Root(n)) \subseteq gone
          /\ Without(gone, Root(n))

(* rename and stash want their destination empty, restore replaces it.     *)
Moves == {<<Root(n), Root(m)>> : n, m \in Names} \cup {<<Root(n), Aside(n)>> : n \in Names}
Restores == {<<Aside(n), Root(n)>> : n \in Names}

Move(from, to) ==
    /\ answer' = "done"
    /\ Under(from) # {}
    /\ <<from, to>> \in Moves => Under(to) = {}
    /\ held' = [held EXCEPT ![to] = held[from], ![from] = Nothing]

MoveRaises(from, to) ==
    /\ answer' = "raised"
    /\ \/ UNCHANGED held
       \/ /\ Under(from) # {}
          /\ <<from, to>> \in Moves => Under(to) = {}
          /\ \A p \in Places \ {from, to} : held'[p] = held[p]
          /\ \A f \in Files : held'[from][f] \in {held[from][f], None}
          /\ \A f \in Files : held'[to][f] \in {held[to][f], held[from][f], Partial, None}
          /\ held'[from] # held[from] => held'[to] = held[from]

Discard(n) == answer' = "done" /\ Without(Files, Aside(n))
DiscardRaises(n) ==
    /\ answer' = "raised"
    /\ \E gone \in SUBSET Under(Aside(n)) : Without(gone, Aside(n))

(* A copy given up on may still come to its end, whole or not.             *)
Settle(p, f) ==
    /\ held[p][f] = Partial
    /\ \E u \in Uploads : held' = [held EXCEPT ![p][f] = u]
    /\ UNCHANGED answer

Next ==
    \/ \E n \in Names, v \in Versions, u \in Uploads, config \in SUBSET {Config} :
          Save(n, v, u, config) \/ SaveRaises(n, v, u, config)
    \/ \E n \in Names, v \in Versions : Delete(n, v) \/ DeleteRaises(n, v)
    \/ \E move \in Moves \cup Restores : Move(move[1], move[2]) \/ MoveRaises(move[1], move[2])
    \/ \E n \in Names : Discard(n) \/ DiscardRaises(n)
    \/ \E p \in Places, f \in Files : Settle(p, f)

Spec == Init /\ [][Next]_vars
=============================================================================
