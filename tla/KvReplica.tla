------------------------------ MODULE KvReplica ------------------------------
(***************************************************************************)
(* What the in-memory copy of the database promises to everyone who looks  *)
(* at it between two calls: a revision and a map from keys to values, each *)
(* value stamped with the commit (revision and user) that wrote it.  The   *)
(* copy moves in whole commits or in whole snapshots, never in parts.      *)
(*                                                                         *)
(* This is the abstract specification that NplexStore (src/src/store.cpp)  *)
(* is shown to implement.  Its operators are also what NplexTransactions   *)
(* uses for the store, one commit at a time.                               *)
(***************************************************************************)
EXTENDS NplexTypes, Sequences

CONSTANTS
    Update,     \* the commits the server may stream, a set of UpdateMsg
    Snapshot    \* the snapshots it may send: a revision and a sequence of commits

(* value_t: the data, and the metadata of the commit that wrote it.        *)
ValueRec == [data : Data, rev : Nat \ {0}, user : User]

IsContent(c) == IsMap(c, Key, ValueRec)

-----------------------------------------------------------------------------
VARIABLES
    rev,        \* revision of the copy
    content,    \* key -> value
    usable      \* FALSE while a snapshot is being loaded or after an exception

vars == <<rev, content, usable>>

Init == rev = 0 /\ content = EmptyMap /\ usable = TRUE

(* A commit newer than the copy is applied as a whole.                     *)
Apply(u) ==
    /\ usable
    /\ u.rev > rev
    /\ rev' = u.rev
    /\ content' = Patch(content, u.upserts, u.deletes, u.rev, u.user)
    /\ UNCHANGED usable

(* A load or a failed call makes the copy unusable, whatever its content.  *)
Invalidate ==
    /\ usable' = FALSE
    /\ rev' \in Nat
    /\ IsContent(content')

(* The content that the first n of the commits us make of an empty one:    *)
(* for each key what the last of them that names it says.                  *)
Names(u, k) == k \in DOMAIN u.upserts \cup u.deletes
Last(us, n, k, i) == i \in 1 .. n /\ Names(us[i], k) /\ \A j \in i + 1 .. n : ~Names(us[j], k)
LastOf(us, n, k) == CHOOSE i \in 1 .. n : Last(us, n, k, i)
Present(us, n, k) == \E i \in 1 .. n : Last(us, n, k, i) /\ k \in DOMAIN us[i].upserts
ContentOf(us, n) ==
    [k \in {x \in Key : Present(us, n, x)} |->
        LET u == us[LastOf(us, n, k)]
        IN [data |-> u.upserts[k], rev |-> u.rev, user |-> u.user]]

(* The first n commits are in order and not newer than the snapshot.       *)
InOrder(s, n) ==
    \A i \in 1 .. n :
        s.updates[i].rev <= s.rev /\ \A j \in 1 .. i - 1 : s.updates[j].rev < s.updates[i].rev

(* A load ends: the copy is the snapshot, all of it and nothing else.      *)
Loaded(s) ==
    /\ ~usable
    /\ usable' = TRUE
    /\ InOrder(s, Len(s.updates))
    /\ rev' = s.rev
    /\ content' = ContentOf(s.updates, Len(s.updates))

(* The copy is emptied.                                                    *)
Reset == rev' = 0 /\ content' = EmptyMap /\ usable' = TRUE

Next ==
    \/ \E u \in Update : Apply(u)
    \/ Invalidate
    \/ \E s \in Snapshot : Loaded(s)
    \/ Reset

Spec == Init /\ [][Next]_vars
=============================================================================
