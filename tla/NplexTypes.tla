----------------------------- MODULE NplexTypes -----------------------------
(***************************************************************************)
(* The data that the modules of this project share: commits as the server  *)
(* streams them and the key-value content they produce.                    *)
(***************************************************************************)
EXTENDS Integers

CONSTANTS
    Key,        \* keys of the database
    Data,       \* contents of a value
    User        \* names of the users that commit

(* A partial function from S to T: the map-valued data of this project.    *)
PartialFcn(S, T) == UNION {[D -> T] : D \in SUBSET S}

(* The same as a predicate.                                                *)
IsMap(m, S, T) == DOMAIN m \subseteq S /\ m \in [DOMAIN m -> T]

(* msgs::Update: the effects of one commit.  A commit names a key at most  *)
(* once (transaction_impl keeps one entry per key), so upserts and deletes *)
(* are disjoint.                                                           *)
UpdateMsg ==
    {u \in [rev : Nat \ {0}, user : User,
            upserts : PartialFcn(Key, Data), deletes : SUBSET Key] :
        DOMAIN u.upserts \cap u.deletes = {}}

EmptyMap == [k \in {} |-> k]

(* Maps as partial functions: the map with k bound to v, and without k.    *)
Put(m, k, v) == [x \in DOMAIN m \cup {k} |-> IF x = k THEN v ELSE m[x]]
Drop(m, k) == [x \in DOMAIN m \ {k} |-> m[x]]

(* The content after the given upserts and deletes of a commit (r, usr).   *)
Patch(content, upserts, deletes, r, usr) ==
    [k \in (DOMAIN content \cup DOMAIN upserts) \ deletes |->
        IF k \in DOMAIN upserts
        THEN [data |-> upserts[k], rev |-> r, user |-> usr]
        ELSE content[k]]
=============================================================================
