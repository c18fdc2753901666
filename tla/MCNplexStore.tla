---------------------------- MODULE MCNplexStore ----------------------------
(* NplexStore on a small instance: two valid keys and an invalid one, two  *)
(* users, revisions up to 3.                                               *)
EXTENDS NplexStore

CONSTANTS MaxEntries    \* bound: entries of one update message

(* Every commit over at most MaxEntries keys, deletes of absent keys,      *)
(* entries with an invalid key and empty commits included.                 *)
MCUpdate ==
    {u \in [rev : 1 .. MaxRev, user : User,
            upserts : PartialFcn(Key, Data), deletes : SUBSET Key] :
        /\ DOMAIN u.upserts \cap u.deletes = {}
        /\ Cardinality(DOMAIN u.upserts \cup u.deletes) <= MaxEntries}

(* Snapshots hold upserts only, each key once: no update at all, or two of *)
(* one key each, by different users.  Some are not in order or are newer   *)
(* than the snapshot, which load() must refuse.                            *)
SnapshotUpdate(usr) ==
    {u \in MCUpdate : u.user = usr /\ u.deletes = {} /\ Cardinality(DOMAIN u.upserts) = 1}
MCSnapshot ==
    LET two == {<<u, v>> : u \in SnapshotUpdate(CHOOSE x \in User : TRUE),
                           v \in UNION {SnapshotUpdate(x) : x \in User}}
    IN {s \in [rev : {0, 2}, updates : {<<>>} \cup two] :
            s.updates # <<>> =>
                /\ s.updates[1].user # s.updates[2].user
                /\ DOMAIN s.updates[1].upserts # DOMAIN s.updates[2].upserts}
=============================================================================
