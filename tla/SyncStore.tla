------------------------------ MODULE SyncStore ------------------------------
(***************************************************************************)
(* What the sync server promises its clients, with every batch applied in  *)
(* one step: a last-writer-wins store keyed by version number, one change  *)
(* counter per group (sync/PROTOCOL.md sections 3 and 4, as implemented by *)
(* class Store of sync/server/app.py).  SyncServer is shown to implement   *)
(* this module.                                                            *)
(***************************************************************************)
EXTENDS Integers, Sequences

CONSTANTS
  Group,      \* group ids
  AuthHash,   \* values the column groups.auth_hash can hold
  Key,        \* <<collection, id>> pairs
  Batch,      \* batches of wire records clients may push
  None        \* an absent row

VARIABLES
  auth_hash,    \* table groups
  records,      \* table records
  seq_counter   \* table seq_counter

vars == <<auth_hash, records, seq_counter>>

Init ==
  /\ auth_hash = [g \in Group |-> None]
  /\ records = [g \in Group |-> [k \in Key |-> None]]
  /\ seq_counter = [g \in Group |-> 0]

(* A version beats an absent row and every row with a smaller version.     *)
Beats(version, row) == row = None \/ version > row.version

(* The positions before `end` at which a batch offers key k something      *)
(* newer than `row`.                                                       *)
Offers(batch, end, k, row) ==
  {j \in 1 .. end : batch[j].key = k /\ Beats(batch[j].version, row)}

(* Position j wins among the positions `offers`: it has the highest        *)
(* version, and is the first of those that have it.                        *)
Wins(batch, j, offers) ==
  /\ j \in offers
  /\ \A i \in offers : batch[i].version < batch[j].version
                       \/ (batch[i].version = batch[j].version /\ j <= i)

(* `new` is table `old` after the first `end` records of the batch, whose  *)
(* accepted records were numbered from `from` + 1 up to `to`.              *)
Merged(batch, end, old, new, from, to) ==
  /\ \A k \in Key :
       LET offers == Offers(batch, end, k, old[k]) IN
       IF offers = {} THEN new[k] = old[k]
       ELSE /\ new[k] # None
            /\ new[k].seq > from /\ new[k].seq <= to
            /\ \E j \in offers : /\ Wins(batch, j, offers)
                                 /\ new[k].version = batch[j].version
                                 /\ new[k].body = batch[j].body
  /\ \A k, l \in Key :
       new[k] # old[k] /\ new[l] # old[l] /\ new[k].seq = new[l].seq => k = l

(* POST /v1/pair of a group nobody registered yet.                         *)
Register(g, h) ==
  /\ auth_hash[g] = None
  /\ auth_hash' = [auth_hash EXCEPT ![g] = h]
  /\ UNCHANGED <<records, seq_counter>>

(* POST /v1/records: the whole batch, in one step, into one group.         *)
Upsert(g, batch) ==
  /\ auth_hash[g] # None
  /\ seq_counter'[g] >= seq_counter[g]
  /\ Merged(batch, Len(batch), records[g], records'[g],
            seq_counter[g], seq_counter'[g])
  /\ \A h \in Group \ {g} : /\ records'[h] = records[h]
                            /\ seq_counter'[h] = seq_counter[h]
  /\ UNCHANGED auth_hash

Next ==
  \E g \in Group : \/ \E h \in AuthHash : Register(g, h)
                   \/ \E batch \in Batch : Upsert(g, batch)

Spec == Init /\ [][Next]_vars
=============================================================================
