-------------------------- MODULE SyncServerProofs ---------------------------
(***************************************************************************)
(* Theorems about SyncServer for every set of threads, groups, keys,       *)
(* versions and requests, and every combination of faults.                 *)
(***************************************************************************)
EXTENDS SyncServer, TLAPS

Table == [Key -> Row \cup {None}]

(* The batch is made of wire records up to position `end`.                 *)
WireUpTo(batch, end) == \A i \in 1 .. end : batch[i] \in Wire

(* What membership in Wire and in Table says, field by field.              *)
LEMMA WireFields ==
  ASSUME NEW w \in Wire
  PROVE  w.key \in Key /\ w.version \in Version /\ w.version \in Int
         /\ w.body \in Body \cup {Null}
BY VersionAssumption DEF Wire

LEMMA TableFields ==
  ASSUME NEW table \in Table, NEW k \in Key, table[k] # None
  PROVE  /\ table[k] \in Row
         /\ table[k].version \in Version /\ table[k].version \in Int
         /\ table[k].body \in Body /\ table[k].seq \in Nat
<1>1. table[k] \in Row
  BY DEF Table
<1> QED
  BY <1>1, VersionAssumption DEF Row

(* An empty prefix merges to the table itself.                             *)
LEMMA MergedNothing ==
  ASSUME NEW batch, NEW old \in Table, NEW from \in Nat
  PROVE  Store!Merged(batch, 0, old, old, from, from)
<1>1. \A k \in Key : Store!Offers(batch, 0, k, old[k]) = {}
  BY DEF Store!Offers
<1> QED
  BY <1>1 DEF Store!Merged

(* A stale record leaves the merge of the longer prefix what it was.       *)
LEMMA MergedConflict ==
  ASSUME NEW batch, NEW p \in Nat \ {0}, WireUpTo(batch, p),
         NEW old \in Table, NEW new \in Table, NEW from \in Nat, NEW to \in Nat,
         Store!Merged(batch, p - 1, old, new, from, to),
         Stale(batch[p].version, new[batch[p].key])
  PROVE  Store!Merged(batch, p, old, new, from, to)
<1> DEFINE key == batch[p].key
           Before(k) == Store!Offers(batch, p - 1, k, old[k])
           After(k)  == Store!Offers(batch, p, k, old[k])
<1>0. /\ batch[p] \in Wire /\ key \in Key
      /\ \A i \in 1 .. p : batch[i].version \in Int
      /\ \A k \in Key : new[k] # None => new[k].version \in Int
      /\ \A k \in Key : old[k] # None => old[k].version \in Int
  <2>1. \A i \in 1 .. p : batch[i].version \in Int
    BY WireFields DEF WireUpTo
  <2>2. batch[p] \in Wire /\ key \in Key
    BY WireFields DEF WireUpTo
  <2> QED
    BY <2>1, <2>2, TableFields
<1>1. \A k \in Key : Before(k) \subseteq After(k)
  BY DEF Store!Offers
<1>2. \A k \in Key : After(k) \subseteq Before(k) \cup {p}
  BY DEF Store!Offers
<1>3. \A k \in Key \ {key} : After(k) = Before(k)
  BY DEF Store!Offers
<1>4. CASE Before(key) = {}
  <2>1. new[key] = old[key]
    BY <1>4, <1>0 DEF Store!Merged
  <2>2. After(key) = {}
    BY <2>1, <1>4, <1>2, <1>0 DEF Store!Offers, Store!Beats, Stale
  <2>3. \A k \in Key : After(k) = Before(k)
    BY <2>2, <1>3, <1>4
  <2> QED
    BY <2>3 DEF Store!Merged, Store!Wins
<1>5. CASE Before(key) # {}
  <2>1. PICK j \in Before(key) : /\ Store!Wins(batch, j, Before(key))
                                 /\ new[key].version = batch[j].version
                                 /\ new[key].body = batch[j].body
    BY <1>5, <1>0 DEF Store!Merged, Store!Wins
  <2>2. j \in 1 .. (p - 1)
    BY DEF Store!Offers
  <2>3. batch[p].version <= batch[j].version
    BY <2>1, <1>0, <1>5 DEF Stale
  <2>4. Store!Wins(batch, j, After(key))
    BY <2>1, <2>2, <2>3, <1>0, <1>1, <1>2 DEF Store!Wins
  <2>5. After(key) # {}
    BY <1>1, <1>5, <1>0
  <2>6. \A k \in Key : (After(k) = {}) <=> (Before(k) = {})
    BY <2>5, <1>5, <1>3
  <2>7. ASSUME NEW k \in Key, After(k) # {}
        PROVE  /\ new[k] # None /\ new[k].seq > from /\ new[k].seq <= to
               /\ \E i \in After(k) : /\ Store!Wins(batch, i, After(k))
                                      /\ new[k].version = batch[i].version
                                      /\ new[k].body = batch[i].body
    <3>1. CASE k = key
      BY <3>1, <2>1, <2>4, <2>6, <2>7, <1>1, <1>0 DEF Store!Merged
    <3>2. CASE k # key
      BY <3>2, <1>3, <2>7 DEF Store!Merged
    <3> QED
      BY <3>1, <3>2
  <2> QED
    BY <2>6, <2>7 DEF Store!Merged
<1> QED
  BY <1>4, <1>5

(* An accepted record wins its key, under a number nobody else has.        *)
LEMMA MergedAccept ==
  ASSUME NEW batch, NEW p \in Nat \ {0}, WireUpTo(batch, p),
         NEW old \in Table, NEW new \in Table, NEW from \in Nat, NEW to \in Nat,
         from <= to,
         Store!Merged(batch, p - 1, old, new, from, to),
         \A k \in Key : new[k] # None /\ new[k] # old[k] => new[k].seq <= to,
         ~Stale(batch[p].version, new[batch[p].key]),
         batch[p].body # Null,
         NEW next \in Table,
         next = [new EXCEPT ![batch[p].key] =
                   [version |-> batch[p].version, body |-> batch[p].body,
                    seq |-> to + 1]]
  PROVE  Store!Merged(batch, p, old, next, from, to + 1)
<1> DEFINE key == batch[p].key
           Before(k) == Store!Offers(batch, p - 1, k, old[k])
           After(k)  == Store!Offers(batch, p, k, old[k])
<1>0. /\ batch[p] \in Wire /\ key \in Key
      /\ \A i \in 1 .. p : batch[i].version \in Int
      /\ \A k \in Key : new[k] # None => new[k].version \in Int
      /\ \A k \in Key : old[k] # None => old[k].version \in Int
      /\ \A k \in Key : new[k] # None => new[k].seq \in Nat
      /\ next[key] \in Row
      /\ next[key] = [version |-> batch[p].version, body |-> batch[p].body,
                      seq |-> to + 1]
      /\ \A k \in Key \ {key} : next[k] = new[k]
  <2>1. \A i \in 1 .. p : batch[i].version \in Int
    BY WireFields DEF WireUpTo
  <2>2. batch[p] \in Wire /\ key \in Key
    BY WireFields DEF WireUpTo
  <2>3. batch[p].version \in Version /\ batch[p].body \in Body
    BY <2>2, WireFields
  <2>4. /\ next[key] = [version |-> batch[p].version, body |-> batch[p].body,
                        seq |-> to + 1]
        /\ \A k \in Key \ {key} : next[k] = new[k]
    BY <2>2 DEF Table
  <2>5. next[key] \in Row
    BY <2>3, <2>4 DEF Row
  <2> QED
    BY <2>1, <2>2, <2>4, <2>5, TableFields
<1>1. \A k \in Key : Before(k) \subseteq After(k)
  BY DEF Store!Offers
<1>2. \A k \in Key : After(k) \subseteq Before(k) \cup {p}
  BY DEF Store!Offers
<1>3. \A k \in Key \ {key} : After(k) = Before(k)
  BY DEF Store!Offers
<1>4. /\ Store!Beats(batch[p].version, old[key])
      /\ \A i \in Before(key) : batch[i].version < batch[p].version
  <2>1. CASE Before(key) = {}
    <3>1. new[key] = old[key]
      BY <2>1, <1>0 DEF Store!Merged
    <3> QED
      BY <3>1, <2>1, <1>0 DEF Store!Beats, Stale
  <2>2. CASE Before(key) # {}
    <3>1. new[key] # None
      BY <2>2, <1>0 DEF Store!Merged
    <3>2. PICK j \in Before(key) : /\ Store!Wins(batch, j, Before(key))
                                   /\ new[key].version = batch[j].version
      BY <2>2, <1>0 DEF Store!Merged, Store!Wins
    <3>3. j \in 1 .. p /\ Store!Beats(batch[j].version, old[key])
      BY DEF Store!Offers
    <3>4. batch[j].version < batch[p].version
      BY <3>1, <3>2, <3>3, <1>0 DEF Stale
    <3>5. \A i \in Before(key) : i \in 1 .. p
      BY DEF Store!Offers
    <3>6. \A i \in Before(key) : batch[i].version <= batch[j].version
      BY <3>2, <3>3, <3>5, <1>0 DEF Store!Wins
    <3>7. \A i \in Before(key) : batch[i].version < batch[p].version
      BY <3>4, <3>6, <3>5, <3>3, <1>0
    <3>8. Store!Beats(batch[p].version, old[key])
      BY <3>3, <3>4, <1>0 DEF Store!Beats
    <3> QED
      BY <3>7, <3>8
  <2> QED
    BY <2>1, <2>2
<1>5. p \in After(key)
  BY <1>4, <1>0 DEF Store!Offers
<1>6. Store!Wins(batch, p, After(key))
  BY <1>5, <1>4, <1>2, <1>0 DEF Store!Wins
<1>7. ASSUME NEW k \in Key, After(k) = {}
      PROVE  next[k] = old[k]
  BY <1>7, <1>5, <1>3, <1>0 DEF Store!Merged
<1>8. ASSUME NEW k \in Key, After(k) # {}
      PROVE  /\ next[k] # None /\ next[k].seq > from /\ next[k].seq <= to + 1
             /\ \E i \in After(k) : /\ Store!Wins(batch, i, After(k))
                                    /\ next[k].version = batch[i].version
                                    /\ next[k].body = batch[i].body
  <2>1. CASE k = key
    BY <2>1, <1>5, <1>6, <1>0, NoneAssumption
  <2>2. CASE k # key
    <3>1. After(k) = Before(k) /\ next[k] = new[k]
      BY <2>2, <1>3, <1>0
    <3>2. /\ new[k] # None /\ new[k].seq > from /\ new[k].seq <= to
          /\ \E i \in Before(k) : /\ Store!Wins(batch, i, Before(k))
                                  /\ new[k].version = batch[i].version
                                  /\ new[k].body = batch[i].body
      BY <3>1, <1>8 DEF Store!Merged
    <3>3. new[k].seq \in Nat
      BY <3>2, <1>0
    <3> QED
      BY <3>1, <3>2, <3>3
  <2> QED
    BY <2>1, <2>2
<1>9. ASSUME NEW k \in Key, NEW l \in Key, next[k] # old[k], next[l] # old[l],
             next[k].seq = next[l].seq
      PROVE  k = l
  <2>1. \A m \in Key : m # key /\ next[m] # old[m] => next[m].seq <= to
    BY <1>0, <1>3, <1>7, <1>8
  <2>2. next[key].seq = to + 1
    BY <1>0
  <2>3. CASE k # key /\ l # key
    BY <2>3, <1>9, <1>0 DEF Store!Merged
  <2> QED
    BY <2>1, <2>2, <2>3, <1>9, <1>0
<1> QED
  BY <1>7, <1>8, <1>9 DEF Store!Merged
-----------------------------------------------------------------------------
(* The part of the type invariant every step of a handler disturbs.        *)
HandlerType ==
  /\ pc \in [Thread -> {"idle", "pair", "auth", "push", "upsert", "pull",
                        "respond"}]
  /\ req \in [Thread -> Request \cup {None}]
  /\ reply \in [Thread -> Reply \cup {None}]
  /\ \A t \in Thread : pc[t] = "respond" => reply[t] \in Reply

(* The request a busy thread serves is of the kind its place in the code   *)
(* implies, and past the payload checks its batch is well formed.          *)
RequestInv ==
  \A t \in Thread :
    /\ pc[t] # "idle" => req[t] \in Request
    /\ pc[t] = "pair" => CallOf(t).op = "pair"
    /\ pc[t] = "auth" => CallOf(t).op \in {"push", "pull"}
    /\ pc[t] \in {"push", "upsert"} =>
         CallOf(t).op = "push" /\ WellFormed(BatchOf(t))
    /\ pc[t] = "pull" => CallOf(t).op = "pull"

(* The lock is held exactly while its holder is inside the loop, and the   *)
(* connection sees uncommitted rows at no other time.                      *)
LockInv ==
  /\ \A t \in Thread : pc[t] = "upsert" <=> lock = t
  /\ lock = NoThread => tx_records = records

(* The loop of upsert_records: the connection's table is the merge of the  *)
(* batch's prefix into the committed one.                                  *)
LoopAt(t) ==
  LET g == GroupOf(t)
      batch == BatchOf(t)
  IN /\ pos[t] <= Len(batch) + 1
     /\ CounterOf(g) <= seq[t]
     /\ Store!Merged(batch, pos[t] - 1, records[g], tx_records[g],
                     CounterOf(g), seq[t])
     /\ \A h \in Group \ {g} : tx_records[h] = records[h]
     /\ \A i \in accepted[t] :
          /\ i \in 1 .. (pos[t] - 1)
          /\ batch[i].body # Null
          /\ Honours(tx_records[g], ClaimOf(batch[i]))
     /\ \A c \in conflicts[t] : Stands(tx_records[g], c)

LoopInv == \A t \in Thread : pc[t] = "upsert" => LoopAt(t)

(* A pull's server_seq is a number already handed out, or its own `since`. *)
CursorInv ==
  \A t \in Thread :
    /\ pc[t] = "respond" /\ CallOf(t).op = "pull" /\ reply[t].status = 200
    /\ GroupOf(t) \notin torn
    => \/ reply[t].server_seq <= CallOf(t).since
       \/ reply[t].server_seq <= CounterOf(GroupOf(t))

(* A group whose registration never broke off: the connection sees of it   *)
(* what is committed, it has both its rows or neither, and no record       *)
(* before them.                                                            *)
Whole(g) ==
  /\ tx_auth_hash[g] = auth_hash[g] /\ tx_seq_counter[g] = seq_counter[g]
  /\ auth_hash[g] # None => seq_counter[g] # None
  /\ auth_hash[g] = None => seq_counter[g] = None /\ records[g] = NoRow

WholeInv == \A g \in Group \ torn : Whole(g)

IInv ==
  /\ TypeOK /\ HandlerType /\ RequestInv /\ LockInv /\ LoopInv /\ SeqNumbers
  /\ CursorInv /\ WholeInv
  /\ ToldIsKept /\ ConflictsStand /\ NoGapBehindCursor /\ Authorised

LEMMA CounterNat ==
  ASSUME TypeOK, NEW g \in Group
  PROVE  CounterOf(g) \in Nat
BY DEF TypeOK, CounterOf

(* What a request holds, by kind.                                          *)
LEMMA RequestFields ==
  ASSUME NEW r \in Request
  PROVE  /\ r.group \in Group /\ r.token \in Secret
         /\ r.call \in Call /\ r.call.op \in {"pair", "push", "pull"}
         /\ r.call.op = "pair" => r.call.hash \in AuthHash \cup {Null}
         /\ r.call.op = "push" => r.call.batch \in Seq(Wire \cup {Malformed})
         /\ r.call.op = "pull" => /\ r.call.collection \in Collection \cup {None}
                                  /\ r.call.since \in Int
<1>1. r \in RequestType
  BY RequestAssumption
<1>2. r.group \in Group /\ r.token \in Secret /\ r.call \in Call
  BY <1>1 DEF RequestType
<1>3. CASE r.call \in PairCall
  BY <1>2, <1>3 DEF PairCall
<1>4. CASE r.call \in PushCall
  BY <1>2, <1>4 DEF PushCall
<1>5. CASE r.call \in PullCall
  BY <1>2, <1>5 DEF PullCall
<1> QED
  BY <1>2, <1>3, <1>4, <1>5 DEF Call

(* A well-formed batch is made of wire records.                            *)
LEMMA WellFormedIsWire ==
  ASSUME NEW batch \in Seq(Wire \cup {Malformed}), WellFormed(batch)
  PROVE  Len(batch) \in Nat /\ \A i \in 1 .. Len(batch) : batch[i] \in Wire
<1>1. \A i \in 1 .. Len(batch) : batch[i] \in Wire \cup {Malformed}
  OBVIOUS
<1> QED
  BY <1>1 DEF WellFormed

(* What a thread inside upsert_records knows of its request.               *)
LEMMA PushFields ==
  ASSUME RequestInv, NEW t \in Thread, pc[t] \in {"push", "upsert"}
  PROVE  /\ req[t] \in Request /\ GroupOf(t) \in Group
         /\ CallOf(t).op = "push"
         /\ BatchOf(t) \in Seq(Wire \cup {Malformed}) /\ Len(BatchOf(t)) \in Nat
         /\ \A i \in 1 .. Len(BatchOf(t)) : BatchOf(t)[i] \in Wire
<1>1. req[t] \in Request /\ CallOf(t).op = "push" /\ WellFormed(BatchOf(t))
  BY DEF RequestInv
<1>2. GroupOf(t) \in Group /\ BatchOf(t) \in Seq(Wire \cup {Malformed})
  BY <1>1, RequestFields DEF GroupOf, BatchOf, CallOf
<1> QED
  BY <1>1, <1>2, WellFormedIsWire

(* The record the loop is at, when it is at one.                           *)
LEMMA CurrentFields ==
  ASSUME TypeOK, RequestInv, NEW t \in Thread, pc[t] = "upsert",
         pos[t] <= Len(BatchOf(t))
  PROVE  /\ Current(t) \in Wire /\ Current(t).key \in Key
         /\ pos[t] \in 1 .. Len(BatchOf(t))
<1>1. pos[t] \in 1 .. Len(BatchOf(t))
  BY PushFields DEF TypeOK
<1> QED
  BY <1>1, PushFields, WireFields DEF Current
-----------------------------------------------------------------------------
LEMMA InitIInv == Init => IInv
<1> SUFFICES ASSUME Init PROVE IInv
  OBVIOUS
<1>1. TypeOK
  <2>1. NoRow \in [Key -> Row \cup {None}]
    BY DEF NoRow
  <2>2. /\ records \in [Group -> [Key -> Row \cup {None}]]
        /\ tx_records \in [Group -> [Key -> Row \cup {None}]]
    BY <2>1 DEF Init
  <2>3. in_transaction \in BOOLEAN /\ lock \in Thread \cup {NoThread}
    BY DEF Init
  <2>4. HandlerType
    BY DEF Init, HandlerType
  <2>5. /\ pos \in [Thread -> Nat \ {0}] /\ seq \in [Thread -> Nat]
        /\ accepted \in [Thread -> SUBSET Nat]
        /\ conflicts \in [Thread -> SUBSET Conflict]
    BY DEF Init
  <2>6. /\ auth_hash \in [Group -> AuthHash \cup {None}]
        /\ seq_counter \in [Group -> Nat \cup {None}]
        /\ tx_auth_hash \in [Group -> AuthHash \cup {None}]
        /\ tx_seq_counter \in [Group -> Nat \cup {None}]
        /\ torn \subseteq Group
        /\ told \in [Group -> SUBSET Claim]
    BY DEF Init
  <2> QED
    BY <2>2, <2>3, <2>4, <2>5, <2>6 DEF TypeOK, HandlerType
<1>2. RequestInv /\ LoopInv /\ CursorInv /\ Authorised
  BY DEF Init, RequestInv, LoopInv, CursorInv, Authorised
<1>3. LockInv
  BY NoThreadAssumption DEF Init, LockInv
<1>4. SeqNumbers /\ ToldIsKept /\ ConflictsStand /\ NoGapBehindCursor
  BY DEF Init, NoRow, SeqNumbers, ToldIsKept, ConflictsStand,
         NoGapBehindCursor
<1>5. HandlerType
  BY <1>1 DEF Init, TypeOK, HandlerType
<1>6. WholeInv
  BY DEF Init, WholeInv, Whole
<1> QED
  BY <1>1, <1>2, <1>3, <1>4, <1>5, <1>6 DEF IInv

(* An answer built from typed parts is typed.                              *)
LEMMA AnswerType ==
  ASSUME HandlerType, NEW t \in Thread,
         NEW status \in {200, 400, 403, 409}, NEW claims \in SUBSET Claim,
         NEW cs \in SUBSET Conflict, NEW n \in Int,
         Answer(t, status, claims, cs, n)
  PROVE  HandlerType'
<1>1. [status |-> status, claims |-> claims, conflicts |-> cs,
       server_seq |-> n] \in Reply
  BY DEF Reply
<1> QED
  BY <1>1 DEF HandlerType, Answer

LEMMA DropType ==
  ASSUME HandlerType, NEW t \in Thread, Drop(t)
  PROVE  HandlerType'
BY DEF HandlerType, Drop

(* A thread that goes on, with a request of the right type and no answer.  *)
LEMMA MoveType ==
  ASSUME HandlerType, NEW t \in Thread,
         NEW at \in {"pair", "auth", "push", "pull", "upsert"},
         pc' = [pc EXCEPT ![t] = at],
         req' \in [Thread -> Request \cup {None}], reply' = reply
  PROVE  HandlerType'
BY DEF HandlerType

LEMMA SameHandlerType ==
  ASSUME HandlerType, UNCHANGED handler
  PROVE  HandlerType'
BY DEF HandlerType, handler

LEMMA ResetLoopType ==
  ASSUME TypeOK, NEW t \in Thread, ResetLoop(t)
  PROVE  /\ pos' \in [Thread -> Nat \ {0}] /\ seq' \in [Thread -> Nat]
         /\ accepted' \in [Thread -> SUBSET Nat]
         /\ conflicts' \in [Thread -> SUBSET Conflict]
BY DEF TypeOK, ResetLoop

(* What upsert_records answers is typed.                                   *)
LEMMA CommitClaimsType ==
  ASSUME TypeOK, RequestInv, LoopInv, NEW t \in Thread, pc[t] = "upsert"
  PROVE  {ClaimOf(BatchOf(t)[i]) : i \in accepted[t]} \in SUBSET Claim
<1> SUFFICES ASSUME NEW i \in accepted[t]
             PROVE  ClaimOf(BatchOf(t)[i]) \in Claim
  OBVIOUS
<1>1. i \in 1 .. Len(BatchOf(t)) /\ BatchOf(t)[i].body # Null
  BY PushFields DEF LoopInv, LoopAt, TypeOK
<1>2. BatchOf(t)[i] \in Wire
  BY <1>1, PushFields
<1> QED
  BY <1>1, <1>2, WireFields DEF ClaimOf, Claim

(* The rows a pull returns are claims.                                     *)
LEMMA PullClaimsType ==
  ASSUME NEW table \in Table, NEW collection, NEW since
  PROVE  {[key |-> k, version |-> table[k].version, body |-> table[k].body] :
            k \in Selected(table, collection, since)} \in SUBSET Claim
<1> SUFFICES ASSUME NEW k \in Selected(table, collection, since)
             PROVE  [key |-> k, version |-> table[k].version,
                     body |-> table[k].body] \in Claim
  OBVIOUS
<1>1. k \in Key /\ table[k] # None
  BY DEF Selected
<1> QED
  BY <1>1, TableFields DEF Claim

LEMMA ReplyFields ==
  ASSUME NEW r \in Reply
  PROVE  /\ r.claims \in SUBSET Claim /\ r.conflicts \in SUBSET Conflict
         /\ r.server_seq \in Int
BY DEF Reply

(* A roll-back leaves the views typed.                                     *)
LEMMA RollBackType ==
  ASSUME TypeOK, RollBack
  PROVE  /\ tx_auth_hash' \in [Group -> AuthHash \cup {None}]
         /\ tx_seq_counter' \in [Group -> Nat \cup {None}]
         /\ tx_records' \in [Group -> [Key -> Row \cup {None}]]
         /\ in_transaction' \in BOOLEAN
BY DEF TypeOK, RollBack

LEMMA WithCounterType ==
  ASSUME TypeOK, NEW g \in Group
  PROVE  WithCounter(g) \in [Group -> Nat \cup {None}]
BY DEF TypeOK, WithCounter

LEMMA TypeStep == IInv /\ [Next]_vars => TypeOK' /\ HandlerType'
<1> SUFFICES ASSUME IInv, [Next]_vars PROVE TypeOK' /\ HandlerType'
  OBVIOUS
<1>0. TypeOK /\ HandlerType /\ RequestInv /\ LoopInv
  BY DEF IInv
<1>1. ASSUME NEW t \in Thread, NEW r \in Request, Receive(t, r)
      PROVE  TypeOK' /\ HandlerType'
  <2>1. req' \in [Thread -> Request \cup {None}]
    BY <1>0, <1>1 DEF Receive, TypeOK
  <2>2. PICK at \in {"pair", "auth"} : pc' = [pc EXCEPT ![t] = at]
    BY <1>1 DEF Receive
  <2>3. HandlerType'
    BY <1>0, <1>1, <2>1, <2>2, MoveType DEF Receive
  <2> QED
    BY <1>0, <1>1, <2>3
    DEF TypeOK, HandlerType, Receive, store, tables, views, loop
<1>2. ASSUME NEW t \in Thread, PairRegister(t) PROVE TypeOK' /\ HandlerType'
  <2>1. GroupOf(t) \in Group /\ CallOf(t).hash \in AuthHash
    BY <1>0, <1>2, RequestFields
    DEF PairRegister, RequestInv, GroupOf, CallOf
  <2>2. Answer(t, 200, {}, {}, 0)
    BY <1>2 DEF PairRegister
  <2>3. HandlerType'
    BY <1>0, <2>2, AnswerType
  <2>4. /\ auth_hash' \in [Group -> AuthHash \cup {None}]
        /\ tx_auth_hash' \in [Group -> AuthHash \cup {None}]
    BY <1>0, <1>2, <2>1 DEF PairRegister, TypeOK
  <2>5. /\ seq_counter' \in [Group -> Nat \cup {None}]
        /\ tx_seq_counter' \in [Group -> Nat \cup {None}]
    BY <1>0, <1>2, <2>1, WithCounterType DEF PairRegister
  <2>6. in_transaction' \in BOOLEAN
    BY <1>2 DEF PairRegister
  <2>7. UNCHANGED <<records, tx_records, torn, lock, loop, told>>
    BY <1>2 DEF PairRegister
  <2> QED
    BY <1>0, <2>3, <2>4, <2>5, <2>6, <2>7 DEF TypeOK, HandlerType, loop
<1>3. ASSUME NEW t \in Thread, PairExisting(t) PROVE TypeOK' /\ HandlerType'
  <2>1. PICK status \in {200, 409} : Answer(t, status, {}, {}, 0)
    BY <1>3 DEF PairExisting
  <2>2. HandlerType'
    BY <1>0, <2>1, AnswerType
  <2> QED
    BY <1>0, <1>3, <2>2
    DEF PairExisting, TypeOK, HandlerType, loop, store, tables, views
<1>4. ASSUME NEW t \in Thread, PairRaise(t) PROVE TypeOK' /\ HandlerType'
  <2>1. /\ tx_auth_hash' \in [Group -> AuthHash \cup {None}]
        /\ tx_seq_counter' \in [Group -> Nat \cup {None}]
        /\ tx_records' \in [Group -> [Key -> Row \cup {None}]]
        /\ in_transaction' \in BOOLEAN
    BY <1>0, <1>4, RollBackType DEF PairRaise, TypeOK, views
  <2>2. HandlerType'
    BY <1>0, <1>4, DropType DEF PairRaise
  <2>3. UNCHANGED <<tables, torn, lock, loop, told>>
    BY <1>4 DEF PairRaise
  <2> QED
    BY <1>0, <2>1, <2>2, <2>3 DEF HandlerType, TypeOK, loop, tables
<1>4a. ASSUME NEW t \in Thread, PairBreaks(t) PROVE TypeOK' /\ HandlerType'
  <2>1. GroupOf(t) \in Group /\ CallOf(t).hash \in AuthHash
    BY <1>0, <1>4a, RequestFields DEF PairBreaks, RequestInv, GroupOf, CallOf
  <2>2. HandlerType'
    BY <1>0, <1>4a, DropType DEF PairBreaks
  <2>3. tx_auth_hash' \in [Group -> AuthHash \cup {None}]
    BY <1>0, <1>4a, <2>1 DEF PairBreaks, TypeOK
  <2>4. tx_seq_counter' \in [Group -> Nat \cup {None}]
    BY <1>0, <1>4a, <2>1, WithCounterType DEF PairBreaks, TypeOK
  <2>5. torn' \subseteq Group /\ in_transaction' \in BOOLEAN
    BY <1>0, <1>4a, <2>1 DEF PairBreaks, TypeOK
  <2>6. UNCHANGED <<tables, tx_records, lock, loop, told>>
    BY <1>4a DEF PairBreaks
  <2> QED
    BY <1>0, <2>2, <2>3, <2>4, <2>5, <2>6 DEF HandlerType, TypeOK, loop, tables
<1>5. ASSUME NEW t \in Thread, Authenticate(t) PROVE TypeOK' /\ HandlerType'
  <2>0. UNCHANGED <<store, lock, loop, told>>
    BY <1>5 DEF Authenticate
  <2>1. CASE \E status \in {400, 403} : Answer(t, status, {}, {}, 0)
    <3>1. PICK status \in {400, 403} : Answer(t, status, {}, {}, 0)
      BY <2>1
    <3>2. HandlerType'
      BY <1>0, <3>1, AnswerType
    <3> QED
      BY <1>0, <2>0, <3>2 DEF TypeOK, HandlerType, loop, store, tables, views
  <2>2. CASE /\ pc' = [pc EXCEPT ![t] = CallOf(t).op]
             /\ UNCHANGED <<req, reply>>
    <3>1. CallOf(t).op \in {"push", "pull"}
      BY <1>0, <1>5 DEF RequestInv, Authenticate
    <3>2. HandlerType'
      <4>1. req' \in [Thread -> Request \cup {None}]
        BY <1>0, <2>2 DEF HandlerType
      <4> QED
        BY <1>0, <2>2, <3>1, <4>1, MoveType
    <3> QED
      BY <1>0, <2>0, <3>2 DEF TypeOK, HandlerType, loop, store, tables, views
  <2> QED
    BY <1>5, <2>1, <2>2 DEF Authenticate
<1>5a. ASSUME NEW t \in Thread, ReadRaise(t) PROVE TypeOK' /\ HandlerType'
  <2>1. /\ tx_auth_hash' \in [Group -> AuthHash \cup {None}]
        /\ tx_seq_counter' \in [Group -> Nat \cup {None}]
        /\ tx_records' \in [Group -> [Key -> Row \cup {None}]]
        /\ in_transaction' \in BOOLEAN
    BY <1>0, <1>5a, RollBackType DEF ReadRaise, TypeOK, views
  <2>2. HandlerType'
    BY <1>0, <1>5a, DropType DEF ReadRaise
  <2>3. UNCHANGED <<tables, torn, lock, loop, told>>
    BY <1>5a DEF ReadRaise
  <2> QED
    BY <1>0, <2>1, <2>2, <2>3 DEF HandlerType, TypeOK, loop, tables
<1>6. ASSUME NEW t \in Thread, UpsertBegin(t) PROVE TypeOK' /\ HandlerType'
  <2>1. CounterOf(GroupOf(t)) \in Nat
    BY <1>0, <1>6, PushFields, CounterNat DEF UpsertBegin
  <2>2. HandlerType'
    <3>1. req' \in [Thread -> Request \cup {None}]
      BY <1>0, <1>6 DEF HandlerType, UpsertBegin
    <3> QED
      BY <1>0, <1>6, <3>1, MoveType DEF UpsertBegin
  <2>3. /\ pos' \in [Thread -> Nat \ {0}] /\ seq' \in [Thread -> Nat]
        /\ accepted' \in [Thread -> SUBSET Nat]
        /\ conflicts' \in [Thread -> SUBSET Conflict]
        /\ lock' \in Thread \cup {NoThread} /\ in_transaction' \in BOOLEAN
    BY <1>0, <1>6, <2>1 DEF UpsertBegin, TypeOK
  <2>4. UNCHANGED <<tables, views, torn, told>>
    BY <1>6 DEF UpsertBegin
  <2> QED
    BY <1>0, <2>2, <2>3, <2>4 DEF TypeOK, HandlerType, tables, views
<1>7. ASSUME NEW t \in Thread, UpsertBeginRaise(t) PROVE TypeOK' /\ HandlerType'
  <2>1. HandlerType'
    BY <1>0, <1>7, DropType DEF UpsertBeginRaise
  <2>2. RollBack /\ UNCHANGED <<tables, torn, lock, loop, told>>
    BY <1>7 DEF UpsertBeginRaise
  <2> QED
    BY <1>0, <2>1, <2>2, RollBackType DEF HandlerType, TypeOK, loop, tables
<1>8. ASSUME NEW t \in Thread, UpsertConflict(t) PROVE TypeOK' /\ HandlerType'
  <2>1. /\ Current(t) \in Wire /\ GroupOf(t) \in Group
        /\ Existing(t) # None
    BY <1>0, <1>8, CurrentFields, PushFields DEF UpsertConflict, Stale
  <2>2. Existing(t).version \in Version
    BY <1>0, <2>1, TableFields, WireFields DEF TypeOK, Table, Existing
  <2>3. [key |-> Current(t).key, version |-> Current(t).version,
         server_version |-> Existing(t).version] \in Conflict
    BY <2>1, <2>2, WireFields DEF Conflict
  <2>4. HandlerType'
    BY <1>0, <1>8, SameHandlerType DEF UpsertConflict
  <2>5. TypeOK'
    BY <1>0, <1>8, <2>3
    DEF UpsertConflict, TypeOK, store, tables, views, handler
  <2> QED
    BY <2>4, <2>5
<1>9. ASSUME NEW t \in Thread, UpsertAccept(t) PROVE TypeOK' /\ HandlerType'
  <2>1. /\ Current(t) \in Wire /\ GroupOf(t) \in Group
        /\ seq[t] + 1 \in Nat
    BY <1>0, <1>9, CurrentFields, PushFields DEF UpsertAccept, TypeOK
  <2>2. [version |-> Current(t).version, body |-> Current(t).body,
         seq |-> seq[t] + 1] \in Row
    BY <1>9, <2>1, WireFields DEF UpsertAccept, Row
  <2>3. tx_records' \in [Group -> [Key -> Row \cup {None}]]
    BY <1>0, <1>9, <2>1, <2>2 DEF UpsertAccept, TypeOK
  <2>4. HandlerType'
    BY <1>0, <1>9, SameHandlerType DEF UpsertAccept
  <2>5. TypeOK'
    BY <1>0, <1>9, <2>1, <2>3 DEF UpsertAccept, TypeOK, tables, handler
  <2> QED
    BY <2>4, <2>5
<1>10. ASSUME NEW t \in Thread, UpsertRaise(t) PROVE TypeOK' /\ HandlerType'
  <2>1. HandlerType'
    BY <1>0, <1>10, DropType DEF UpsertRaise
  <2>2. /\ RollBack /\ ResetLoop(t) /\ lock' = NoThread
        /\ UNCHANGED <<tables, torn, told>>
    BY <1>10 DEF UpsertRaise
  <2>3. /\ pos' \in [Thread -> Nat \ {0}] /\ seq' \in [Thread -> Nat]
        /\ accepted' \in [Thread -> SUBSET Nat]
        /\ conflicts' \in [Thread -> SUBSET Conflict]
    BY <1>0, <2>2, ResetLoopType
  <2> QED
    BY <1>0, <2>1, <2>2, <2>3, RollBackType DEF HandlerType, TypeOK, tables
<1>11. ASSUME NEW t \in Thread, UpsertCommit(t) PROVE TypeOK' /\ HandlerType'
  <2> DEFINE claims == {ClaimOf(BatchOf(t)[i]) : i \in accepted[t]}
  <2>1. PICK status \in {200, 409} :
          Answer(t, status, claims, conflicts[t], seq[t])
    BY <1>11 DEF UpsertCommit
  <2>2. /\ claims \in SUBSET Claim
        /\ conflicts[t] \in SUBSET Conflict /\ seq[t] \in Int
    BY <1>0, <1>11, CommitClaimsType DEF UpsertCommit, TypeOK
  <2> HIDE DEF claims
  <2>3. HandlerType'
    BY <1>0, <2>1, <2>2, AnswerType
  <2>4. ResetLoop(t)
    BY <1>11 DEF UpsertCommit
  <2>5. /\ pos' \in [Thread -> Nat \ {0}] /\ seq' \in [Thread -> Nat]
        /\ accepted' \in [Thread -> SUBSET Nat]
        /\ conflicts' \in [Thread -> SUBSET Conflict]
    BY <1>0, <2>4, ResetLoopType
  <2>6. /\ records' = tx_records
        /\ seq_counter' = Counted(GroupOf(t), seq[t])
        /\ tx_seq_counter' = Counted(GroupOf(t), seq[t])
        /\ in_transaction' = FALSE /\ lock' = NoThread
        /\ UNCHANGED <<auth_hash, tx_auth_hash, tx_records, torn, told>>
    BY <1>11 DEF UpsertCommit
  <2>7. Counted(GroupOf(t), seq[t]) \in [Group -> Nat \cup {None}]
    <3>1. GroupOf(t) \in Group /\ seq[t] \in Nat
      BY <1>0, <1>11, PushFields DEF UpsertCommit, TypeOK
    <3>2. seq_counter \in [Group -> Nat \cup {None}]
      BY <1>0 DEF TypeOK
    <3> QED
      BY <3>1, <3>2 DEF Counted
  <2>8. in_transaction' \in BOOLEAN /\ lock' \in Thread \cup {NoThread}
    BY <2>6
  <2>9. /\ auth_hash' \in [Group -> AuthHash \cup {None}]
        /\ tx_auth_hash' \in [Group -> AuthHash \cup {None}]
        /\ torn' \subseteq Group
        /\ records' \in [Group -> [Key -> Row \cup {None}]]
        /\ tx_records' \in [Group -> [Key -> Row \cup {None}]]
        /\ told' \in [Group -> SUBSET Claim]
    BY <1>0, <2>6 DEF TypeOK
  <2> QED
    BY <2>3, <2>5, <2>6, <2>7, <2>8, <2>9 DEF TypeOK, HandlerType
<1>12. ASSUME NEW t \in Thread, Pull(t) PROVE TypeOK' /\ HandlerType'
  <2> DEFINE table == tx_records[GroupOf(t)]
             since == CallOf(t).since
             keys  == Selected(table, CallOf(t).collection, since)
             claims == {[key |-> k, version |-> table[k].version,
                         body |-> table[k].body] : k \in keys}
  <2>1. GroupOf(t) \in Group /\ since \in Int
    BY <1>0, <1>12, RequestFields DEF Pull, RequestInv, GroupOf, CallOf
  <2>2. table \in Table
    BY <1>0, <2>1 DEF TypeOK, Table
  <2>3. PICK s \in {since} \cup {table[k].seq : k \in keys} :
          Answer(t, 200, claims, {}, s)
    BY <1>12 DEF Pull
  <2>4. \A k \in keys : table[k].seq \in Int
    BY <2>2, TableFields DEF Selected
  <2>5. s \in Int /\ claims \in SUBSET Claim
    BY <2>1, <2>2, <2>4, PullClaimsType
  <2> HIDE DEF claims
  <2>6. HandlerType'
    BY <1>0, <2>3, <2>5, AnswerType
  <2> QED
    BY <1>0, <1>12, <2>6
    DEF Pull, TypeOK, HandlerType, loop, store, tables, views
<1>13. ASSUME NEW t \in Thread, Respond(t) PROVE TypeOK' /\ HandlerType'
  <2>1. GroupOf(t) \in Group /\ reply[t].claims \in SUBSET Claim
    <3>1. pc[t] = "respond"
      BY <1>13 DEF Respond
    <3>2. req[t] \in Request
      BY <1>0, <3>1 DEF RequestInv
    <3>3. reply[t] \in Reply
      BY <1>0, <3>1 DEF HandlerType
    <3>4. reply[t].claims \in SUBSET Claim
      BY <3>3, ReplyFields
    <3> QED
      BY <3>2, <3>4, RequestFields DEF GroupOf
  <2>2. HandlerType'
    BY <1>0, <1>13, DropType DEF Respond
  <2> QED
    BY <1>0, <1>13, <2>1, <2>2
    DEF HandlerType, Respond, TypeOK, loop, store, tables, views
<1>14. ASSUME NEW t \in Thread, Disconnect(t) PROVE TypeOK' /\ HandlerType'
  BY <1>0, <1>14, DropType
  DEF HandlerType, Disconnect, TypeOK, loop, store, tables, views
<1>15. CASE Crash
  <2>1. HandlerType'
    BY <1>15 DEF Crash, HandlerType
  <2>2. /\ pos' \in [Thread -> Nat \ {0}] /\ seq' \in [Thread -> Nat]
        /\ accepted' \in [Thread -> SUBSET Nat]
        /\ conflicts' \in [Thread -> SUBSET Conflict]
    BY <1>15 DEF Crash
  <2>3. /\ RollBack /\ lock' = NoThread /\ UNCHANGED <<tables, torn, told>>
    BY <1>15 DEF Crash
  <2> QED
    BY <1>0, <2>1, <2>2, <2>3, RollBackType DEF TypeOK, HandlerType, tables
<1>16. CASE UNCHANGED vars
  <2>1. HandlerType'
    BY <1>0, <1>16, SameHandlerType DEF vars
  <2> QED
    BY <1>0, <1>16, <2>1 DEF TypeOK, HandlerType, vars, store, tables, views, loop
<1> QED
  BY <1>1, <1>2, <1>3, <1>4, <1>4a, <1>5, <1>5a, <1>6, <1>7, <1>8, <1>9,
     <1>10, <1>11, <1>12, <1>13, <1>14, <1>15, <1>16
  DEF Next, Serve, UpsertStep
-----------------------------------------------------------------------------
(* Where an answer and a dropped connection leave the other threads.       *)
LEMMA AnswerFrame ==
  ASSUME HandlerType, NEW t \in Thread, NEW status, NEW claims, NEW cs, NEW n,
         Answer(t, status, claims, cs, n)
  PROVE  /\ pc'[t] = "respond" /\ req' = req
         /\ reply'[t].status = status /\ reply'[t].claims = claims
         /\ reply'[t].conflicts = cs /\ reply'[t].server_seq = n
         /\ \A u \in Thread \ {t} : pc'[u] = pc[u] /\ reply'[u] = reply[u]
BY DEF HandlerType, Answer

LEMMA DropFrame ==
  ASSUME HandlerType, NEW t \in Thread, Drop(t)
  PROVE  /\ pc'[t] = "idle"
         /\ \A u \in Thread \ {t} : /\ pc'[u] = pc[u] /\ req'[u] = req[u]
                                    /\ reply'[u] = reply[u]
BY DEF HandlerType, Drop

LEMMA RequestStep == IInv /\ [Next]_vars => RequestInv'
<1> SUFFICES ASSUME IInv, [Next]_vars PROVE RequestInv'
  OBVIOUS
<1>0. HandlerType /\ RequestInv
  BY DEF IInv
<1> USE DEF RequestInv, CallOf, BatchOf
<1>a. ASSUME NEW t \in Thread, NEW status, NEW claims, NEW cs, NEW n,
             Answer(t, status, claims, cs, n), pc[t] # "idle"
      PROVE  RequestInv'
  BY <1>0, <1>a, AnswerFrame
<1>b. ASSUME NEW t \in Thread, Drop(t) PROVE RequestInv'
  BY <1>0, <1>b, DropFrame
<1>c. ASSUME UNCHANGED handler PROVE RequestInv'
  BY <1>0, <1>c DEF handler
<1>1. ASSUME NEW t \in Thread, NEW r \in Request, Receive(t, r)
      PROVE  RequestInv'
  <2>1. /\ req'[t] = r /\ r.call.op \in {"pair", "push", "pull"}
        /\ pc'[t] = IF r.call.op = "pair" THEN "pair" ELSE "auth"
        /\ \A u \in Thread \ {t} : pc'[u] = pc[u] /\ req'[u] = req[u]
    BY <1>0, <1>1, RequestFields DEF Receive, HandlerType
  <2> QED
    BY <1>0, <2>1
<1>2. ASSUME NEW t \in Thread, PairRegister(t) PROVE RequestInv'
  BY <1>2, <1>a DEF PairRegister
<1>3. ASSUME NEW t \in Thread, PairExisting(t) PROVE RequestInv'
  BY <1>3, <1>a DEF PairExisting
<1>4. ASSUME NEW t \in Thread, PairRaise(t) PROVE RequestInv'
  BY <1>4, <1>b DEF PairRaise
<1>4a. ASSUME NEW t \in Thread, PairBreaks(t) PROVE RequestInv'
  BY <1>4a, <1>b DEF PairBreaks
<1>5. ASSUME NEW t \in Thread, Authenticate(t) PROVE RequestInv'
  <2>1. CASE \E status \in {400, 403} : Answer(t, status, {}, {}, 0)
    BY <1>5, <2>1, <1>a DEF Authenticate
  <2>2. CASE /\ CallOf(t).op = "push" => WellFormed(BatchOf(t))
             /\ pc' = [pc EXCEPT ![t] = CallOf(t).op]
             /\ UNCHANGED <<req, reply>>
    <3>1. /\ pc'[t] = CallOf(t).op /\ req[t] \in Request
          /\ CallOf(t).op \in {"push", "pull"}
          /\ \A u \in Thread \ {t} : pc'[u] = pc[u]
      BY <1>0, <1>5, <2>2 DEF HandlerType, Authenticate
    <3> QED
      BY <1>0, <2>2, <3>1
  <2> QED
    BY <1>5, <2>1, <2>2 DEF Authenticate
<1>5a. ASSUME NEW t \in Thread, ReadRaise(t) PROVE RequestInv'
  BY <1>5a, <1>b DEF ReadRaise
<1>6. ASSUME NEW t \in Thread, UpsertBegin(t) PROVE RequestInv'
  <2>1. /\ pc[t] = "push" /\ pc'[t] = "upsert" /\ req' = req
        /\ \A u \in Thread \ {t} : pc'[u] = pc[u]
    BY <1>0, <1>6 DEF UpsertBegin, HandlerType
  <2> QED
    BY <1>0, <2>1
<1>7. ASSUME NEW t \in Thread, UpsertBeginRaise(t) PROVE RequestInv'
  BY <1>7, <1>b DEF UpsertBeginRaise
<1>8. ASSUME NEW t \in Thread, UpsertConflict(t) PROVE RequestInv'
  BY <1>8, <1>c DEF UpsertConflict
<1>9. ASSUME NEW t \in Thread, UpsertAccept(t) PROVE RequestInv'
  BY <1>9, <1>c DEF UpsertAccept
<1>10. ASSUME NEW t \in Thread, UpsertRaise(t) PROVE RequestInv'
  BY <1>10, <1>b DEF UpsertRaise
<1>11. ASSUME NEW t \in Thread, UpsertCommit(t) PROVE RequestInv'
  BY <1>11, <1>a DEF UpsertCommit
<1>12. ASSUME NEW t \in Thread, Pull(t) PROVE RequestInv'
  BY <1>12, <1>a DEF Pull
<1>13. ASSUME NEW t \in Thread, Respond(t) PROVE RequestInv'
  BY <1>13, <1>b DEF Respond
<1>14. ASSUME NEW t \in Thread, Disconnect(t) PROVE RequestInv'
  BY <1>14, <1>b DEF Disconnect
<1>15. CASE Crash
  BY <1>15 DEF Crash
<1>16. CASE UNCHANGED vars
  BY <1>16, <1>c DEF vars
<1> QED
  BY <1>1, <1>2, <1>3, <1>4, <1>4a, <1>5, <1>5a, <1>6, <1>7, <1>8, <1>9,
     <1>10, <1>11, <1>12, <1>13, <1>14, <1>15, <1>16
  DEF Next, Serve, UpsertStep

LEMMA LockStep == IInv /\ [Next]_vars => LockInv'
<1> SUFFICES ASSUME IInv, [Next]_vars PROVE LockInv'
  OBVIOUS
<1>0. HandlerType /\ LockInv
  BY DEF IInv
<1> USE DEF LockInv
<1>a. ASSUME NEW t \in Thread, NEW status, NEW claims, NEW cs, NEW n,
             Answer(t, status, claims, cs, n), pc[t] # "upsert",
             UNCHANGED <<lock, records, tx_records>>
      PROVE  LockInv'
  BY <1>0, <1>a, AnswerFrame
<1>b. ASSUME NEW t \in Thread, Drop(t), pc[t] # "upsert", UNCHANGED lock,
             tx_records' = records' \/ UNCHANGED <<records, tx_records>>
      PROVE  LockInv'
  BY <1>0, <1>b, DropFrame
<1> USE DEF tables, views, RollBack
<1>1. ASSUME NEW t \in Thread, NEW r \in Request, Receive(t, r)
      PROVE  LockInv'
  BY <1>0, <1>1 DEF Receive, HandlerType, store
<1>2. ASSUME NEW t \in Thread, PairRegister(t) PROVE LockInv'
  BY <1>2, <1>a DEF PairRegister
<1>3. ASSUME NEW t \in Thread, PairExisting(t) PROVE LockInv'
  BY <1>3, <1>a DEF PairExisting, store
<1>4. ASSUME NEW t \in Thread, PairRaise(t) PROVE LockInv'
  BY <1>4, <1>b DEF PairRaise
<1>4a. ASSUME NEW t \in Thread, PairBreaks(t) PROVE LockInv'
  BY <1>4a, <1>b DEF PairBreaks
<1>5. ASSUME NEW t \in Thread, Authenticate(t) PROVE LockInv'
  <2>1. CASE \E status \in {400, 403} : Answer(t, status, {}, {}, 0)
    BY <1>5, <2>1, <1>a DEF Authenticate, store
  <2>2. CASE /\ pc' = [pc EXCEPT ![t] = CallOf(t).op]
             /\ UNCHANGED <<req, reply>>
    <3>1. CallOf(t).op \in {"push", "pull"}
      BY <1>5 DEF IInv, RequestInv, Authenticate
    <3> QED
      BY <1>0, <1>5, <2>2, <3>1 DEF HandlerType, Authenticate, store
  <2> QED
    BY <1>5, <2>1, <2>2 DEF Authenticate
<1>5a. ASSUME NEW t \in Thread, ReadRaise(t) PROVE LockInv'
  BY <1>5a, <1>b DEF ReadRaise
<1>6. ASSUME NEW t \in Thread, UpsertBegin(t) PROVE LockInv'
  BY <1>0, <1>6, NoThreadAssumption DEF UpsertBegin, HandlerType
<1>7. ASSUME NEW t \in Thread, UpsertBeginRaise(t) PROVE LockInv'
  BY <1>7, <1>b DEF UpsertBeginRaise
<1>8. ASSUME NEW t \in Thread, UpsertConflict(t) PROVE LockInv'
  BY <1>0, <1>8 DEF UpsertConflict, store, handler
<1>9. ASSUME NEW t \in Thread, UpsertAccept(t) PROVE LockInv'
  BY <1>0, <1>9, NoThreadAssumption DEF UpsertAccept, handler
<1>10. ASSUME NEW t \in Thread, UpsertRaise(t) PROVE LockInv'
  BY <1>0, <1>10, DropFrame, NoThreadAssumption DEF UpsertRaise, UpsertFails
<1>11. ASSUME NEW t \in Thread, UpsertCommit(t) PROVE LockInv'
  <2>1. /\ pc[t] = "upsert" /\ pc'[t] = "respond"
        /\ \A u \in Thread \ {t} : pc'[u] = pc[u]
    BY <1>0, <1>11, AnswerFrame DEF UpsertCommit
  <2>2. records' = tx_records' /\ lock' = NoThread
    BY <1>11 DEF UpsertCommit
  <2> QED
    BY <1>0, <2>1, <2>2, NoThreadAssumption
<1>12. ASSUME NEW t \in Thread, Pull(t) PROVE LockInv'
  BY <1>12, <1>a DEF Pull, store
<1>13. ASSUME NEW t \in Thread, Respond(t) PROVE LockInv'
  BY <1>13, <1>b DEF Respond, store
<1>14. ASSUME NEW t \in Thread, Disconnect(t) PROVE LockInv'
  BY <1>14, <1>b DEF Disconnect, store
<1>15. CASE Crash
  BY <1>15, NoThreadAssumption DEF Crash
<1>16. CASE UNCHANGED vars
  BY <1>0, <1>16 DEF vars, store, handler
<1> QED
  BY <1>1, <1>2, <1>3, <1>4, <1>4a, <1>5, <1>5a, <1>6, <1>7, <1>8, <1>9,
     <1>10, <1>11, <1>12, <1>13, <1>14, <1>15, <1>16
  DEF Next, Serve, UpsertStep
-----------------------------------------------------------------------------
(* A group whose registration broke off counts as such for ever.           *)
LEMMA TornStays ==
  ASSUME [Next]_vars
  PROVE  torn \subseteq torn'
BY DEF Next, Serve, UpsertStep, Receive, PairRegister, PairExisting, PairRaise,
       PairBreaks, Authenticate, ReadRaise, UpsertBegin, UpsertBeginRaise,
       UpsertConflict, UpsertAccept, UpsertRaise, UpsertCommit, Pull, Respond,
       Disconnect, Crash, vars, store

LEMMA AuthorisedStep == IInv /\ [Next]_vars => Authorised'
<1> SUFFICES ASSUME IInv, [Next]_vars, NEW u \in Thread,
                    pc'[u] \in {"push", "upsert", "pull"},
                    req'[u].group \notin torn'
             PROVE  Verified(auth_hash, req[u])'
  BY DEF Authorised, GroupOf
<1>0. /\ TypeOK /\ HandlerType /\ RequestInv /\ Authorised /\ WholeInv
      /\ torn \subseteq torn'
  BY TornStays DEF IInv
<1>a. ASSUME pc[u] \in {"push", "upsert", "pull"}, req'[u] = req[u],
             UNCHANGED auth_hash
      PROVE  Verified(auth_hash, req[u])'
  BY <1>0, <1>a DEF Authorised, Verified, GroupOf
<1>b. ASSUME NEW t \in Thread, Drop(t), UNCHANGED auth_hash
      PROVE  Verified(auth_hash, req[u])'
  BY <1>0, <1>a, <1>b, DropFrame
<1>c. ASSUME NEW t \in Thread, NEW status, NEW claims, NEW cs, NEW n,
             Answer(t, status, claims, cs, n), UNCHANGED auth_hash
      PROVE  Verified(auth_hash, req[u])'
  BY <1>0, <1>a, <1>c, AnswerFrame
<1>1. ASSUME NEW t \in Thread, NEW r \in Request, Receive(t, r)
      PROVE  Verified(auth_hash, req[u])'
  BY <1>0, <1>1, <1>a DEF Receive, store, tables, HandlerType
<1>2. ASSUME NEW t \in Thread, PairRegister(t)
      PROVE  Verified(auth_hash, req[u])'
  <2>1. pc[u] \in {"push", "upsert", "pull"} /\ req'[u] = req[u]
    BY <1>0, <1>2, AnswerFrame DEF PairRegister
  <2>2. /\ Verified(auth_hash, req[u]) /\ req[u] \in Request
        /\ req[u].group \notin torn
    BY <1>0, <2>1 DEF Authorised, RequestInv, GroupOf
  <2>3. tx_auth_hash[req[u].group] = auth_hash[req[u].group]
    BY <1>0, <2>2, RequestFields DEF WholeInv, Whole
  <2>4. req[u].group # GroupOf(t)
    BY <1>2, <2>2, <2>3 DEF PairRegister, Verified
  <2>5. auth_hash'[req[u].group] = auth_hash[req[u].group]
    BY <1>0, <1>2, <2>2, <2>3, <2>4, RequestFields DEF PairRegister, TypeOK
  <2> QED
    BY <2>1, <2>2, <2>5 DEF Verified
<1>3. ASSUME NEW t \in Thread, PairExisting(t)
      PROVE  Verified(auth_hash, req[u])'
  BY <1>3, <1>c DEF PairExisting, store, tables
<1>4. ASSUME NEW t \in Thread, PairRaise(t) PROVE Verified(auth_hash, req[u])'
  BY <1>4, <1>b DEF PairRaise, tables
<1>4a. ASSUME NEW t \in Thread, PairBreaks(t) PROVE Verified(auth_hash, req[u])'
  BY <1>4a, <1>b DEF PairBreaks, tables
<1>5. ASSUME NEW t \in Thread, Authenticate(t)
      PROVE  Verified(auth_hash, req[u])'
  <2>1. CASE \E status \in {400, 403} : Answer(t, status, {}, {}, 0)
    BY <1>5, <2>1, <1>c DEF Authenticate, store, tables
  <2>2. CASE /\ Verified(tx_auth_hash, req[t])
             /\ pc' = [pc EXCEPT ![t] = CallOf(t).op]
             /\ UNCHANGED <<req, reply>>
    <3>1. CASE u = t
      <4>1. req[t] \in Request /\ req'[t] = req[t] /\ auth_hash' = auth_hash
        BY <1>0, <1>5, <2>2 DEF Authenticate, RequestInv, store, tables
      <4>2. tx_auth_hash[req[t].group] = auth_hash[req[t].group]
        BY <1>0, <3>1, <4>1, RequestFields DEF WholeInv, Whole
      <4> QED
        BY <2>2, <3>1, <4>1, <4>2 DEF Verified
    <3>2. CASE u # t
      BY <1>0, <1>5, <2>2, <3>2, <1>a
      DEF Authenticate, store, tables, HandlerType
    <3> QED
      BY <3>1, <3>2
  <2> QED
    BY <1>5, <2>1, <2>2 DEF Authenticate
<1>5a. ASSUME NEW t \in Thread, ReadRaise(t) PROVE Verified(auth_hash, req[u])'
  BY <1>5a, <1>b DEF ReadRaise, tables
<1>6. ASSUME NEW t \in Thread, UpsertBegin(t)
      PROVE  Verified(auth_hash, req[u])'
  BY <1>0, <1>6, <1>a DEF UpsertBegin, HandlerType, tables
<1>7. ASSUME NEW t \in Thread, UpsertBeginRaise(t)
      PROVE  Verified(auth_hash, req[u])'
  BY <1>7, <1>b DEF UpsertBeginRaise, tables
<1>8. ASSUME NEW t \in Thread, UpsertConflict(t)
      PROVE  Verified(auth_hash, req[u])'
  BY <1>8, <1>a DEF UpsertConflict, store, tables, handler
<1>9. ASSUME NEW t \in Thread, UpsertAccept(t)
      PROVE  Verified(auth_hash, req[u])'
  BY <1>9, <1>a DEF UpsertAccept, tables, handler
<1>10. ASSUME NEW t \in Thread, UpsertRaise(t)
       PROVE  Verified(auth_hash, req[u])'
  BY <1>10, <1>b DEF UpsertRaise, tables
<1>11. ASSUME NEW t \in Thread, UpsertCommit(t)
       PROVE  Verified(auth_hash, req[u])'
  BY <1>11, <1>c DEF UpsertCommit
<1>12. ASSUME NEW t \in Thread, Pull(t) PROVE Verified(auth_hash, req[u])'
  BY <1>12, <1>c DEF Pull, store, tables
<1>13. ASSUME NEW t \in Thread, Respond(t) PROVE Verified(auth_hash, req[u])'
  BY <1>13, <1>b DEF Respond, store, tables
<1>14. ASSUME NEW t \in Thread, Disconnect(t)
       PROVE  Verified(auth_hash, req[u])'
  BY <1>14, <1>b DEF Disconnect, store, tables
<1>15. CASE Crash
  BY <1>15 DEF Crash
<1>16. CASE UNCHANGED vars
  BY <1>16, <1>a DEF vars, store, tables, handler
<1> QED
  BY <1>1, <1>2, <1>3, <1>4, <1>4a, <1>5, <1>5a, <1>6, <1>7, <1>8, <1>9,
     <1>10, <1>11, <1>12, <1>13, <1>14, <1>15, <1>16
  DEF Next, Serve, UpsertStep
-----------------------------------------------------------------------------
(* Only a commit writes the table of records; the counters are also        *)
(* written by a registration.                                              *)
LEMMA OnlyCommitWrites ==
  ASSUME [Next]_vars, ~(\E t \in Thread : UpsertCommit(t))
  PROVE  /\ UNCHANGED records
         /\ ~(\E t \in Thread : PairRegister(t)) =>
              UNCHANGED <<auth_hash, seq_counter>>
BY DEF Next, Serve, UpsertStep, Receive, PairRegister, PairExisting, PairRaise,
       PairBreaks, Authenticate, ReadRaise, UpsertBegin, UpsertBeginRaise,
       UpsertConflict, UpsertAccept, UpsertRaise, Pull, Respond, Disconnect,
       Crash, vars, store, tables

(* What a commit does to its own group, and to the others.                 *)
LEMMA CommitMerges ==
  ASSUME IInv, NEW t \in Thread, UpsertCommit(t)
  PROVE  /\ GroupOf(t) \in Group
         /\ WellFormed(BatchOf(t)) /\ CallOf(t).op = "push"
         /\ req[t] \in Request /\ Len(BatchOf(t)) \in Nat
         /\ \A i \in 1 .. Len(BatchOf(t)) : BatchOf(t)[i] \in Wire
         /\ seq[t] \in Nat /\ CounterOf(GroupOf(t)) <= seq[t]
         /\ Store!Merged(BatchOf(t), Len(BatchOf(t)),
                         records[GroupOf(t)], records'[GroupOf(t)],
                         CounterOf(GroupOf(t)), seq[t])
         /\ GroupOf(t) \notin torn =>
              /\ auth_hash[GroupOf(t)] # None
              /\ seq_counter'[GroupOf(t)] = seq[t] /\ seq[t] # None
         /\ \A h \in Group \ {GroupOf(t)} :
              records'[h] = records[h] /\ seq_counter'[h] = seq_counter[h]
<1> DEFINE g == GroupOf(t)
           batch == BatchOf(t)
<1>0. TypeOK /\ RequestInv /\ LoopInv /\ pc[t] = "upsert"
  BY DEF IInv, UpsertCommit
<1>1. /\ g \in Group /\ Len(batch) \in Nat /\ req[t] \in Request
      /\ CallOf(t).op = "push" /\ WellFormed(batch)
      /\ \A i \in 1 .. Len(batch) : batch[i] \in Wire
  BY <1>0, PushFields DEF RequestInv
<1>2. pos[t] - 1 = Len(batch)
  <2>1. pos[t] \in Nat /\ pos[t] > Len(batch)
    BY <1>0 DEF TypeOK, UpsertCommit
  <2>2. pos[t] <= Len(batch) + 1
    BY <1>0 DEF LoopInv, LoopAt
  <2> QED
    BY <2>1, <2>2, <1>1
<1>3. /\ records' = tx_records
      /\ seq_counter[g] # None => seq_counter'[g] = seq[t]
      /\ \A h \in Group \ {g} : seq_counter'[h] = seq_counter[h]
  BY <1>0, <1>1 DEF UpsertCommit, Counted, TypeOK
<1>4. /\ CounterOf(g) <= seq[t]
      /\ Store!Merged(batch, pos[t] - 1, records[g], tx_records[g],
                      CounterOf(g), seq[t])
      /\ \A h \in Group \ {g} : tx_records[h] = records[h]
  BY <1>0 DEF LoopInv, LoopAt
<1>5. seq[t] \in Nat /\ seq[t] # None
  BY <1>0, NoneAssumption DEF TypeOK
<1>6. g \notin torn => auth_hash[g] # None /\ seq_counter[g] # None
  <2> SUFFICES ASSUME g \notin torn
               PROVE  auth_hash[g] # None /\ seq_counter[g] # None
    OBVIOUS
  <2>1. auth_hash[g] # None
    BY <1>0 DEF IInv, Authorised, Verified, GroupOf
  <2> QED
    BY <2>1, <1>1 DEF IInv, WholeInv, Whole
<1> QED
  BY <1>1, <1>2, <1>3, <1>4, <1>5, <1>6

(* A registration leaves the numbers of every group that is whole as they  *)
(* were: the counter it inserts starts at 0.                               *)
LEMMA RegisterCounts ==
  ASSUME IInv, NEW t \in Thread, PairRegister(t), NEW g \in Group \ torn
  PROVE  /\ seq_counter'[g] # None \/ g # GroupOf(t)
         /\ CounterOf(g)' = CounterOf(g)
<1>1. /\ tx_seq_counter[g] = seq_counter[g]
      /\ tx_seq_counter \in [Group -> Nat \cup {None}]
  BY DEF IInv, WholeInv, Whole, TypeOK
<1>2. seq_counter' = WithCounter(GroupOf(t))
  BY DEF PairRegister
<1> QED
  BY <1>1, <1>2, NoneAssumption DEF WithCounter, CounterOf

LEMMA WholeStep == IInv /\ [Next]_vars => WholeInv'
<1> SUFFICES ASSUME IInv, [Next]_vars, NEW g \in Group \ torn'
             PROVE  Whole(g)'
  BY DEF WholeInv
<1>0. TypeOK /\ RequestInv /\ LoopInv /\ Whole(g) /\ g \in Group \ torn
  BY TornStays DEF IInv, WholeInv
<1>a. ASSUME UNCHANGED <<tables, views>> PROVE Whole(g)'
  BY <1>0, <1>a DEF Whole, tables, views
<1>b. ASSUME UNCHANGED tables, RollBack PROVE Whole(g)'
  BY <1>0, <1>b DEF Whole, tables, RollBack
<1>1. ASSUME NEW t \in Thread, NEW r \in Request, Receive(t, r)
      PROVE  Whole(g)'
  BY <1>1, <1>a DEF Receive, store
<1>2. ASSUME NEW t \in Thread, PairRegister(t) PROVE Whole(g)'
  <2>1. /\ auth_hash' = tx_auth_hash' /\ seq_counter' = tx_seq_counter'
        /\ records' = records
    BY <1>2 DEF PairRegister
  <2>2. CASE g = GroupOf(t)
    <3>1. CallOf(t).hash # None
      <4>1. CallOf(t).hash \in AuthHash
        BY <1>0, <1>2, RequestFields DEF PairRegister, RequestInv, CallOf
      <4> QED
        BY <4>1, NoneAssumption
    <3>2. auth_hash'[g] # None
      BY <1>0, <1>2, <2>2, <3>1 DEF PairRegister, TypeOK
    <3> QED
      BY <1>0, <1>2, <2>1, <2>2, <3>2, RegisterCounts DEF Whole
  <2>3. CASE g # GroupOf(t)
    <3>1. auth_hash'[g] = tx_auth_hash[g] /\ seq_counter'[g] = tx_seq_counter[g]
      BY <1>0, <1>2, <2>3 DEF PairRegister, WithCounter, TypeOK
    <3> QED
      BY <1>0, <2>1, <3>1 DEF Whole
  <2> QED
    BY <2>2, <2>3
<1>3. ASSUME NEW t \in Thread, PairExisting(t) PROVE Whole(g)'
  BY <1>3, <1>a DEF PairExisting, store
<1>4. ASSUME NEW t \in Thread, PairRaise(t) PROVE Whole(g)'
  BY <1>4, <1>a, <1>b DEF PairRaise
<1>4a. ASSUME NEW t \in Thread, PairBreaks(t) PROVE Whole(g)'
  <2>1. g # GroupOf(t) /\ UNCHANGED tables
    BY <1>4a DEF PairBreaks
  <2>2. tx_auth_hash'[g] = tx_auth_hash[g]
        /\ tx_seq_counter'[g] = tx_seq_counter[g]
    BY <1>0, <1>4a, <2>1 DEF PairBreaks, WithCounter, TypeOK
  <2> QED
    BY <1>0, <2>1, <2>2 DEF Whole, tables
<1>5. ASSUME NEW t \in Thread, Authenticate(t) PROVE Whole(g)'
  BY <1>5, <1>a DEF Authenticate, store
<1>5a. ASSUME NEW t \in Thread, ReadRaise(t) PROVE Whole(g)'
  <2>1. CASE RollBack
    BY <1>5a, <2>1, <1>b DEF ReadRaise
  <2>2. CASE UNCHANGED views
    BY <1>5a, <2>2, <1>a DEF ReadRaise
  <2> QED
    BY <1>5a, <2>1, <2>2 DEF ReadRaise
<1>6. ASSUME NEW t \in Thread, UpsertBegin(t) PROVE Whole(g)'
  BY <1>6, <1>a DEF UpsertBegin
<1>7. ASSUME NEW t \in Thread, UpsertBeginRaise(t) PROVE Whole(g)'
  BY <1>7, <1>b DEF UpsertBeginRaise
<1>8. ASSUME NEW t \in Thread, UpsertConflict(t) PROVE Whole(g)'
  BY <1>8, <1>a DEF UpsertConflict, store
<1>9. ASSUME NEW t \in Thread, UpsertAccept(t) PROVE Whole(g)'
  BY <1>0, <1>9 DEF UpsertAccept, Whole, tables
<1>10. ASSUME NEW t \in Thread, UpsertRaise(t) PROVE Whole(g)'
  BY <1>10, <1>b DEF UpsertRaise
<1>11. ASSUME NEW t \in Thread, UpsertCommit(t) PROVE Whole(g)'
  <2>1. /\ UNCHANGED <<auth_hash, tx_auth_hash>>
        /\ tx_seq_counter' = seq_counter'
    BY <1>11 DEF UpsertCommit
  <2>2. CASE g = GroupOf(t)
    BY <1>0, <1>11, <2>1, <2>2, CommitMerges DEF Whole
  <2>3. CASE g # GroupOf(t)
    BY <1>0, <1>11, <2>1, <2>3, CommitMerges DEF Whole
  <2> QED
    BY <2>2, <2>3
<1>12. ASSUME NEW t \in Thread, Pull(t) PROVE Whole(g)'
  BY <1>12, <1>a DEF Pull, store
<1>13. ASSUME NEW t \in Thread, Respond(t) PROVE Whole(g)'
  BY <1>13, <1>a DEF Respond, store
<1>14. ASSUME NEW t \in Thread, Disconnect(t) PROVE Whole(g)'
  BY <1>14, <1>a DEF Disconnect, store
<1>15. CASE Crash
  BY <1>15, <1>b DEF Crash
<1>16. CASE UNCHANGED vars
  BY <1>16, <1>a DEF vars, store
<1> QED
  BY <1>1, <1>2, <1>3, <1>4, <1>4a, <1>5, <1>5a, <1>6, <1>7, <1>8, <1>9,
     <1>10, <1>11, <1>12, <1>13, <1>14, <1>15, <1>16
  DEF Next, Serve, UpsertStep

(* How a table may change while its group's counter goes from `from` to    *)
(* `to`: rows are only replaced by higher versions, under fresh numbers.   *)
Advances(old, new, from, to) ==
  /\ from <= to
  /\ \A k \in Key : new[k] # old[k] =>
       /\ new[k] # None /\ new[k].seq > from /\ new[k].seq <= to
       /\ old[k] # None => new[k].version > old[k].version
  /\ \A k, l \in Key :
       new[k] # old[k] /\ new[l] # old[l] /\ new[k].seq = new[l].seq => k = l

LEMMA MergedAdvances ==
  ASSUME NEW batch, NEW end \in Nat,
         NEW old \in Table, NEW new \in Table, NEW from \in Nat, NEW to \in Nat,
         from <= to, Store!Merged(batch, end, old, new, from, to)
  PROVE  Advances(old, new, from, to)
<1>1. ASSUME NEW k \in Key, new[k] # old[k]
      PROVE  /\ new[k] # None /\ new[k].seq > from /\ new[k].seq <= to
             /\ old[k] # None => new[k].version > old[k].version
  <2>1. Store!Offers(batch, end, k, old[k]) # {}
    BY <1>1 DEF Store!Merged
  <2>2. /\ new[k] # None /\ new[k].seq > from /\ new[k].seq <= to
        /\ \E j \in Store!Offers(batch, end, k, old[k]) :
             new[k].version = batch[j].version
    BY <2>1 DEF Store!Merged
  <2> QED
    BY <2>2 DEF Store!Offers, Store!Beats
<1> QED
  BY <1>1 DEF Advances, Store!Merged

LEMMA StepAdvances ==
  ASSUME IInv, [Next]_vars, NEW g \in Group \ torn
  PROVE  Advances(records[g], records'[g], CounterOf(g), CounterOf(g)')
<1>0. /\ records[g] \in Table /\ records'[g] \in Table
      /\ CounterOf(g) \in Nat /\ CounterOf(g)' \in Nat
  <2>1. TypeOK /\ TypeOK'
    BY TypeStep DEF IInv
  <2>2. CounterOf(g) \in Nat /\ CounterOf(g)' \in Nat
    BY <2>1 DEF TypeOK, CounterOf
  <2> QED
    BY <2>1, <2>2 DEF TypeOK, Table
<1>1. CASE records'[g] = records[g] /\ CounterOf(g)' = CounterOf(g)
  BY <1>0, <1>1 DEF Advances
<1>2. ASSUME NEW t \in Thread, UpsertCommit(t), g = GroupOf(t)
      PROVE  Advances(records[g], records'[g], CounterOf(g), CounterOf(g)')
  <2>1. CounterOf(g)' = seq[t]
    BY <1>2, CommitMerges DEF CounterOf
  <2>2. /\ CounterOf(g) <= seq[t] /\ Len(BatchOf(t)) \in Nat
        /\ Store!Merged(BatchOf(t), Len(BatchOf(t)), records[g], records'[g],
                        CounterOf(g), seq[t])
    BY <1>2, CommitMerges
  <2> QED
    BY <1>0, <2>1, <2>2, MergedAdvances
<1>3. ASSUME NEW t \in Thread, UpsertCommit(t), g # GroupOf(t)
      PROVE  records'[g] = records[g] /\ CounterOf(g)' = CounterOf(g)
  BY <1>3, CommitMerges DEF CounterOf
<1>4. ASSUME NEW t \in Thread, PairRegister(t)
      PROVE  records'[g] = records[g] /\ CounterOf(g)' = CounterOf(g)
  BY <1>4, RegisterCounts DEF PairRegister
<1>5. CASE /\ ~(\E t \in Thread : UpsertCommit(t))
           /\ ~(\E t \in Thread : PairRegister(t))
  BY <1>1, <1>5, OnlyCommitWrites DEF CounterOf
<1> QED
  BY <1>1, <1>2, <1>3, <1>4, <1>5

LEMMA SeqNumbersStep == IInv /\ [Next]_vars => SeqNumbers'
<1> SUFFICES ASSUME IInv, [Next]_vars, NEW g \in Group \ torn', NEW k \in Key,
                    NEW l \in Key, records'[g][k] # None
             PROVE  /\ 1 <= records'[g][k].seq
                    /\ records'[g][k].seq <= CounterOf(g)'
                    /\ /\ records'[g][l] # None
                       /\ records'[g][k].seq = records'[g][l].seq
                       => k = l
  BY DEF SeqNumbers
<1>0. g \in Group \ torn
  BY TornStays
<1>1. Advances(records[g], records'[g], CounterOf(g), CounterOf(g)')
  BY <1>0, StepAdvances
<1>2. /\ records[g] \in Table /\ records'[g] \in Table
      /\ CounterOf(g) \in Nat /\ CounterOf(g)' \in Nat
  <2>1. TypeOK /\ TypeOK'
    BY TypeStep DEF IInv
  <2>2. CounterOf(g) \in Nat /\ CounterOf(g)' \in Nat
    BY <2>1 DEF TypeOK, CounterOf
  <2> QED
    BY <2>1, <2>2 DEF TypeOK, Table
<1>3. \A m \in Key : /\ records[g][m] # None => records[g][m].seq \in Nat
                     /\ records'[g][m] # None => records'[g][m].seq \in Nat
  BY <1>2, TableFields
<1>4. \A m \in Key : records[g][m] # None =>
        1 <= records[g][m].seq /\ records[g][m].seq <= CounterOf(g)
  BY <1>0 DEF IInv, SeqNumbers
<1>5. \A m, n \in Key : /\ records[g][m] # None /\ records[g][n] # None
                        /\ records[g][m].seq = records[g][n].seq
                        => m = n
  BY <1>0 DEF IInv, SeqNumbers
<1> QED
  BY <1>1, <1>2, <1>3, <1>4, <1>5 DEF Advances
-----------------------------------------------------------------------------
(* A claim or a reported conflict outlives every change that only replaces *)
(* rows by higher versions.                                                *)
Grows(old, new) ==
  \A k \in Key : old[k] # None =>
    new[k] # None /\ (new[k] = old[k] \/ new[k].version > old[k].version)

LEMMA ClaimOutlives ==
  ASSUME NEW old \in Table, NEW new \in Table, Grows(old, new),
         NEW c \in Claim, Honours(old, c)
  PROVE  Honours(new, c)
<1>1. c.key \in Key /\ c.version \in Int
  BY VersionAssumption DEF Claim
<1>2. old[c.key] # None /\ new[c.key] # None
  BY <1>1 DEF Honours, Grows
<1>3. old[c.key].version \in Int /\ new[c.key].version \in Int
  BY <1>1, <1>2, TableFields
<1> QED
  BY <1>1, <1>2, <1>3 DEF Honours, Grows

LEMMA ConflictOutlives ==
  ASSUME NEW old \in Table, NEW new \in Table, Grows(old, new),
         NEW c \in Conflict, Stands(old, c)
  PROVE  Stands(new, c)
<1>1. c.key \in Key /\ c.server_version \in Int
  BY VersionAssumption DEF Conflict
<1>2. old[c.key] # None /\ new[c.key] # None
  BY <1>1 DEF Stands, Grows
<1>3. old[c.key].version \in Int /\ new[c.key].version \in Int
  BY <1>1, <1>2, TableFields
<1> QED
  BY <1>1, <1>2, <1>3 DEF Stands, Grows

(* The loop invariant.  Its cases are the steps that touch the table or    *)
(* the loop's locals; all others leave the thread in the loop as it was.   *)
LEMMA LoopStep == IInv /\ [Next]_vars => LoopInv'
<1> SUFFICES ASSUME IInv, [Next]_vars PROVE LoopInv'
  OBVIOUS
<1>0. TypeOK /\ HandlerType /\ RequestInv /\ LockInv /\ LoopInv
  BY DEF IInv
<1>a. ASSUME \A u \in Thread : pc'[u] = "upsert" =>
               pc[u] = "upsert" /\ req'[u] = req[u],
             UNCHANGED <<records, tx_records, seq_counter, loop>>
      PROVE  LoopInv'
  <2> SUFFICES ASSUME NEW u \in Thread, pc'[u] = "upsert"
               PROVE  LoopAt(u)'
    BY DEF LoopInv
  <2>1. LoopAt(u) /\ req'[u] = req[u]
    BY <1>0, <1>a DEF LoopInv
  <2>2. GroupOf(u)' = GroupOf(u) /\ BatchOf(u)' = BatchOf(u)
    BY <2>1 DEF GroupOf, BatchOf, CallOf
  <2> QED
    BY <1>a, <2>1, <2>2 DEF LoopAt, CounterOf, loop
<1>b. ASSUME NEW t \in Thread, Drop(t),
             UNCHANGED <<records, tx_records, seq_counter, loop>>
      PROVE  LoopInv'
  BY <1>0, <1>a, <1>b, DropFrame
<1>c. ASSUME NEW t \in Thread, NEW status, NEW claims, NEW cs, NEW n,
             Answer(t, status, claims, cs, n),
             UNCHANGED <<records, tx_records, seq_counter, loop>>
      PROVE  LoopInv'
  BY <1>0, <1>a, <1>c, AnswerFrame
<1>d. ASSUME \A u \in Thread : pc'[u] # "upsert" PROVE LoopInv'
  BY <1>d DEF LoopInv
<1> USE DEF tables, views
<1>1. ASSUME NEW t \in Thread, NEW r \in Request, Receive(t, r)
      PROVE  LoopInv'
  BY <1>0, <1>1, <1>a DEF Receive, HandlerType, store
<1>2. ASSUME NEW t \in Thread, PairRegister(t) PROVE LoopInv'
  BY <1>0, <1>2, <1>d, AnswerFrame, NoThreadAssumption DEF PairRegister, LockInv
<1>3. ASSUME NEW t \in Thread, PairExisting(t) PROVE LoopInv'
  BY <1>3, <1>c DEF PairExisting, store
<1>4. ASSUME NEW t \in Thread, PairRaise(t) PROVE LoopInv'
  BY <1>0, <1>4, <1>b DEF PairRaise, RollBack, LockInv
<1>4a. ASSUME NEW t \in Thread, PairBreaks(t) PROVE LoopInv'
  BY <1>4a, <1>b DEF PairBreaks
<1>5. ASSUME NEW t \in Thread, Authenticate(t) PROVE LoopInv'
  <2>1. CASE \E status \in {400, 403} : Answer(t, status, {}, {}, 0)
    BY <1>5, <2>1, <1>c DEF Authenticate, store
  <2>2. CASE /\ pc' = [pc EXCEPT ![t] = CallOf(t).op]
             /\ UNCHANGED <<req, reply>>
    <3>1. CallOf(t).op \in {"push", "pull"}
      BY <1>0, <1>5 DEF RequestInv, Authenticate
    <3> QED
      BY <1>0, <1>5, <2>2, <3>1, <1>a DEF HandlerType, Authenticate, store
  <2> QED
    BY <1>5, <2>1, <2>2 DEF Authenticate
<1>5a. ASSUME NEW t \in Thread, ReadRaise(t) PROVE LoopInv'
  BY <1>0, <1>5a, <1>b DEF ReadRaise, RollBack, LockInv
<1>6. ASSUME NEW t \in Thread, UpsertBegin(t) PROVE LoopInv'
  <2>1. /\ pc[t] = "push" /\ req' = req /\ UNCHANGED <<records, seq_counter>>
        /\ tx_records' = records
    BY <1>0, <1>6 DEF UpsertBegin, LockInv
  <2>2. \A u \in Thread : pc'[u] = "upsert" => u = t
    BY <1>0, <1>6, NoThreadAssumption DEF UpsertBegin, HandlerType, LockInv
  <2>3. /\ GroupOf(t)' = GroupOf(t) /\ BatchOf(t)' = BatchOf(t)
        /\ GroupOf(t) \in Group /\ Len(BatchOf(t)) \in Nat
    BY <1>0, <2>1, PushFields DEF GroupOf, BatchOf, CallOf
  <2>4. /\ pos'[t] = 1 /\ accepted'[t] = {} /\ conflicts'[t] = {}
        /\ seq'[t] = CounterOf(GroupOf(t))
    BY <1>0, <1>6 DEF UpsertBegin, TypeOK
  <2>5. /\ records[GroupOf(t)] \in Table
        /\ CounterOf(GroupOf(t)) \in Nat
    BY <1>0, <2>3, CounterNat DEF TypeOK, Table
  <2>6. Store!Merged(BatchOf(t), 0, records[GroupOf(t)], records[GroupOf(t)],
                     CounterOf(GroupOf(t)), CounterOf(GroupOf(t)))
    BY <2>5, MergedNothing
  <2>7. LoopAt(t)'
    BY <2>1, <2>3, <2>4, <2>5, <2>6 DEF LoopAt, CounterOf
  <2> QED
    BY <2>2, <2>7 DEF LoopInv
<1>7. ASSUME NEW t \in Thread, UpsertBeginRaise(t) PROVE LoopInv'
  <2>1. tx_records' = tx_records
    BY <1>0, <1>7 DEF UpsertBeginRaise, RollBack, LockInv
  <2> QED
    BY <1>7, <2>1, <1>b DEF UpsertBeginRaise
<1>8. ASSUME NEW t \in Thread, UpsertConflict(t) PROVE LoopInv'
  <2> DEFINE g == GroupOf(t)
             batch == BatchOf(t)
             c == [key |-> Current(t).key, version |-> Current(t).version,
                   server_version |-> Existing(t).version]
  <2>0. /\ pc[t] = "upsert" /\ LoopAt(t) /\ pos[t] <= Len(batch)
        /\ g \in Group /\ Len(batch) \in Nat /\ pos[t] \in Nat \ {0}
    BY <1>0, <1>8, PushFields DEF UpsertConflict, LoopInv, TypeOK
  <2>1. \A u \in Thread : pc'[u] = "upsert" => u = t
    BY <1>0, <1>8 DEF UpsertConflict, handler, LockInv
  <2>2. /\ GroupOf(t)' = g /\ BatchOf(t)' = batch
        /\ UNCHANGED <<records, tx_records, seq_counter>>
        /\ seq'[t] = seq[t] /\ accepted'[t] = accepted[t]
        /\ pos'[t] = pos[t] + 1
        /\ conflicts'[t] = conflicts[t] \cup {c}
    BY <1>0, <1>8
    DEF UpsertConflict, handler, store, TypeOK, GroupOf, BatchOf, CallOf
  <2>3. /\ records[g] \in Table /\ tx_records[g] \in Table
        /\ CounterOf(g) \in Nat /\ seq[t] \in Nat
    BY <1>0, <2>0, CounterNat DEF TypeOK, Table
  <2>4. Store!Merged(batch, pos[t], records[g], tx_records[g],
                     CounterOf(g), seq[t])
    <3>1. WireUpTo(batch, pos[t])
      BY <1>0, <2>0, PushFields DEF WireUpTo
    <3>2. Stale(batch[pos[t]].version, tx_records[g][batch[pos[t]].key])
      BY <1>8 DEF UpsertConflict, Current, Existing
    <3> QED
      BY <2>0, <2>3, <3>1, <3>2, MergedConflict DEF LoopAt
  <2>5. Stands(tx_records[g], c)
    <3>1. Current(t) \in Wire /\ Existing(t) # None
          /\ Current(t).version <= Existing(t).version
      BY <1>0, <1>8, CurrentFields DEF UpsertConflict, Stale
    <3>2. Existing(t).version \in Int
      BY <2>3, <3>1, WireFields, TableFields DEF Existing
    <3> QED
      BY <3>1, <3>2 DEF Stands, Existing
  <2>6. LoopAt(t)'
    BY <2>0, <2>2, <2>4, <2>5 DEF LoopAt, CounterOf
  <2> QED
    BY <2>1, <2>6 DEF LoopInv
<1>9. ASSUME NEW t \in Thread, UpsertAccept(t) PROVE LoopInv'
  <2> DEFINE g == GroupOf(t)
             batch == BatchOf(t)
             row == [version |-> Current(t).version, body |-> Current(t).body,
                     seq |-> seq[t] + 1]
  <2>0. /\ pc[t] = "upsert" /\ LoopAt(t) /\ pos[t] <= Len(batch)
        /\ g \in Group /\ Len(batch) \in Nat /\ pos[t] \in Nat \ {0}
        /\ Current(t) \in Wire /\ Current(t).key \in Key
    BY <1>0, <1>9, PushFields, CurrentFields DEF UpsertAccept, LoopInv, TypeOK
  <2>1. \A u \in Thread : pc'[u] = "upsert" => u = t
    BY <1>0, <1>9 DEF UpsertAccept, handler, LockInv
  <2>2. /\ GroupOf(t)' = g /\ BatchOf(t)' = batch
        /\ UNCHANGED <<records, seq_counter>>
        /\ seq'[t] = seq[t] + 1 /\ accepted'[t] = accepted[t] \cup {pos[t]}
        /\ pos'[t] = pos[t] + 1 /\ conflicts'[t] = conflicts[t]
        /\ tx_records'[g] = [tx_records[g] EXCEPT ![Current(t).key] = row]
        /\ \A h \in Group \ {g} : tx_records'[h] = tx_records[h]
    BY <1>0, <1>9, <2>0
    DEF UpsertAccept, handler, TypeOK, GroupOf, BatchOf, CallOf
  <2>3. /\ records[g] \in Table /\ tx_records[g] \in Table
        /\ tx_records'[g] \in Table
        /\ CounterOf(g) \in Nat /\ seq[t] \in Nat
    BY <1>0, <2>0, TypeStep, CounterNat DEF IInv, TypeOK, Table
  <2>4. ~Stale(Current(t).version, tx_records[g][Current(t).key])
        /\ Current(t).body # Null
    BY <1>9 DEF UpsertAccept, Existing
  <2>5. Advances(records[g], tx_records[g], CounterOf(g), seq[t])
    BY <2>0, <2>3, MergedAdvances DEF LoopAt
  <2>6. Store!Merged(batch, pos[t], records[g], tx_records'[g],
                     CounterOf(g), seq[t] + 1)
    <3>1. WireUpTo(batch, pos[t])
      BY <1>0, <2>0, PushFields DEF WireUpTo
    <3>2. Current(t) = batch[pos[t]]
      BY DEF Current
    <3>3. \A k \in Key : /\ tx_records[g][k] # None
                         /\ tx_records[g][k] # records[g][k]
                         => tx_records[g][k].seq <= seq[t]
      BY <2>5 DEF Advances
    <3>4. /\ ~Stale(batch[pos[t]].version,
                    tx_records[g][batch[pos[t]].key])
          /\ batch[pos[t]].body # Null
          /\ tx_records'[g] = [tx_records[g] EXCEPT ![batch[pos[t]].key] =
               [version |-> batch[pos[t]].version,
                body |-> batch[pos[t]].body, seq |-> seq[t] + 1]]
      BY <2>2, <2>4, <3>2
    <3>5. /\ CounterOf(g) <= seq[t] /\ pos[t] \in Nat \ {0}
          /\ Store!Merged(batch, pos[t] - 1, records[g], tx_records[g],
                          CounterOf(g), seq[t])
      BY <2>0 DEF LoopAt
    <3> HIDE DEF g, batch, row
    <3> QED
      BY <2>3, <3>1, <3>3, <3>4, <3>5, MergedAccept
  <2>7. /\ tx_records'[g][Current(t).key] = row
        /\ \A k \in Key \ {Current(t).key} :
             tx_records'[g][k] = tx_records[g][k]
    BY <2>0, <2>2, <2>3 DEF Table
  <2>r. row \in Row /\ row # None
    <3>1. Current(t).version \in Version /\ Current(t).body \in Body
      BY <2>0, <2>4, WireFields
    <3>2. seq[t] + 1 \in Nat
      BY <2>3
    <3>3. row \in Row
      BY <3>1, <3>2 DEF Row
    <3> QED
      BY <3>3, NoneAssumption
  <2>8. Grows(tx_records[g], tx_records'[g])
    <3>1. tx_records'[g][Current(t).key] # None
      BY <2>7, <2>r
    <3>2. tx_records[g][Current(t).key] # None =>
            row.version > tx_records[g][Current(t).key].version
      BY <2>0, <2>3, <2>4, WireFields, TableFields DEF Stale
    <3> QED
      BY <2>7, <3>1, <3>2 DEF Grows
  <2>9. ASSUME NEW i \in accepted'[t]
        PROVE  /\ i \in 1 .. pos[t] /\ batch[i].body # Null
               /\ Honours(tx_records'[g], ClaimOf(batch[i]))
    <3>1. CASE i = pos[t]
      <4>1. batch[i] = Current(t)
        BY <3>1 DEF Current
      <4>2. /\ ClaimOf(batch[i]).key = Current(t).key
            /\ ClaimOf(batch[i]).version = row.version
            /\ ClaimOf(batch[i]).body = row.body
        BY <4>1 DEF ClaimOf
      <4>3. Honours(tx_records'[g], ClaimOf(batch[i]))
        BY <2>7, <2>r, <4>2 DEF Honours
      <4> QED
        BY <2>0, <2>4, <3>1, <4>1, <4>3
    <3>2. CASE i \in accepted[t]
      <4>1. /\ i \in 1 .. (pos[t] - 1) /\ batch[i].body # Null
            /\ Honours(tx_records[g], ClaimOf(batch[i]))
        BY <2>0, <3>2 DEF LoopAt
      <4>2. batch[i] \in Wire
        BY <1>0, <2>0, <4>1, PushFields
      <4>3. ClaimOf(batch[i]) \in Claim
        BY <4>1, <4>2, WireFields DEF ClaimOf, Claim
      <4> QED
        BY <2>0, <2>3, <2>8, <4>1, <4>3, ClaimOutlives
    <3> QED
      BY <2>2, <3>1, <3>2
  <2>10. ASSUME NEW c \in conflicts'[t] PROVE Stands(tx_records'[g], c)
    <3>1. c \in Conflict /\ Stands(tx_records[g], c)
      BY <1>0, <2>0, <2>2 DEF LoopAt, TypeOK
    <3> QED
      BY <2>3, <2>8, <3>1, ConflictOutlives
  <2>11. LoopAt(t)'
    <3>1. /\ pos'[t] <= Len(batch) + 1 /\ pos'[t] - 1 = pos[t]
          /\ CounterOf(g) <= seq'[t]
      BY <2>0, <2>2, <2>3 DEF LoopAt
    <3>2. \A h \in Group \ {g} : tx_records'[h] = records'[h]
      BY <2>0, <2>2 DEF LoopAt
    <3> HIDE DEF row
    <3> QED
      BY <2>2, <2>6, <2>9, <2>10, <3>1, <3>2 DEF LoopAt, CounterOf
  <2> QED
    BY <2>1, <2>11 DEF LoopInv
<1>10. ASSUME NEW t \in Thread, UpsertRaise(t) PROVE LoopInv'
  BY <1>0, <1>10, <1>d, DropFrame DEF UpsertRaise, UpsertFails, LockInv
<1>11. ASSUME NEW t \in Thread, UpsertCommit(t) PROVE LoopInv'
  <2>1. pc[t] = "upsert" /\ pc'[t] = "respond"
        /\ \A u \in Thread \ {t} : pc'[u] = pc[u]
    BY <1>0, <1>11, AnswerFrame DEF UpsertCommit
  <2> QED
    BY <1>0, <2>1, <1>d DEF LockInv
<1>12. ASSUME NEW t \in Thread, Pull(t) PROVE LoopInv'
  BY <1>12, <1>c DEF Pull, store
<1>13. ASSUME NEW t \in Thread, Respond(t) PROVE LoopInv'
  BY <1>13, <1>b DEF Respond, store
<1>14. ASSUME NEW t \in Thread, Disconnect(t) PROVE LoopInv'
  BY <1>14, <1>b DEF Disconnect, store
<1>15. CASE Crash
  BY <1>15, <1>d DEF Crash
<1>16. CASE UNCHANGED vars
  BY <1>16, <1>a DEF vars, store, handler
<1> QED
  BY <1>1, <1>2, <1>3, <1>4, <1>4a, <1>5, <1>5a, <1>6, <1>7, <1>8, <1>9,
     <1>10, <1>11, <1>12, <1>13, <1>14, <1>15, <1>16
  DEF Next, Serve, UpsertStep
-----------------------------------------------------------------------------
(* What the invariants say of one pending answer.                          *)
AnswerOK(t) ==
  /\ \A c \in reply[t].claims : Honours(records[GroupOf(t)], c)
  /\ \A c \in reply[t].conflicts : Stands(records[GroupOf(t)], c)
  /\ CallOf(t).op = "pull" /\ reply[t].status = 200 /\ GroupOf(t) \notin torn =>
       /\ \/ reply[t].server_seq <= CallOf(t).since
          \/ reply[t].server_seq <= CounterOf(GroupOf(t))
       /\ LET g == GroupOf(t)
              call == CallOf(t)
          IN \A k \in Selected(records[g], call.collection, call.since) :
               records[g][k].seq <= reply[t].server_seq =>
                 [key |-> k, version |-> records[g][k].version,
                  body |-> records[g][k].body] \in reply[t].claims

AnswerInv ==
  /\ \A t \in Thread : pc[t] = "respond" => AnswerOK(t)
  /\ \A g \in Group : \A c \in told[g] : Honours(records[g], c)

LEMMA AnswerInvParts ==
  AnswerInv <=> ToldIsKept /\ ConflictsStand /\ CursorInv /\ NoGapBehindCursor
BY DEF AnswerInv, AnswerOK, ToldIsKept, ConflictsStand, CursorInv,
       NoGapBehindCursor

(* Every group's table only grows, a spoilt group's too.                   *)
LEMMA TablesGrow ==
  ASSUME IInv, [Next]_vars, NEW g \in Group
  PROVE  /\ records[g] \in Table /\ records'[g] \in Table
         /\ Grows(records[g], records'[g])
<1>1. records[g] \in Table /\ records'[g] \in Table
  BY TypeStep DEF IInv, TypeOK, Table
<1>2. CASE records'[g] = records[g]
  BY <1>1, <1>2 DEF Grows
<1>3. ASSUME NEW t \in Thread, UpsertCommit(t), g = GroupOf(t)
      PROVE  Grows(records[g], records'[g])
  <2>1. /\ CounterOf(g) <= seq[t] /\ Len(BatchOf(t)) \in Nat /\ seq[t] \in Nat
        /\ Store!Merged(BatchOf(t), Len(BatchOf(t)), records[g], records'[g],
                        CounterOf(g), seq[t])
    BY <1>3, CommitMerges
  <2>2. CounterOf(g) \in Nat
    BY CounterNat DEF IInv
  <2>3. Advances(records[g], records'[g], CounterOf(g), seq[t])
    BY <1>1, <2>1, <2>2, MergedAdvances
  <2> QED
    BY <2>3 DEF Advances, Grows
<1> QED
  BY <1>1, <1>2, <1>3, OnlyCommitWrites, CommitMerges

(* Whatever step is taken, an answer that is still pending stays true.     *)
LEMMA AnswerKept ==
  ASSUME IInv, [Next]_vars, NEW t \in Thread, pc[t] = "respond",
         req'[t] = req[t], reply'[t] = reply[t]
  PROVE  AnswerOK(t)'
<1> DEFINE call == CallOf(t)
<1>0. /\ HandlerType /\ RequestInv /\ AnswerOK(t)
      /\ req[t] \in Request /\ reply[t] \in Reply
  BY AnswerInvParts DEF IInv, AnswerInv, HandlerType, RequestInv
<1>g. PICK g \in Group : g = GroupOf(t)
  BY <1>0, RequestFields DEF GroupOf
<1>1. GroupOf(t)' = g /\ CallOf(t)' = call
  BY <1>0, <1>g, RequestFields DEF GroupOf, CallOf
<1>2. /\ records[g] \in Table /\ records'[g] \in Table
      /\ Grows(records[g], records'[g])
  BY <1>1, TablesGrow
<1>3. /\ \A c \in reply[t].claims : Honours(records'[g], c)
      /\ \A c \in reply[t].conflicts : Stands(records'[g], c)
  BY <1>0, <1>g, <1>2, ReplyFields, ClaimOutlives, ConflictOutlives DEF AnswerOK
<1>4. ASSUME call.op = "pull", reply[t].status = 200, g \notin torn'
      PROVE  /\ \/ reply[t].server_seq <= call.since
                \/ reply[t].server_seq <= CounterOf(g)'
             /\ \A k \in Selected(records'[g], call.collection, call.since) :
                  records'[g][k].seq <= reply[t].server_seq =>
                    [key |-> k, version |-> records'[g][k].version,
                     body |-> records'[g][k].body] \in reply[t].claims
  <2>0. g \in Group \ torn
    BY <1>4, TornStays
  <2>1. /\ call.since \in Int /\ reply[t].server_seq \in Int
        /\ CounterOf(g) \in Nat /\ CounterOf(g)' \in Nat
    <3>1. TypeOK /\ TypeOK'
      BY TypeStep DEF IInv
    <3>2. CounterOf(g) \in Nat /\ CounterOf(g)' \in Nat
      BY <3>1 DEF TypeOK, CounterOf
    <3> QED
      BY <1>0, <1>4, <3>2, RequestFields, ReplyFields DEF CallOf
  <2>2. Advances(records[g], records'[g], CounterOf(g), CounterOf(g)')
    BY <2>0, StepAdvances
  <2>3. \/ reply[t].server_seq <= call.since
        \/ reply[t].server_seq <= CounterOf(g)
    BY <1>0, <1>g, <1>4, <2>0 DEF AnswerOK
  <2>4. ASSUME NEW k \in Selected(records'[g], call.collection, call.since),
               records'[g][k].seq <= reply[t].server_seq
        PROVE  [key |-> k, version |-> records'[g][k].version,
                body |-> records'[g][k].body] \in reply[t].claims
    <3>1. /\ k \in Key /\ records'[g][k] # None
          /\ records'[g][k].seq > call.since /\ records'[g][k].seq \in Nat
      BY <1>2, TableFields DEF Selected
    <3>2. records'[g][k] = records[g][k]
      BY <2>1, <2>2, <2>3, <2>4, <3>1 DEF Advances
    <3>3. k \in Selected(records[g], call.collection, call.since)
      BY <3>1, <3>2 DEF Selected
    <3> QED
      BY <1>0, <1>g, <1>4, <2>0, <2>4, <3>2, <3>3 DEF AnswerOK
  <2>5. \/ reply[t].server_seq <= call.since
        \/ reply[t].server_seq <= CounterOf(g)'
    BY <2>1, <2>2, <2>3 DEF Advances
  <2> QED
    BY <2>4, <2>5
<1>5. /\ reply'[t] = reply[t]
      /\ CounterOf(GroupOf(t))' = CounterOf(g)'
  BY <1>1 DEF CounterOf
<1> QED
  BY <1>1, <1>3, <1>4, <1>5 DEF AnswerOK

(* The answer to a push that has just been committed.                      *)
LEMMA CommitAnswer ==
  ASSUME IInv, NEW t \in Thread, UpsertCommit(t)
  PROVE  AnswerOK(t)'
<1> DEFINE g == GroupOf(t)
           claims == {ClaimOf(BatchOf(t)[i]) : i \in accepted[t]}
<1>0. HandlerType /\ LoopAt(t) /\ g \in Group /\ CallOf(t).op = "push"
  BY CommitMerges DEF IInv, LoopInv, UpsertCommit
<1>1. PICK status \in {200, 409} :
        Answer(t, status, claims, conflicts[t], seq[t])
  BY DEF UpsertCommit
<1>2. \A c \in claims : Honours(tx_records[g], c)
  BY <1>0 DEF LoopAt
<1>3. \A c \in conflicts[t] : Stands(tx_records[g], c)
  BY <1>0 DEF LoopAt
<1>4. records' = tx_records
  BY DEF UpsertCommit
<1> HIDE DEF claims
<1>5. /\ reply'[t].claims = claims /\ reply'[t].conflicts = conflicts[t]
      /\ req' = req
  BY <1>0, <1>1, AnswerFrame
<1>6. GroupOf(t)' = g /\ CallOf(t)'.op = "push"
  BY <1>0, <1>5 DEF GroupOf, CallOf
<1> QED
  BY <1>2, <1>3, <1>4, <1>5, <1>6 DEF AnswerOK

(* The answer to a pull.                                                   *)
LEMMA PullAnswer ==
  ASSUME IInv, NEW t \in Thread, Pull(t)
  PROVE  AnswerOK(t)'
<1> DEFINE g == GroupOf(t)
           call == CallOf(t)
           table == tx_records[g]
           keys == Selected(table, call.collection, call.since)
           claims == {[key |-> k, version |-> table[k].version,
                       body |-> table[k].body] : k \in keys}
<1>0. /\ HandlerType /\ g \in Group /\ req[t] \in Request
      /\ table = records[g] /\ table \in Table
      /\ CallOf(t).op = "pull" /\ UNCHANGED <<records, seq_counter, torn>>
  <2>1. HandlerType /\ pc[t] = "pull" /\ lock = NoThread /\ UNCHANGED store
    BY DEF IInv, Pull
  <2>2. req[t] \in Request /\ CallOf(t).op = "pull"
    BY <2>1 DEF IInv, RequestInv
  <2>3. g \in Group
    BY <2>2, RequestFields DEF GroupOf
  <2>4. tx_records = records
    BY <2>1 DEF IInv, LockInv
  <2> QED
    BY <2>1, <2>2, <2>3, <2>4 DEF store, tables, IInv, TypeOK, Table
<1>1. PICK s \in {call.since} \cup {table[k].seq : k \in keys} :
        LastSeq(table, keys, call.since, s) /\ Answer(t, 200, claims, {}, s)
  BY DEF Pull
<1>2. \A c \in claims : Honours(records[g], c)
  BY <1>0 DEF Honours, Selected
<1>3. g \notin torn => s <= call.since \/ s <= CounterOf(g)
  <2>1. g \notin torn => \A k \in keys : table[k].seq <= CounterOf(g)
    BY <1>0 DEF IInv, SeqNumbers, Selected
  <2>2. call.since \in Int
    BY <1>0, RequestFields DEF CallOf
  <2>3. CASE s \in {table[k].seq : k \in keys}
    BY <2>1, <2>3
  <2>4. CASE s = call.since
    BY <2>2, <2>4
  <2> QED
    BY <1>1, <2>3, <2>4
<1>4. \A k \in keys : [key |-> k, version |-> table[k].version,
                       body |-> table[k].body] \in claims
  OBVIOUS
<1> HIDE DEF claims
<1>5. /\ reply'[t].claims = claims /\ reply'[t].conflicts = {}
      /\ reply'[t].server_seq = s /\ req' = req
  BY <1>0, <1>1, AnswerFrame
<1>6. /\ GroupOf(t)' = g /\ CallOf(t)' = call
      /\ CounterOf(GroupOf(t))' = CounterOf(g)
  BY <1>0, <1>5 DEF GroupOf, CallOf, CounterOf
<1> QED
  BY <1>0, <1>2, <1>3, <1>4, <1>5, <1>6 DEF AnswerOK

LEMMA AnswerStep == IInv /\ [Next]_vars => AnswerInv'
<1> SUFFICES ASSUME IInv, [Next]_vars PROVE AnswerInv'
  OBVIOUS
<1>0. TypeOK /\ HandlerType /\ RequestInv /\ AnswerInv
  BY AnswerInvParts DEF IInv
<1>1. ASSUME NEW g \in Group, NEW c \in told[g] PROVE Honours(records'[g], c)
  BY <1>0, TablesGrow, ClaimOutlives DEF AnswerInv, TypeOK
<1>2. ASSUME UNCHANGED told,
             \A u \in Thread : pc'[u] = "respond" => AnswerOK(u)'
      PROVE  AnswerInv'
  BY <1>1, <1>2 DEF AnswerInv
<1>a. ASSUME \A u \in Thread : pc'[u] = "respond" =>
               /\ pc[u] = "respond"
               /\ req'[u] = req[u] /\ reply'[u] = reply[u]
      PROVE  \A u \in Thread : pc'[u] = "respond" => AnswerOK(u)'
  BY <1>a, AnswerKept
<1>b. ASSUME NEW t \in Thread, Drop(t)
      PROVE  \A u \in Thread : pc'[u] = "respond" => AnswerOK(u)'
  BY <1>0, <1>a, <1>b, DropFrame
<1>c. ASSUME NEW t \in Thread, NEW status, NEW claims, NEW cs, NEW n,
             Answer(t, status, claims, cs, n), AnswerOK(t)', UNCHANGED told
      PROVE  AnswerInv'
  BY <1>0, <1>2, <1>c, AnswerFrame, AnswerKept
<1>d. ASSUME NEW t \in Thread, NEW status, Answer(t, status, {}, {}, 0),
             CallOf(t).op = "pull" => status # 200, UNCHANGED told
      PROVE  AnswerInv'
  <2>1. /\ reply'[t].claims = {} /\ reply'[t].conflicts = {}
        /\ reply'[t].status = status /\ CallOf(t)' = CallOf(t)
    BY <1>0, <1>d, AnswerFrame DEF CallOf
  <2>2. AnswerOK(t)'
    BY <1>d, <2>1 DEF AnswerOK
  <2> QED
    BY <1>c, <1>d, <2>2
<1>3. ASSUME NEW t \in Thread, NEW r \in Request, Receive(t, r)
      PROVE  AnswerInv'
  BY <1>0, <1>3, <1>a, <1>2 DEF Receive, HandlerType
<1>4. ASSUME NEW t \in Thread, PairRegister(t) PROVE AnswerInv'
  BY <1>0, <1>4, <1>d DEF PairRegister, RequestInv
<1>5. ASSUME NEW t \in Thread, PairExisting(t) PROVE AnswerInv'
  BY <1>0, <1>5, <1>d DEF PairExisting, RequestInv
<1>6. ASSUME NEW t \in Thread, PairRaise(t) \/ PairBreaks(t) \/ ReadRaise(t)
      PROVE  AnswerInv'
  BY <1>6, <1>b, <1>2 DEF PairRaise, PairBreaks, ReadRaise
<1>7. ASSUME NEW t \in Thread, Authenticate(t) PROVE AnswerInv'
  <2>1. CASE \E status \in {400, 403} : Answer(t, status, {}, {}, 0)
    BY <1>7, <2>1, <1>d DEF Authenticate
  <2>2. CASE /\ pc' = [pc EXCEPT ![t] = CallOf(t).op]
             /\ UNCHANGED <<req, reply>>
    <3>1. CallOf(t).op \in {"push", "pull"}
      BY <1>0, <1>7 DEF RequestInv, Authenticate
    <3> QED
      BY <1>0, <1>7, <2>2, <3>1, <1>a, <1>2 DEF HandlerType, Authenticate
  <2> QED
    BY <1>7, <2>1, <2>2 DEF Authenticate
<1>8. ASSUME NEW t \in Thread, UpsertBegin(t) PROVE AnswerInv'
  BY <1>0, <1>8, <1>a, <1>2 DEF UpsertBegin, HandlerType
<1>9. ASSUME NEW t \in Thread, UpsertBeginRaise(t) PROVE AnswerInv'
  BY <1>9, <1>b, <1>2 DEF UpsertBeginRaise
<1>10. ASSUME NEW t \in Thread, UpsertConflict(t) PROVE AnswerInv'
  BY <1>10, <1>a, <1>2 DEF UpsertConflict, handler
<1>11. ASSUME NEW t \in Thread, UpsertAccept(t) PROVE AnswerInv'
  BY <1>11, <1>a, <1>2 DEF UpsertAccept, handler
<1>12. ASSUME NEW t \in Thread, UpsertRaise(t) PROVE AnswerInv'
  BY <1>12, <1>b, <1>2 DEF UpsertRaise
<1>13. ASSUME NEW t \in Thread, UpsertCommit(t) PROVE AnswerInv'
  <2>1. AnswerOK(t)' /\ UNCHANGED told
    BY <1>13, CommitAnswer DEF UpsertCommit
  <2> QED
    BY <1>13, <1>c, <2>1 DEF UpsertCommit
<1>14. ASSUME NEW t \in Thread, Pull(t) PROVE AnswerInv'
  <2>1. AnswerOK(t)' /\ UNCHANGED told
    BY <1>14, PullAnswer DEF Pull
  <2> QED
    BY <1>14, <1>c, <2>1 DEF Pull
<1>15. ASSUME NEW t \in Thread, Respond(t) PROVE AnswerInv'
  <2>1. /\ pc[t] = "respond" /\ GroupOf(t) \in Group
        /\ reply[t].claims \in SUBSET Claim
    BY <1>0, <1>15, RequestFields, ReplyFields
    DEF Respond, RequestInv, HandlerType, GroupOf
  <2>2. \A c \in reply[t].claims : Honours(records'[GroupOf(t)], c)
    BY <1>0, <2>1, TablesGrow, ClaimOutlives DEF AnswerInv, AnswerOK
  <2>3. ASSUME NEW g \in Group, NEW c \in told'[g]
        PROVE  Honours(records'[g], c)
    BY <1>0, <1>1, <1>15, <2>1, <2>2, <2>3 DEF Respond, TypeOK
  <2> QED
    BY <1>15, <1>b, <2>3 DEF AnswerInv, Respond
<1>16. ASSUME NEW t \in Thread, Disconnect(t) PROVE AnswerInv'
  BY <1>16, <1>b, <1>2 DEF Disconnect
<1>17. CASE Crash
  BY <1>17, <1>2 DEF Crash
<1>18. CASE UNCHANGED vars
  BY <1>18, <1>a, <1>2 DEF vars, handler
<1> QED
  BY <1>3, <1>4, <1>5, <1>6, <1>7, <1>8, <1>9, <1>10, <1>11, <1>12, <1>13,
     <1>14, <1>15, <1>16, <1>17, <1>18 DEF Next, Serve, UpsertStep
-----------------------------------------------------------------------------
LEMMA IInvStep == IInv /\ [Next]_vars => IInv'
<1> SUFFICES ASSUME IInv, [Next]_vars PROVE IInv'
  OBVIOUS
<1>1. ToldIsKept' /\ ConflictsStand' /\ CursorInv' /\ NoGapBehindCursor'
  <2>1. AnswerInv'
    BY AnswerStep
  <2> QED
    BY <2>1, AnswerInvParts, PTL
<1> QED
  BY <1>1, TypeStep, RequestStep, LockStep, LoopStep, SeqNumbersStep,
     AuthorisedStep, WholeStep DEF IInv

LEMMA Invariance == Spec => []IInv
BY InitIInv, IInvStep, PTL DEF Spec

(* Every variable of the server keeps its type, whatever requests arrive   *)
(* and whatever fails.                                                     *)
THEOREM TypeCorrect == Spec => []TypeOK
<1>1. IInv => TypeOK
  BY DEF IInv
<1> QED
  BY <1>1, Invariance, PTL

(* What a client was told is stored stays stored, or is superseded by a    *)
(* higher version.                                                         *)
THEOREM Durability == Spec => []ToldIsKept
<1>1. IInv => ToldIsKept
  BY DEF IInv
<1> QED
  BY <1>1, Invariance, PTL

(* A conflict the server reports is not taken back.                        *)
THEOREM ConflictsAreReal == Spec => []ConflictsStand
<1>1. IInv => ConflictsStand
  BY DEF IInv
<1> QED
  BY <1>1, Invariance, PTL

(* A pull never leaves a committed row behind the cursor it returns.       *)
THEOREM CompletePulls == Spec => []NoGapBehindCursor
<1>1. IInv => NoGapBehindCursor
  BY DEF IInv
<1> QED
  BY <1>1, Invariance, PTL

(* The numbers of a group's rows are distinct and within its counter.      *)
THEOREM DistinctNumbers == Spec => []SeqNumbers
<1>1. IInv => SeqNumbers
  BY DEF IInv
<1> QED
  BY <1>1, Invariance, PTL

(* Authentication is still valid when the lock is taken again.             *)
THEOREM AuthenticationHolds == Spec => []Authorised
<1>1. IInv => Authorised
  BY DEF IInv
<1> QED
  BY <1>1, Invariance, PTL

(* Rows change only to higher versions and under numbers never seen.       *)
THEOREM VisibleChanges == Spec => ChangesVisible
<1> DEFINE Visible ==
      \A g \in Group : \A k \in Key :
        records'[g][k] # records[g][k] =>
          /\ records'[g][k] # None
          /\ g \notin torn => records'[g][k].seq > CounterOf(g)
          /\ records[g][k] # None =>
               records'[g][k].version > records[g][k].version
<1>1. IInv /\ [Next]_vars => [Visible]_vars
  <2> SUFFICES ASSUME IInv, [Next]_vars, NEW g \in Group, NEW k \in Key,
                      records'[g][k] # records[g][k]
               PROVE  /\ records'[g][k] # None
                      /\ g \notin torn => records'[g][k].seq > CounterOf(g)
                      /\ records[g][k] # None =>
                           records'[g][k].version > records[g][k].version
    OBVIOUS
  <2>1. PICK t \in Thread : UpsertCommit(t) /\ g = GroupOf(t)
    BY OnlyCommitWrites, CommitMerges
  <2>2. /\ records[g] \in Table /\ records'[g] \in Table
        /\ CounterOf(g) \in Nat /\ CounterOf(g) <= seq[t]
        /\ Len(BatchOf(t)) \in Nat /\ seq[t] \in Nat
        /\ Store!Merged(BatchOf(t), Len(BatchOf(t)), records[g], records'[g],
                        CounterOf(g), seq[t])
    BY <2>1, TablesGrow, CounterNat, CommitMerges DEF IInv
  <2>3. Advances(records[g], records'[g], CounterOf(g), seq[t])
    BY <2>2, MergedAdvances
  <2> QED
    BY <2>3 DEF Advances
<1> QED
  BY <1>1, Invariance, PTL DEF Spec, ChangesVisible
-----------------------------------------------------------------------------
(* Refinement of the last-writer-wins store, which never hears of a group  *)
(* whose registration broke off.                                           *)
(* What is promised of one group.                                          *)
LEMMA PromisedOf ==
  ASSUME NEW g \in Group
  PROVE  /\ PromisedHash[g] = IF g \in torn THEN None ELSE auth_hash[g]
         /\ PromisedRecords[g] = IF g \in torn THEN NoRow ELSE records[g]
         /\ PromisedCounter[g] = IF g \in torn THEN 0 ELSE CounterOf(g)
         /\ PromisedHash'[g] = IF g \in torn' THEN None ELSE auth_hash'[g]
         /\ PromisedRecords'[g] = IF g \in torn' THEN NoRow ELSE records'[g]
         /\ PromisedCounter'[g] = IF g \in torn' THEN 0 ELSE CounterOf(g)'
BY DEF PromisedHash, PromisedRecords, PromisedCounter

(* Only a registration that breaks off spoils a group.                     *)
LEMMA OnlyBreaksTear ==
  ASSUME [Next]_vars, ~(\E t \in Thread : PairBreaks(t))
  PROVE  UNCHANGED torn
BY DEF Next, Serve, UpsertStep, Receive, PairRegister, PairExisting, PairRaise,
       Authenticate, ReadRaise, UpsertBegin, UpsertBeginRaise, UpsertConflict,
       UpsertAccept, UpsertRaise, UpsertCommit, Pull, Respond, Disconnect,
       Crash, vars, store

(* A group whose rows stay what they were.                                 *)
LEMMA PromiseKept ==
  ASSUME IInv, [Next]_vars, NEW g \in Group,
         g \in torn \/ (g \notin torn' => auth_hash'[g] = auth_hash[g]),
         g \in torn \/ (g \notin torn' => records'[g] = records[g]),
         g \in torn \/ (g \notin torn' => CounterOf(g)' = CounterOf(g)),
         g \in torn' \ torn => auth_hash[g] = None
  PROVE  /\ PromisedHash'[g] = PromisedHash[g]
         /\ PromisedRecords'[g] = PromisedRecords[g]
         /\ PromisedCounter'[g] = PromisedCounter[g]
<1>1. CASE g \in torn
  BY <1>1, TornStays, PromisedOf
<1>2. CASE g \notin torn'
  BY <1>2, TornStays, PromisedOf
<1>3. CASE g \in torn' \ torn
  <2>1. auth_hash[g] = None /\ records[g] = NoRow /\ CounterOf(g) = 0
    BY <1>3 DEF IInv, WholeInv, Whole, CounterOf
  <2> QED
    BY <1>3, <2>1, PromisedOf
<1> QED
  BY <1>1, <1>2, <1>3

LEMMA PairIsRegister ==
  ASSUME IInv, [Next]_vars, NEW t \in Thread, PairRegister(t)
  PROVE  [Store!Next]_Store!vars
<1> DEFINE g == GroupOf(t)
<1>1. /\ pc[t] = "pair" /\ req[t] \in Request /\ CallOf(t).op = "pair"
  BY DEF IInv, RequestInv, PairRegister
<1>2. g \in Group /\ CallOf(t).hash \in AuthHash
  BY <1>1, RequestFields DEF GroupOf, CallOf, PairRegister
<1>3. /\ UNCHANGED <<torn, records>> /\ tx_auth_hash[g] = None
      /\ auth_hash' = [tx_auth_hash EXCEPT ![g] = CallOf(t).hash]
      /\ tx_auth_hash \in [Group -> AuthHash \cup {None}]
  BY DEF PairRegister, IInv, TypeOK
<1>4. \A h \in Group \ torn : tx_auth_hash[h] = auth_hash[h]
  BY DEF IInv, WholeInv, Whole
<1>5. ASSUME NEW h \in Group
      PROVE  /\ PromisedRecords'[h] = PromisedRecords[h]
             /\ PromisedCounter'[h] = PromisedCounter[h]
             /\ h # g \/ h \in torn => PromisedHash'[h] = PromisedHash[h]
  <2>1. h \notin torn => CounterOf(h)' = CounterOf(h)
    BY RegisterCounts
  <2>2. h # g /\ h \notin torn => auth_hash'[h] = auth_hash[h]
    BY <1>3, <1>4
  <2> QED
    BY <1>3, <2>1, <2>2, PromisedOf
<1>6. PromisedRecords' = PromisedRecords /\ PromisedCounter' = PromisedCounter
  BY <1>5 DEF PromisedRecords, PromisedCounter
<1>7. CASE g \in torn
  <2>1. PromisedHash' = PromisedHash
    BY <1>5, <1>7 DEF PromisedHash
  <2> QED
    BY <1>6, <2>1 DEF Store!vars
<1>8. CASE g \notin torn
  <2>1. PromisedHash[g] = None /\ PromisedHash'[g] = CallOf(t).hash
    BY <1>2, <1>3, <1>4, <1>8, PromisedOf
  <2>2. PromisedHash' = [PromisedHash EXCEPT ![g] = CallOf(t).hash]
    BY <1>2, <1>5, <2>1 DEF PromisedHash
  <2>3. Store!Register(g, CallOf(t).hash)
    BY <1>6, <2>1, <2>2 DEF Store!Register
  <2> QED
    BY <1>2, <2>3 DEF Store!Next
<1> QED
  BY <1>7, <1>8

(* The first half of a registration, uncommitted: the store has not heard  *)
(* of the group, and never will.                                           *)
LEMMA BreakIsNothing ==
  ASSUME IInv, [Next]_vars, NEW t \in Thread, PairBreaks(t)
  PROVE  UNCHANGED Store!vars
<1>1. /\ UNCHANGED tables /\ torn' = torn \cup {GroupOf(t)}
      /\ tx_auth_hash[GroupOf(t)] = None
  BY DEF PairBreaks
<1>2. ASSUME NEW g \in Group
      PROVE  /\ PromisedHash'[g] = PromisedHash[g]
             /\ PromisedRecords'[g] = PromisedRecords[g]
             /\ PromisedCounter'[g] = PromisedCounter[g]
  <2>1. g \in torn' \ torn => auth_hash[g] = None
    BY <1>1 DEF IInv, WholeInv, Whole
  <2>2. UNCHANGED <<auth_hash, records>> /\ CounterOf(g)' = CounterOf(g)
    BY <1>1 DEF tables, CounterOf
  <2> QED
    BY <2>1, <2>2, PromiseKept
<1> QED
  BY <1>2 DEF Store!vars, PromisedHash, PromisedRecords, PromisedCounter

LEMMA CommitIsUpsert ==
  ASSUME IInv, [Next]_vars, NEW t \in Thread, UpsertCommit(t)
  PROVE  [Store!Next]_Store!vars
<1> DEFINE g == GroupOf(t)
           batch == BatchOf(t)
<1>1. g \in Group /\ UNCHANGED <<auth_hash, torn>>
  BY CommitMerges DEF UpsertCommit
<1>2. batch \in {r.call.batch : r \in {q \in Request :
                   q.call.op = "push" /\ WellFormed(q.call.batch)}}
  BY CommitMerges DEF BatchOf, CallOf
<1>3. PromisedHash' = PromisedHash
  BY <1>1 DEF PromisedHash
<1>4. ASSUME NEW h \in Group, h # g \/ h \in torn
      PROVE  /\ PromisedRecords'[h] = PromisedRecords[h]
             /\ PromisedCounter'[h] = PromisedCounter[h]
  BY <1>1, <1>4, CommitMerges, PromisedOf DEF CounterOf
<1>5. CASE g \in torn
  <2>1. \A h \in Group : /\ PromisedRecords'[h] = PromisedRecords[h]
                         /\ PromisedCounter'[h] = PromisedCounter[h]
    BY <1>4, <1>5
  <2> QED
    BY <1>3, <2>1 DEF Store!vars, PromisedRecords, PromisedCounter
<1>6. CASE g \notin torn
  <2>1. /\ PromisedHash[g] # None
        /\ PromisedRecords[g] = records[g] /\ PromisedRecords'[g] = records'[g]
        /\ PromisedCounter[g] = CounterOf(g) /\ PromisedCounter'[g] = seq[t]
    BY <1>1, <1>6, CommitMerges, PromisedOf DEF CounterOf
  <2>2. /\ PromisedRecords' = [PromisedRecords EXCEPT ![g] = records'[g]]
        /\ PromisedCounter' = [PromisedCounter EXCEPT ![g] = seq[t]]
    BY <1>1, <1>4, <2>1 DEF PromisedRecords, PromisedCounter
  <2>3. Store!Upsert(g, batch)
    BY <1>3, <2>1, <2>2, CommitMerges DEF Store!Upsert
  <2> QED
    BY <1>1, <1>2, <2>3 DEF Store!Next
<1> QED
  BY <1>5, <1>6

(* The server, with its threads, its lock, its transactions and its        *)
(* faults, does to the tables only what the last-writer-wins store does.   *)
THEOREM Refinement == Spec => Implements
<1>1. Init => Store!Init
  <2> SUFFICES ASSUME Init PROVE Store!Init
    OBVIOUS
  <2>1. \A g \in Group : CounterOf(g) = 0
    BY DEF Init, CounterOf
  <2> QED
    BY <2>1 DEF Init, NoRow, Store!Init, PromisedHash, PromisedRecords,
                PromisedCounter
<1>2. IInv /\ [Next]_vars => [Store!Next]_Store!vars
  <2> SUFFICES ASSUME IInv, [Next]_vars PROVE [Store!Next]_Store!vars
    OBVIOUS
  <2>1. CASE \E t \in Thread : PairRegister(t)
    BY <2>1, PairIsRegister
  <2>2. CASE \E t \in Thread : UpsertCommit(t)
    BY <2>2, CommitIsUpsert
  <2>3. CASE \E t \in Thread : PairBreaks(t)
    BY <2>3, BreakIsNothing
  <2>4. CASE /\ ~(\E t \in Thread : PairRegister(t))
             /\ ~(\E t \in Thread : UpsertCommit(t))
             /\ ~(\E t \in Thread : PairBreaks(t))
    <3>1. UNCHANGED <<auth_hash, seq_counter, records, torn>>
      BY <2>4, OnlyCommitWrites, OnlyBreaksTear
    <3> QED
      BY <3>1 DEF Store!vars, PromisedHash, PromisedRecords, PromisedCounter,
                  CounterOf
  <2> QED
    BY <2>1, <2>2, <2>3, <2>4
<1> QED
  BY <1>1, <1>2, Invariance, PTL DEF Spec, Implements, Store!Spec
-----------------------------------------------------------------------------
(* Where every push is answered, as sync/PROTOCOL.md has it: SQLite does   *)
(* not fail, nobody restarts the server, and no client registers a null    *)
(* hash.  It then is the lock alone that keeps BEGIN from failing.         *)
NothingFails ==
  /\ Faults \subseteq {"disconnect"}
  /\ \A r \in Request : r.call.op = "pair" => r.call.hash # Null

(* A transaction is open only while its thread has the lock.               *)
NoneLeftOpen == in_transaction => lock # NoThread

LEMMA NoneLeftOpenStep ==
  ASSUME NothingFails
  PROVE  IInv /\ NoneLeftOpen /\ [Next]_vars => NoneLeftOpen'
<1> SUFFICES ASSUME IInv, NoneLeftOpen, [Next]_vars PROVE NoneLeftOpen'
  OBVIOUS
<1>1. ASSUME UNCHANGED <<in_transaction, lock>> PROVE NoneLeftOpen'
  BY <1>1 DEF NoneLeftOpen
<1>2. ASSUME in_transaction' = FALSE PROVE NoneLeftOpen'
  BY <1>2 DEF NoneLeftOpen
<1>3. ASSUME NEW t \in Thread, PairRaise(t) \/ PairBreaks(t) \/ ReadRaise(t)
      PROVE  FALSE
  <2>1. pc[t] = "pair" /\ CallOf(t).hash = Null
    BY <1>3 DEF PairRaise, PairBreaks, ReadRaise, NothingFails
  <2>2. req[t] \in Request /\ CallOf(t).op = "pair"
    BY <2>1 DEF IInv, RequestInv
  <2> QED
    BY <2>1, <2>2 DEF NothingFails, CallOf
<1>4. ASSUME NEW t \in Thread, UpsertBegin(t) PROVE NoneLeftOpen'
  BY <1>4, NoThreadAssumption DEF UpsertBegin, NoneLeftOpen
<1>5. ASSUME NEW t \in Thread, Serve(t) PROVE NoneLeftOpen'
  <2>1. CASE \/ PairExisting(t) \/ Authenticate(t) \/ UpsertConflict(t)
             \/ UpsertAccept(t) \/ Pull(t) \/ Respond(t) \/ Disconnect(t)
    BY <2>1, <1>1 DEF PairExisting, Authenticate, UpsertConflict, UpsertAccept,
                      Pull, Respond, Disconnect, store
  <2>2. CASE \/ PairRegister(t) \/ UpsertBeginRaise(t) \/ UpsertRaise(t)
             \/ UpsertCommit(t)
    BY <2>2, <1>2
    DEF PairRegister, UpsertBeginRaise, UpsertRaise, UpsertCommit, RollBack
  <2> QED
    BY <1>3, <1>4, <1>5, <2>1, <2>2 DEF Serve, UpsertStep
<1>6. ASSUME NEW t \in Thread, NEW r \in Request, Receive(t, r) PROVE NoneLeftOpen'
  BY <1>6, <1>1 DEF Receive, store
<1>7. CASE Crash
  BY <1>7, <1>2 DEF Crash, RollBack
<1>8. CASE UNCHANGED vars
  BY <1>8, <1>1 DEF vars, store
<1> QED
  BY <1>5, <1>6, <1>7, <1>8 DEF Next

(* A thread leaves upsert_records without an answer only by a raise, and   *)
(* then BEGIN found a transaction open or a record cannot be stored.       *)
LEMMA NoPushDropped ==
  ASSUME NothingFails, IInv, NoneLeftOpen, [Next]_vars, NEW t \in Thread,
         pc[t] \in {"push", "upsert"}, Storable(BatchOf(t))
  PROVE  pc'[t] # "idle"
<1>t. pc \in [Thread -> {"idle", "pair", "auth", "push", "upsert", "pull",
                         "respond"}]
  BY DEF IInv, HandlerType
<1>1. ASSUME NEW u \in Thread, NEW place, pc' = [pc EXCEPT ![u] = place],
             u # t \/ place # "idle"
      PROVE  pc'[t] # "idle"
  BY <1>t, <1>1
<1>2. ASSUME NEW u \in Thread, u # t, Drop(u) PROVE pc'[t] # "idle"
  BY <1>1, <1>2 DEF Drop
<1>3. ASSUME NEW u \in Thread, NEW status, NEW claims, NEW cs, NEW last,
             Answer(u, status, claims, cs, last)
      PROVE  pc'[t] # "idle"
  BY <1>1, <1>3 DEF Answer
<1>4. ~UpsertBeginRaise(t)
  BY DEF UpsertBeginRaise, NoneLeftOpen, NothingFails
<1>5. ~UpsertRaise(t)
  <2> SUFFICES ASSUME UpsertRaise(t) PROVE FALSE
    OBVIOUS
  <2>1. /\ pc[t] = "upsert" /\ pos[t] <= Len(BatchOf(t))
        /\ Current(t).body = Null
    BY DEF UpsertRaise, UpsertFails, NothingFails
  <2>2. pos[t] \in 1 .. Len(BatchOf(t))
    BY <2>1, CurrentFields DEF IInv
  <2> QED
    BY <2>1, <2>2 DEF Storable, Current
<1>6. ASSUME NEW u \in Thread, NEW r \in Request, Receive(u, r)
      PROVE  pc'[t] # "idle"
  <2>1. u # t
    BY <1>6 DEF Receive
  <2> QED
    BY <1>6, <2>1, <1>1 DEF Receive
<1>7. ASSUME NEW u \in Thread, Serve(u) PROVE pc'[t] # "idle"
  <2>1. CASE PairRegister(u) \/ PairExisting(u)
    BY <2>1, <1>3 DEF PairRegister, PairExisting
  <2>2. CASE UpsertCommit(u)
    BY <2>2, <1>3 DEF UpsertCommit
  <2>3. CASE Pull(u)
    BY <2>3, <1>3, Zenon DEF Pull
  <2>4. CASE Authenticate(u)
    <3>1. u # t
      BY <2>4 DEF Authenticate
    <3> QED
      BY <2>4, <3>1, <1>1, <1>3 DEF Authenticate
  <2>5. CASE UpsertBegin(u)
    BY <2>5, <1>1 DEF UpsertBegin
  <2>6. CASE UpsertConflict(u) \/ UpsertAccept(u)
    BY <2>6 DEF UpsertConflict, UpsertAccept, handler
  <2>7. CASE \/ PairRaise(u) \/ PairBreaks(u) \/ ReadRaise(u)
             \/ Respond(u) \/ Disconnect(u)
    <3>1. u # t
      BY <2>7 DEF PairRaise, PairBreaks, ReadRaise, Respond, Disconnect
    <3> QED
      BY <2>7, <3>1, <1>2
      DEF PairRaise, PairBreaks, ReadRaise, Respond, Disconnect
  <2>8. CASE UpsertBeginRaise(u) \/ UpsertRaise(u)
    BY <2>8, <1>2, <1>4, <1>5 DEF UpsertBeginRaise, UpsertRaise
  <2> QED
    BY <1>7, <2>1, <2>2, <2>3, <2>4, <2>5, <2>6, <2>7, <2>8 DEF Serve, UpsertStep
<1>8. ~Crash
  BY DEF Crash, NothingFails
<1> QED
  BY <1>6, <1>7, <1>8 DEF Next, vars, handler

(* Where SQLite does not fail and no null hash is registered, no           *)
(* authenticated push of storable records is dropped: what breaks the      *)
(* promise is the transaction such a pairing leaves open, and nothing that *)
(* the handler threads do to each other.                                   *)
THEOREM PushesAnswered ==
  ASSUME NothingFails
  PROVE  Spec => AcceptsIffNewer
<1>1. Init => NoneLeftOpen
  BY DEF Init, NoneLeftOpen
<1>2. IInv /\ NoneLeftOpen /\ [Next]_vars => NoneLeftOpen'
  BY NoneLeftOpenStep
<1>3. IInv /\ NoneLeftOpen /\ [Next]_vars =>
        [\A t \in Thread :
           pc[t] \in {"push", "upsert"} /\ Storable(BatchOf(t))
             => pc'[t] # "idle"]_vars
  BY NoPushDropped
<1> QED
  BY <1>1, <1>2, <1>3, Invariance, PTL DEF Spec, AcceptsIffNewer
=============================================================================
