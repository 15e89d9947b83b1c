------------------------------ MODULE SyncServer -----------------------------
(***************************************************************************)
(* The sync server of sync/server/app.py: one handler thread per client    *)
(* connection (ThreadingHTTPServer), all of them sharing one SQLite        *)
(* connection that is guarded by one threading.Lock.  SQLite's committed   *)
(* tables are auth_hash, seq_counter and records; the tx_ variables are    *)
(* what the shared connection sees of them, uncommitted rows included.     *)
(*                                                                         *)
(* A statement that only touches a thread's locals is folded into the step *)
(* before it.  upsert_records is kept as one step per statement group,     *)
(* because a crash or an exception can fall between any two of them.       *)
(***************************************************************************)
EXTENDS Integers, Sequences

CONSTANTS
  Thread,       \* handler threads, one per client connection
  Group,        \* sync group ids
  Secret,       \* values of k_auth
  Collection,   \* collection labels
  Id,           \* record ids
  Version,      \* version numbers clients use
  Body,         \* sealed payloads: nonce, ciphertext, tombstone flag and alg
  Request,      \* the requests clients may send
  MaxBatch,     \* MAX_RECORDS_PER_BATCH
  Faults,       \* the environment's faults: "sqlite", "crash", "disconnect"
  Null,         \* a JSON null where the schema says NOT NULL
  Malformed,    \* a batch entry that lacks a required field
  NoThread,     \* the lock is free
  None          \* an absent row, request or reply

Key == Collection \X Id

Sha256(k) == <<"sha256", k>>
AuthHash == {Sha256(k) : k \in Secret}

Wire == [key : Key, version : Version, body : Body \cup {Null}]
Row  == [version : Version, body : Body, seq : Nat]

PairCall == [op : {"pair"}, hash : AuthHash \cup {Null}]
PushCall == [op : {"push"}, batch : Seq(Wire \cup {Malformed})]
PullCall == [op : {"pull"}, collection : Collection \cup {None}, since : Int]
Call     == PairCall \cup PushCall \cup PullCall

(* The proof header is an HMAC over method, path and body: an HMAC of the  *)
(* call under some key.                                                    *)
Hmac(k, call) == [key |-> k, call |-> call]

RequestType == [group : Group, token : Secret,
                proof : [key : Secret, call : Call], call : Call]

ASSUME RequestAssumption == Request \subseteq RequestType
ASSUME VersionAssumption == Version \subseteq Int
ASSUME MaxBatchAssumption == MaxBatch \in Nat
ASSUME FaultsAssumption == Faults \subseteq {"sqlite", "crash", "disconnect"}
ASSUME NullAssumption == Null \notin Body /\ Null \notin AuthHash
ASSUME MalformedAssumption == Malformed \notin Wire
ASSUME NoThreadAssumption == NoThread \notin Thread
ASSUME NoneAssumption == /\ None \notin Row
                         /\ None \notin Nat
                         /\ None \notin AuthHash
                         /\ None \notin Collection

(* What an answer tells a client about stored records: a write that was    *)
(* accepted, or a row that was pulled.                                     *)
Claim    == [key : Key, version : Version, body : Body]
Conflict == [key : Key, version : Version, server_version : Version]
Reply    == [status : {200, 400, 403, 409}, claims : SUBSET Claim,
             conflicts : SUBSET Conflict, server_seq : Int]

VARIABLES
  auth_hash,       \* committed: groups.auth_hash, None when unregistered
  seq_counter,     \* committed: seq_counter.seq, None where there is no row
  records,         \* committed: the records table
  tx_auth_hash,    \* the three tables as the shared connection sees them
  tx_seq_counter,
  tx_records,
  in_transaction,  \* the shared connection has a transaction open
  torn,            \* history: groups whose registration broke off half-way
  lock,            \* Store._lock: its holder, or NoThread
  pc,              \* where each handler thread is
  req,             \* the request it serves
  pos,             \* upsert_records: the loop's position in the batch
  seq,             \* upsert_records: the local seq
  accepted,        \* upsert_records: positions accepted so far
  conflicts,       \* upsert_records: conflicts found so far
  reply,           \* the answer it is about to send
  told             \* history: every claim a client has received, by group

tables  == <<auth_hash, seq_counter, records>>
views   == <<tx_auth_hash, tx_seq_counter, tx_records>>
store   == <<tables, views, in_transaction, torn>>
loop    == <<pos, seq, accepted, conflicts>>
handler == <<pc, req, reply>>
vars    == <<store, lock, handler, loop, told>>

NoRow == [k \in Key |-> None]

Init ==
  /\ auth_hash = [g \in Group |-> None]
  /\ seq_counter = [g \in Group |-> None]
  /\ records = [g \in Group |-> NoRow]
  /\ tx_auth_hash = auth_hash
  /\ tx_seq_counter = seq_counter
  /\ tx_records = records
  /\ in_transaction = FALSE
  /\ torn = {}
  /\ lock = NoThread
  /\ pc = [t \in Thread |-> "idle"]
  /\ req = [t \in Thread |-> None]
  /\ pos = [t \in Thread |-> 1]
  /\ seq = [t \in Thread |-> 0]
  /\ accepted = [t \in Thread |-> {}]
  /\ conflicts = [t \in Thread |-> {}]
  /\ reply = [t \in Thread |-> None]
  /\ told = [g \in Group |-> {}]
-----------------------------------------------------------------------------
(* The request a thread serves, taken apart.                               *)
GroupOf(t) == req[t].group
CallOf(t)  == req[t].call
BatchOf(t) == CallOf(t).batch

(* The thread has its answer ready.                                        *)
Answer(t, status, claims, cs, server_seq) ==
  /\ pc' = [pc EXCEPT ![t] = "respond"]
  /\ reply' = [reply EXCEPT ![t] = [status |-> status, claims |-> claims,
                                    conflicts |-> cs,
                                    server_seq |-> server_seq]]
  /\ UNCHANGED req

(* The thread leaves the handler without an answer: an exception nobody    *)
(* catches closes the connection, and the client sees it dropped.          *)
Drop(t) ==
  /\ pc' = [pc EXCEPT ![t] = "idle"]
  /\ req' = [req EXCEPT ![t] = None]
  /\ reply' = [reply EXCEPT ![t] = None]

ResetLoop(t) ==
  /\ pos' = [pos EXCEPT ![t] = 1]
  /\ seq' = [seq EXCEPT ![t] = 0]
  /\ accepted' = [accepted EXCEPT ![t] = {}]
  /\ conflicts' = [conflicts EXCEPT ![t] = {}]

(* do_POST and do_GET: read the request and route it.                      *)
Receive(t, r) ==
  /\ pc[t] = "idle"
  /\ pc' = [pc EXCEPT ![t] = IF r.call.op = "pair" THEN "pair" ELSE "auth"]
  /\ req' = [req EXCEPT ![t] = r]
  /\ UNCHANGED <<store, lock, reply, loop, told>>
-----------------------------------------------------------------------------
(* The transaction is given up, with whatever is uncommitted.              *)
RollBack ==
  /\ tx_auth_hash' = auth_hash
  /\ tx_seq_counter' = seq_counter
  /\ tx_records' = records
  /\ in_transaction' = FALSE

(* INSERT OR IGNORE of the group's counter at 0.                           *)
WithCounter(g) ==
  [tx_seq_counter EXCEPT ![g] = IF @ = None THEN 0 ELSE @]

(* Mutated: INSERT OR REPLACE, with no look at what is registered.         *)
PairReplaces(t) ==
  /\ pc[t] = "pair" /\ lock = NoThread
  /\ CallOf(t).hash # Null
  /\ tx_auth_hash' = [tx_auth_hash EXCEPT ![GroupOf(t)] = CallOf(t).hash]
  /\ tx_seq_counter' = WithCounter(GroupOf(t))
  /\ auth_hash' = tx_auth_hash' /\ seq_counter' = tx_seq_counter'
  /\ in_transaction' = FALSE
  /\ Answer(t, 200, {}, {}, 0)
  /\ UNCHANGED <<records, tx_records, torn, lock, loop, told>>

(* create_group, whole: nothing else can look while the lock is held.  Its *)
(* commit makes durable whatever the connection has uncommitted: the two   *)
(* rows of this group, and those a registration that broke off left.       *)
PairRegister(t) ==
  /\ pc[t] = "pair" /\ lock = NoThread
  /\ tx_auth_hash[GroupOf(t)] = None
  /\ CallOf(t).hash # Null
  /\ tx_auth_hash' = [tx_auth_hash EXCEPT ![GroupOf(t)] = CallOf(t).hash]
  /\ tx_seq_counter' = WithCounter(GroupOf(t))
  /\ auth_hash' = tx_auth_hash' /\ seq_counter' = tx_seq_counter'
  /\ in_transaction' = FALSE
  /\ Answer(t, 200, {}, {}, 0)
  /\ UNCHANGED <<records, tx_records, torn, lock, loop, told>>

(* A group the connection sees registered: idempotent for the same hash.   *)
PairExisting(t) ==
  /\ pc[t] = "pair" /\ lock = NoThread
  /\ tx_auth_hash[GroupOf(t)] # None
  /\ CallOf(t).hash # Null
  /\ Answer(t, IF CallOf(t).hash = tx_auth_hash[GroupOf(t)] THEN 200 ELSE 409,
            {}, {}, 0)
  /\ UNCHANGED <<store, lock, loop, told>>

(* create_group raises before it has written anything: compare_digest or   *)
(* the NOT NULL column refuses a null hash, or SQLite fails.  An INSERT    *)
(* that raises leaves the implicit transaction it began open.  After some  *)
(* failures SQLite itself gives the transaction up.                        *)
PairRaise(t) ==
  /\ pc[t] = "pair" /\ lock = NoThread
  /\ \/ "sqlite" \in Faults /\ RollBack
     \/ /\ CallOf(t).hash = Null \/ "sqlite" \in Faults
        /\ IF tx_auth_hash[GroupOf(t)] # None THEN UNCHANGED in_transaction
           ELSE in_transaction' = TRUE
        /\ UNCHANGED views
  /\ Drop(t)
  /\ UNCHANGED <<tables, torn, lock, loop, told>>

(* create_group breaks off after its first INSERT: the second one or the   *)
(* commit raises, and nothing rolls back.  The row stays uncommitted, and  *)
(* every thread sees it: they all use this connection.                     *)
PairBreaks(t) ==
  /\ pc[t] = "pair" /\ lock = NoThread
  /\ "sqlite" \in Faults
  /\ tx_auth_hash[GroupOf(t)] = None
  /\ CallOf(t).hash # Null
  /\ tx_auth_hash' = [tx_auth_hash EXCEPT ![GroupOf(t)] = CallOf(t).hash]
  /\ tx_seq_counter' \in {tx_seq_counter, WithCounter(GroupOf(t))}
  /\ in_transaction' = TRUE
  /\ torn' = torn \cup {GroupOf(t)}
  /\ Drop(t)
  /\ UNCHANGED <<tables, tx_records, lock, loop, told>>

(* verify_request, against the hashes `hash` of table groups: the token    *)
(* must hash to the stored value and the proof must be the HMAC of this    *)
(* very call under the token.                                              *)
Verified(hash, r) ==
  /\ hash[r.group] # None
  /\ Sha256(r.token) = hash[r.group]
  /\ r.proof = Hmac(r.token, r.call)

WellFormed(batch) ==
  Len(batch) <= MaxBatch /\ \A i \in 1 .. Len(batch) : batch[i] # Malformed

(* _authed, under the lock for the lookup only, and the checks _handle_push *)
(* makes of the payload before it takes the lock again.                    *)
Authenticate(t) ==
  /\ pc[t] = "auth" /\ lock = NoThread
  /\ \/ /\ ~Verified(tx_auth_hash, req[t])
        /\ Answer(t, 403, {}, {}, 0)
     \/ /\ Verified(tx_auth_hash, req[t])
        /\ CallOf(t).op = "push" /\ ~WellFormed(BatchOf(t))
        /\ Answer(t, 400, {}, {}, 0)
     \/ /\ Verified(tx_auth_hash, req[t])
        /\ CallOf(t).op = "push" => WellFormed(BatchOf(t))
        /\ pc' = [pc EXCEPT ![t] = CallOf(t).op]
        /\ UNCHANGED <<req, reply>>
  /\ UNCHANGED <<store, lock, loop, told>>

(* The SELECT of get_group_auth_hash or of query_records fails; SQLite may *)
(* give up a transaction that was left open.                               *)
ReadRaise(t) ==
  /\ pc[t] \in {"auth", "pull"} /\ lock = NoThread
  /\ "sqlite" \in Faults
  /\ RollBack \/ UNCHANGED <<views, in_transaction>>
  /\ Drop(t)
  /\ UNCHANGED <<tables, torn, lock, loop, told>>
-----------------------------------------------------------------------------
(* `srow[0] if srow else 0`.                                               *)
CounterOf(g) == IF seq_counter[g] = None THEN 0 ELSE seq_counter[g]

(* upsert_records: lock, BEGIN, and read the group's counter: BEGIN does   *)
(* not raise, so the connection has nothing uncommitted.                   *)
UpsertBegin(t) ==
  /\ pc[t] = "push" /\ lock = NoThread
  /\ ~in_transaction
  /\ lock' = t
  /\ in_transaction' = TRUE
  /\ pos' = [pos EXCEPT ![t] = 1]
  /\ seq' = [seq EXCEPT ![t] = CounterOf(GroupOf(t))]
  /\ accepted' = [accepted EXCEPT ![t] = {}]
  /\ conflicts' = [conflicts EXCEPT ![t] = {}]
  /\ pc' = [pc EXCEPT ![t] = "upsert"]
  /\ UNCHANGED <<tables, views, torn, req, reply, told>>

(* BEGIN raises when a transaction is open (or SQLite fails); the handler's *)
(* except clause rolls back, which closes it, and raises again.            *)
UpsertBeginRaise(t) ==
  /\ pc[t] = "push" /\ lock = NoThread
  /\ in_transaction \/ "sqlite" \in Faults
  /\ RollBack
  /\ Drop(t)
  /\ UNCHANGED <<tables, torn, lock, loop, told>>

(* Mutated: a write at the stored version is taken for a newer one.        *)
StaleIfOlder(version, row) == row # None /\ version < row.version

Stale(version, row) == row # None /\ version <= row.version

(* The record the loop is at, and the row the connection sees for it.      *)
Current(t)  == BatchOf(t)[pos[t]]
Existing(t) == tx_records[GroupOf(t)][Current(t).key]

UpsertConflict(t) ==
  /\ pc[t] = "upsert" /\ pos[t] <= Len(BatchOf(t))
  /\ Stale(Current(t).version, Existing(t))
  /\ conflicts' = [conflicts EXCEPT ![t] = @ \cup
                     {[key |-> Current(t).key, version |-> Current(t).version,
                       server_version |-> Existing(t).version]}]
  /\ pos' = [pos EXCEPT ![t] = @ + 1]
  /\ UNCHANGED <<store, lock, handler, seq, accepted, told>>

(* Mutated: the NOT NULL columns are nullable.                             *)
UpsertAcceptNull(t) ==
  /\ pc[t] = "upsert" /\ pos[t] <= Len(BatchOf(t))
  /\ ~Stale(Current(t).version, Existing(t))
  /\ seq' = [seq EXCEPT ![t] = @ + 1]
  /\ tx_records' = [tx_records EXCEPT ![GroupOf(t)][Current(t).key] =
                      [version |-> Current(t).version,
                       body |-> Current(t).body, seq |-> seq[t] + 1]]
  /\ accepted' = [accepted EXCEPT ![t] = @ \cup {pos[t]}]
  /\ pos' = [pos EXCEPT ![t] = @ + 1]
  /\ UNCHANGED <<tables, tx_auth_hash, tx_seq_counter, in_transaction, torn,
                 lock, handler, conflicts, told>>

UpsertAccept(t) ==
  /\ pc[t] = "upsert" /\ pos[t] <= Len(BatchOf(t))
  /\ ~Stale(Current(t).version, Existing(t))
  /\ Current(t).body # Null
  /\ seq' = [seq EXCEPT ![t] = @ + 1]
  /\ tx_records' = [tx_records EXCEPT ![GroupOf(t)][Current(t).key] =
                      [version |-> Current(t).version,
                       body |-> Current(t).body, seq |-> seq[t] + 1]]
  /\ accepted' = [accepted EXCEPT ![t] = @ \cup {pos[t]}]
  /\ pos' = [pos EXCEPT ![t] = @ + 1]
  /\ UNCHANGED <<tables, tx_auth_hash, tx_seq_counter, in_transaction, torn,
                 lock, handler, conflicts, told>>

(* A statement of the batch raises: a row that violates NOT NULL, or SQLite *)
(* failing at any statement or at the commit.                              *)
UpsertFails(t) ==
  /\ pc[t] = "upsert"
  /\ \/ "sqlite" \in Faults
     \/ /\ pos[t] <= Len(BatchOf(t))
        /\ ~Stale(Current(t).version, Existing(t))
        /\ Current(t).body = Null

(* Mutated: no rollback, the rows written so far stay on the connection.   *)
UpsertRaiseNoRollback(t) ==
  /\ UpsertFails(t)
  /\ in_transaction' = FALSE
  /\ lock' = NoThread
  /\ ResetLoop(t)
  /\ Drop(t)
  /\ UNCHANGED <<tables, views, torn, told>>

(* UPDATE seq_counter: nothing happens where the group has no row.         *)
Counted(g, n) == [seq_counter EXCEPT ![g] = IF @ = None THEN None ELSE n]

(* Mutated: the records before the failing one are committed.              *)
UpsertRaiseCommits(t) ==
  /\ UpsertFails(t)
  /\ records' = tx_records
  /\ tx_seq_counter' = Counted(GroupOf(t), seq[t])
  /\ seq_counter' = tx_seq_counter'
  /\ in_transaction' = FALSE
  /\ lock' = NoThread
  /\ ResetLoop(t)
  /\ Drop(t)
  /\ UNCHANGED <<auth_hash, tx_auth_hash, tx_records, torn, told>>

(* Mutated: the lock is not released on the way out.                       *)
UpsertRaiseKeepsLock(t) ==
  /\ UpsertFails(t)
  /\ RollBack
  /\ ResetLoop(t)
  /\ Drop(t)
  /\ UNCHANGED <<tables, torn, lock, told>>

(* Mutated: the batch is rolled back, and answered with the conflicts found *)
(* so far.                                                                 *)
UpsertRaiseAnswers(t) ==
  /\ UpsertFails(t)
  /\ RollBack
  /\ lock' = NoThread
  /\ ResetLoop(t)
  /\ Answer(t, 409, {}, conflicts[t], seq[t])
  /\ UNCHANGED <<tables, torn, told>>

(* The except clause rolls the whole batch back and raises again.          *)
UpsertRaise(t) ==
  /\ UpsertFails(t)
  /\ RollBack
  /\ lock' = NoThread
  /\ ResetLoop(t)
  /\ Drop(t)
  /\ UNCHANGED <<tables, torn, told>>

ClaimOf(w) == [key |-> w.key, version |-> w.version, body |-> w.body]

(* Mutated: the UPDATE of seq_counter is forgotten.                        *)
UpsertCommitNoCounter(t) ==
  /\ pc[t] = "upsert" /\ pos[t] > Len(BatchOf(t))
  /\ records' = tx_records
  /\ in_transaction' = FALSE
  /\ lock' = NoThread
  /\ Answer(t, IF conflicts[t] = {} THEN 200 ELSE 409,
            {ClaimOf(BatchOf(t)[i]) : i \in accepted[t]},
            conflicts[t], seq[t])
  /\ ResetLoop(t)
  /\ UNCHANGED <<auth_hash, seq_counter, views, torn, told>>

UpsertCommit(t) ==
  /\ pc[t] = "upsert" /\ pos[t] > Len(BatchOf(t))
  /\ records' = tx_records
  /\ tx_seq_counter' = Counted(GroupOf(t), seq[t])
  /\ seq_counter' = tx_seq_counter'
  /\ in_transaction' = FALSE
  /\ lock' = NoThread
  /\ Answer(t, IF conflicts[t] = {} THEN 200 ELSE 409,
            {ClaimOf(BatchOf(t)[i]) : i \in accepted[t]},
            conflicts[t], seq[t])
  /\ ResetLoop(t)
  /\ UNCHANGED <<auth_hash, tx_auth_hash, tx_records, torn, told>>
-----------------------------------------------------------------------------
(* The keys whose rows a pull returns.                                     *)
Selected(table, collection, since) ==
  {k \in Key : /\ table[k] # None
               /\ table[k].seq > since
               /\ collection # None => k[1] = collection}

(* `recs[-1]["seq"] if recs else since`: rows come in order of seq.        *)
LastSeq(table, keys, since, s) ==
  IF keys = {} THEN s = since
  ELSE /\ \E k \in keys : table[k].seq = s
       /\ \A k \in keys : table[k].seq <= s

(* Mutated: the query does not take the lock.                              *)
PullUnlocked(t) ==
  /\ pc[t] = "pull"
  /\ LET table == tx_records[GroupOf(t)]
         since == CallOf(t).since
         keys  == Selected(table, CallOf(t).collection, since)
     IN \E s \in {since} \cup {table[k].seq : k \in keys} :
          /\ LastSeq(table, keys, since, s)
          /\ Answer(t, 200, {[key |-> k, version |-> table[k].version,
                              body |-> table[k].body] : k \in keys}, {}, s)
  /\ UNCHANGED <<store, lock, loop, told>>

(* query_records.                                                          *)
Pull(t) ==
  /\ pc[t] = "pull" /\ lock = NoThread
  /\ LET table == tx_records[GroupOf(t)]
         since == CallOf(t).since
         keys  == Selected(table, CallOf(t).collection, since)
     IN \E s \in {since} \cup {table[k].seq : k \in keys} :
          /\ LastSeq(table, keys, since, s)
          /\ Answer(t, 200, {[key |-> k, version |-> table[k].version,
                              body |-> table[k].body] : k \in keys}, {}, s)
  /\ UNCHANGED <<store, lock, loop, told>>

(* _send: the client gets the answer.                                      *)
Respond(t) ==
  /\ pc[t] = "respond"
  /\ told' = [told EXCEPT ![GroupOf(t)] = @ \cup reply[t].claims]
  /\ Drop(t)
  /\ UNCHANGED <<store, lock, loop>>

(* The client went away: the answer is lost.                               *)
Disconnect(t) ==
  /\ "disconnect" \in Faults
  /\ pc[t] = "respond"
  /\ Drop(t)
  /\ UNCHANGED <<store, lock, loop, told>>

(* The process dies and is started again on the same database file: SQLite *)
(* discards the transaction that was open, handler threads are gone.       *)
Crash ==
  /\ "crash" \in Faults
  /\ RollBack
  /\ lock' = NoThread
  /\ pc' = [t \in Thread |-> "idle"]
  /\ req' = [t \in Thread |-> None]
  /\ reply' = [t \in Thread |-> None]
  /\ pos' = [t \in Thread |-> 1]
  /\ seq' = [t \in Thread |-> 0]
  /\ accepted' = [t \in Thread |-> {}]
  /\ conflicts' = [t \in Thread |-> {}]
  /\ UNCHANGED <<tables, torn, told>>

UpsertStep(t) ==
  UpsertConflict(t) \/ UpsertAccept(t) \/ UpsertRaise(t) \/ UpsertCommit(t)

Serve(t) ==
  \/ PairRegister(t) \/ PairExisting(t) \/ PairRaise(t) \/ PairBreaks(t)
  \/ Authenticate(t) \/ ReadRaise(t)
  \/ UpsertBegin(t) \/ UpsertBeginRaise(t) \/ UpsertStep(t)
  \/ Pull(t)
  \/ Respond(t) \/ Disconnect(t)

Next ==
  \/ \E t \in Thread : \/ \E r \in Request : Receive(t, r)
                       \/ Serve(t)
  \/ Crash

Spec == Init /\ [][Next]_vars

(* The thread inside upsert_records keeps being scheduled.                 *)
Fairness == \A t \in Thread : WF_vars(UpsertStep(t))
FairSpec == Spec /\ Fairness
-----------------------------------------------------------------------------
(* Every variable has its type: the locals of upsert_records are typed by   *)
(* the batch of the request they walk.                                     *)
TypeOK ==
  /\ auth_hash \in [Group -> AuthHash \cup {None}]
  /\ seq_counter \in [Group -> Nat \cup {None}]
  /\ records \in [Group -> [Key -> Row \cup {None}]]
  /\ tx_auth_hash \in [Group -> AuthHash \cup {None}]
  /\ tx_seq_counter \in [Group -> Nat \cup {None}]
  /\ tx_records \in [Group -> [Key -> Row \cup {None}]]
  /\ in_transaction \in BOOLEAN
  /\ torn \subseteq Group
  /\ lock \in Thread \cup {NoThread}
  /\ pc \in [Thread -> {"idle", "pair", "auth", "push", "upsert", "pull",
                        "respond"}]
  /\ req \in [Thread -> Request \cup {None}]
  /\ pos \in [Thread -> Nat \ {0}]
  /\ seq \in [Thread -> Nat]
  /\ accepted \in [Thread -> SUBSET Nat]
  /\ conflicts \in [Thread -> SUBSET Conflict]
  /\ reply \in [Thread -> Reply \cup {None}]
  /\ told \in [Group -> SUBSET Claim]

(* The table still honours a claim: it holds that very write, or a later   *)
(* version of the record has superseded it.                                *)
Honours(table, c) ==
  LET row == table[c.key] IN
  /\ row # None
  /\ row.version > c.version \/ (row.version = c.version /\ row.body = c.body)

(* Whatever a client of the group has been told is stored, by an answer to *)
(* its push or its pull, is stored durably: no crash, no rollback and no   *)
(* other client's batch takes it back or replaces it at the same version.  *)
ToldIsKept ==
  /\ \A g \in Group : \A c \in told[g] : Honours(records[g], c)
  /\ \A t \in Thread : pc[t] = "respond" =>
       \A c \in reply[t].claims : Honours(records[GroupOf(t)], c)

(* The version the answer to a push reports as the server's is a version   *)
(* the server durably has or has passed, and is why that write was stale:  *)
(* rebasing on server_version + 1 is never based on a batch rolled back.   *)
Stands(table, c) ==
  /\ c.version <= c.server_version
  /\ table[c.key] # None
  /\ table[c.key].version >= c.server_version

ConflictsStand ==
  \A t \in Thread : pc[t] = "respond" =>
    \A c \in reply[t].conflicts : Stands(records[GroupOf(t)], c)

(* A pull leaves no gap behind its cursor: every committed row whose seq   *)
(* lies after `since` and up to the server_seq of the answer is in the     *)
(* answer, at that version.  It must stay so while other clients write,    *)
(* until the answer is delivered: the client will never ask for these seqs *)
(* again.  Of a group whose registration broke off nothing is promised:    *)
(* without a row in seq_counter its batches are all numbered from 1.       *)
NoGapBehindCursor ==
  \A t \in Thread :
    /\ pc[t] = "respond" /\ CallOf(t).op = "pull" /\ reply[t].status = 200
    /\ GroupOf(t) \notin torn
    => LET g == GroupOf(t)
           call == CallOf(t)
       IN \A k \in Selected(records[g], call.collection, call.since) :
            records[g][k].seq <= reply[t].server_seq =>
              [key |-> k, version |-> records[g][k].version,
               body |-> records[g][k].body] \in reply[t].claims

(* The numbers a group's rows carry are distinct and within its counter,   *)
(* so that `seq > since` means "changed after".  A registration that broke *)
(* off spoils the numbers of its own group, and of no other.               *)
SeqNumbers ==
  \A g \in Group \ torn : \A k, l \in Key :
    records[g][k] # None =>
      /\ 1 <= records[g][k].seq /\ records[g][k].seq <= CounterOf(g)
      /\ records[g][l] # None /\ records[g][k].seq = records[g][l].seq => k = l

(* _authed looks the hash up on a connection that may show uncommitted     *)
(* rows, and lets the lock go; by the time the thread takes it again to    *)
(* read or write, its token still is the group's secret in the committed   *)
(* table: no other thread, no rollback and no restart in between can have  *)
(* replaced the hash or taken it away.  Only the group whose own           *)
(* registration broke off may lose it.                                     *)
Authorised ==
  \A t \in Thread :
    pc[t] \in {"push", "upsert", "pull"} /\ GroupOf(t) \notin torn
      => Verified(auth_hash, req[t])

(* A row only ever changes to a higher version, and the change carries a   *)
(* seq beyond every seq handed out before: a client whose cursor is        *)
(* anywhere in the past still finds it.                                    *)
ChangesVisible ==
  [][\A g \in Group : \A k \in Key :
       records'[g][k] # records[g][k] =>
         /\ records'[g][k] # None
         /\ g \notin torn => records'[g][k].seq > CounterOf(g)
         /\ records[g][k] # None =>
              records'[g][k].version > records[g][k].version]_vars

(* The lock is never kept: whoever holds it goes on to commit or to roll   *)
(* back.                                                                   *)
LockReleased == lock # NoThread ~> lock = NoThread

(* sync/PROTOCOL.md section 4: on push, the server accepts a record iff    *)
(* its version is higher than the stored one.  So a push that passed       *)
(* authentication and the payload checks, and whose records can be stored, *)
(* is answered; it is not dropped unless the process dies.                 *)
Storable(batch) == \A i \in 1 .. Len(batch) : batch[i].body # Null

AcceptsIffNewer ==
  [][\A t \in Thread :
       pc[t] \in {"push", "upsert"} /\ Storable(BatchOf(t))
         => pc'[t] # "idle"]_vars

(* With every batch in one step, this is the last-writer-wins store of     *)
(* SyncStore: a batch is applied whole or not at all, in some order.  A    *)
(* group whose registration broke off is one the store never heard of.     *)
PromisedHash    == [g \in Group |-> IF g \in torn THEN None ELSE auth_hash[g]]
PromisedRecords == [g \in Group |-> IF g \in torn THEN NoRow ELSE records[g]]
PromisedCounter == [g \in Group |-> IF g \in torn THEN 0 ELSE CounterOf(g)]

Store == INSTANCE SyncStore WITH
           Batch <- {r.call.batch : r \in
                       {q \in Request : /\ q.call.op = "push"
                                        /\ WellFormed(q.call.batch)}},
           auth_hash <- PromisedHash,
           records <- PromisedRecords,
           seq_counter <- PromisedCounter

Implements == Store!Spec
=============================================================================
