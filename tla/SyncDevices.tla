----------------------------- MODULE SyncDevices -----------------------------
(***************************************************************************)
(* The devices of one sync group over the store that sync/server promises  *)
(* (SyncStore, which SyncServer implements): the calls of                  *)
(* sync/client/reference_client.py, in flight, late, lost or made twice.   *)
(*                                                                         *)
(* A device makes one call at a time, as SyncClient blocks in urlopen.     *)
(* The library keeps no records itself; what an application must keep and  *)
(* do between calls to use it as documented (rebase and retry, resume      *)
(* from a cursor) is the device's part below.  A deletion is an edit like  *)
(* any other.                                                              *)
(***************************************************************************)
EXTENDS Integers, Sequences, FiniteSets, Functions

CONSTANTS
  Device,
  Collection, Id,
  Viewed,      \* the collections that are also pulled on their own
  group_id, auth_hash_of_keys,   \* GroupKeys: all devices derive the same
  MaxEdits,    \* bound: edits the users make in all
  MaxLosses,   \* bound: broken connections and reinstalled devices
  None         \* no row, draft, call or answer; every collection

Key == Collection \X Id

(* The body of a wire record is sealed text; a version is bound to it.     *)
Body    == [aad : Key \X Nat, text : Nat]
Wire    == [key : Key, version : Nat, body : Body]
Row     == [version : Nat, body : Body, seq : Nat]
Content == [version : Nat, text : Nat]

PairCall == [op : {"pair"}]
PushCall == [op : {"push"}, batch : Seq(Wire)]
PullCall == [op : {"pull"}, collection : Collection \cup {None}, since : Nat]

PushReply == [status : {200, 409},
              accepted : SUBSET [key : Key, version : Nat],
              conflicts : SUBSET [key : Key, server_version : Nat]]
PullReply == [status : {200}, records : SUBSET Wire, server_seq : Nat]

ASSUME ViewedAssumption == Viewed \subseteq Collection
ASSUME BoundsAssumption == MaxEdits \in Nat /\ MaxLosses \in Nat
ASSUME KeyAssumption == IsFiniteSet(Key)
ASSUME NoneAssumption ==
  /\ None \notin Collection /\ auth_hash_of_keys # None
  /\ None \notin Wire /\ None \notin Row /\ None \notin Content
  /\ None \notin PairCall /\ None \notin PushCall /\ None \notin PullCall
  /\ None \notin PushReply /\ None \notin PullReply

VARIABLES
  auth_hash, records, seq_counter,   \* SyncStore
  copy,      \* per device: what it last saw of a record
  draft,     \* per device: the local change that waits to be pushed, sealed
  cursor,    \* per device: server_seq of its last full pull
  call,      \* per device: the call it is in
  answer,    \* per device: the answer on its way back
  limbo,     \* batches nobody waits for that may still reach the server
  edits, losses

store  == <<auth_hash, records, seq_counter>>
device == <<copy, draft, cursor>>
vars   == <<store, device, call, answer, limbo, edits, losses>>

Store == INSTANCE SyncStore
           WITH Group <- {group_id}, AuthHash <- {auth_hash_of_keys}, Batch <- {}

rows == records[group_id]

Fresh == [k \in Key |-> None]

Init ==
  /\ Store!Init
  /\ copy = [d \in Device |-> Fresh]
  /\ draft = [d \in Device |-> Fresh]
  /\ cursor = [d \in Device |-> 0]
  /\ call = [d \in Device |-> None]
  /\ answer = [d \in Device |-> None]
  /\ limbo = {}
  /\ edits = 0 /\ losses = 0
-----------------------------------------------------------------------------
(* encrypt_record binds the text to the slot and the version it is for;    *)
(* decrypt_record raises if either has changed since.                      *)
Seal(k, version, text) ==
  [key |-> k, version |-> version, body |-> [aad |-> <<k, version>>, text |-> text]]

Opens(wire) == wire.body.aad = <<wire.key, wire.version>>

(* Mutated: the version is raised on a record sealed for another; and the  *)
(* change is sealed again for the very version the server has.             *)
RebasedUnsealed(wire, server_version) ==
  IF wire = None \/ wire.version > server_version THEN wire
  ELSE [wire EXCEPT !.version = server_version + 1]

RebasedLevel(wire, server_version) ==
  IF wire = None \/ wire.version > server_version THEN wire
  ELSE Seal(wire.key, server_version, wire.body.text)

(* A local change, moved past a version the server has.                    *)
Rebased(wire, server_version) ==
  IF wire = None \/ wire.version > server_version THEN wire
  ELSE Seal(wire.key, server_version + 1, wire.body.text)

Pending(d) == {draft[d][k] : k \in {l \in Key : draft[d][l] # None}}

Batches(d) ==
  {b \in UNION {[1 .. n -> Pending(d)] : n \in 1 .. Cardinality(Pending(d))} :
     \A i, j \in DOMAIN b : b[i].key = b[j].key => i = j}

Call(d, c) ==
  /\ call[d] = None
  /\ call' = [call EXCEPT ![d] = c]
  /\ UNCHANGED <<store, device, answer, limbo, edits, losses>>

Pair(d) == Call(d, [op |-> "pair"])

Push(d) == \E b \in Batches(d) : Call(d, [op |-> "push", batch |-> b])

(* pull() from the cursor, or pull(collection) from the start.             *)
Pull(d) == Call(d, [op |-> "pull", collection |-> None, since |-> cursor[d]])

Look(d) == \E c \in Viewed :
  Call(d, [op |-> "pull", collection |-> c, since |-> 0])
-----------------------------------------------------------------------------
(* Mutated: stale records are taken too.                                   *)
TakenAll(batch) == 1 .. Len(batch)

(* What a push of a batch with one record per key does to the store: the   *)
(* records that beat their row are numbered in their order.                *)
Taken(batch) == {j \in 1 .. Len(batch) : Store!Beats(batch[j].version, rows[batch[j].key])}

Numbered(batch, j) ==
  [version |-> batch[j].version, body |-> batch[j].body,
   seq |-> seq_counter[group_id] + Cardinality({i \in Taken(batch) : i <= j})]

Upsert(batch) ==
  /\ records' = [records EXCEPT ![group_id] = [k \in Key |->
       IF \E j \in Taken(batch) : batch[j].key = k
       THEN Numbered(batch, CHOOSE j \in Taken(batch) : batch[j].key = k)
       ELSE rows[k]]]
  /\ seq_counter' = [seq_counter EXCEPT ![group_id] = @ + Cardinality(Taken(batch))]
  /\ UNCHANGED auth_hash

Pushed(batch) ==
  [status |-> IF Taken(batch) = 1 .. Len(batch) THEN 200 ELSE 409,
   accepted |-> {[key |-> batch[j].key, version |-> batch[j].version] : j \in Taken(batch)},
   conflicts |-> {[key |-> batch[j].key, server_version |-> rows[batch[j].key].version]
                    : j \in (1 .. Len(batch)) \ Taken(batch)}]

Selected(c) ==
  {k \in Key : /\ rows[k] # None
               /\ rows[k].seq > c.since
               /\ c.collection \in {None, k[1]}}

Latest(ks) == rows[CHOOSE k \in ks : \A l \in ks : rows[l].seq <= rows[k].seq].seq

(* Mutated: no number when there is nothing new.                           *)
LastSeqOrNone(ks, since) == IF ks = {} THEN None ELSE Latest(ks)

LastSeq(ks, since) == IF ks = {} THEN since ELSE Latest(ks)

Pulled(c) ==
  [status |-> 200,
   records |-> {[key |-> k, version |-> rows[k].version, body |-> rows[k].body]
                  : k \in Selected(c)},
   server_seq |-> LastSeq(Selected(c), c.since)]

(* The server deals with a call, as SyncStore has it.  What a pairing or a *)
(* 403 (raised as SyncError) tells changes nothing on the device: the call *)
(* is over.                                                                *)
Serve(d) ==
  /\ call[d] # None /\ answer[d] = None
  /\ IF call[d].op = "pair" \/ auth_hash[group_id] = None
     THEN /\ call' = [call EXCEPT ![d] = None]
          /\ IF call[d].op = "pair" /\ auth_hash[group_id] = None
             THEN Store!Register(group_id, auth_hash_of_keys) ELSE UNCHANGED store
          /\ UNCHANGED answer
     ELSE /\ UNCHANGED call
          /\ IF call[d].op = "push"
             THEN /\ answer' = [answer EXCEPT ![d] = Pushed(call[d].batch)]
                  /\ Upsert(call[d].batch)
             ELSE /\ answer' = [answer EXCEPT ![d] = Pulled(call[d])]
                  /\ UNCHANGED store
  /\ UNCHANGED <<device, limbo, edits, losses>>
-----------------------------------------------------------------------------
Return(d) ==
  /\ call' = [call EXCEPT ![d] = None]
  /\ answer' = [answer EXCEPT ![d] = None]
  /\ UNCHANGED <<store, limbo, edits, losses>>

Newer(wire, seen) == seen = None \/ wire.version > seen.version

Seen(d, wires) ==
  [k \in Key |->
     IF \E w \in wires : w.key = k /\ Newer(w, copy[d][k])
     THEN LET w == CHOOSE w \in wires : w.key = k IN
          [version |-> w.version, text |-> w.body.text]
     ELSE copy[d][k]]

(* Mutated: a 409 is taken for a success.                                  *)
AcceptedAll(d) == Range(call[d].batch)

Accepted(d) ==
  {w \in Range(call[d].batch) :
     [key |-> w.key, version |-> w.version] \in answer[d].accepted}

(* Mutated: the change is over, though the record was edited meanwhile.    *)
SettledByKey(d, wire) ==
  IF wire # None /\ \E w \in Accepted(d) : w.key = wire.key THEN None
  ELSE IF wire # None /\ \E c \in answer[d].conflicts : c.key = wire.key
  THEN Rebased(wire, (CHOOSE c \in answer[d].conflicts : c.key = wire.key).server_version)
  ELSE wire

(* A local change after a push: what was accepted is stored, a change made *)
(* on top of it meanwhile goes past it, and a conflict goes past the       *)
(* version the server reports.                                             *)
Settled(d, wire) ==
  IF wire = None \/ wire \in Accepted(d) THEN None
  ELSE IF \E w \in Accepted(d) : w.key = wire.key
  THEN Rebased(wire, (CHOOSE w \in Accepted(d) : w.key = wire.key).version)
  ELSE IF \E c \in answer[d].conflicts : c.key = wire.key
  THEN Rebased(wire, (CHOOSE c \in answer[d].conflicts : c.key = wire.key).server_version)
  ELSE wire

(* push returned: 409 is soft, its lists are handled like those of a 200.  *)
PushReturns(d) ==
  /\ answer[d] # None /\ call[d].op = "push" /\ answer[d].status \in {200, 409}
  /\ copy' = [copy EXCEPT ![d] = Seen(d, Accepted(d))]
  /\ draft' = [draft EXCEPT ![d] = [k \in Key |-> Settled(d, @[k])]]
  /\ UNCHANGED cursor
  /\ Return(d)

(* Mutated: the number of a pull of one collection is kept too.            *)
ResumedAlways(d) == answer[d].server_seq

(* Where the next full pull starts.                                        *)
Resumed(d) == IF call[d].collection = None THEN answer[d].server_seq ELSE cursor[d]

(* A local change after a pull: it was stored after all, if that is what   *)
(* came back, and goes past anything else that came for its record.        *)
Overtaken(d, wire) ==
  IF wire = None \/ ~\E w \in answer[d].records : w.key = wire.key THEN wire
  ELSE LET w == CHOOSE w \in answer[d].records : w.key = wire.key IN
       IF w.body.text = wire.body.text THEN None ELSE Rebased(wire, w.version)

(* pull returned: every record opens, or decrypt_record raises.            *)
PullReturns(d) ==
  /\ answer[d] # None /\ call[d].op = "pull"
  /\ \A w \in answer[d].records : Opens(w)
  /\ copy' = [copy EXCEPT ![d] = Seen(d, answer[d].records)]
  /\ draft' = [draft EXCEPT ![d] = [k \in Key |-> Overtaken(d, @[k])]]
  /\ cursor' = [cursor EXCEPT ![d] = Resumed(d)]
  /\ Return(d)
-----------------------------------------------------------------------------
(* A user changes a record: past what the device last saw, or instead of   *)
(* the change that is still pending, whether or not that is being pushed.  *)
Edit(d, k) ==
  /\ edits < MaxEdits
  /\ edits' = edits + 1
  /\ draft' = [draft EXCEPT ![d][k] =
       Seal(k, IF @ # None THEN @.version
               ELSE IF copy[d][k] # None THEN copy[d][k].version + 1 ELSE 1,
            edits + 1)]
  /\ UNCHANGED <<store, copy, cursor, call, answer, limbo, losses>>

(* The connection breaks, before or after the server has dealt with the    *)
(* call; a batch that was on its way may still be delivered, or never.     *)
Break(d) ==
  /\ call[d] # None /\ losses < MaxLosses
  /\ losses' = losses + 1
  /\ limbo' = IF call[d].op = "push" /\ answer[d] = None
              THEN limbo \cup {call[d].batch} ELSE limbo
  /\ call' = [call EXCEPT ![d] = None]
  /\ answer' = [answer EXCEPT ![d] = None]
  /\ UNCHANGED <<store, device, edits>>

Late ==
  /\ \E batch \in limbo :
       /\ limbo' = limbo \ {batch}
       /\ IF auth_hash[group_id] # None THEN Upsert(batch) ELSE UNCHANGED store
  /\ UNCHANGED <<device, call, answer, edits, losses>>

(* A device is reinstalled and starts from nothing.                        *)
Reinstall(d) ==
  /\ call[d] = None /\ losses < MaxLosses
  /\ losses' = losses + 1
  /\ copy' = [copy EXCEPT ![d] = Fresh]
  /\ draft' = [draft EXCEPT ![d] = Fresh]
  /\ cursor' = [cursor EXCEPT ![d] = 0]
  /\ UNCHANGED <<store, call, answer, limbo, edits>>

Returns(d) == PushReturns(d) \/ PullReturns(d)

Next ==
  \/ Late
  \/ \E d \in Device :
       \/ Pair(d) \/ Push(d) \/ Pull(d) \/ Look(d)
       \/ Serve(d) \/ Returns(d)
       \/ Break(d) \/ Reinstall(d)
       \/ \E k \in Key : Edit(d, k)

Spec == Init /\ [][Next]_vars

(* Some device pairs, devices keep syncing, the server serves, and answers *)
(* come back.                                                              *)
Fairness ==
  /\ SF_vars(\E d \in Device : Pair(d))
  /\ \A d \in Device :
       /\ SF_vars(Push(d)) /\ SF_vars(Pull(d))
       /\ WF_vars(Serve(d) \/ Returns(d))

FairSpec == Spec /\ Fairness
-----------------------------------------------------------------------------
TypeOK ==
  /\ auth_hash \in [{group_id} -> {auth_hash_of_keys, None}]
  /\ records \in [{group_id} -> [Key -> Row \cup {None}]]
  /\ seq_counter \in [{group_id} -> Nat]
  /\ copy \in [Device -> [Key -> Content \cup {None}]]
  /\ draft \in [Device -> [Key -> Wire \cup {None}]]
  /\ cursor \in [Device -> Nat]
  /\ call \in [Device -> PairCall \cup PushCall \cup PullCall \cup {None}]
  /\ answer \in [Device -> PushReply \cup PullReply \cup {None}]
  /\ limbo \subseteq Seq(Wire)
  /\ edits \in Nat /\ losses \in Nat

(* A device never asks again for what lies before its cursor, so it has    *)
(* seen every row there, at that version or a later one: whatever else it  *)
(* pulled or pushed meanwhile, and in whatever order the others' batches   *)
(* were taken.                                                             *)
NothingMissed ==
  \A d \in Device : \A k \in Key :
    rows[k] # None /\ rows[k].seq <= cursor[d] =>
      copy[d][k] # None /\ copy[d][k].version >= rows[k].version

(* A version of a record means one text to all: two devices that have seen *)
(* the same version have seen the same text, nobody is ahead of the store, *)
(* and who is level with it has what it has.  A push made twice, delivered *)
(* late, or edited while it was under way must not break that.             *)
NoSplit ==
  \A d \in Device : \A k \in Key : copy[d][k] # None =>
    /\ rows[k] # None /\ copy[d][k].version <= rows[k].version
    /\ copy[d][k].version = rows[k].version => copy[d][k].text = rows[k].body.text
    /\ \A e \in Device :
         copy[e][k] # None /\ copy[e][k].version = copy[d][k].version =>
           copy[e][k].text = copy[d][k].text

(* What is stored opens for every device of the group: a change that was   *)
(* moved past the server's version was sealed again for the new version.   *)
RowsOpen ==
  \A k \in Key : rows[k] # None =>
    Opens([key |-> k, version |-> rows[k].version, body |-> rows[k].body])

(* A local change stops being pending only once it has been stored, that   *)
(* very text and not another of the same version.                          *)
EditsStored ==
  [][\A d \in Device, k \in Key :
       draft[d][k] # None /\ draft'[d][k] = None =>
         \/ losses' > losses
         \/ copy'[d][k] # None /\ copy'[d][k].text = draft[d][k].body.text]_vars

(* Nothing the devices do changes the store but a registration or a whole  *)
(* batch of SyncStore's, one that was waited for or one that came late.    *)
StoreSteps ==
  [][\/ UNCHANGED store
     \/ Store!Register(group_id, auth_hash_of_keys)
     \/ \E batch \in limbo \cup {call[d].batch : d \in
            {e \in Device : call[e] \in PushCall}} : Store!Upsert(group_id, batch)]_vars

(* sync/PROTOCOL.md section 4, "every device converges": once the users    *)
(* stop and the network holds, every change is stored or overwritten and   *)
(* all devices come to have what the store has.                            *)
Synced ==
  \A d \in Device : \A k \in Key :
    /\ draft[d][k] = None
    /\ rows[k] # None =>
         copy[d][k] = [version |-> rows[k].version, text |-> rows[k].body.text]

Converges == <>[]Synced
=============================================================================
