-------------------------- MODULE SyncDevicesProofs --------------------------
(***************************************************************************)
(* Why devices that push, pull, retry and rebase as documented miss        *)
(* nothing and never disagree about a version, for any number of devices,  *)
(* records, edits, lost answers and late batches.                          *)
(*                                                                         *)
(* Neither NothingMissed nor NoSplit is inductive: both are also about     *)
(* what is in flight.  Claims(k) is everything that was ever said of a     *)
(* record and may still be heard: what devices saw, what answers will tell *)
(* them, and the row.  A row that is replaced gets a higher version than   *)
(* any claim and a higher number than any cursor or answer; and every new  *)
(* claim is an old one or the row.  Together the two say what a device has *)
(* that caught up with the store.                                          *)
(***************************************************************************)
EXTENDS SyncDevices, FiniteSetTheorems, SequenceTheorems, TLAPS

(* A batch has one record per key, each sealed for what it says it is.     *)
Sound(batch) ==
  /\ \A i, j \in DOMAIN batch : batch[i].key = batch[j].key => i = j
  /\ \A i \in DOMAIN batch : Opens(batch[i])

SoundInv ==
  /\ \A d \in Device : call[d] \in PushCall => Sound(call[d].batch)
  /\ \A batch \in limbo : Sound(batch)
  /\ \A d \in Device : \A k \in Key :
       draft[d][k] # None => draft[d][k].key = k /\ Opens(draft[d][k])

CallInv ==
  \A d \in Device : answer[d] # None =>
    \/ call[d] \in PushCall /\ answer[d] \in PushReply
    \/ call[d] \in PullCall /\ answer[d] \in PullReply

(* What the answer on its way will tell a device.                          *)
Told(d) ==
  IF answer[d] = None THEN {}
  ELSE IF call[d].op = "push" THEN Accepted(d) ELSE answer[d].records

Saw(wire) == [version |-> wire.version, text |-> wire.body.text]

Claims(k) ==
  {copy[d][k] : d \in {e \in Device : copy[e][k] # None}}
  \cup {Saw(w) : w \in {v \in UNION {Told(d) : d \in Device} : v.key = k}}
  \cup {c \in Content : rows[k] # None /\ c.version = rows[k].version
                                       /\ c.text = rows[k].body.text}

ClaimInv ==
  \A k \in Key : \A c \in Claims(k) :
    /\ rows[k] # None /\ c.version <= rows[k].version
    /\ \A e \in Claims(k) : c.version = e.version => c = e

(* An answer names a key once, and never goes behind what was seen.        *)
ToldInv ==
  \A d \in Device : \A w \in Told(d) :
    /\ \A v \in Told(d) : v.key = w.key => v = w
    /\ copy[d][w.key] # None => copy[d][w.key].version <= w.version

(* A full pull leaves out no row between where it started and its number.  *)
PullInv ==
  \A d \in Device : call[d] \in PullCall /\ call[d].collection = None =>
    /\ call[d].since = cursor[d]
    /\ answer[d] # None =>
         /\ answer[d].server_seq <= seq_counter[group_id]
         /\ \A k \in Key :
              rows[k] # None /\ rows[k].seq > cursor[d] /\ rows[k].seq <= answer[d].server_seq
                => \E w \in answer[d].records : w.key = k /\ w.version = rows[k].version

NumberInv ==
  /\ \A k \in Key : rows[k] # None =>
       rows[k].seq >= 1 /\ rows[k].seq <= seq_counter[group_id]
  /\ \A d \in Device : cursor[d] <= seq_counter[group_id]

TypeInv == TypeOK /\ CallInv /\ SoundInv

IInv == /\ TypeInv
        /\ RowsOpen
        /\ NumberInv /\ PullInv /\ NothingMissed
        /\ ToldInv /\ ClaimInv
-----------------------------------------------------------------------------
(* No row, draft, call or answer is one.                                   *)
LEMMA NoneIsNothing ==
  /\ None \notin Collection /\ auth_hash_of_keys # None
  /\ None \notin Wire /\ None \notin Row /\ None \notin Content
  /\ None \notin PairCall /\ None \notin PushCall /\ None \notin PullCall
  /\ None \notin PushReply /\ None \notin PullReply
  BY NoneAssumption

LEMMA SealType ==
  ASSUME NEW k \in Key, NEW version \in Nat, NEW text \in Nat
  PROVE  /\ Seal(k, version, text) \in Wire
         /\ Seal(k, version, text).key = k
         /\ Seal(k, version, text).version = version
         /\ Seal(k, version, text).body.text = text
         /\ Opens(Seal(k, version, text))
  BY DEF Seal, Wire, Body, Opens

LEMMA RebasedType ==
  ASSUME NEW wire \in Wire \cup {None}, NEW version \in Nat
  PROVE  /\ Rebased(wire, version) \in Wire \cup {None}
         /\ Rebased(wire, version) = None <=> wire = None
         /\ wire # None => /\ Rebased(wire, version).key = wire.key
                           /\ Opens(wire) => Opens(Rebased(wire, version))
<1>1. CASE wire = None
  BY <1>1 DEF Rebased
<1>2. CASE wire \in Wire
  <2>1. wire.key \in Key /\ wire.version \in Nat /\ wire.body.text \in Nat /\ version + 1 \in Nat
    BY <1>2 DEF Wire, Body
  <2>2. CASE wire.version > version
    BY <1>2, <2>2, NoneIsNothing DEF Rebased
  <2>3. CASE ~(wire.version > version)
    BY <1>2, <2>1, <2>3, SealType, NoneIsNothing DEF Rebased
  <2> QED
    BY <2>2, <2>3
<1> QED
  BY <1>1, <1>2

(* The batches a device can make of its changes.                           *)
LEMMA BatchType ==
  ASSUME TypeOK, SoundInv, NEW d \in Device, NEW b \in Batches(d)
  PROVE  b \in Seq(Wire) /\ Sound(b)
<1> DEFINE D == {l \in Key : draft[d][l] # None}
<1>1. D \subseteq Key /\ IsFiniteSet(D)
  BY KeyAssumption, FS_Subset
<1>2. /\ Pending(d) \subseteq Wire
      /\ \A w \in Pending(d) : Opens(w)
  BY DEF Pending, TypeOK, SoundInv
<1>3. Cardinality(Pending(d)) \in Nat
  <2>1. [k \in D |-> draft[d][k]] \in Surjection(D, Pending(d))
    BY DEF Surjection, Pending
  <2>2. IsFiniteSet(Pending(d))
    BY <1>1, <2>1, FS_Surjection
  <2> QED
    BY <2>2, FS_CardinalityType
<1>4. PICK n \in 1 .. Cardinality(Pending(d)) : b \in [1 .. n -> Pending(d)]
  BY DEF Batches
<1>5. n \in Nat /\ b \in [1 .. n -> Wire] /\ DOMAIN b = 1 .. n
  BY <1>2, <1>3, <1>4
<1>6. b \in Seq(Wire)
  BY <1>5, SeqDef
<1>7. \A i, j \in DOMAIN b : b[i].key = b[j].key => i = j
  BY DEF Batches
<1> QED
  BY <1>2, <1>4, <1>5, <1>6, <1>7 DEF Sound

(* Of finitely many records one was numbered last.                         *)
LEMMA LastExists ==
  ASSUME TypeOK, NEW ks \in SUBSET Key, ks # {},
         \A k \in ks : rows[k] # None /\ rows[k].seq <= seq_counter[group_id]
  PROVE  \E k \in ks : \A l \in ks : rows[l].seq <= rows[k].seq
<1> DEFINE n == seq_counter[group_id]
           T == {m \in Nat : \E k \in ks : rows[k].seq = n - m}
<1>1. n \in Nat /\ \A k \in ks : rows[k].seq \in Nat
  BY DEF TypeOK, Row, rows
<1>2. \A k \in ks : n - rows[k].seq \in T
  BY <1>1
<1>3. T # {} /\ T \subseteq Nat
  BY <1>2
<1>4. IsWellFoundedOn(OpToRel(<, Nat), Nat)
  BY NatLessThanWellFounded
<1>5. PICK m \in T : \A y \in T : ~(<<y, m>> \in OpToRel(<, Nat))
  BY <1>3, <1>4, WFMin
<1>6. \A y \in T : ~(y < m)
  BY <1>5 DEF OpToRel
<1>7. PICK k \in ks : rows[k].seq = n - m
  BY <1>5
<1>8. ASSUME NEW l \in ks PROVE rows[l].seq <= rows[k].seq
  <2>1. ~(n - rows[l].seq < m) /\ m \in Nat
    BY <1>2, <1>5, <1>6
  <2> QED
    BY <1>1, <1>7, <2>1
<1> QED
  BY <1>8

(* The numbers given to a batch's records are new, and each is given once. *)
LEMMA NumberedSeq ==
  ASSUME TypeOK, NEW batch \in Seq(Wire), NEW j \in Taken(batch)
  PROVE  /\ Cardinality(Taken(batch)) \in Nat
         /\ Numbered(batch, j) \in Row
         /\ Numbered(batch, j).version = batch[j].version
         /\ Numbered(batch, j).body = batch[j].body
         /\ Numbered(batch, j).seq > seq_counter[group_id]
         /\ Numbered(batch, j).seq <= seq_counter[group_id] + Cardinality(Taken(batch))
         /\ \A i \in Taken(batch) :
              Numbered(batch, i).seq = Numbered(batch, j).seq => i = j
<1> DEFINE Upto(i) == {h \in Taken(batch) : h <= i}
           n == seq_counter[group_id]
<1>1. Len(batch) \in Nat /\ Taken(batch) \subseteq 1 .. Len(batch) /\ n \in Nat
  BY DEF Taken, TypeOK
<1>2. IsFiniteSet(Taken(batch)) /\ Cardinality(Taken(batch)) \in Nat
  <2>1. IsFiniteSet(1 .. Len(batch))
    BY <1>1, FS_Interval
  <2> QED
    BY <1>1, <2>1, FS_Subset, FS_CardinalityType
<1>3. ASSUME NEW i \in Taken(batch)
      PROVE  /\ Cardinality(Upto(i)) \in Nat /\ Cardinality(Upto(i)) # 0
             /\ Cardinality(Upto(i)) <= Cardinality(Taken(batch))
             /\ IsFiniteSet(Upto(i)) /\ i \in Upto(i)
  <2>1. Upto(i) \subseteq Taken(batch) /\ i \in Upto(i)
    BY <1>1
  <2> HIDE DEF Upto
  <2>2. IsFiniteSet(Upto(i)) /\ Cardinality(Upto(i)) <= Cardinality(Taken(batch))
    BY <1>2, <2>1, FS_Subset
  <2>3. Cardinality(Upto(i)) \in Nat
    BY <2>2, FS_CardinalityType
  <2>4. Cardinality(Upto(i)) # 0
    BY <2>1, <2>2, FS_EmptySet
  <2> QED
    BY <2>1, <2>2, <2>3, <2>4
<1>4. ASSUME NEW i \in Taken(batch), NEW h \in Taken(batch), i < h
      PROVE  Cardinality(Upto(i)) # Cardinality(Upto(h))
  <2>1. Upto(i) \subseteq Upto(h) /\ h \notin Upto(i) /\ h \in Upto(h)
    BY <1>1, <1>4
  <2>2. IsFiniteSet(Upto(h))
    BY <1>3
  <2> HIDE DEF Upto
  <2> QED
    BY <2>1, <2>2, FS_Subset
<1>5. \A i \in Taken(batch) : Numbered(batch, i).seq = n + Cardinality(Upto(i))
  BY DEF Numbered
<1>6. batch[j] \in Wire
  BY <1>1, ElementOfSeq
<1>7. batch[j].version \in Nat /\ batch[j].body \in Body
  BY <1>6 DEF Wire
<1>8. /\ Numbered(batch, j).version = batch[j].version
      /\ Numbered(batch, j).body = batch[j].body
      /\ Numbered(batch, j) = [version |-> batch[j].version, body |-> batch[j].body,
                               seq |-> n + Cardinality(Upto(j))]
  BY DEF Numbered
<1> HIDE DEF Upto
<1>9. Numbered(batch, j) \in Row
  BY <1>1, <1>3, <1>7, <1>8 DEF Row
<1>10. ASSUME NEW i \in Taken(batch), Numbered(batch, i).seq = Numbered(batch, j).seq
       PROVE  i = j
  <2>1. i \in Int /\ j \in Int
    BY <1>1
  <2>2. Cardinality(Upto(i)) = Cardinality(Upto(j))
    BY <1>1, <1>3, <1>5, <1>10
  <2>3. ~(i < j) /\ ~(j < i)
    BY <1>4, <2>2
  <2> QED
    BY <2>1, <2>3
<1> QED
  BY <1>1, <1>2, <1>3, <1>5, <1>8, <1>9, <1>10

(* A sound batch, record by record and row by row.                         *)
LEMMA UpsertRow ==
  ASSUME TypeOK, NEW batch \in Seq(Wire), Sound(batch), Upsert(batch), NEW k \in Key
  PROVE  \/ /\ \A j \in Taken(batch) : batch[j].key # k
            /\ rows'[k] = rows[k]
         \/ \E j \in Taken(batch) :
              /\ batch[j].key = k /\ batch[j] \in Wire /\ Opens(batch[j])
              /\ \A i \in Taken(batch) : batch[i].key = k => i = j
              /\ rows'[k] = Numbered(batch, j)
<1>1. rows'[k] = IF \E j \in Taken(batch) : batch[j].key = k
                 THEN Numbered(batch, CHOOSE j \in Taken(batch) : batch[j].key = k)
                 ELSE rows[k]
  BY DEF Upsert, rows, TypeOK
<1>2. CASE \A j \in Taken(batch) : batch[j].key # k
  BY <1>1, <1>2
<1>3. CASE \E j \in Taken(batch) : batch[j].key = k
  <2>1. PICK j \in Taken(batch) :
          batch[j].key = k /\ rows'[k] = Numbered(batch, j)
    BY <1>1, <1>3
  <2>2. Taken(batch) \subseteq DOMAIN batch /\ DOMAIN batch = 1 .. Len(batch)
    BY DEF Taken
  <2>3. \A i \in Taken(batch) : batch[i].key = k => i = j
    BY <2>1, <2>2 DEF Sound
  <2>4. batch[j] \in Wire /\ Opens(batch[j])
    BY <2>2, ElementOfSeq DEF Sound
  <2> QED
    BY <2>1, <2>3, <2>4
<1> QED
  BY <1>2, <1>3

LEMMA UpsertType ==
  ASSUME TypeOK, NEW batch \in Seq(Wire), Sound(batch), Upsert(batch)
  PROVE  /\ records' \in [{group_id} -> [Key -> Row \cup {None}]]
         /\ seq_counter' \in [{group_id} -> Nat]
         /\ seq_counter'[group_id] = seq_counter[group_id] + Cardinality(Taken(batch))
         /\ Cardinality(Taken(batch)) \in Nat
         /\ UNCHANGED auth_hash
<1>1. Cardinality(Taken(batch)) \in Nat
  <2>1. Len(batch) \in Nat /\ Taken(batch) \subseteq 1 .. Len(batch)
    BY DEF Taken
  <2>2. IsFiniteSet(1 .. Len(batch))
    BY <2>1, FS_Interval
  <2> QED
    BY <2>1, <2>2, FS_Subset, FS_CardinalityType
<1>2. ASSUME NEW k \in Key PROVE rows'[k] \in Row \cup {None}
  <2>1. rows[k] \in Row \cup {None}
    BY DEF TypeOK, rows
  <2> QED
    BY <2>1, UpsertRow, NumberedSeq
<1>3. records' = [records EXCEPT ![group_id] = rows'] /\ rows' = [k \in Key |-> rows'[k]]
  BY DEF Upsert, rows, TypeOK
<1>4. rows' \in [Key -> Row \cup {None}]
  BY <1>2, <1>3
<1>5. records' \in [{group_id} -> [Key -> Row \cup {None}]]
  BY <1>3, <1>4 DEF TypeOK
<1>6. seq_counter \in [{group_id} -> Nat]
  BY DEF TypeOK
<1>7. /\ seq_counter' = [seq_counter EXCEPT ![group_id] = @ + Cardinality(Taken(batch))]
      /\ UNCHANGED auth_hash
  BY DEF Upsert
<1> HIDE DEF rows
<1> QED
  BY <1>1, <1>5, <1>6, <1>7

(* The answers are answers.                                                *)
LEMMA PushedType ==
  ASSUME TypeOK, NEW batch \in Seq(Wire)
  PROVE  Pushed(batch) \in PushReply
<1>1. /\ Taken(batch) \subseteq 1 .. Len(batch)
      /\ \A j \in 1 .. Len(batch) : batch[j].key \in Key /\ batch[j].version \in Nat
  <2>1. ASSUME NEW j \in 1 .. Len(batch) PROVE batch[j] \in Wire
    BY ElementOfSeq
  <2> QED
    BY <2>1 DEF Taken, Wire
<1>2. ASSUME NEW j \in (1 .. Len(batch)) \ Taken(batch)
      PROVE  rows[batch[j].key].version \in Nat
  <2>1. batch[j].key \in Key /\ rows[batch[j].key] \in Row \cup {None}
    BY <1>1 DEF TypeOK, rows
  <2>2. rows[batch[j].key] # None
    BY <1>2 DEF Taken, Store!Beats
  <2> QED
    BY <2>1, <2>2 DEF Row
<1> QED
  BY <1>1, <1>2 DEF Pushed, PushReply

LEMMA PulledType ==
  ASSUME TypeOK, NumberInv, NEW c \in PullCall
  PROVE  /\ Pulled(c) \in PullReply
         /\ c.since <= seq_counter[group_id] =>
              Pulled(c).server_seq <= seq_counter[group_id]
<1> DEFINE ks == Selected(c)
<1>1. /\ ks \subseteq Key /\ c.since \in Nat /\ seq_counter[group_id] \in Nat
      /\ \A k \in ks : rows[k] \in Row /\ rows[k] # None /\ rows[k].seq <= seq_counter[group_id]
  BY DEF Selected, PullCall, NumberInv, TypeOK, rows
<1>2. LastSeq(ks, c.since) \in Nat
      /\ (c.since <= seq_counter[group_id] => LastSeq(ks, c.since) <= seq_counter[group_id])
  <2>1. CASE ks = {}
    BY <1>1, <2>1 DEF LastSeq
  <2>2. CASE ks # {}
    <3> HIDE DEF ks
    <3>1. \E k \in ks : \A l \in ks : rows[l].seq <= rows[k].seq
      BY <1>1, <2>2, LastExists
    <3>2. \E k \in ks : Latest(ks) = rows[k].seq
      BY <3>1 DEF Latest
    <3> QED
      BY <1>1, <2>2, <3>2 DEF LastSeq, Row
  <2> QED
    BY <2>1, <2>2
<1>3. {[key |-> k, version |-> rows[k].version, body |-> rows[k].body] : k \in ks} \subseteq Wire
  BY <1>1 DEF Row, Wire
<1> QED
  BY <1>2, <1>3 DEF Pulled, PullReply
-----------------------------------------------------------------------------
(* What one answer tells, and what a device makes of it.                   *)
LEMMA AcceptedType ==
  ASSUME TypeOK, NEW d \in Device, call[d] \in PushCall
  PROVE  Accepted(d) \subseteq Wire
<1>1. call[d].batch \in Seq(Wire)
  BY DEF PushCall
<1>2. ASSUME NEW i \in DOMAIN call[d].batch PROVE call[d].batch[i] \in Wire
  BY <1>1, ElementOfSeq
<1> QED
  BY <1>2 DEF Accepted, Range

LEMMA ToldType ==
  ASSUME TypeOK, CallInv, NEW d \in Device
  PROVE  Told(d) \subseteq Wire
<1>1. CASE answer[d] = None
  BY <1>1 DEF Told
<1>2. CASE call[d] \in PushCall /\ answer[d] # None
  BY <1>2, AcceptedType DEF Told, PushCall
<1>3. CASE call[d] \in PullCall /\ answer[d] \in PullReply /\ answer[d] # None
  BY <1>3 DEF Told, PullCall, PullReply
<1> QED
  BY <1>1, <1>2, <1>3 DEF CallInv

LEMMA SeenType ==
  ASSUME TypeOK, NEW d \in Device, NEW wires \in SUBSET Wire
  PROVE  Seen(d, wires) \in [Key -> Content \cup {None}]
<1> SUFFICES ASSUME NEW k \in Key
             PROVE  Seen(d, wires)[k] \in Content \cup {None}
  BY DEF Seen
<1>1. CASE \E w \in wires : w.key = k /\ Newer(w, copy[d][k])
  <2>1. PICK w \in wires : w = CHOOSE v \in wires : v.key = k
    BY <1>1
  <2>2. Seen(d, wires)[k] = [version |-> w.version, text |-> w.body.text]
    BY <1>1, <2>1 DEF Seen
  <2> QED
    BY <2>2 DEF Wire, Body, Content
<1>2. CASE ~\E w \in wires : w.key = k /\ Newer(w, copy[d][k])
  BY <1>2 DEF Seen, TypeOK
<1> QED
  BY <1>1, <1>2

LEMMA SettledType ==
  ASSUME TypeOK, NEW d \in Device, call[d] \in PushCall, answer[d] \in PushReply,
         NEW wire \in Wire \cup {None}
  PROVE  /\ Settled(d, wire) \in Wire \cup {None}
         /\ wire = None => Settled(d, wire) = None
         /\ Settled(d, wire) # None /\ Opens(wire) =>
              Settled(d, wire).key = wire.key /\ Opens(Settled(d, wire))
<1>1. CASE wire = None \/ wire \in Accepted(d)
  BY <1>1 DEF Settled
<1>2. CASE ~(wire = None \/ wire \in Accepted(d)) /\ \E w \in Accepted(d) : w.key = wire.key
  <2>1. PICK w \in Accepted(d) : w = CHOOSE v \in Accepted(d) : v.key = wire.key
    BY <1>2
  <2>2. Settled(d, wire) = Rebased(wire, w.version) /\ w.version \in Nat
    BY <1>2, <2>1, AcceptedType DEF Settled, Wire
  <2> QED
    BY <1>2, <2>2, RebasedType
<1>3. CASE /\ ~(wire = None \/ wire \in Accepted(d)) /\ ~\E w \in Accepted(d) : w.key = wire.key
           /\ \E c \in answer[d].conflicts : c.key = wire.key
  <2>1. PICK c \in answer[d].conflicts : c = CHOOSE b \in answer[d].conflicts : b.key = wire.key
    BY <1>3
  <2>2. Settled(d, wire) = Rebased(wire, c.server_version) /\ c.server_version \in Nat
    BY <1>3, <2>1 DEF Settled, PushReply
  <2> QED
    BY <1>3, <2>2, RebasedType
<1>4. CASE /\ ~(wire = None \/ wire \in Accepted(d)) /\ ~\E w \in Accepted(d) : w.key = wire.key
           /\ ~\E c \in answer[d].conflicts : c.key = wire.key
  BY <1>4 DEF Settled
<1> QED
  BY <1>1, <1>2, <1>3, <1>4

LEMMA OvertakenType ==
  ASSUME TypeOK, NEW d \in Device, answer[d] \in PullReply, NEW wire \in Wire \cup {None}
  PROVE  /\ Overtaken(d, wire) \in Wire \cup {None}
         /\ wire = None => Overtaken(d, wire) = None
         /\ Overtaken(d, wire) # None /\ Opens(wire) =>
              Overtaken(d, wire).key = wire.key /\ Opens(Overtaken(d, wire))
<1>1. CASE wire = None \/ ~\E w \in answer[d].records : w.key = wire.key
  BY <1>1 DEF Overtaken
<1>2. CASE ~(wire = None \/ ~\E w \in answer[d].records : w.key = wire.key)
  <2>1. PICK w \in answer[d].records : w = CHOOSE v \in answer[d].records : v.key = wire.key
    BY <1>2
  <2>2. /\ Overtaken(d, wire) = IF w.body.text = wire.body.text THEN None ELSE Rebased(wire, w.version)
        /\ w.version \in Nat
    BY <1>2, <2>1 DEF Overtaken, PullReply, Wire
  <2> QED
    BY <1>2, <2>2, RebasedType
<1> QED
  BY <1>1, <1>2

(* The device's part of TypeOK and SoundInv.                               *)
DeviceType(d, c, f) ==
  /\ c \in [Key -> Content \cup {None}]
  /\ f \in [Key -> Wire \cup {None}]
  /\ \A k \in Key : f[k] # None => f[k].key = k /\ Opens(f[k])

LEMMA ReturnType ==
  ASSUME TypeInv, NEW d \in Device, Return(d), NEW c, NEW f, NEW n \in Nat,
         DeviceType(d, c, f),
         copy' = [copy EXCEPT ![d] = c], draft' = [draft EXCEPT ![d] = f],
         cursor' = [cursor EXCEPT ![d] = n]
  PROVE  TypeInv'
<1>1. UNCHANGED <<auth_hash, records, seq_counter, limbo, edits, losses>>
  BY DEF Return, store
<1>2. /\ copy' \in [Device -> [Key -> Content \cup {None}]]
      /\ draft' \in [Device -> [Key -> Wire \cup {None}]]
      /\ cursor' \in [Device -> Nat]
  BY DEF TypeInv, TypeOK, DeviceType
<1>3. /\ call' = [call EXCEPT ![d] = None] /\ answer' = [answer EXCEPT ![d] = None]
  BY DEF Return
<1>4. /\ call' \in [Device -> PairCall \cup PushCall \cup PullCall \cup {None}]
      /\ answer' \in [Device -> PushReply \cup PullReply \cup {None}]
      /\ \A e \in Device : e # d => call'[e] = call[e] /\ answer'[e] = answer[e]
      /\ call'[d] = None /\ answer'[d] = None
  BY <1>3 DEF TypeInv, TypeOK
<1>5. TypeOK'
  BY <1>1, <1>2, <1>4 DEF TypeInv, TypeOK
<1>6. CallInv'
  BY <1>4 DEF TypeInv, CallInv
<1>7. \A e \in Device : \A k \in Key :
        draft'[e][k] # None => draft'[e][k].key = k /\ Opens(draft'[e][k])
  <2> SUFFICES ASSUME NEW e \in Device, NEW k \in Key, draft'[e][k] # None
               PROVE  draft'[e][k].key = k /\ Opens(draft'[e][k])
    OBVIOUS
  <2>1. draft'[e] = IF e = d THEN f ELSE draft[e]
    BY DEF TypeInv, TypeOK
  <2> QED
    BY <2>1 DEF TypeInv, SoundInv, DeviceType
<1>8. SoundInv'
  BY <1>1, <1>4, <1>7, NoneIsNothing DEF TypeInv, SoundInv
<1> QED
  BY <1>5, <1>6, <1>8 DEF TypeInv

LEMMA CallType ==
  ASSUME TypeInv, NEW d \in Device, NEW c, Call(d, c), answer[d] = None,
         c \in PairCall \cup PullCall \/ (c \in PushCall /\ Sound(c.batch))
  PROVE  TypeInv'
<1>1. /\ call' = [call EXCEPT ![d] = c]
      /\ UNCHANGED <<auth_hash, records, seq_counter, copy, draft, cursor, answer, limbo, edits, losses>>
  BY DEF Call, store, device
<1>2. /\ call' \in [Device -> PairCall \cup PushCall \cup PullCall \cup {None}]
      /\ call'[d] = c
      /\ \A e \in Device : e # d => call'[e] = call[e]
  BY <1>1 DEF TypeInv, TypeOK
<1>3. TypeOK'
  BY <1>1, <1>2 DEF TypeInv, TypeOK
<1>4. CallInv'
  BY <1>1, <1>2 DEF TypeInv, CallInv
<1>5. \A e \in Device : call'[e] \in PushCall => Sound(call'[e].batch)
  <2>1. CASE c \in PairCall \cup PullCall
    <3>1. c \notin PushCall
      BY <2>1 DEF PairCall, PullCall, PushCall
    <3> QED
      BY <1>2, <3>1 DEF TypeInv, SoundInv
  <2>2. CASE c \in PushCall /\ Sound(c.batch)
    BY <1>2, <2>2 DEF TypeInv, SoundInv
  <2> QED
    BY <2>1, <2>2
<1>6. SoundInv'
  BY <1>1, <1>5 DEF TypeInv, SoundInv
<1> QED
  BY <1>3, <1>4, <1>6 DEF TypeInv

(* A device without a call has no answer to wait for.                      *)
LEMMA IdleNoAnswer ==
  ASSUME TypeInv, NEW d \in Device, call[d] = None
  PROVE  answer[d] = None
BY NoneIsNothing DEF TypeInv, CallInv

LEMMA ServeType ==
  ASSUME TypeInv, NumberInv, NEW d \in Device, Serve(d)
  PROVE  TypeInv'
<1>1. /\ call[d] # None /\ answer[d] = None
      /\ UNCHANGED <<copy, draft, cursor, limbo, edits, losses>>
  BY DEF Serve, device
<1>2. call[d] \in PairCall \cup PushCall \cup PullCall
  BY <1>1 DEF TypeInv, TypeOK
<1>3. CASE call[d].op = "pair" \/ auth_hash[group_id] = None
  <2>1. /\ call' = [call EXCEPT ![d] = None] /\ UNCHANGED <<answer, records, seq_counter>>
        /\ auth_hash' = auth_hash \/ auth_hash' = [auth_hash EXCEPT ![group_id] = auth_hash_of_keys]
    BY <1>3 DEF Serve, Store!Register, store
  <2>2. /\ call' \in [Device -> PairCall \cup PushCall \cup PullCall \cup {None}]
        /\ call'[d] = None
        /\ \A e \in Device : e # d => call'[e] = call[e]
    BY <2>1 DEF TypeInv, TypeOK
  <2>3. auth_hash' \in [{group_id} -> {auth_hash_of_keys, None}]
    BY <2>1 DEF TypeInv, TypeOK
  <2>4. TypeOK'
    BY <1>1, <2>1, <2>2, <2>3 DEF TypeInv, TypeOK
  <2>5. CallInv' /\ SoundInv'
    BY <1>1, <2>1, <2>2, NoneIsNothing DEF TypeInv, CallInv, SoundInv
  <2> QED
    BY <2>4, <2>5 DEF TypeInv
<1>4. CASE ~(call[d].op = "pair" \/ auth_hash[group_id] = None) /\ call[d].op = "push"
  <2>1. call[d] \in PushCall /\ call[d].batch \in Seq(Wire) /\ Sound(call[d].batch)
    BY <1>2, <1>4 DEF PairCall, PushCall, PullCall, TypeInv, SoundInv
  <2>2. /\ UNCHANGED call /\ answer' = [answer EXCEPT ![d] = Pushed(call[d].batch)]
        /\ Upsert(call[d].batch)
    BY <1>4 DEF Serve
  <2>3. Pushed(call[d].batch) \in PushReply
    BY <2>1, PushedType DEF TypeInv
  <2>4. /\ answer' \in [Device -> PushReply \cup PullReply \cup {None}]
        /\ answer'[d] \in PushReply /\ \A e \in Device : e # d => answer'[e] = answer[e]
    BY <2>2, <2>3 DEF TypeInv, TypeOK
  <2>5. /\ records' \in [{group_id} -> [Key -> Row \cup {None}]]
        /\ seq_counter' \in [{group_id} -> Nat]
        /\ UNCHANGED auth_hash
    BY <2>1, <2>2, UpsertType DEF TypeInv
  <2>6. TypeOK'
    BY <1>1, <2>2, <2>4, <2>5 DEF TypeInv, TypeOK
  <2>7. CallInv' /\ SoundInv'
    BY <1>1, <2>1, <2>2, <2>4 DEF TypeInv, CallInv, SoundInv
  <2> QED
    BY <2>6, <2>7 DEF TypeInv
<1>5. CASE ~(call[d].op = "pair" \/ auth_hash[group_id] = None) /\ call[d].op # "push"
  <2>1. call[d] \in PullCall
    BY <1>2, <1>5 DEF PairCall, PushCall, PullCall
  <2>2. /\ UNCHANGED <<call, auth_hash, records, seq_counter>>
        /\ answer' = [answer EXCEPT ![d] = Pulled(call[d])]
    BY <1>5 DEF Serve, store
  <2>3. Pulled(call[d]) \in PullReply
    BY <2>1, PulledType DEF TypeInv
  <2>4. /\ answer' \in [Device -> PushReply \cup PullReply \cup {None}]
        /\ answer'[d] \in PullReply /\ \A e \in Device : e # d => answer'[e] = answer[e]
    BY <2>2, <2>3 DEF TypeInv, TypeOK
  <2>5. TypeOK'
    BY <1>1, <2>2, <2>4 DEF TypeInv, TypeOK
  <2>6. CallInv' /\ SoundInv'
    BY <1>1, <2>1, <2>2, <2>4 DEF TypeInv, CallInv, SoundInv
  <2> QED
    BY <2>5, <2>6 DEF TypeInv
<1> QED
  BY <1>3, <1>4, <1>5

LEMMA PushReturnsType ==
  ASSUME TypeInv, NEW d \in Device, PushReturns(d)
  PROVE  TypeInv'
<1>1. call[d] \in PushCall /\ answer[d] \in PushReply
  BY DEF PushReturns, TypeInv, CallInv, PullCall
<1>2. DEFINE c == Seen(d, Accepted(d))
             f == [k \in Key |-> Settled(d, draft[d][k])]
<1>3. /\ Return(d) /\ UNCHANGED cursor
      /\ copy' = [copy EXCEPT ![d] = c] /\ draft' = [draft EXCEPT ![d] = f]
  BY DEF PushReturns, TypeInv, TypeOK
<1>4. c \in [Key -> Content \cup {None}]
  BY <1>1, AcceptedType, SeenType DEF TypeInv
<1>5. ASSUME NEW k \in Key
      PROVE  f[k] \in Wire \cup {None} /\ (f[k] # None => f[k].key = k /\ Opens(f[k]))
  <2>1. draft[d][k] \in Wire \cup {None} /\ (draft[d][k] # None => draft[d][k].key = k /\ Opens(draft[d][k]))
    BY DEF TypeInv, TypeOK, SoundInv
  <2>2. f[k] = Settled(d, draft[d][k])
    OBVIOUS
  <2> QED
    BY <1>1, <2>1, <2>2, SettledType DEF TypeInv
<1>6. cursor[d] \in Nat /\ cursor' = [cursor EXCEPT ![d] = cursor[d]]
  BY <1>3 DEF TypeInv, TypeOK
<1>7. DeviceType(d, c, f)
  BY <1>4, <1>5 DEF DeviceType
<1> HIDE DEF c, f
<1> QED
  BY <1>3, <1>6, <1>7, ReturnType

LEMMA PullReturnsType ==
  ASSUME TypeInv, NEW d \in Device, PullReturns(d)
  PROVE  TypeInv'
<1>1. call[d] \in PullCall /\ answer[d] \in PullReply
  BY DEF PullReturns, TypeInv, CallInv, PushCall
<1>2. DEFINE c == Seen(d, answer[d].records)
             f == [k \in Key |-> Overtaken(d, draft[d][k])]
<1>3. /\ Return(d)
      /\ copy' = [copy EXCEPT ![d] = c] /\ draft' = [draft EXCEPT ![d] = f]
      /\ cursor' = [cursor EXCEPT ![d] = Resumed(d)]
  BY DEF PullReturns, TypeInv, TypeOK
<1>4. c \in [Key -> Content \cup {None}]
  BY <1>1, SeenType DEF TypeInv, PullReply
<1>5. ASSUME NEW k \in Key
      PROVE  f[k] \in Wire \cup {None} /\ (f[k] # None => f[k].key = k /\ Opens(f[k]))
  <2>1. draft[d][k] \in Wire \cup {None} /\ (draft[d][k] # None => draft[d][k].key = k /\ Opens(draft[d][k]))
    BY DEF TypeInv, TypeOK, SoundInv
  <2>2. f[k] = Overtaken(d, draft[d][k])
    OBVIOUS
  <2> QED
    BY <1>1, <2>1, <2>2, OvertakenType DEF TypeInv
<1>6. Resumed(d) \in Nat
  BY <1>1 DEF Resumed, PullReply, TypeInv, TypeOK
<1>7. DeviceType(d, c, f)
  BY <1>4, <1>5 DEF DeviceType
<1> HIDE DEF c, f
<1> QED
  BY <1>3, <1>6, <1>7, ReturnType

(* The change an edit leaves to be pushed.                                 *)
EditedWire(d, k) ==
  Seal(k, IF draft[d][k] # None THEN draft[d][k].version
          ELSE IF copy[d][k] # None THEN copy[d][k].version + 1 ELSE 1,
       edits + 1)

LEMMA EditedType ==
  ASSUME TypeInv, NEW d \in Device, NEW k \in Key
  PROVE  EditedWire(d, k) \in Wire /\ EditedWire(d, k).key = k /\ Opens(EditedWire(d, k))
<1> DEFINE version == IF draft[d][k] # None THEN draft[d][k].version
                      ELSE IF copy[d][k] # None THEN copy[d][k].version + 1 ELSE 1
<1>1. version \in Nat /\ edits + 1 \in Nat
  <2>1. draft[d][k] \in Wire \cup {None} /\ copy[d][k] \in Content \cup {None} /\ edits \in Nat
    BY DEF TypeInv, TypeOK
  <2> QED
    BY <2>1 DEF Wire, Content
<1>2. EditedWire(d, k) = Seal(k, version, edits + 1)
  BY DEF EditedWire
<1> HIDE DEF version
<1>3. /\ Seal(k, version, edits + 1) \in Wire
      /\ Seal(k, version, edits + 1).key = k
      /\ Opens(Seal(k, version, edits + 1))
  BY <1>1, SealType
<1> QED
  BY <1>2, <1>3

LEMMA EditType ==
  ASSUME TypeInv, NEW d \in Device, NEW k \in Key, Edit(d, k)
  PROVE  TypeInv'
<1>1. /\ draft' = [draft EXCEPT ![d][k] = EditedWire(d, k)] /\ edits' = edits + 1
      /\ UNCHANGED <<auth_hash, records, seq_counter, copy, cursor, call, answer, limbo, losses>>
  BY DEF Edit, store, EditedWire, TypeInv, TypeOK
<1>2. /\ draft' \in [Device -> [Key -> Wire \cup {None}]]
      /\ \A e \in Device : \A l \in Key :
           draft'[e][l] = IF e = d /\ l = k THEN EditedWire(d, k) ELSE draft[e][l]
  BY <1>1, EditedType DEF TypeInv, TypeOK
<1>3. TypeOK'
  BY <1>1, <1>2 DEF TypeInv, TypeOK
<1>4. CallInv' /\ SoundInv'
  BY <1>1, <1>2, EditedType DEF TypeInv, CallInv, SoundInv
<1> QED
  BY <1>3, <1>4 DEF TypeInv

LEMMA BreakType ==
  ASSUME TypeInv, NEW d \in Device, Break(d)
  PROVE  TypeInv'
<1>1. /\ call' = [call EXCEPT ![d] = None] /\ answer' = [answer EXCEPT ![d] = None]
      /\ losses' = losses + 1 /\ call[d] # None
      /\ UNCHANGED <<auth_hash, records, seq_counter, copy, draft, cursor, edits>>
      /\ limbo' = IF call[d].op = "push" /\ answer[d] = None
                  THEN limbo \cup {call[d].batch} ELSE limbo
  BY DEF Break, store, device
<1>2. /\ call' \in [Device -> PairCall \cup PushCall \cup PullCall \cup {None}]
      /\ answer' \in [Device -> PushReply \cup PullReply \cup {None}]
      /\ call'[d] = None /\ answer'[d] = None
      /\ \A e \in Device : e # d => call'[e] = call[e] /\ answer'[e] = answer[e]
  BY <1>1 DEF TypeInv, TypeOK
<1>3. call[d].op = "push" => call[d] \in PushCall
  BY <1>1 DEF TypeInv, TypeOK, PairCall, PushCall, PullCall
<1>4. limbo' \subseteq Seq(Wire) /\ \A batch \in limbo' : Sound(batch)
  <2>1. limbo \subseteq Seq(Wire) /\ \A batch \in limbo : Sound(batch)
    BY DEF TypeInv, TypeOK, SoundInv
  <2>2. call[d].op = "push" => call[d].batch \in Seq(Wire) /\ Sound(call[d].batch)
    BY <1>3 DEF TypeInv, SoundInv, PushCall
  <2> QED
    BY <1>1, <2>1, <2>2
<1>5. TypeOK'
  BY <1>1, <1>2, <1>4 DEF TypeInv, TypeOK
<1>6. CallInv' /\ SoundInv'
  BY <1>1, <1>2, <1>4, NoneIsNothing DEF TypeInv, CallInv, SoundInv
<1> QED
  BY <1>5, <1>6 DEF TypeInv

LEMMA LateType ==
  ASSUME TypeInv, Late
  PROVE  TypeInv'
<1>1. PICK batch \in limbo : /\ limbo' = limbo \ {batch}
                             /\ Upsert(batch) \/ UNCHANGED store
  BY DEF Late
<1>2. batch \in Seq(Wire) /\ Sound(batch)
  BY DEF TypeInv, TypeOK, SoundInv
<1>3. UNCHANGED <<copy, draft, cursor, call, answer, edits, losses>>
  BY DEF Late, device
<1>4. /\ records' \in [{group_id} -> [Key -> Row \cup {None}]]
      /\ seq_counter' \in [{group_id} -> Nat]
      /\ UNCHANGED auth_hash
  <2>1. CASE Upsert(batch)
    BY <1>2, <2>1, UpsertType DEF TypeInv
  <2>2. CASE UNCHANGED store
    BY <2>2 DEF store, TypeInv, TypeOK
  <2> QED
    BY <1>1, <2>1, <2>2
<1>5. TypeOK'
  BY <1>1, <1>3, <1>4 DEF TypeInv, TypeOK
<1>6. CallInv' /\ SoundInv'
  BY <1>1, <1>3 DEF TypeInv, CallInv, SoundInv
<1> QED
  BY <1>5, <1>6 DEF TypeInv

LEMMA ReinstallType ==
  ASSUME TypeInv, NEW d \in Device, Reinstall(d)
  PROVE  TypeInv'
<1>1. /\ copy' = [copy EXCEPT ![d] = Fresh] /\ draft' = [draft EXCEPT ![d] = Fresh]
      /\ cursor' = [cursor EXCEPT ![d] = 0] /\ losses' = losses + 1
      /\ UNCHANGED <<auth_hash, records, seq_counter, call, answer, limbo, edits>>
  BY DEF Reinstall, store
<1>2. /\ copy' \in [Device -> [Key -> Content \cup {None}]]
      /\ draft' \in [Device -> [Key -> Wire \cup {None}]]
      /\ cursor' \in [Device -> Nat]
      /\ \A e \in Device : \A k \in Key : draft'[e][k] = IF e = d THEN None ELSE draft[e][k]
  BY <1>1 DEF TypeInv, TypeOK, Fresh
<1>3. TypeOK'
  BY <1>1, <1>2 DEF TypeInv, TypeOK
<1>4. CallInv' /\ SoundInv'
  BY <1>1, <1>2 DEF TypeInv, CallInv, SoundInv
<1> QED
  BY <1>3, <1>4 DEF TypeInv

LEMMA TypeInit == Init => TypeInv
<1> SUFFICES ASSUME Init PROVE TypeInv
  OBVIOUS
<1>1. TypeOK
  BY DEF Init, Store!Init, TypeOK, Fresh
<1>2. CallInv /\ SoundInv
  BY NoneIsNothing DEF Init, CallInv, SoundInv, Fresh
<1> QED
  BY <1>1, <1>2 DEF TypeInv

LEMMA TypeStep == ASSUME TypeInv, NumberInv, [Next]_vars PROVE TypeInv'
<1>1. CASE Late
  BY <1>1, LateType
<1>2. ASSUME NEW d \in Device, Pair(d) PROVE TypeInv'
  <2>1. [op |-> "pair"] \in PairCall /\ call[d] = None
    BY <1>2 DEF PairCall, Pair, Call
  <2> QED
    BY <1>2, <2>1, CallType, IdleNoAnswer DEF Pair
<1>3. ASSUME NEW d \in Device, Push(d) PROVE TypeInv'
  <2>1. PICK b \in Batches(d) : Call(d, [op |-> "push", batch |-> b])
    BY <1>3 DEF Push
  <2>2. b \in Seq(Wire) /\ Sound(b)
    BY BatchType DEF TypeInv
  <2>3. [op |-> "push", batch |-> b] \in PushCall /\ call[d] = None
    BY <2>1, <2>2 DEF PushCall, Call
  <2> QED
    BY <2>1, <2>2, <2>3, CallType, IdleNoAnswer
<1>4. ASSUME NEW d \in Device, Pull(d) PROVE TypeInv'
  <2>1. [op |-> "pull", collection |-> None, since |-> cursor[d]] \in PullCall /\ call[d] = None
    BY <1>4 DEF PullCall, Pull, Call, TypeInv, TypeOK
  <2> QED
    BY <1>4, <2>1, CallType, IdleNoAnswer DEF Pull
<1>5. ASSUME NEW d \in Device, Look(d) PROVE TypeInv'
  <2>1. PICK c \in Viewed : Call(d, [op |-> "pull", collection |-> c, since |-> 0])
    BY <1>5 DEF Look
  <2>2. [op |-> "pull", collection |-> c, since |-> 0] \in PullCall /\ call[d] = None
    BY <2>1, ViewedAssumption DEF PullCall, Call
  <2> QED
    BY <2>1, <2>2, CallType, IdleNoAnswer
<1>6. ASSUME NEW d \in Device, Serve(d) \/ Returns(d) \/ Break(d) \/ Reinstall(d) PROVE TypeInv'
  BY <1>6, ServeType, PushReturnsType, PullReturnsType, BreakType, ReinstallType DEF Returns
<1>7. ASSUME NEW d \in Device, NEW k \in Key, Edit(d, k) PROVE TypeInv'
  BY <1>7, EditType
<1>8. CASE UNCHANGED vars
  <2>1. UNCHANGED <<auth_hash, records, seq_counter, copy, draft, cursor, call, answer, limbo, edits, losses>>
    BY <1>8 DEF vars, store, device
  <2>2. TypeOK'
    BY <2>1 DEF TypeInv, TypeOK
  <2>3. CallInv' /\ SoundInv'
    BY <2>1 DEF TypeInv, CallInv, SoundInv
  <2> QED
    BY <2>2, <2>3 DEF TypeInv
<1> QED
  BY <1>1, <1>2, <1>3, <1>4, <1>5, <1>6, <1>7, <1>8 DEF Next
-----------------------------------------------------------------------------
(* What any step does to the rows: a new row is a sealed record of a       *)
(* higher version, under a number beyond every earlier one.                *)
RowsGrow ==
  /\ seq_counter[group_id] \in Nat /\ seq_counter'[group_id] \in Nat
  /\ seq_counter[group_id] <= seq_counter'[group_id]
  /\ \A k \in Key : rows[k] \in Row \cup {None}
  /\ \A k \in Key :
       \/ rows'[k] = rows[k]
       \/ \E w \in Wire :
            /\ w.key = k /\ Opens(w)
            /\ rows[k] = None \/ w.version > rows[k].version
            /\ rows'[k] # None /\ rows'[k] \in Row
            /\ rows'[k].version = w.version /\ rows'[k].body = w.body
            /\ rows'[k].seq > seq_counter[group_id]
            /\ rows'[k].seq <= seq_counter'[group_id]

LEMMA UpsertGrows ==
  ASSUME TypeOK, NEW batch \in Seq(Wire), Sound(batch), Upsert(batch)
  PROVE  RowsGrow
<1>1. /\ seq_counter[group_id] \in Nat /\ seq_counter'[group_id] \in Nat
      /\ seq_counter'[group_id] = seq_counter[group_id] + Cardinality(Taken(batch))
      /\ Cardinality(Taken(batch)) \in Nat
  BY UpsertType DEF TypeOK
<1>2. \A k \in Key : rows[k] \in Row \cup {None}
  BY DEF TypeOK, rows
<1>3. ASSUME NEW k \in Key, rows'[k] # rows[k]
      PROVE  \E w \in Wire :
               /\ w.key = k /\ Opens(w)
               /\ rows[k] = None \/ w.version > rows[k].version
               /\ rows'[k] # None /\ rows'[k] \in Row
               /\ rows'[k].version = w.version /\ rows'[k].body = w.body
               /\ rows'[k].seq > seq_counter[group_id]
               /\ rows'[k].seq <= seq_counter'[group_id]
  <2>1. PICK j \in Taken(batch) :
          /\ batch[j].key = k /\ batch[j] \in Wire /\ Opens(batch[j])
          /\ rows'[k] = Numbered(batch, j)
    BY <1>3, UpsertRow
  <2>2. /\ rows'[k] \in Row /\ rows'[k].version = batch[j].version
        /\ rows'[k].body = batch[j].body /\ rows'[k].seq > seq_counter[group_id]
        /\ rows'[k].seq <= seq_counter'[group_id]
    BY <1>1, <2>1, NumberedSeq
  <2>3. rows[k] = None \/ batch[j].version > rows[k].version
    BY <2>1 DEF Taken, Store!Beats
  <2> QED
    BY <2>1, <2>2, <2>3, NoneIsNothing
<1> QED
  BY <1>1, <1>2, <1>3 DEF RowsGrow

LEMMA SameRowsGrow ==
  ASSUME TypeOK, UNCHANGED <<records, seq_counter>>
  PROVE  RowsGrow
BY DEF RowsGrow, TypeOK, rows

LEMMA ServeGrows ==
  ASSUME TypeInv, NEW d \in Device, Serve(d)
  PROVE  RowsGrow
<1>1. CASE call[d].op = "pair" \/ auth_hash[group_id] = None
  <2>1. UNCHANGED <<records, seq_counter>>
    BY <1>1 DEF Serve, Store!Register, store
  <2> QED
    BY <2>1, SameRowsGrow DEF TypeInv
<1>2. CASE ~(call[d].op = "pair" \/ auth_hash[group_id] = None) /\ call[d].op = "push"
  <2>1. call[d] \in PushCall
    BY <1>2 DEF Serve, TypeInv, TypeOK, PairCall, PullCall
  <2>2. call[d].batch \in Seq(Wire) /\ Sound(call[d].batch) /\ Upsert(call[d].batch)
    BY <1>2, <2>1 DEF Serve, PushCall, TypeInv, SoundInv
  <2> QED
    BY <2>2, UpsertGrows DEF TypeInv
<1>3. CASE ~(call[d].op = "pair" \/ auth_hash[group_id] = None) /\ call[d].op # "push"
  <2>1. UNCHANGED <<records, seq_counter>>
    BY <1>3 DEF Serve, store
  <2> QED
    BY <2>1, SameRowsGrow DEF TypeInv
<1> QED
  BY <1>1, <1>2, <1>3

LEMMA StepGrows == ASSUME TypeInv, [Next]_vars PROVE RowsGrow
<1> TypeOK
  BY DEF TypeInv
<1>1. CASE Late
  <2>1. PICK batch \in limbo : Upsert(batch) \/ UNCHANGED store
    BY <1>1 DEF Late
  <2>2. batch \in Seq(Wire) /\ Sound(batch)
    BY DEF TypeInv, TypeOK, SoundInv
  <2> QED
    BY <2>1, <2>2, UpsertGrows, SameRowsGrow DEF store
<1>2. ASSUME NEW d \in Device, Serve(d) PROVE RowsGrow
  BY <1>2, ServeGrows
<1>3. ASSUME NEW d \in Device,
             Pair(d) \/ Push(d) \/ Pull(d) \/ Look(d) \/ Returns(d) \/ Break(d) \/ Reinstall(d)
      PROVE  RowsGrow
  <2>1. UNCHANGED <<records, seq_counter>>
    BY <1>3 DEF Pair, Push, Pull, Look, Call, Returns, PushReturns, PullReturns, Return,
                Break, Reinstall, store
  <2> QED
    BY <2>1, SameRowsGrow
<1>4. ASSUME NEW d \in Device, NEW k \in Key, Edit(d, k) PROVE RowsGrow
  BY <1>4, SameRowsGrow DEF Edit, store
<1>5. CASE UNCHANGED vars
  BY <1>5, SameRowsGrow DEF vars, store
<1> QED
  BY <1>1, <1>2, <1>3, <1>4, <1>5 DEF Next

LEMMA OpenStep == ASSUME RowsOpen, RowsGrow PROVE RowsOpen'
<1> SUFFICES ASSUME NEW k \in Key, rows'[k] # None
             PROVE  rows'[k].body.aad = <<k, rows'[k].version>>
  BY DEF RowsOpen, Opens
<1>1. CASE rows'[k] = rows[k]
  BY <1>1 DEF RowsOpen, Opens
<1>2. CASE rows'[k] # rows[k]
  BY <1>2 DEF RowsGrow, Opens
<1> QED
  BY <1>1, <1>2
-----------------------------------------------------------------------------
(* What a step can be to one device: nothing, a call it makes, or the end  *)
(* or the handling of the call it is in.                                   *)
Unmoved(d) ==
  /\ call'[d] = call[d] /\ answer'[d] = answer[d]
  /\ cursor'[d] = cursor[d] /\ copy'[d] = copy[d]

Calls(d) ==
  /\ call[d] = None /\ answer[d] = None /\ answer'[d] = None
  /\ cursor'[d] = cursor[d] /\ copy'[d] = copy[d]
  /\ call'[d] \in PullCall /\ call'[d].collection = None => call'[d].since = cursor[d]

LEMMA OtherReturns ==
  ASSUME TypeInv, NEW d \in Device, NEW e \in Device, e # d, Returns(e)
  PROVE  Unmoved(d)
<1>1. Return(e) /\ cursor'[d] = cursor[d] /\ copy'[d] = copy[d]
  BY DEF Returns, PushReturns, PullReturns, TypeInv, TypeOK
<1> QED
  BY <1>1 DEF Return, Unmoved, TypeInv, TypeOK

LEMMA OtherSteps ==
  ASSUME TypeInv, NEW d \in Device, NEW e \in Device, e # d,
         Pair(e) \/ Push(e) \/ Pull(e) \/ Look(e) \/ Serve(e) \/ Break(e) \/ Reinstall(e)
  PROVE  Unmoved(d)
<1>1. CASE Pair(e) \/ Push(e) \/ Pull(e) \/ Look(e)
  <2>1. PICK c : Call(e, c)
    BY <1>1 DEF Pair, Push, Pull, Look
  <2> QED
    BY <2>1 DEF Call, device, Unmoved, TypeInv, TypeOK
<1>2. CASE Serve(e)
  <2>1. /\ UNCHANGED <<copy, cursor>>
        /\ answer' = answer \/ \E a : answer' = [answer EXCEPT ![e] = a]
        /\ call' = call \/ call' = [call EXCEPT ![e] = None]
    BY <1>2 DEF Serve, device
  <2> QED
    BY <2>1 DEF Unmoved, TypeInv, TypeOK
<1>3. CASE Break(e)
  BY <1>3 DEF Break, device, Unmoved, TypeInv, TypeOK
<1>4. CASE Reinstall(e)
  BY <1>4 DEF Reinstall, Unmoved, TypeInv, TypeOK
<1> QED
  BY <1>1, <1>2, <1>3, <1>4

LEMMA DeviceStep ==
  ASSUME TypeInv, NEW d \in Device, [Next]_vars
  PROVE  \/ Unmoved(d) \/ Calls(d)
         \/ Serve(d) \/ PushReturns(d) \/ PullReturns(d) \/ Break(d) \/ Reinstall(d)
<1>1. CASE Late \/ UNCHANGED vars
  BY <1>1 DEF Late, vars, device, Unmoved
<1>2. ASSUME NEW e \in Device, NEW k \in Key, Edit(e, k) PROVE Unmoved(d)
  BY <1>2 DEF Edit, Unmoved
<1>3. ASSUME NEW e \in Device, e # d,
             \/ Pair(e) \/ Push(e) \/ Pull(e) \/ Look(e)
             \/ Serve(e) \/ Returns(e) \/ Break(e) \/ Reinstall(e)
      PROVE  Unmoved(d)
  BY <1>3, OtherReturns, OtherSteps
<1>4. CASE Pair(d) \/ Push(d) \/ Pull(d) \/ Look(d)
  <2>1. PICK c : Call(d, c) /\ (c.op = "pull" /\ c.collection = None => c.since = cursor[d])
    <3>1. \A c \in Viewed : c # None
      BY ViewedAssumption, NoneIsNothing
    <3>2. CASE Pair(d)
      BY <3>2 DEF Pair
    <3>3. CASE Push(d)
      BY <3>3 DEF Push
    <3>4. CASE Pull(d)
      BY <3>4 DEF Pull
    <3>5. CASE Look(d)
      BY <3>1, <3>5 DEF Look
    <3> QED
      BY <1>4, <3>2, <3>3, <3>4, <3>5
  <2>2. call'[d] = c /\ call[d] = None /\ UNCHANGED <<answer, cursor, copy>>
    BY <2>1 DEF Call, device, TypeInv, TypeOK
  <2>3. answer[d] = None
    BY <2>2, IdleNoAnswer
  <2> QED
    BY <2>1, <2>2, <2>3 DEF Calls, PullCall
<1> QED
  BY <1>1, <1>2, <1>3, <1>4 DEF Next, Returns

(* A device's copies after an answer, its wires named once each.           *)
LEMMA SeenGrows ==
  ASSUME TypeOK, NEW d \in Device, NEW wires \in SUBSET Wire,
         \A v, w \in wires : v.key = w.key => v = w, NEW k \in Key
  PROVE  /\ Seen(d, wires)[k] = copy[d][k] \/
              \E w \in wires : w.key = k /\ Newer(w, copy[d][k]) /\ Seen(d, wires)[k] = Saw(w)
         /\ \A w \in wires : w.key = k =>
              Seen(d, wires)[k] # None /\ Seen(d, wires)[k].version >= w.version
         /\ copy[d][k] # None =>
              Seen(d, wires)[k] # None /\ Seen(d, wires)[k].version >= copy[d][k].version
<1>1. copy[d][k] \in Content \cup {None} /\ \A w \in wires : w.version \in Nat /\ Saw(w) \in Content
  BY DEF TypeOK, Wire, Body, Saw, Content
<1>2. CASE \E w \in wires : w.key = k /\ Newer(w, copy[d][k])
  <2>1. PICK w \in wires : w.key = k /\ Newer(w, copy[d][k])
    BY <1>2
  <2>2. w = CHOOSE v \in wires : v.key = k
    BY <2>1
  <2>3. Seen(d, wires)[k] = Saw(w)
    BY <1>2, <2>2 DEF Seen, Saw
  <2>4. Saw(w).version = w.version /\ Saw(w) # None
    BY <1>1, NoneIsNothing DEF Saw
  <2>5. copy[d][k] # None => w.version > copy[d][k].version /\ copy[d][k].version \in Nat
    BY <1>1, <2>1 DEF Newer, Content
  <2> QED
    BY <1>1, <2>1, <2>3, <2>4, <2>5
<1>3. CASE ~\E w \in wires : w.key = k /\ Newer(w, copy[d][k])
  <2>1. Seen(d, wires)[k] = copy[d][k]
    BY <1>3 DEF Seen
  <2> QED
    BY <1>1, <1>3, <2>1 DEF Newer, Content
<1> QED
  BY <1>2, <1>3
-----------------------------------------------------------------------------
(* A row under an old number is an old row.                                *)
LEMMA OldRow ==
  ASSUME RowsGrow, NEW k \in Key, NEW n \in Nat, n <= seq_counter[group_id],
         rows'[k] # None, rows'[k].seq <= n
  PROVE  rows'[k] = rows[k]
BY DEF RowsGrow, Row

LEMMA SameStore ==
  ASSUME UNCHANGED store
  PROVE  rows' = rows /\ seq_counter' = seq_counter /\ records' = records
BY DEF store, rows

LEMMA NumberStep ==
  ASSUME TypeInv, NumberInv, PullInv, [Next]_vars
  PROVE  NumberInv'
<1>1. RowsGrow
  BY StepGrows
<1>2. ASSUME NEW k \in Key, rows'[k] # None
      PROVE  rows'[k].seq >= 1 /\ rows'[k].seq <= seq_counter'[group_id]
  BY <1>1, <1>2 DEF RowsGrow, NumberInv, Row
<1>3. ASSUME NEW d \in Device PROVE cursor'[d] <= seq_counter'[group_id]
  <2>1. /\ cursor[d] \in Nat /\ cursor[d] <= seq_counter[group_id]
        /\ seq_counter[group_id] <= seq_counter'[group_id]
        /\ seq_counter[group_id] \in Nat /\ seq_counter'[group_id] \in Nat
    BY <1>1 DEF NumberInv, RowsGrow, TypeInv, TypeOK
  <2>2. CASE cursor'[d] = cursor[d] \/ cursor'[d] = 0
    BY <2>1, <2>2
  <2>3. CASE PullReturns(d)
    <3>1. call[d] \in PullCall /\ answer[d] \in PullReply /\ answer[d] # None
      BY <2>3 DEF PullReturns, TypeInv, CallInv, PushCall
    <3>2. cursor'[d] = Resumed(d)
      BY <2>3 DEF PullReturns, TypeInv, TypeOK
    <3>3. CASE call[d].collection = None
      <4>1. cursor'[d] = answer[d].server_seq /\ answer[d].server_seq <= seq_counter[group_id]
        BY <3>1, <3>2, <3>3 DEF Resumed, PullInv
      <4>2. answer[d].server_seq \in Nat
        BY <3>1 DEF PullReply
      <4> QED
        BY <2>1, <4>1, <4>2
    <3>4. CASE call[d].collection # None
      BY <2>1, <3>2, <3>4 DEF Resumed
    <3> QED
      BY <3>3, <3>4
  <2>4. CASE Unmoved(d) \/ Calls(d) \/ Serve(d) \/ PushReturns(d) \/ Break(d) \/ Reinstall(d)
    <3>1. cursor'[d] = cursor[d] \/ cursor'[d] = 0
      BY <2>4 DEF Unmoved, Calls, Serve, PushReturns, Break, Reinstall, device, TypeInv, TypeOK
    <3> QED
      BY <2>2, <3>1
  <2> QED
    BY <2>3, <2>4, DeviceStep
<1> QED
  BY <1>2, <1>3 DEF NumberInv

(* PullInv and NothingMissed, of one device.                               *)
PullOf(d) ==
  call[d] \in PullCall /\ call[d].collection = None =>
    /\ call[d].since = cursor[d]
    /\ answer[d] # None =>
         /\ answer[d].server_seq <= seq_counter[group_id]
         /\ \A k \in Key :
              rows[k] # None /\ rows[k].seq > cursor[d] /\ rows[k].seq <= answer[d].server_seq
                => \E w \in answer[d].records : w.key = k /\ w.version = rows[k].version

MissedNone(d) ==
  \A k \in Key : rows[k] # None /\ rows[k].seq <= cursor[d] =>
    copy[d][k] # None /\ copy[d][k].version >= rows[k].version

LEMMA PullStep ==
  ASSUME TypeInv, NumberInv, PullInv, [Next]_vars, NEW d \in Device
  PROVE  PullOf(d)'
<1>1. RowsGrow /\ PullOf(d)
  BY StepGrows DEF PullInv, PullOf
<1>2. CASE Unmoved(d)
  <2> SUFFICES ASSUME call[d] \in PullCall, call[d].collection = None, answer[d] # None
               PROVE  /\ answer[d].server_seq <= seq_counter'[group_id]
                      /\ \A k \in Key :
                           /\ rows'[k] # None /\ rows'[k].seq > cursor[d]
                           /\ rows'[k].seq <= answer[d].server_seq
                           => \E w \in answer[d].records : w.key = k /\ w.version = rows'[k].version
    BY <1>1, <1>2 DEF Unmoved, PullOf
  <2>1. answer[d].server_seq \in Nat /\ answer[d].server_seq <= seq_counter[group_id]
    <3>1. answer[d] \in PullReply
      BY DEF TypeInv, CallInv, PullCall, PushCall
    <3> QED
      BY <1>1, <3>1 DEF PullReply, PullOf
  <2>2. answer[d].server_seq <= seq_counter'[group_id]
    BY <1>1, <2>1 DEF RowsGrow
  <2>3. ASSUME NEW k \in Key, rows'[k] # None, rows'[k].seq > cursor[d],
               rows'[k].seq <= answer[d].server_seq
        PROVE  \E w \in answer[d].records : w.key = k /\ w.version = rows'[k].version
    <3>1. rows'[k] = rows[k]
      BY <1>1, <2>1, <2>3, OldRow
    <3> QED
      BY <1>1, <2>3, <3>1 DEF PullOf
  <2> QED
    BY <2>2, <2>3
<1>3. CASE Calls(d)
  BY <1>3 DEF Calls, PullOf
<1>4. CASE Serve(d)
  <2>1. answer[d] = None /\ cursor'[d] = cursor[d] /\ call[d] # None
    BY <1>4 DEF Serve, device
  <2>2. CASE call[d].op = "pair" \/ auth_hash[group_id] = None
    <3>1. call'[d] = None
      BY <1>4, <2>2 DEF Serve, TypeInv, TypeOK
    <3> QED
      BY <3>1, NoneIsNothing DEF PullOf
  <2>3. CASE ~(call[d].op = "pair" \/ auth_hash[group_id] = None) /\ call[d].op = "push"
    <3>1. call'[d] = call[d] /\ call[d] \notin PullCall
      BY <1>4, <2>3 DEF Serve, PullCall
    <3> QED
      BY <3>1 DEF PullOf
  <2>4. CASE ~(call[d].op = "pair" \/ auth_hash[group_id] = None) /\ call[d].op # "push"
    <3>1. /\ call'[d] = call[d] /\ answer'[d] = Pulled(call[d]) /\ UNCHANGED store
      BY <1>4, <2>4 DEF Serve, TypeInv, TypeOK
    <3>2. rows' = rows /\ seq_counter' = seq_counter
      BY <3>1, SameStore
    <3> SUFFICES ASSUME call[d] \in PullCall, call[d].collection = None
                 PROVE  /\ call[d].since = cursor[d]
                        /\ Pulled(call[d]).server_seq <= seq_counter[group_id]
                        /\ \A k \in Key : rows[k] # None /\ rows[k].seq > cursor[d] =>
                             \E w \in Pulled(call[d]).records :
                               w.key = k /\ w.version = rows[k].version
      BY <2>1, <3>1, <3>2 DEF PullOf
    <3>3. call[d].since = cursor[d]
      BY <1>1 DEF PullOf
    <3>4. Pulled(call[d]).server_seq <= seq_counter[group_id]
      BY <3>3, PulledType DEF NumberInv, TypeInv
    <3>5. ASSUME NEW k \in Key, rows[k] # None, rows[k].seq > cursor[d]
          PROVE  \E w \in Pulled(call[d]).records : w.key = k /\ w.version = rows[k].version
      <4>1. k \in Selected(call[d])
        BY <3>3, <3>5 DEF Selected
      <4>2. [key |-> k, version |-> rows[k].version, body |-> rows[k].body]
              \in Pulled(call[d]).records
        BY <4>1 DEF Pulled
      <4> QED
        BY <4>2
    <3> QED
      BY <3>3, <3>4, <3>5
  <2> QED
    BY <2>2, <2>3, <2>4
<1>5. CASE PushReturns(d) \/ PullReturns(d) \/ Break(d)
  <2>1. call'[d] = None
    BY <1>5 DEF PushReturns, PullReturns, Return, Break, TypeInv, TypeOK
  <2> QED
    BY <2>1, NoneIsNothing DEF PullOf
<1>6. CASE Reinstall(d)
  <2>1. call'[d] = None
    BY <1>6 DEF Reinstall
  <2> QED
    BY <2>1, NoneIsNothing DEF PullOf
<1> QED
  BY <1>2, <1>3, <1>4, <1>5, <1>6, DeviceStep

LEMMA MissedStep ==
  ASSUME TypeInv, NumberInv, PullInv, NothingMissed, ToldInv, [Next]_vars, NEW d \in Device
  PROVE  MissedNone(d)'
<1>1. RowsGrow /\ MissedNone(d)
  BY StepGrows DEF NothingMissed, MissedNone
<1>2. /\ cursor[d] \in Nat /\ cursor[d] <= seq_counter[group_id]
      /\ \A k \in Key : copy[d][k] \in Content \cup {None} /\ rows[k] \in Row \cup {None}
  BY <1>1 DEF TypeInv, TypeOK, NumberInv, RowsGrow
<1>3. CASE /\ cursor'[d] = cursor[d]
           /\ \A k \in Key : copy[d][k] # None =>
                /\ copy'[d][k] # None /\ copy'[d][k].version \in Nat
                /\ copy'[d][k].version >= copy[d][k].version
  <2> SUFFICES ASSUME NEW k \in Key, rows'[k] # None, rows'[k].seq <= cursor[d]
               PROVE  copy'[d][k] # None /\ copy'[d][k].version >= rows'[k].version
    BY <1>3 DEF MissedNone
  <2>1. rows'[k] = rows[k]
    BY <1>1, <1>2, OldRow
  <2>2. copy[d][k] # None /\ copy[d][k].version >= rows[k].version
    BY <1>1, <2>1 DEF MissedNone
  <2> QED
    BY <1>2, <1>3, <2>1, <2>2 DEF Content, Row
<1>4. CASE Unmoved(d) \/ Calls(d) \/ Serve(d) \/ Break(d)
  <2>1. cursor'[d] = cursor[d] /\ copy'[d] = copy[d]
    BY <1>4 DEF Unmoved, Calls, Serve, Break, device
  <2> QED
    BY <1>2, <1>3, <2>1 DEF Content
<1>5. CASE PushReturns(d)
  <2>1. /\ cursor'[d] = cursor[d] /\ copy'[d] = Seen(d, Accepted(d))
        /\ call[d] \in PushCall /\ answer[d] # None
    BY <1>5 DEF PushReturns, TypeInv, TypeOK, CallInv, PullCall
  <2>2. Accepted(d) \subseteq Wire /\ \A v, w \in Accepted(d) : v.key = w.key => v = w
    BY <2>1, AcceptedType DEF ToldInv, Told, PushCall, TypeInv
  <2>3. \A k \in Key : copy'[d][k] \in Content \cup {None}
    BY <2>1, <2>2, SeenType DEF TypeInv
  <2>4. \A k \in Key : copy[d][k] # None =>
          copy'[d][k] # None /\ copy'[d][k].version >= copy[d][k].version
    BY <2>1, <2>2, SeenGrows DEF TypeInv
  <2> QED
    BY <1>3, <2>1, <2>3, <2>4 DEF Content
<1>6. CASE PullReturns(d)
  <2>1. /\ copy'[d] = Seen(d, answer[d].records) /\ cursor'[d] = Resumed(d)
        /\ call[d] \in PullCall /\ answer[d] \in PullReply /\ answer[d] # None
        /\ UNCHANGED store
    BY <1>6 DEF PullReturns, Return, TypeInv, TypeOK, CallInv, PushCall
  <2>2. /\ answer[d].records \subseteq Wire
        /\ \A v, w \in answer[d].records : v.key = w.key => v = w
    BY <2>1 DEF ToldInv, Told, PullCall, PullReply
  <2>3. \A k \in Key : copy'[d][k] \in Content \cup {None}
    BY <2>1, <2>2, SeenType DEF TypeInv
  <2>4. \A k \in Key : copy[d][k] # None =>
          copy'[d][k] # None /\ copy'[d][k].version >= copy[d][k].version
    BY <2>1, <2>2, SeenGrows DEF TypeInv
  <2>5. CASE call[d].collection # None
    BY <1>3, <2>1, <2>3, <2>4, <2>5 DEF Content, Resumed
  <2>6. CASE call[d].collection = None
    <3>1. cursor'[d] = answer[d].server_seq /\ rows' = rows
      BY <2>1, <2>6, SameStore DEF Resumed
    <3> SUFFICES ASSUME NEW k \in Key, rows[k] # None, rows[k].seq <= answer[d].server_seq
                 PROVE  copy'[d][k] # None /\ copy'[d][k].version >= rows[k].version
      BY <3>1 DEF MissedNone
    <3>2. CASE rows[k].seq <= cursor[d]
      <4>1. copy[d][k] # None /\ copy[d][k].version >= rows[k].version
        BY <1>1, <3>2 DEF MissedNone
      <4> QED
        BY <1>2, <2>3, <2>4, <4>1 DEF Content, Row
    <3>3. CASE ~(rows[k].seq <= cursor[d])
      <4>1. rows[k].seq > cursor[d]
        BY <1>2, <3>3 DEF Row
      <4>2. PICK w \in answer[d].records : w.key = k /\ w.version = rows[k].version
        BY <2>1, <2>6, <4>1 DEF PullInv
      <4>3. Seen(d, answer[d].records)[k] # None
            /\ Seen(d, answer[d].records)[k].version >= w.version
        BY <2>2, <4>2, SeenGrows DEF TypeInv
      <4> QED
        BY <2>1, <4>2, <4>3
    <3> QED
      BY <3>2, <3>3
  <2> QED
    BY <2>5, <2>6
<1>7. CASE Reinstall(d)
  <2>1. cursor'[d] = 0 /\ UNCHANGED store
    BY <1>7 DEF Reinstall, TypeInv, TypeOK
  <2>2. \A k \in Key : rows'[k] # None => rows'[k].seq >= 1 /\ rows'[k] \in Row
    BY <1>2, <2>1, SameStore DEF NumberInv
  <2> QED
    BY <2>1, <2>2 DEF MissedNone, Row
<1> QED
  BY <1>4, <1>5, <1>6, <1>7, DeviceStep
-----------------------------------------------------------------------------
LEMMA ClaimType ==
  ASSUME TypeInv, NEW k \in Key, NEW c \in Claims(k)
  PROVE  c \in Content
<1>1. ASSUME NEW d \in Device, copy[d][k] # None PROVE copy[d][k] \in Content
  BY <1>1 DEF TypeInv, TypeOK
<1>2. ASSUME NEW d \in Device, NEW w \in Told(d) PROVE Saw(w) \in Content
  BY ToldType DEF TypeInv, Saw, Wire, Body, Content
<1> QED
  BY <1>1, <1>2 DEF Claims

(* What an answer tells when it is given: the row, as it is then.          *)
LEMMA ServeTells ==
  ASSUME TypeInv, ClaimInv, NEW d \in Device, Serve(d), NEW w \in Told(d)'
  PROVE  /\ w \in Wire /\ w.key \in Key
         /\ rows'[w.key] # None
         /\ w.version = rows'[w.key].version /\ w.body = rows'[w.key].body
         /\ copy'[d] = copy[d]
         /\ copy[d][w.key] # None => copy[d][w.key].version <= w.version
         /\ \A v \in Told(d)' : v.key = w.key => v = w
<1>1. answer[d] = None /\ call[d] # None /\ copy' = copy
  BY DEF Serve, device
<1>2. answer'[d] # None
  BY DEF Told
<1>3. ~(call[d].op = "pair" \/ auth_hash[group_id] = None)
  <2>1. SUFFICES ASSUME call[d].op = "pair" \/ auth_hash[group_id] = None PROVE FALSE
    OBVIOUS
  <2> QED
    BY <1>1, <1>2, <2>1 DEF Serve
<1>4. UNCHANGED call
  BY <1>3 DEF Serve
<1>5. \A k \in Key : rows[k] \in Row \cup {None} /\ copy[d][k] \in Content \cup {None}
  BY DEF TypeInv, TypeOK, rows
<1>6. ASSUME NEW k \in Key, copy[d][k] # None
      PROVE  rows[k] # None /\ copy[d][k].version <= rows[k].version
  BY <1>6 DEF ClaimInv, Claims
<1>7. CASE call[d].op = "push"
  <2>1. call[d] \in PushCall
    BY <1>1, <1>7 DEF TypeInv, TypeOK, PairCall, PullCall
  <2> DEFINE batch == call[d].batch
  <2>2. batch \in Seq(Wire) /\ Sound(batch) /\ Upsert(batch)
    BY <1>3, <1>7, <2>1 DEF Serve, PushCall, TypeInv, SoundInv
  <2>3. answer'[d] = Pushed(batch)
    BY <1>3, <1>7 DEF Serve, TypeInv, TypeOK
  <2>4. Taken(batch) \subseteq DOMAIN batch /\ DOMAIN batch = 1 .. Len(batch)
    BY <2>2 DEF Taken
  <2>5. Told(d)' = {v \in Range(batch) : [key |-> v.key, version |-> v.version] \in Pushed(batch).accepted}
    BY <1>2, <1>4, <1>7, <2>3 DEF Told, Accepted
  <2>6. ASSUME NEW v \in Told(d)' PROVE \E j \in Taken(batch) : v = batch[j]
    <3>1. v \in Range(batch) /\ [key |-> v.key, version |-> v.version] \in Pushed(batch).accepted
      BY <2>5
    <3>2. PICK i \in DOMAIN batch : v = batch[i]
      BY <3>1 DEF Range
    <3>3. PICK j \in Taken(batch) :
            [key |-> v.key, version |-> v.version] = [key |-> batch[j].key, version |-> batch[j].version]
      BY <3>1 DEF Pushed
    <3>4. batch[i].key = batch[j].key
      BY <3>2, <3>3
    <3>5. i = j
      BY <2>2, <2>4, <3>4 DEF Sound
    <3> QED
      BY <3>2, <3>5
  <2>7. PICK j \in Taken(batch) : w = batch[j]
    BY <2>6
  <2>8. w \in Wire /\ w.key \in Key
    <3>1. j \in 1 .. Len(batch)
      BY <2>4
    <3>2. batch[j] \in Wire
      BY <2>2, <3>1, ElementOfSeq
    <3> QED
      BY <2>7, <3>2 DEF Wire
  <2>9. rows'[w.key] = Numbered(batch, j)
    BY <2>2, <2>7, <2>8, UpsertRow DEF TypeInv
  <2>10. /\ Numbered(batch, j) \in Row /\ Numbered(batch, j).version = w.version
         /\ Numbered(batch, j).body = w.body
    BY <2>2, <2>7, NumberedSeq DEF TypeInv
  <2>11. rows[w.key] = None \/ w.version > rows[w.key].version
    BY <2>7 DEF Taken, Store!Beats
  <2>12. copy[d][w.key] # None => copy[d][w.key].version <= w.version
    BY <1>5, <1>6, <2>8, <2>11 DEF Row, Content, Wire
  <2>13. \A v \in Told(d)' : v.key = w.key => v = w
    BY <2>2, <2>4, <2>6, <2>7 DEF Sound
  <2> QED
    BY <1>1, <2>8, <2>9, <2>10, <2>12, <2>13, NoneIsNothing
<1>8. CASE call[d].op # "push"
  <2>1. answer'[d] = Pulled(call[d]) /\ UNCHANGED store
    BY <1>3, <1>8 DEF Serve, TypeInv, TypeOK
  <2>2. rows' = rows
    BY <2>1, SameStore
  <2>3. Told(d)' = Pulled(call[d]).records
    BY <1>2, <1>4, <1>8, <2>1 DEF Told
  <2>4. \A v \in Told(d)' : \E k \in Key :
          rows[k] # None /\ v = [key |-> k, version |-> rows[k].version, body |-> rows[k].body]
    BY <2>3 DEF Pulled, Selected
  <2>5. PICK k \in Key :
          rows[k] # None /\ w = [key |-> k, version |-> rows[k].version, body |-> rows[k].body]
    BY <2>4
  <2>6. w \in Wire /\ w.key = k
    BY <1>5, <2>5 DEF Row, Wire
  <2>7. \A v \in Told(d)' : v.key = w.key => v = w
    BY <2>4, <2>5
  <2>8. copy[d][k] # None => copy[d][k].version <= w.version
    BY <1>6, <2>5
  <2> QED
    BY <1>1, <2>2, <2>5, <2>6, <2>7, <2>8
<1> QED
  BY <1>7, <1>8

(* An answer that is not given in a step tells what it did, or nothing.    *)
LEMMA ToldKept ==
  ASSUME TypeInv, NEW d \in Device,
         \/ Unmoved(d) \/ Calls(d) \/ PushReturns(d) \/ PullReturns(d)
         \/ Break(d) \/ Reinstall(d)
  PROVE  \/ Told(d)' = Told(d) /\ copy'[d] = copy[d]
         \/ Told(d)' = {}
<1>1. CASE Unmoved(d)
  BY <1>1 DEF Unmoved, Told, Accepted
<1>2. CASE Calls(d)
  BY <1>2 DEF Calls, Told
<1>3. CASE PushReturns(d) \/ PullReturns(d) \/ Break(d)
  <2>1. answer'[d] = None
    BY <1>3 DEF PushReturns, PullReturns, Return, Break, TypeInv, TypeOK
  <2> QED
    BY <2>1 DEF Told
<1>4. CASE Reinstall(d)
  <2>1. answer'[d] = None
    BY <1>4, IdleNoAnswer DEF Reinstall
  <2> QED
    BY <2>1 DEF Told
<1> QED
  BY <1>1, <1>2, <1>3, <1>4

LEMMA ToldStep ==
  ASSUME TypeInv, ClaimInv, ToldInv, [Next]_vars
  PROVE  ToldInv'
<1> SUFFICES ASSUME NEW d \in Device, NEW w \in Told(d)'
             PROVE  /\ \A v \in Told(d)' : v.key = w.key => v = w
                    /\ copy'[d][w.key] # None => copy'[d][w.key].version <= w.version
  BY DEF ToldInv
<1>1. CASE Serve(d)
  BY <1>1, ServeTells
<1>2. CASE Told(d)' = Told(d) /\ copy'[d] = copy[d]
  BY <1>2 DEF ToldInv
<1> QED
  BY <1>1, <1>2, ToldKept, DeviceStep

(* Every claim after a step was one before, or is the row.                 *)
IsRow(k, c) ==
  c \in Content /\ rows[k] # None /\ c.version = rows[k].version /\ c.text = rows[k].body.text

LEMMA NewClaims ==
  ASSUME TypeInv, ClaimInv, ToldInv, [Next]_vars, NEW k \in Key, NEW c \in Claims(k)'
  PROVE  c \in Claims(k) \/ IsRow(k, c)'
<1>1. ASSUME NEW d \in Device, copy'[d][k] # None, c = copy'[d][k]
      PROVE  c \in Claims(k)
  <2>1. CASE copy'[d] = copy[d]
    BY <1>1, <2>1 DEF Claims
  <2>2. ASSUME NEW wires \in SUBSET Wire, wires = Told(d), copy'[d] = Seen(d, wires)
        PROVE  c \in Claims(k)
    <3>1. \A v, w \in wires : v.key = w.key => v = w
      BY <2>2 DEF ToldInv
    <3>2. CASE c = copy[d][k]
      BY <1>1, <3>2 DEF Claims
    <3>3. CASE \E w \in wires : w.key = k /\ c = Saw(w)
      BY <2>2, <3>3 DEF Claims
    <3> QED
      BY <1>1, <2>2, <3>1, <3>2, <3>3, SeenGrows DEF TypeInv
  <2>3. CASE PushReturns(d)
    <3>1. call[d] \in PushCall /\ answer[d] # None /\ copy'[d] = Seen(d, Accepted(d))
      BY <2>3 DEF PushReturns, TypeInv, TypeOK, CallInv, PullCall
    <3>2. Accepted(d) = Told(d) /\ Accepted(d) \subseteq Wire
      BY <3>1, AcceptedType DEF Told, PushCall, TypeInv
    <3> QED
      BY <2>2, <3>1, <3>2
  <2>4. CASE PullReturns(d)
    <3>1. /\ call[d] \in PullCall /\ answer[d] \in PullReply /\ answer[d] # None
          /\ copy'[d] = Seen(d, answer[d].records)
      BY <2>4 DEF PullReturns, TypeInv, TypeOK, CallInv, PushCall
    <3>2. answer[d].records = Told(d) /\ answer[d].records \subseteq Wire
      BY <3>1 DEF Told, PullCall, PullReply
    <3> QED
      BY <2>2, <3>1, <3>2
  <2>5. CASE Reinstall(d)
    BY <1>1, <2>5 DEF Reinstall, TypeInv, TypeOK, Fresh
  <2>6. CASE Unmoved(d) \/ Calls(d) \/ Serve(d) \/ Break(d)
    <3>1. copy'[d] = copy[d]
      BY <2>6 DEF Unmoved, Calls, Serve, Break, device
    <3> QED
      BY <2>1, <3>1
  <2> QED
    BY <2>3, <2>4, <2>5, <2>6, DeviceStep
<1>2. ASSUME NEW d \in Device, NEW w \in Told(d)', w.key = k, c = Saw(w)
      PROVE  c \in Claims(k) \/ IsRow(k, c)'
  <2>1. CASE Serve(d)
    <3>1. /\ w \in Wire /\ rows'[k] # None
          /\ w.version = rows'[k].version /\ w.body = rows'[k].body
      BY <1>2, <2>1, ServeTells
    <3>2. c \in Content /\ c.version = w.version /\ c.text = w.body.text
      BY <1>2, <3>1 DEF Saw, Wire, Body, Content
    <3> QED
      BY <3>1, <3>2 DEF IsRow
  <2>2. CASE Told(d)' = Told(d)
    BY <1>2, <2>2 DEF Claims
  <2> QED
    BY <2>1, <2>2, ToldKept, DeviceStep
<1>3. CASE IsRow(k, c)'
  BY <1>3
<1> QED
  BY <1>1, <1>2, <1>3 DEF Claims, IsRow

LEMMA ClaimStep ==
  ASSUME TypeInv, ClaimInv, ToldInv, [Next]_vars
  PROVE  ClaimInv'
<1> SUFFICES ASSUME NEW k \in Key, NEW c \in Claims(k)', NEW e \in Claims(k)'
             PROVE  /\ rows'[k] # None /\ c.version <= rows'[k].version
                    /\ c.version = e.version => c = e
  BY DEF ClaimInv
<1>1. RowsGrow
  BY StepGrows
<1>2. (c \in Claims(k) \/ IsRow(k, c)') /\ (e \in Claims(k) \/ IsRow(k, e)')
  BY NewClaims
<1>3. \A b \in Claims(k) : b \in Content /\ rows[k] # None /\ b.version <= rows[k].version
  BY ClaimType DEF ClaimInv
<1>4. \A b \in Content : IsRow(k, b)' =>
        rows'[k] # None /\ b.version = rows'[k].version /\ b.text = rows'[k].body.text
  BY DEF IsRow
<1>5. c \in Content /\ e \in Content
  BY <1>2, <1>3 DEF IsRow
<1>6. c.version = e.version /\ c.text = e.text => c = e
  BY <1>5 DEF Content
<1>7. CASE rows'[k] = rows[k]
  <2>1. \A b \in Content : IsRow(k, b)' => b \in Claims(k)
    BY <1>7 DEF IsRow, Claims
  <2>2. c \in Claims(k) /\ e \in Claims(k)
    BY <1>2, <1>5, <2>1
  <2> QED
    BY <1>3, <1>7, <2>2 DEF ClaimInv
<1>8. CASE rows'[k] # rows[k]
  <2>1. /\ rows'[k] # None /\ rows'[k] \in Row
        /\ rows[k] # None => rows[k] \in Row /\ rows'[k].version > rows[k].version
    BY <1>1, <1>8 DEF RowsGrow
  <2>2. \A b \in Claims(k) : b.version < rows'[k].version
    BY <1>3, <2>1 DEF Content, Row
  <2>3. c.version \in Nat /\ e.version \in Nat /\ rows'[k].version \in Nat
    BY <1>5, <2>1 DEF Content, Row
  <2>4. CASE c \in Claims(k) /\ e \in Claims(k)
    BY <2>1, <2>2, <2>3, <2>4 DEF ClaimInv
  <2>5. CASE IsRow(k, c)' /\ e \in Claims(k)
    BY <1>4, <1>5, <2>1, <2>2, <2>3, <2>5
  <2>6. CASE c \in Claims(k) /\ IsRow(k, e)'
    BY <1>4, <1>5, <2>1, <2>2, <2>3, <2>6
  <2>7. CASE IsRow(k, c)' /\ IsRow(k, e)'
    BY <1>4, <1>5, <1>6, <2>1, <2>3, <2>7
  <2> QED
    BY <1>2, <2>4, <2>5, <2>6, <2>7
<1> QED
  BY <1>7, <1>8
-----------------------------------------------------------------------------
LEMMA IInvInit == Init => IInv
<1> SUFFICES ASSUME Init PROVE IInv
  OBVIOUS
<1>1. /\ rows = [k \in Key |-> None] /\ seq_counter = [g \in {group_id} |-> 0]
      /\ copy = [d \in Device |-> Fresh] /\ cursor = [d \in Device |-> 0]
      /\ call = [d \in Device |-> None] /\ answer = [d \in Device |-> None]
  BY DEF Init, Store!Init, rows
<1>2. TypeInv
  BY TypeInit
<1>3. RowsOpen /\ NumberInv /\ PullInv /\ NothingMissed
  BY <1>1, NoneIsNothing DEF RowsOpen, NumberInv, PullInv, NothingMissed
<1>4. \A d \in Device : Told(d) = {}
  BY <1>1 DEF Told
<1>5. \A k \in Key : Claims(k) = {}
  BY <1>1, <1>4 DEF Claims, Fresh
<1> QED
  BY <1>2, <1>3, <1>4, <1>5 DEF IInv, ToldInv, ClaimInv

LEMMA IInvStep == ASSUME IInv, [Next]_vars PROVE IInv'
<1> USE DEF IInv
<1>1. TypeInv'
  BY TypeStep
<1>2. RowsOpen'
  BY StepGrows, OpenStep
<1>3. NumberInv'
  BY NumberStep
<1>4. PullInv'
  <2> SUFFICES ASSUME NEW d \in Device PROVE PullOf(d)'
    BY DEF PullInv, PullOf
  <2> QED
    BY PullStep
<1>5. NothingMissed'
  <2> SUFFICES ASSUME NEW d \in Device PROVE MissedNone(d)'
    BY DEF NothingMissed, MissedNone
  <2> QED
    BY MissedStep
<1>6. ToldInv' /\ ClaimInv'
  BY ToldStep, ClaimStep
<1> QED
  BY <1>1, <1>2, <1>3, <1>4, <1>5, <1>6

LEMMA Invariance == Spec => []IInv
BY IInvInit, IInvStep, PTL DEF Spec

(* Every variable of the devices and the store keeps its type; with        *)
(* nothing new a pull still returns a number.                              *)
THEOREM TypeCorrect == Spec => []TypeOK
<1>1. IInv => TypeOK
  BY DEF IInv, TypeInv
<1> QED
  BY <1>1, Invariance, PTL

(* A device has seen every row up to its cursor, whatever pulls of single  *)
(* collections, pushes and lost answers there were in between.             *)
THEOREM NothingIsMissed == Spec => []NothingMissed
<1>1. IInv => NothingMissed
  BY DEF IInv
<1> QED
  BY <1>1, Invariance, PTL

(* Every stored record opens for the devices of the group.                 *)
THEOREM StoredRecordsOpen == Spec => []RowsOpen
<1>1. IInv => RowsOpen
  BY DEF IInv
<1> QED
  BY <1>1, Invariance, PTL

(* No two devices ever saw different texts of one version of a record, and *)
(* none is ahead of the store, retries and late batches included.          *)
THEOREM NoSplits == Spec => []NoSplit
<1>1. ASSUME IInv PROVE NoSplit
  <2> SUFFICES ASSUME NEW d \in Device, NEW k \in Key, copy[d][k] # None
               PROVE  /\ rows[k] # None /\ copy[d][k].version <= rows[k].version
                      /\ copy[d][k].version = rows[k].version =>
                           copy[d][k].text = rows[k].body.text
                      /\ \A e \in Device :
                           copy[e][k] # None /\ copy[e][k].version = copy[d][k].version =>
                             copy[e][k].text = copy[d][k].text
    BY DEF NoSplit
  <2>1. \A e \in Device : copy[e][k] # None => copy[e][k] \in Claims(k)
    BY DEF Claims
  <2>2. rows[k] # None /\ copy[d][k].version <= rows[k].version
    BY <2>1, <1>1 DEF IInv, ClaimInv
  <2>3. [version |-> rows[k].version, text |-> rows[k].body.text] \in Claims(k)
    <3>1. rows[k] \in Row
      BY <1>1, <2>2 DEF IInv, TypeInv, TypeOK, rows
    <3> QED
      BY <2>2, <3>1 DEF Claims, Row, Body, Content
  <2>4. \A c, e \in Claims(k) : c.version = e.version => c = e
    BY <1>1 DEF IInv, ClaimInv
  <2> QED
    BY <2>1, <2>2, <2>3, <2>4
<1> QED
  BY <1>1, Invariance, PTL
-----------------------------------------------------------------------------
(* After an answer a device holds just the text the answer told.           *)
LEMMA SeenText ==
  ASSUME IInv, NEW d \in Device, NEW wires \in SUBSET Wire, wires = Told(d),
         NEW k \in Key, NEW w \in wires, w.key = k
  PROVE  Seen(d, wires)[k] # None /\ Seen(d, wires)[k].text = w.body.text
<1> USE DEF IInv
<1>1. /\ \A u, v \in wires : u.key = v.key => u = v
      /\ copy[d][k] # None => copy[d][k].version <= w.version
  BY DEF ToldInv
<1>2. /\ Seen(d, wires)[k] = copy[d][k] \/
           \E v \in wires : v.key = k /\ Newer(v, copy[d][k]) /\ Seen(d, wires)[k] = Saw(v)
      /\ Seen(d, wires)[k] # None /\ Seen(d, wires)[k].version >= w.version
  BY <1>1, SeenGrows DEF TypeInv
<1>3. CASE \E v \in wires : v.key = k /\ Seen(d, wires)[k] = Saw(v)
  BY <1>1, <1>2, <1>3 DEF Saw
<1>4. CASE Seen(d, wires)[k] = copy[d][k]
  <2>1. copy[d][k] \in Content /\ w.version \in Nat
    BY <1>2, <1>4 DEF TypeInv, TypeOK, Wire
  <2>2. copy[d][k].version = w.version
    BY <1>1, <1>2, <1>4, <2>1 DEF Content
  <2>3. copy[d][k] \in Claims(k) /\ Saw(w) \in Claims(k) /\ Saw(w).version = w.version
    BY <1>2, <1>4 DEF Claims, Saw
  <2>4. copy[d][k] = Saw(w)
    BY <2>2, <2>3 DEF ClaimInv
  <2> QED
    BY <1>2, <1>4, <2>4 DEF Saw
<1> QED
  BY <1>2, <1>3, <1>4

LEMMA EditStep ==
  ASSUME IInv, [Next]_vars, NEW d \in Device, NEW k \in Key,
         draft[d][k] # None, draft'[d][k] = None
  PROVE  \/ losses' > losses
         \/ copy'[d][k] # None /\ copy'[d][k].text = draft[d][k].body.text
<1> USE DEF IInv
<1> DEFINE wire == draft[d][k]
<1>1. wire \in Wire /\ wire.key = k
  BY DEF TypeInv, TypeOK, SoundInv
<1>2. CASE PushReturns(d)
  <2>1. /\ call[d] \in PushCall /\ answer[d] \in PushReply /\ answer[d] # None
        /\ copy'[d] = Seen(d, Accepted(d)) /\ Settled(d, wire) = None
    BY <1>2 DEF PushReturns, TypeInv, TypeOK, CallInv, PullCall
  <2>2. Accepted(d) = Told(d) /\ Accepted(d) \subseteq Wire
    BY <2>1, AcceptedType DEF Told, PushCall, TypeInv
  <2>3. wire \in Accepted(d)
    <3> SUFFICES ASSUME wire \notin Accepted(d) PROVE FALSE
      OBVIOUS
    <3>1. CASE \E w \in Accepted(d) : w.key = wire.key
      <4>1. PICK w \in Accepted(d) : Settled(d, wire) = Rebased(wire, w.version)
        BY <3>1 DEF Settled
      <4> QED
        BY <1>1, <2>1, <2>2, <4>1, RebasedType DEF Wire
    <3>2. CASE ~(\E w \in Accepted(d) : w.key = wire.key)
               /\ \E c \in answer[d].conflicts : c.key = wire.key
      <4>1. PICK c \in answer[d].conflicts : Settled(d, wire) = Rebased(wire, c.server_version)
        BY <3>2 DEF Settled
      <4> QED
        BY <1>1, <2>1, <4>1, RebasedType DEF PushReply
    <3>3. CASE ~(\E w \in Accepted(d) : w.key = wire.key)
               /\ ~\E c \in answer[d].conflicts : c.key = wire.key
      BY <2>1, <3>3 DEF Settled
    <3> QED
      BY <3>1, <3>2, <3>3
  <2> QED
    BY <1>1, <2>1, <2>2, <2>3, SeenText
<1>3. CASE PullReturns(d)
  <2>1. /\ call[d] \in PullCall /\ answer[d] \in PullReply /\ answer[d] # None
        /\ copy'[d] = Seen(d, answer[d].records) /\ Overtaken(d, wire) = None
    BY <1>3 DEF PullReturns, TypeInv, TypeOK, CallInv, PushCall
  <2>2. answer[d].records = Told(d) /\ answer[d].records \subseteq Wire
    BY <2>1 DEF Told, PullCall, PullReply
  <2>3. PICK w \in answer[d].records : w.key = k /\ w.body.text = wire.body.text
    <3>1. \E w \in answer[d].records : w.key = wire.key
      BY <2>1 DEF Overtaken
    <3>2. PICK w \in answer[d].records :
            /\ w = CHOOSE v \in answer[d].records : v.key = wire.key
            /\ w.key = wire.key
      BY <3>1
    <3>3. None = IF w.body.text = wire.body.text THEN None ELSE Rebased(wire, w.version)
      BY <2>1, <3>1, <3>2 DEF Overtaken
    <3>4. Rebased(wire, w.version) # None
      BY <1>1, <2>2, RebasedType DEF Wire
    <3> QED
      BY <1>1, <3>2, <3>3, <3>4
  <2> QED
    BY <2>1, <2>2, <2>3, SeenText
<1>4. CASE Reinstall(d)
  BY <1>4 DEF Reinstall, TypeInv, TypeOK
<1>5. ASSUME NEW e \in Device, NEW l \in Key, Edit(e, l) PROVE FALSE
  <2>1. draft' = [draft EXCEPT ![e][l] = EditedWire(e, l)]
    BY <1>5 DEF Edit, EditedWire
  <2>2. draft'[d][k] = draft[d][k] \/ draft'[d][k] = EditedWire(e, l)
    BY <2>1 DEF TypeInv, TypeOK
  <2> QED
    BY <2>2, EditedType, NoneIsNothing
<1>6. ASSUME NEW e \in Device, e # d, Returns(e) \/ Reinstall(e) PROVE FALSE
  BY <1>6 DEF Returns, PushReturns, PullReturns, Reinstall, TypeInv, TypeOK
<1>7. ASSUME NEW e \in Device, Pair(e) \/ Push(e) \/ Pull(e) \/ Look(e) \/ Serve(e) \/ Break(e)
      PROVE  FALSE
  BY <1>7 DEF Pair, Push, Pull, Look, Call, Serve, Break, device
<1>8. CASE Late \/ UNCHANGED vars
  BY <1>8 DEF Late, vars, device
<1> QED
  BY <1>2, <1>3, <1>4, <1>5, <1>6, <1>7, <1>8 DEF Next, Returns

(* A change stops being pending only when that very text has been stored,  *)
(* or with the whole device: neither a lost answer, nor an edit made while *)
(* the push was under way, nor a conflict loses it.                        *)
THEOREM EditsAreStored == Spec => EditsStored
<1> DEFINE Kept == \A d \in Device, k \in Key :
       draft[d][k] # None /\ draft'[d][k] = None =>
         \/ losses' > losses
         \/ copy'[d][k] # None /\ copy'[d][k].text = draft[d][k].body.text
<1>1. IInv /\ [Next]_vars => Kept
  BY EditStep
<1>2. Spec => [][Kept]_vars
  BY <1>1, Invariance, PTL DEF Spec
<1> QED
  BY <1>2 DEF EditsStored
-----------------------------------------------------------------------------
(* A sound batch does to the store what SyncStore has it do: at most one   *)
(* record is offered per key, so the one that is taken is the one that wins. *)
LEMMA UpsertIsStore ==
  ASSUME TypeOK, NEW batch \in Seq(Wire), Sound(batch), Upsert(batch),
         auth_hash[group_id] # None
  PROVE  Store!Upsert(group_id, batch)
<1> DEFINE from == seq_counter[group_id]
           to == seq_counter'[group_id]
           Offered(k) == Store!Offers(batch, Len(batch), k, rows[k])
<1>1. /\ to = from + Cardinality(Taken(batch)) /\ Cardinality(Taken(batch)) \in Nat
      /\ from \in Nat /\ UNCHANGED auth_hash
  BY UpsertType DEF TypeOK
<1>2. \A k \in Key : \A j : j \in Offered(k) <=> j \in Taken(batch) /\ batch[j].key = k
  BY DEF Store!Offers, Taken
<1>3. ASSUME NEW k \in Key
      PROVE  IF Offered(k) = {} THEN rows'[k] = rows[k]
             ELSE /\ rows'[k] # None
                  /\ rows'[k].seq > from /\ rows'[k].seq <= to
                  /\ \E j \in Offered(k) : /\ Store!Wins(batch, j, Offered(k))
                                           /\ rows'[k].version = batch[j].version
                                           /\ rows'[k].body = batch[j].body
  <2>1. CASE (\A j \in Taken(batch) : batch[j].key # k) /\ rows'[k] = rows[k]
    <3>1. Offered(k) = {}
      BY <1>2, <2>1
    <3> QED
      BY <2>1, <3>1
  <2>2. CASE \E j \in Taken(batch) :
               /\ batch[j].key = k /\ batch[j] \in Wire
               /\ \A i \in Taken(batch) : batch[i].key = k => i = j
               /\ rows'[k] = Numbered(batch, j)
    <3>1. PICK j \in Taken(batch) :
            /\ batch[j].key = k
            /\ \A i \in Taken(batch) : batch[i].key = k => i = j
            /\ rows'[k] = Numbered(batch, j)
      BY <2>2
    <3>2. Offered(k) = {j}
      BY <1>2, <3>1
    <3>3. j \in Nat
      BY DEF Taken
    <3> HIDE DEF Offered
    <3>4. Store!Wins(batch, j, Offered(k))
      BY <3>2, <3>3 DEF Store!Wins
    <3>5. /\ Numbered(batch, j) \in Row
          /\ Numbered(batch, j).version = batch[j].version
          /\ Numbered(batch, j).body = batch[j].body
          /\ Numbered(batch, j).seq > from /\ Numbered(batch, j).seq <= to
      BY <1>1, NumberedSeq
    <3>6. rows'[k] # None
      BY <3>1, <3>5, NoneIsNothing
    <3> QED
      BY <3>1, <3>2, <3>4, <3>5, <3>6
  <2> QED
    BY <2>1, <2>2, UpsertRow
<1>4. ASSUME NEW k \in Key, NEW l \in Key,
             rows'[k] # rows[k], rows'[l] # rows[l], rows'[k].seq = rows'[l].seq
      PROVE  k = l
  <2>1. PICK i \in Taken(batch) : batch[i].key = k /\ rows'[k] = Numbered(batch, i)
    BY <1>4, UpsertRow
  <2>2. PICK j \in Taken(batch) : batch[j].key = l /\ rows'[l] = Numbered(batch, j)
    BY <1>4, UpsertRow
  <2>3. i = j
    BY <1>4, <2>1, <2>2, NumberedSeq
  <2> QED
    BY <2>1, <2>2, <2>3
<1> HIDE DEF Offered
<1>5. Store!Merged(batch, Len(batch), rows, rows', from, to)
  BY <1>3, <1>4 DEF Store!Merged, Offered
<1>6. to >= from
  BY <1>1
<1> QED
  BY <1>1, <1>5, <1>6 DEF Store!Upsert, rows

LEMMA StoreStep ==
  ASSUME TypeInv, [Next]_vars
  PROVE  \/ UNCHANGED store
         \/ Store!Register(group_id, auth_hash_of_keys)
         \/ \E batch \in limbo \cup {call[d].batch : d \in
                {e \in Device : call[e] \in PushCall}} : Store!Upsert(group_id, batch)
<1> TypeOK
  BY DEF TypeInv
<1>1. CASE Late
  <2>1. PICK batch \in limbo :
          IF auth_hash[group_id] # None THEN Upsert(batch) ELSE UNCHANGED store
    BY <1>1 DEF Late
  <2>2. batch \in Seq(Wire) /\ Sound(batch)
    BY DEF TypeOK, TypeInv, SoundInv
  <2> QED
    BY <2>1, <2>2, UpsertIsStore
<1>2. ASSUME NEW d \in Device, Serve(d), call[d].op = "push", auth_hash[group_id] # None
      PROVE  call[d] \in PushCall /\ Store!Upsert(group_id, call[d].batch)
  <2>1. call[d] \in PushCall
    BY <1>2 DEF Serve, TypeOK, PairCall, PullCall
  <2>2. call[d].batch \in Seq(Wire) /\ Sound(call[d].batch) /\ Upsert(call[d].batch)
    BY <1>2, <2>1 DEF Serve, PushCall, TypeInv, SoundInv
  <2> QED
    BY <1>2, <2>1, <2>2, UpsertIsStore
<1>3. ASSUME NEW d \in Device, Serve(d), call[d].op # "push" \/ auth_hash[group_id] = None
      PROVE  UNCHANGED store \/ Store!Register(group_id, auth_hash_of_keys)
  BY <1>3 DEF Serve
<1>4. ASSUME NEW d \in Device,
             Pair(d) \/ Push(d) \/ Pull(d) \/ Look(d) \/ Returns(d) \/ Break(d) \/ Reinstall(d)
      PROVE  UNCHANGED store
  BY <1>4 DEF Pair, Push, Pull, Look, Call, Returns, PushReturns, PullReturns, Return,
              Break, Reinstall
<1>5. ASSUME NEW d \in Device, NEW k \in Key, Edit(d, k) PROVE UNCHANGED store
  BY <1>5 DEF Edit
<1>6. CASE UNCHANGED vars
  BY <1>6 DEF vars
<1> QED
  BY <1>1, <1>2, <1>3, <1>4, <1>5, <1>6 DEF Next

(* However calls overlap, fail and repeat, the store only ever takes a     *)
(* registration or one whole batch that a device made: SyncStore's steps.  *)
THEOREM StoreRefined == Spec => StoreSteps
<1> DEFINE Stored ==
      \/ UNCHANGED store
      \/ Store!Register(group_id, auth_hash_of_keys)
      \/ \E batch \in limbo \cup {call[d].batch : d \in
             {e \in Device : call[e] \in PushCall}} : Store!Upsert(group_id, batch)
<1>1. IInv /\ [Next]_vars => Stored
  BY StoreStep DEF IInv
<1>2. Spec => [][Stored]_vars
  BY <1>1, Invariance, PTL DEF Spec
<1> QED
  BY <1>2, PTL DEF StoreSteps
-----------------------------------------------------------------------------
(* The store of the one group, with every batch a device could make.       *)
Promised == INSTANCE SyncStore
              WITH Group <- {group_id}, AuthHash <- {auth_hash_of_keys},
                   Batch <- Seq(Wire)

LEMMA PromisedStep ==
  ASSUME IInv, [Next]_vars
  PROVE  [Promised!Next]_store
<1>1. CASE UNCHANGED store
  BY <1>1
<1>2. CASE Store!Register(group_id, auth_hash_of_keys)
  <2>1. Promised!Register(group_id, auth_hash_of_keys)
    BY <1>2 DEF Store!Register, Promised!Register
  <2> QED
    BY <2>1 DEF Promised!Next
<1>3. ASSUME NEW batch \in limbo \cup {call[d].batch : d \in
               {e \in Device : call[e] \in PushCall}},
             Store!Upsert(group_id, batch)
      PROVE  Promised!Next
  <2>1. batch \in Seq(Wire)
    BY DEF IInv, TypeInv, TypeOK, PushCall
  <2>2. Promised!Upsert(group_id, batch)
    BY <1>3 DEF Store!Upsert, Promised!Upsert, Store!Merged, Promised!Merged,
                Store!Offers, Promised!Offers, Store!Beats, Promised!Beats,
                Store!Wins, Promised!Wins
  <2> QED
    BY <2>1, <2>2 DEF Promised!Next
<1> QED
  BY <1>1, <1>2, <1>3, StoreStep DEF IInv

(* What the devices make of the store, with calls lost, late or made       *)
(* twice, is a behaviour of SyncStore from its first state on: what        *)
(* SyncServer is shown to implement.                                       *)
THEOREM StoreImplemented == Spec => Promised!Spec
<1>1. Init => Promised!Init
  BY DEF Init, Store!Init, Promised!Init
<1>2. IInv /\ [Next]_vars => [Promised!Next]_Promised!vars
  BY PromisedStep DEF store, Promised!vars
<1> QED
  BY <1>1, <1>2, Invariance, PTL DEF Spec, Promised!Spec
-----------------------------------------------------------------------------
(* A device that has pulled up to the number of the last row.              *)
CaughtUp(d) == cursor[d] = seq_counter[group_id]

LevelWithStore ==
  \A d \in Device : CaughtUp(d) => \A k \in Key :
    copy[d][k] = IF rows[k] = None THEN None
                 ELSE [version |-> rows[k].version, text |-> rows[k].body.text]

LEMMA CaughtUpIsLevel == ASSUME IInv, NoSplit PROVE LevelWithStore
<1> SUFFICES ASSUME NEW d \in Device, CaughtUp(d), NEW k \in Key
             PROVE  copy[d][k] = IF rows[k] = None THEN None
                      ELSE [version |-> rows[k].version, text |-> rows[k].body.text]
  BY DEF LevelWithStore
<1>1. copy[d][k] \in Content \cup {None} /\ rows[k] \in Row \cup {None}
  BY DEF IInv, TypeInv, TypeOK, rows
<1>2. CASE rows[k] = None
  BY <1>2 DEF NoSplit
<1>3. CASE rows[k] # None
  <2>1. rows[k].seq <= cursor[d]
    BY <1>3 DEF IInv, NumberInv, CaughtUp
  <2>2. copy[d][k] # None /\ copy[d][k].version >= rows[k].version
    BY <1>3, <2>1 DEF IInv, NothingMissed
  <2>3. copy[d][k] \in Content /\ rows[k] \in Row
    BY <1>1, <1>3, <2>2
  <2>4. copy[d][k].version <= rows[k].version
    BY <2>2 DEF NoSplit
  <2>5. copy[d][k].version = rows[k].version
    BY <2>2, <2>3, <2>4 DEF Content, Row
  <2>6. copy[d][k].text = rows[k].body.text
    BY <2>2, <2>5 DEF NoSplit
  <2> QED
    BY <1>3, <2>3, <2>5, <2>6 DEF Content
<1> QED
  BY <1>2, <1>3

(* The part of sync/PROTOCOL.md section 4, "every device converges", that  *)
(* needs no fairness: a device whose cursor has come to the server's       *)
(* number has just what the store has, whichever of its calls were lost,   *)
(* repeated or late; so two that have come there agree on everything.      *)
THEOREM CaughtUpDevicesAgree == Spec => [](LevelWithStore /\
  \A d, e \in Device : CaughtUp(d) /\ CaughtUp(e) => copy[d] = copy[e])
<1>1. IInv /\ NoSplit => LevelWithStore
  BY CaughtUpIsLevel
<1>2. ASSUME IInv, LevelWithStore, NEW d \in Device, NEW e \in Device,
             CaughtUp(d), CaughtUp(e)
      PROVE  copy[d] = copy[e]
  <2>1. \A k \in Key : copy[d][k] = copy[e][k]
    BY <1>2 DEF LevelWithStore
  <2>2. copy[d] \in [Key -> Content \cup {None}] /\ copy[e] \in [Key -> Content \cup {None}]
    BY <1>2 DEF IInv, TypeInv, TypeOK
  <2> QED
    BY <2>1, <2>2
<1>3. IInv /\ NoSplit => LevelWithStore /\
        \A d, e \in Device : CaughtUp(d) /\ CaughtUp(e) => copy[d] = copy[e]
  BY <1>1, <1>2
<1> QED
  BY <1>3, Invariance, NoSplits, PTL
=============================================================================
