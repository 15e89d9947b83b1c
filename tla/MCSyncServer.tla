---------------------------- MODULE MCSyncServer -----------------------------
(* Small instances of SyncServer for TLC.                                  *)
EXTENDS SyncServer

CONSTANTS t1, t2, g1, g2, s1, s2, c1, c2, i1, i2, a, b

k1 == <<c1, i1>>
k2 == <<c2, i1>>

W(k, v, body) == [key |-> k, version |-> v, body |-> body]

(* Batches: a first write, two rivals of which the second raises a key,    *)
(* repeats it and writes another, one that cannot be stored, and two the   *)
(* payload checks refuse.                                                  *)
First    == <<W(k1, 1, a)>>
Rival    == <<W(k1, 1, b)>>
Repeat   == <<W(k1, 2, a), W(k1, 1, b), W(k2, 1, a)>>
Poisoned == <<W(k2, 1, Null)>>
Bad      == <<W(k1, 2, b), Malformed>>
TooLong  == <<W(k1, 1, a), W(k1, 1, a), W(k1, 1, a), W(k1, 1, a)>>

Pair(s) == [op |-> "pair", hash |-> Sha256(s)]
PairNull == [op |-> "pair", hash |-> Null]
Push(batch) == [op |-> "push", batch |-> batch]
PullOf(c, since) == [op |-> "pull", collection |-> c, since |-> since]

Signed(g, s, call) ==
  [group |-> g, token |-> s, proof |-> Hmac(s, call), call |-> call]

(* Two secrets compete for one group, whose members write and read; a      *)
(* second group registers beside it, and its commit or its rollback may    *)
(* settle what the first left uncommitted.                                 *)
Requests ==
  {Signed(g1, s, Pair(s)) : s \in {s1, s2}}
  \cup {Signed(g1, s1, call) : call \in
          {Push(Rival), Push(Repeat), Push(Poisoned), Push(Bad),
           PullOf(None, 1)}}
  \cup {Signed(g2, s2, Pair(s2))}

(* No group's registration breaks off here: SQLite never fails.            *)
Refused ==
  {Signed(g1, s1, Pair(s1)), Signed(g2, s2, PairNull)}
  \cup {Signed(g1, s1, Push(batch)) : batch \in {First, Bad, TooLong}}
=============================================================================
