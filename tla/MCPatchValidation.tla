-------------------------- MODULE MCPatchValidation --------------------------
(* An instance of PatchValidation for TLC: a file of chromium/src, a file  *)
(* of a repository nested in another's directory, a file of the outer one  *)
(* and a new file.                                                         *)
EXTENDS PatchValidation

x == <<"x">>
o == <<"v8", "o">>
n == <<"v8", "third_party", "n">>
new == <<"new">>

Files == {x, o, n, new}
Outer == <<"v8">>
Inner == <<"v8", "third_party">>

AllDeps == {Outer, Inner}

PinnedTree == [p \in Files |-> IF p = new THEN None ELSE {1, 2}]

Edit(from, to) == [old |-> {from}, new |-> {to}]
Add    == [old |-> None, new |-> {1}]
Delete == [old |-> {1, 2}, new |-> None]

On(p, change) == [q \in {p} |-> change]
Both(p, change, r, other) == [q \in {p, r} |-> IF q = p THEN change ELSE other]

Stacked  == <<Both(x, Edit(1, 3), n, Edit(2, 3)), Both(x, Edit(3, 1), o, Edit(2, 1))>>
Created  == <<Both(new, Add, n, Edit(1, 2)), On(new, Edit(1, 2)), On(x, Edit(2, 3))>>
Replaced == <<On(x, Delete), On(x, Add), On(x, Edit(1, 2))>>
Rotten   == <<Both(x, Edit(3, 1), o, Edit(1, 3)), On(o, Edit(3, 2))>>
Absent   == <<On(new, Edit(1, 2)), On(x, Edit(1, 2))>>

(* The first patch is skipped for a file that is absent: the second is     *)
(* wrongly reported, for what the full tree has of the first; the third    *)
(* rightly.                                                                *)
Skipped  == <<Both(new, Edit(1, 2), x, Edit(1, 3)), On(x, Edit(3, 2)), On(n, Edit(3, 1))>>

(* A file the pin has is added, or a deleted one is edited.                *)
AddsOver == <<On(x, Add), On(n, Edit(1, 2))>>
Revived  == <<On(o, Delete), On(o, Edit(1, 2))>>

Single == {On(p, c) : p \in {x, n, new}, c \in {Edit(1, 3), Edit(3, 1), Add, Delete}}

AllSeries ==
  {Stacked, Created, Replaced, Rotten, Absent, Skipped, AddsOver, Revived}
  \cup {<<p, q>> : p \in Single, q \in Single}
=============================================================================
