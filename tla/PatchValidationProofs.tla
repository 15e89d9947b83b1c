------------------------ MODULE PatchValidationProofs ------------------------
(***************************************************************************)
(* Why the validator's verdicts mean what they say, for every series, tree *)
(* and DEPS file, and any number of runs, failed requests and interrupts.  *)
(*                                                                         *)
(* None of the three verdict properties is inductive.  RunInv says where   *)
(* in a run the sparse tree still lacks a file and why; CacheInv that the  *)
(* cache holds parts of the pinned files, and all of them as long as no    *)
(* run was broken off; PassInv that without a failure the sparse tree has  *)
(* no more than the full one, where a plain patch that fits the smaller    *)
(* fits the larger; AlarmInv that in files no refused patch has touched    *)
(* the sparse tree is level with the full one, but for the ones deleted.   *)
(* ExactInv, at the end, that for an orderly series the two differ only in *)
(* files that were not fetched yet.                                        *)
(***************************************************************************)
EXTENDS PatchValidation, TLAPS

Mid == pc \notin {"ended", "patch"}

Fetching == pc \in {"src", "deps", "write_deps", "subrepo", "write"}

RunInv ==
  /\ Mid => todo \subseteq Preimages(series[index])
  /\ Fetching => tree[path] = None
  /\ pc \in {"deps", "write_deps", "subrepo"} =>
       \A p \in Path : p = path => ~Serves(None, p)
  /\ mode = "isolated" => built = Pin
  /\ result # None => pc = "ended"
  /\ result = 0 => ~failures
  /\ result = 1 => failures

CacheInv ==
  /\ \A p \in Path : cache[p] \notin {None, ABSENT} =>
       Pin[p] # None /\ cache[p] \subseteq Pin[p]
  /\ ~interrupted => dep_map \in {None, Deps}
  /\ CacheIsThePin

Below(p) ==
  /\ tree[p] # None => built[p] # None /\ tree[p] \subseteq built[p]
  /\ tree[p] = None => built[p] = Pin[p]
  /\ Pin[p] = None => tree[p] = built[p]

PassInv ==
  Plain /\ ~failures => applies /\ \A p \in Path : Below(p)

Level(p) ==
  \/ tree[p] = built[p]
  \/ tree[p] = None /\ built[p] = Pin[p]
  \/ Mid /\ p \in Preimages(series[index]) /\ built[p] = None

AlarmInv ==
  /\ mode = "isolated" => spoiled = {}
  /\ ~interrupted =>
       /\ Mid \/ (pc = "patch" /\ mode = "series") => \A p \in Path \ spoiled : Level(p)
       /\ Mid => \A p \in Preimages(series[index]) \ (todo \cup spoiled) :
                   tree[p] # None \/ built[p] = None
       /\ Mid /\ problems => \E p \in Preimages(series[index]) :
                               p \in spoiled \/ built[p] = None

IInv == TypeOK /\ RunInv /\ CacheInv /\ PassInv /\ AlarmInv
-----------------------------------------------------------------------------
(* A series of the instance is a sequence of patches.                      *)
LEMMA PatchType ==
  ASSUME series \in Series, NEW i \in 1 .. Len(series)
  PROVE  /\ Len(series) \in Nat
         /\ DOMAIN series[i] \subseteq Path
         /\ \A p \in DOMAIN series[i] : series[i][p] \in Change
  BY SeriesAssumption DEF IsPatch

(* No file, no answer and a marker are none of a file's contents.          *)
LEMMA NoneIsNoContent ==
  /\ \A c \in Content : c # None /\ c # ABSENT
  /\ \A m \in SUBSET Deps : m # None /\ m # Broken
  /\ ABSENT # None /\ Broken # None /\ None # 0 /\ None # 1
  BY NoneAssumption

(* What a change makes of a file it fits is a file, or none.               *)
LEMMA AfterType ==
  ASSUME NEW content \in {None} \cup Content, NEW change \in Change,
         Fits(content, change)
  PROVE  After(content, change) \in {None} \cup Content
  BY DEF Fits, After, Change, Content

LEMMA PatchedType ==
  ASSUME NEW files \in Tree, NEW patch, DOMAIN patch \subseteq Path,
         \A p \in DOMAIN patch : patch[p] \in Change
  PROVE  Patched(files, patch) \in Tree
<1> SUFFICES ASSUME NEW p \in Path
             PROVE  (IF p \in DOMAIN patch /\ Fits(files[p], patch[p])
                     THEN After(files[p], patch[p]) ELSE files[p]) \in {None} \cup Content
  BY DEF Patched, Tree
<1>1. files[p] \in {None} \cup Content
  BY DEF Tree
<1>2. CASE p \in DOMAIN patch /\ Fits(files[p], patch[p])
  BY <1>1, <1>2, AfterType
<1>3. CASE ~(p \in DOMAIN patch /\ Fits(files[p], patch[p]))
  BY <1>1, <1>3
<1> QED
  BY <1>2, <1>3

(* Patching, file by file.                                                 *)
LEMMA PatchedFile ==
  ASSUME NEW files, NEW patch, NEW p \in Path
  PROVE  /\ p \in DOMAIN patch /\ Fits(files[p], patch[p]) =>
              Patched(files, patch)[p] = After(files[p], patch[p])
         /\ ~(p \in DOMAIN patch /\ Fits(files[p], patch[p])) =>
              Patched(files, patch)[p] = files[p]
  BY DEF Patched

(* The preimage looked at is one of those still to look at.                *)
LEMMA PathIsTodo == todo # {} => path \in todo
  BY DEF path
-----------------------------------------------------------------------------
LEMMA TypeInit == Init => TypeOK
<1> SUFFICES ASSUME Init PROVE TypeOK
  OBVIOUS
<1>1. Len(series) \in Nat /\ 1 \in 1 .. Len(series) + 1 /\ 1 \in 1 .. FETCH_RETRIES
  BY SeriesAssumption, RetriesAssumption DEF Init
<1>2. Pin \in Tree /\ NoFiles \in Tree
  BY PinAssumption DEF NoFiles, Tree
<1> QED
  BY <1>1, <1>2 DEF Init, TypeOK

LEMMA SettleType ==
  ASSUME TypeOK, todo # {}, pc \notin {"ended", "patch"}, NEW content \in {None} \cup Content, Settle(content),
         cache' \in [Path -> {None, ABSENT} \cup Content],
         deps_file' \in {None, Broken} \cup SUBSET Deps
  PROVE  TypeOK'
<1>1. problems' \in BOOLEAN /\ offline' \in BOOLEAN /\ failures' \in BOOLEAN
      /\ applies' \in BOOLEAN /\ interrupted' \in BOOLEAN
  BY DEF Settle, TypeOK
<1>2. pc' = "materialize" /\ todo' \subseteq Path /\ attempt' \in 1 .. FETCH_RETRIES
  BY RetriesAssumption DEF Settle, TypeOK
<1>3. tree' \in Tree /\ built' \in Tree /\ spoiled' \subseteq Path
  BY DEF Settle, TypeOK, Tree
<1>4. series' \in Series /\ index' \in 1 .. Len(series') /\ index' \in 1 .. Len(series') + 1
  BY SeriesAssumption DEF Settle, TypeOK
<1>5. UNCHANGED <<mode, dep_map, result, runs>>
  BY DEF Settle
<1> QED
  BY <1>1, <1>2, <1>3, <1>4, <1>5 DEF TypeOK

LEMMA TypeStep == ASSUME TypeOK, [Next]_vars PROVE TypeOK'
<1> USE DEF TypeOK
<1>1. Len(series) \in Nat /\ 1 \in 1 .. Len(series) + 1 /\ 1 \in 1 .. FETCH_RETRIES
  BY SeriesAssumption, RetriesAssumption
<1>2. Pin \in Tree /\ NoFiles \in Tree
  BY PinAssumption DEF NoFiles, Tree
<1>3. /\ todo # {} => path \in Path /\ Pin[path] \in {None} \cup Content
      /\ todo' = todo => path' = path
  BY <1>2, PathIsTodo DEF Tree, path
<1>4. ASSUME NEW m \in {"series", "isolated"}, NEW off \in BOOLEAN, Begin(m, off)
      PROVE TypeOK'
  <2>1. problems' \in BOOLEAN /\ failures' \in BOOLEAN /\ applies' \in BOOLEAN /\ offline' \in BOOLEAN
    BY <1>4 DEF Begin
  <2>2. built' \in Tree /\ tree' \in Tree /\ spoiled' = {} /\ cache' = cache /\ deps_file' = deps_file /\ series' = series
    BY <1>2, <1>4 DEF Begin, disk
  <2>3. runs' \in Nat /\ interrupted' \in BOOLEAN /\ result' \in {0,1,None} 
    BY <1>2, <1>4 DEF Begin, disk
  <2>4. index' \in 1 .. Len(series') + 1 /\ attempt' \in 1 .. FETCH_RETRIES
    BY <1>1, <1>2, <1>4 DEF Begin, disk
  <2>5. pc' = "patch" /\ todo' = {} /\ dep_map' = None /\ mode' \in {"series", "isolated"}
    BY <1>1, <1>2, <1>4 DEF Begin, disk
  <2> QED
  BY <2>1, <2>2, <2>3, <2>4, <2>5
<1>5. CASE NextPatch
  <2>1. problems' \in BOOLEAN /\ UNCHANGED <<offline, failures, applies, interrupted>>
    BY <1>5 DEF NextPatch
  <2>2. tree' \in Tree /\ built' \in Tree /\ spoiled' \subseteq Path
    BY <1>2, <1>5 DEF NextPatch
  <2>3. todo' \subseteq Path
    BY <1>5, PatchType DEF NextPatch, Preimages
  <2>4. pc' = "materialize" /\ index' <= Len(series')
        /\ UNCHANGED <<series, cache, deps_file, mode, index, attempt, dep_map, result, runs>>
    BY <1>5 DEF NextPatch, disk
  <2> QED
    BY <1>1, <2>1, <2>2, <2>3, <2>4
<1>6. CASE Summary
  BY <1>3, <1>6 DEF Summary, End, run, disk
<1>7. CASE Materialize
  <2> pc = "materialize" /\ todo # {} /\ UNCHANGED disk
    BY <1>7 DEF Materialize
  <2>1. CASE tree[path] # None
    BY <1>3, <1>7, <2>1, SettleType DEF Materialize, disk, Tree
  <2>2. CASE tree[path] = None /\ cache[path] # None
    <3>1. cache[path] \in {None, ABSENT} \cup Content
      BY <1>3
    <3> QED
      BY <1>7, <2>2, <3>1, SettleType DEF Materialize, disk
  <2>3. CASE tree[path] = None /\ cache[path] = None /\ offline
    BY <1>3, <1>7, <2>3 DEF Materialize, End, run, disk
  <2>4. CASE tree[path] = None /\ cache[path] = None /\ ~offline
    BY <1>1, <1>3, <1>7, <2>4 DEF Materialize, Goto, run, disk
  <2> QED
    BY <2>1, <2>2, <2>3, <2>4
<1>8. CASE FetchFromSrc
  BY <1>3, <1>8, RetriesAssumption DEF FetchFromSrc, Retry, End, Goto, Serves, run, disk
<1>9. CASE LoadDepMap
  BY <1>3, <1>9 DEF LoadDepMap, End, Goto, run, disk
<1>10. CASE WriteDeps
  BY <1>3, <1>10, NoneIsNoContent DEF WriteDeps, Goto, run
<1>11. CASE FetchSubrepo
  <2> pc = "subrepo" /\ todo # {} /\ UNCHANGED deps_file
    BY <1>11 DEF FetchSubrepo
  <2>1. CASE cache' = [cache EXCEPT ![path] = ABSENT] /\ Settle(None)
    BY <1>3, <2>1, SettleType
  <2>2. CASE Goto("write") /\ UNCHANGED <<cache, attempt, dep_map>> /\ Pin[path] # None
    BY <1>3, <2>2 DEF Goto, run
  <2>3. CASE End(None) /\ UNCHANGED <<cache, interrupted>>
    BY <1>3, <2>3 DEF End, run
  <2> QED
    BY <1>11, <2>1, <2>2, <2>3 DEF FetchSubrepo, Serves
<1>12. CASE Write
  BY <1>1, <1>3, <1>12 DEF Write, Settle, Tree
<1>13. CASE ApplyPatch
  BY <1>1, <1>13, PatchType, PatchedType DEF ApplyPatch, AfterPatch, AllFit, disk
<1>14. CASE Interrupt
  BY <1>3, <1>14 DEF Interrupt, End, run, disk, Content
<1>15. CASE UNCHANGED vars
  BY <1>3, <1>15 DEF vars, run, disk
<1> QED
  BY <1>4, <1>5, <1>6, <1>7, <1>8, <1>9, <1>10, <1>11, <1>12, <1>13, <1>14, <1>15 DEF Next

(* Every variable of the validator keeps its type: no try beyond           *)
(* FETCH_RETRIES, and nothing is written that the pin does not have.       *)
THEOREM TypeCorrect == Spec => []TypeOK
BY TypeInit, TypeStep, PTL DEF Spec
-----------------------------------------------------------------------------
(* The end of a run leaves nothing of RunInv but its verdict.              *)
LEMMA RunEnd ==
  ASSUME RunInv, NEW status \in {0, 1, None}, End(status),
         status = 0 => ~failures, status = 1 => failures
  PROVE  RunInv'
<1>1. pc' = "ended" /\ result' = status /\ UNCHANGED <<mode, built, failures>>
  BY DEF End, run
<1>2. ~Mid' /\ ~Fetching'
  BY <1>1 DEF Mid, Fetching
<1> QED
  BY <1>1, <1>2 DEF RunInv

(* Nor does going on to another place of the same fetch.                   *)
LEMMA RunGoto ==
  ASSUME RunInv, TypeOK, Mid, todo # {}, NEW label, Goto(label), label # "ended",
         tree[path] = None,
         label \in {"deps", "write_deps", "subrepo"} =>
           \A p \in Path : p = path => ~Serves(None, p)
  PROVE  RunInv'
<1>1. pc' = label /\ UNCHANGED <<series, index, todo, tree, mode, built, failures, result>>
  BY DEF Goto, run
<1>2. path' = path
  BY <1>1 DEF path
<1>3. result = None
  BY DEF RunInv, Mid
<1>4. (todo \subseteq Preimages(series[index]))'
  BY <1>1 DEF RunInv, Preimages
<1>5. label \in {"deps", "write_deps", "subrepo"} =>
        \A p \in Path : p = path' => ~Serves(None, p)
  BY <1>2
<1> QED
  BY <1>1, <1>2, <1>3, <1>4, <1>5, NoneIsNoContent DEF RunInv

LEMMA RunSettle ==
  ASSUME RunInv, Mid, NEW content, Settle(content)
  PROVE  RunInv'
<1>1. /\ pc' = "materialize" /\ todo' \subseteq todo
      /\ UNCHANGED <<series, index, mode, built, failures, result>>
  BY DEF Settle
<1>2. result = None
  BY DEF RunInv, Mid
<1>3. (todo \subseteq Preimages(series[index]))'
  BY <1>1 DEF RunInv, Preimages
<1>4. ~Fetching'
  BY <1>1 DEF Fetching
<1> QED
  BY <1>1, <1>2, <1>3, <1>4, NoneIsNoContent DEF RunInv

LEMMA RunStep == ASSUME TypeOK, RunInv, [Next]_vars PROVE RunInv'
<1>1. ASSUME NEW m \in {"series", "isolated"}, NEW off \in BOOLEAN, Begin(m, off)
      PROVE RunInv'
  BY <1>1, NoneIsNoContent DEF Begin, RunInv, Mid, Fetching
<1>2. CASE NextPatch
  <2>1. /\ pc' = "materialize" /\ todo' = Preimages(series[index])
        /\ UNCHANGED <<series, index, mode, built, failures, result>>
        /\ result = None
    BY <1>2 DEF NextPatch, RunInv
  <2> QED
    BY <2>1, NoneIsNoContent DEF RunInv, Mid, Fetching, Preimages
<1>3. CASE Summary
  BY <1>3, RunEnd, NoneIsNoContent DEF Summary
<1>4. CASE Materialize
  <2> Mid /\ todo # {}
    BY <1>4 DEF Materialize, Mid
  <2>1. CASE tree[path] # None \/ cache[path] # None
    BY <1>4, <2>1, RunSettle DEF Materialize
  <2>2. CASE tree[path] = None /\ cache[path] = None
    BY <1>4, <2>2, RunEnd, RunGoto, NoneIsNoContent DEF Materialize
  <2> QED
    BY <2>1, <2>2
<1>5. CASE FetchFromSrc
  <2> Mid /\ todo # {} /\ tree[path] = None
    BY <1>5 DEF FetchFromSrc, Mid, RunInv, TypeOK, Fetching
  <2>1. CASE Retry
    BY <2>1, RunEnd, RunGoto, NoneIsNoContent DEF Retry
  <2>2. CASE End(None)
    BY <2>2, RunEnd, NoneIsNoContent
  <2>3. CASE Goto(IF Serves(None, path) THEN "write" ELSE "deps")
    <3>1. CASE Serves(None, path)
      BY <2>3, <3>1, RunGoto
    <3>2. CASE ~Serves(None, path)
      BY <2>3, <3>2, RunGoto
    <3> QED
      BY <3>1, <3>2
  <2> QED
    BY <1>5, <2>1, <2>2, <2>3 DEF FetchFromSrc
<1>6. CASE LoadDepMap
  <2> Mid /\ todo # {} /\ tree[path] = None /\ \A p \in Path : p = path => ~Serves(None, p)
    BY <1>6 DEF LoadDepMap, Mid, RunInv, TypeOK, Fetching
  <2> QED
    BY <1>6, RunEnd, RunGoto, NoneIsNoContent DEF LoadDepMap
<1>7. CASE WriteDeps
  <2> Mid /\ todo # {} /\ tree[path] = None /\ \A p \in Path : p = path => ~Serves(None, p)
    BY <1>7 DEF WriteDeps, Mid, RunInv, TypeOK, Fetching
  <2> QED
    BY <1>7, RunGoto DEF WriteDeps
<1>8. CASE FetchSubrepo
  <2> Mid /\ todo # {} /\ tree[path] = None
    BY <1>8 DEF FetchSubrepo, Mid, RunInv, TypeOK, Fetching
  <2> QED
    BY <1>8, RunEnd, RunGoto, RunSettle, NoneIsNoContent DEF FetchSubrepo
<1>9. CASE Write
  BY <1>9, RunSettle DEF Write, Mid
<1>10. CASE ApplyPatch
  <2>1. /\ pc' = "patch" /\ result = None
        /\ UNCHANGED <<mode, result>> /\ (mode = "isolated" => built' = built)
    BY <1>10 DEF ApplyPatch, RunInv
  <2> QED
    BY <2>1, NoneIsNoContent DEF RunInv, Mid, Fetching
<1>11. CASE Interrupt
  BY <1>11, RunEnd, NoneIsNoContent DEF Interrupt
<1>12. CASE UNCHANGED vars
  BY <1>12 DEF vars, run, disk, path, RunInv, Mid, Fetching, Preimages
<1> QED
  BY <1>1, <1>2, <1>3, <1>4, <1>5, <1>6, <1>7, <1>8, <1>9, <1>10, <1>11, <1>12 DEF Next
-----------------------------------------------------------------------------
LEMMA CacheKept ==
  ASSUME CacheInv, UNCHANGED disk, interrupted \in BOOLEAN, interrupted => interrupted',
         ~interrupted' => dep_map' \in {None, Deps}
  PROVE  CacheInv'
BY DEF CacheInv, CacheIsThePin, disk

(* Without an interrupt, DEPS is whole, and so a file is marked absent     *)
(* only if neither chromium/src nor the repository it belongs to has it.   *)
LEMMA CacheStep == ASSUME TypeOK, RunInv, CacheInv, [Next]_vars PROVE CacheInv'
<1> interrupted \in BOOLEAN /\ (todo # {} => path \in Path)
  BY PathIsTodo DEF TypeOK
<1>1. ASSUME NEW m \in {"series", "isolated"}, NEW off \in BOOLEAN, Begin(m, off)
      PROVE CacheInv'
  BY <1>1, CacheKept DEF Begin
<1>2. CASE NextPatch
  BY <1>2, CacheKept DEF NextPatch, CacheInv
<1>3. CASE Summary
  BY <1>3, CacheKept DEF Summary, End, CacheInv
<1>4. CASE Materialize
  BY <1>4, CacheKept DEF Materialize, Settle, End, Goto, CacheInv
<1>5. CASE FetchFromSrc
  BY <1>5, CacheKept DEF FetchFromSrc, Retry, End, Goto, CacheInv
<1>6. CASE LoadDepMap
  BY <1>6, CacheKept, NoneIsNoContent DEF LoadDepMap, End, Goto, CacheInv, CacheIsThePin
<1>7. CASE WriteDeps
  <2>1. deps_file' = Deps /\ dep_map' = Deps /\ UNCHANGED <<cache, interrupted>>
    BY <1>7 DEF WriteDeps, Goto
  <2> QED
    BY <2>1 DEF CacheInv, CacheIsThePin
<1>8. CASE FetchSubrepo
  <2> /\ pc = "subrepo" /\ todo # {} /\ UNCHANGED deps_file
      /\ dep_map # None /\ ~Serves(None, path)
    BY <1>8 DEF FetchSubrepo, TypeOK, RunInv
  <2>1. CASE UNCHANGED cache
    BY <1>8, <2>1, CacheKept DEF FetchSubrepo, Settle, End, Goto, CacheInv, disk
  <2>2. CASE /\ Resolve(path, dep_map) = None \/ ~Serves(Resolve(path, dep_map), path)
             /\ cache' = [cache EXCEPT ![path] = ABSENT]
             /\ Settle(None)
    <3>1. UNCHANGED <<interrupted, dep_map>>
      BY <2>2 DEF Settle
    <3>2. ~interrupted => Pin[path] = None
      BY <2>2 DEF CacheInv, Serves
    <3>3. \A p \in Path : cache'[p] = IF p = path THEN ABSENT ELSE cache[p]
      BY <2>2 DEF TypeOK
    <3> QED
      BY <3>1, <3>2, <3>3 DEF CacheInv, CacheIsThePin
  <2> QED
    BY <1>8, <2>1, <2>2 DEF FetchSubrepo
<1>9. CASE Write
  <2>1. /\ todo # {} /\ Pin[path] # None
        /\ UNCHANGED <<deps_file, interrupted, dep_map>>
    BY <1>9 DEF Write, Settle, TypeOK
  <2>2. \A p \in Path : cache'[p] = IF p = path THEN Pin[path] ELSE cache[p]
    BY <1>9 DEF Write, TypeOK
  <2> QED
    BY <2>1, <2>2 DEF CacheInv, CacheIsThePin
<1>10. CASE ApplyPatch
  BY <1>10, CacheKept DEF ApplyPatch, CacheInv
<1>11. CASE Interrupt
  <2>1. interrupted' = TRUE
    BY <1>11 DEF Interrupt
  <2>2. CASE pc = "write"
    <3>1. todo # {} /\ Pin[path] # None
      BY <2>2 DEF TypeOK
    <3>2. PICK part \in SUBSET Pin[path] : cache' = [cache EXCEPT ![path] = part]
      BY <1>11, <2>2 DEF Interrupt
    <3>3. \A p \in Path : cache'[p] = IF p = path THEN part ELSE cache[p]
      BY <3>2 DEF TypeOK
    <3> QED
      BY <2>1, <3>1, <3>2, <3>3 DEF CacheInv, CacheIsThePin
  <2>3. CASE pc # "write"
    BY <1>11, <2>1, <2>3 DEF Interrupt, CacheInv, CacheIsThePin
  <2> QED
    BY <2>2, <2>3
<1>12. CASE UNCHANGED vars
  BY <1>12, CacheKept DEF vars, CacheInv
<1> QED
  BY <1>1, <1>2, <1>3, <1>4, <1>5, <1>6, <1>7, <1>8, <1>9, <1>10, <1>11, <1>12 DEF Next
-----------------------------------------------------------------------------
LEMMA PassKept ==
  ASSUME PassInv, UNCHANGED <<series, failures, applies, tree, built>>
  PROVE  PassInv'
BY DEF PassInv, Below, Plain, Adds, Deletes

(* A file comes into the sparse tree only where the full tree still has    *)
(* what the pin has, and the cache has no more than the pin.               *)
LEMMA PassSettle ==
  ASSUME TypeOK, PassInv, todo # {}, NEW content \in {None} \cup Content, Settle(content),
         content = tree[path] \/
           (tree[path] = None /\ (content # None => Pin[path] # None /\ content \subseteq Pin[path]))
  PROVE  PassInv'
<1> path \in Path
  BY PathIsTodo DEF TypeOK
<1>1. UNCHANGED <<series, failures, applies, built>>
  BY DEF Settle
<1>2. \A p \in Path : tree'[p] = IF p = path /\ content # None THEN content ELSE tree[p]
  BY DEF Settle, TypeOK, Tree
<1>3. ASSUME NEW p \in Path, Below(p) PROVE Below(p)'
  <2>1. CASE p # path \/ content = None \/ content = tree[path]
    BY <1>1, <1>2, <1>3, <2>1 DEF Below
  <2>2. CASE p = path /\ content # None /\ tree[path] = None
    BY <1>1, <1>2, <1>3, <2>2 DEF Below
  <2> QED
    BY <2>1, <2>2
<1> QED
  BY <1>1, <1>3 DEF PassInv, Plain, Adds, Deletes

(* A plain change that fits the smaller file fits the larger one, and      *)
(* leaves the smaller one smaller.                                         *)
LEMMA MonotoneChange ==
  ASSUME NEW small \in {None} \cup Content, NEW large \in {None} \cup Content,
         NEW change \in Change, change.new # None, Fits(small, change),
         change.old = None => small = large,
         change.old # None => large # None /\ small \subseteq large
  PROVE  /\ Fits(large, change)
         /\ After(small, change) # None /\ After(large, change) # None
         /\ After(small, change) \subseteq After(large, change)
         /\ small = large => After(small, change) = After(large, change)
<1>1. \A c \in Content : c # None
  BY NoneIsNoContent
<1>2. CASE change.old = None
  <2>1. small \in {None, {}} /\ small = large
    BY <1>2 DEF Fits
  <2>2. Fits(large, change)
    BY <1>2, <2>1 DEF Fits
  <2>3. After(small, change) = change.new \/ After(small, change) = {} \cup change.new
    BY <1>2, <2>1 DEF After
  <2> QED
    BY <1>1, <2>1, <2>2, <2>3, AfterType DEF After, Change, Content
<1>3. CASE change.old # None
  <2>1. /\ small # None /\ large # None /\ change.old \subseteq small /\ small \subseteq large
        /\ change.old \in Content /\ change.new \in Content
    BY <1>3 DEF Fits, Change
  <2>2. Fits(large, change)
    BY <1>3, <2>1 DEF Fits
  <2>3. /\ After(small, change) = (small \ change.old) \cup change.new
        /\ After(large, change) = (large \ change.old) \cup change.new
    BY <1>3, <2>1 DEF After
  <2>4. After(small, change) \in Content /\ After(large, change) \in Content
    BY <2>1, <2>3 DEF Content
  <2> QED
    BY <1>1, <2>1, <2>2, <2>3, <2>4
<1> QED
  BY <1>2, <1>3

LEMMA PassApply ==
  ASSUME TypeOK, RunInv, PassInv, ApplyPatch
  PROVE  PassInv'
<1> DEFINE patch == series[index]
<1> SUFFICES ASSUME Plain', ~failures' PROVE applies' /\ \A p \in Path : Below(p)'
  BY DEF PassInv
<1>1. /\ pc = "materialize" /\ series' = series /\ ~problems /\ ~failures
      /\ AllFit(tree, patch) /\ tree' = AfterPatch(patch)
      /\ applies' = (applies /\ AllFit(Base, patch))
      /\ built' = IF mode = "isolated" THEN built ELSE Patched(built, patch)
  BY DEF ApplyPatch
<1>2. Plain
  BY <1>1 DEF Plain, Adds, Deletes
<1>3. applies /\ \A p \in Path : Below(p)
  BY <1>1, <1>2 DEF PassInv
<1>4. /\ index \in 1 .. Len(series) /\ DOMAIN patch \subseteq Path
      /\ \A p \in DOMAIN patch : patch[p] \in Change
  <2>1. index \in 1 .. Len(series)
    BY <1>1, SeriesAssumption DEF TypeOK
  <2> QED
    BY <2>1, PatchType DEF TypeOK
<1>5. tree \in Tree /\ built \in Tree /\ Pin \in Tree
  BY PinAssumption DEF TypeOK
<1> HIDE DEF patch
<1>6. ASSUME NEW p \in DOMAIN patch
      PROVE  /\ Fits(tree[p], patch[p]) /\ Fits(built[p], patch[p])
             /\ After(tree[p], patch[p]) # None /\ After(built[p], patch[p]) # None
             /\ After(tree[p], patch[p]) \subseteq After(built[p], patch[p])
             /\ tree[p] = built[p] => After(tree[p], patch[p]) = After(built[p], patch[p])
  <2>1. p \in Path /\ patch[p] \in Change /\ Below(p) /\ Fits(tree[p], patch[p])
    BY <1>1, <1>3, <1>4 DEF AllFit
  <2>2. patch[p].new # None /\ (patch[p].old = None => Pin[p] = None)
    BY <1>2, <1>4 DEF Plain, Adds, Deletes, patch
  <2>3. tree[p] \in {None} \cup Content /\ built[p] \in {None} \cup Content
    BY <1>5, <2>1 DEF Tree
  <2>4. patch[p].old = None => tree[p] = built[p]
    BY <2>1, <2>2 DEF Below
  <2>5. patch[p].old # None => built[p] # None /\ tree[p] \subseteq built[p]
    BY <2>1 DEF Below, Fits
  <2> QED
    BY <2>1, <2>2, <2>3, <2>4, <2>5, MonotoneChange
<1>7. AllFit(built, patch)
  BY <1>6 DEF AllFit
<1>8. applies'
  <2>1. CASE mode = "isolated"
    BY <1>1, <1>3, <1>7, <2>1 DEF RunInv, Base
  <2>2. CASE mode # "isolated"
    BY <1>1, <1>3, <1>7, <2>2 DEF Base
  <2> QED
    BY <2>1, <2>2
<1>9. ASSUME NEW p \in Path PROVE Below(p)'
  <2>1. CASE mode = "isolated"
    BY <1>1, <1>3, <1>9, <2>1 DEF AfterPatch, Below
  <2>2. CASE mode # "isolated"
    <3>1. tree' = Patched(tree, patch) /\ built' = Patched(built, patch)
      BY <1>1, <2>2 DEF AfterPatch
    <3>2. CASE p \in DOMAIN patch
      <4>1. tree'[p] = After(tree[p], patch[p]) /\ built'[p] = After(built[p], patch[p])
        BY <1>6, <3>1, <3>2, PatchedFile
      <4>2. Pin[p] = None => tree[p] = built[p]
        BY <1>3 DEF Below
      <4> QED
        BY <1>6, <3>2, <4>1, <4>2 DEF Below
    <3>3. CASE p \notin DOMAIN patch
      BY <1>3, <3>1, <3>3, PatchedFile DEF Below
    <3> QED
      BY <3>2, <3>3
  <2> QED
    BY <2>1, <2>2
<1> QED
  BY <1>8, <1>9

LEMMA PassStep == ASSUME TypeOK, RunInv, CacheInv, PassInv, [Next]_vars PROVE PassInv'
<1>1. ASSUME NEW m \in {"series", "isolated"}, NEW off \in BOOLEAN, Begin(m, off)
      PROVE PassInv'
  BY <1>1, NoneIsNoContent DEF Begin, PassInv, Below, NoFiles
<1>2. CASE NextPatch
  <2>1. UNCHANGED <<series, failures, applies, built>>
        /\ (tree' = tree \/ (mode = "isolated" /\ tree' = NoFiles))
    BY <1>2 DEF NextPatch
  <2>2. CASE tree' = tree
    BY <2>1, <2>2, PassKept
  <2>3. CASE mode = "isolated" /\ tree' = NoFiles
    BY <2>1, <2>3 DEF PassInv, RunInv, Below, NoFiles, Plain, Adds, Deletes
  <2> QED
    BY <2>1, <2>2, <2>3
<1>3. CASE Summary
  BY <1>3, PassKept DEF Summary, End, run
<1>4. CASE Materialize
  <2> todo # {} /\ path \in Path
    BY <1>4, PathIsTodo DEF Materialize, TypeOK
  <2>1. tree[path] \in {None} \cup Content /\ cache[path] \in {None, ABSENT} \cup Content
    BY DEF TypeOK, Tree
  <2>2. CASE tree[path] # None
    BY <1>4, <2>1, <2>2, PassSettle DEF Materialize
  <2>3. CASE tree[path] = None /\ cache[path] = ABSENT
    BY <1>4, <2>1, <2>3, PassSettle, NoneIsNoContent DEF Materialize
  <2>4. CASE tree[path] = None /\ cache[path] \notin {None, ABSENT}
    BY <1>4, <2>1, <2>4, PassSettle DEF Materialize, CacheInv
  <2>5. CASE tree[path] = None /\ cache[path] = None
    BY <1>4, <2>5, PassKept DEF Materialize, End, Goto, run
  <2> QED
    BY <2>2, <2>3, <2>4, <2>5
<1>5. CASE FetchFromSrc
  BY <1>5, PassKept DEF FetchFromSrc, Retry, End, Goto, run
<1>6. CASE LoadDepMap
  BY <1>6, PassKept DEF LoadDepMap, End, Goto, run
<1>7. CASE WriteDeps
  BY <1>7, PassKept DEF WriteDeps, Goto, run
<1>8. CASE FetchSubrepo
  <2> todo # {} /\ tree[path] = None
    BY <1>8 DEF FetchSubrepo, TypeOK, RunInv, Fetching
  <2>1. CASE Settle(None)
    BY <2>1, PassSettle
  <2>2. CASE Goto("write") \/ End(None)
    BY <2>2, PassKept DEF Goto, End, run
  <2> QED
    BY <1>8, <2>1, <2>2 DEF FetchSubrepo
<1>9. CASE Write
  <2>1. todo # {} /\ tree[path] = None /\ Settle(Pin[path])
    BY <1>9 DEF Write, TypeOK, RunInv, Fetching
  <2>2. Pin[path] \in {None} \cup Content
    BY <2>1, PathIsTodo, PinAssumption DEF TypeOK, Tree
  <2> QED
    BY <2>1, <2>2, PassSettle
<1>10. CASE ApplyPatch
  BY <1>10, PassApply
<1>11. CASE Interrupt
  BY <1>11, PassKept DEF Interrupt, End, run
<1>12. CASE UNCHANGED vars
  BY <1>12, PassKept DEF vars, run
<1> QED
  BY <1>1, <1>2, <1>3, <1>4, <1>5, <1>6, <1>7, <1>8, <1>9, <1>10, <1>11, <1>12 DEF Next
-----------------------------------------------------------------------------
LEMMA AlarmEnd ==
  ASSUME AlarmInv, pc' = "ended", UNCHANGED <<mode, spoiled>>, ~interrupted' => ~interrupted
  PROVE  AlarmInv'
BY DEF AlarmInv, Mid

LEMMA AlarmGoto ==
  ASSUME AlarmInv, Mid, NEW label, Goto(label), label \notin {"ended", "patch"}
  PROVE  AlarmInv'
<1>1. UNCHANGED <<series, index, todo, tree, built, mode, spoiled, problems, interrupted>>
      /\ pc' = label
  BY DEF Goto, run
<1>2. Mid' /\ pc # "ended"
  BY <1>1 DEF Mid
<1> QED
  BY <1>1, <1>2 DEF AlarmInv, Level, Preimages, Mid

(* With a sound cache a file comes as it is at the pin; if the full tree   *)
(* has lost it, the patch that wants it back does not apply there.         *)
LEMMA AlarmSettle ==
  ASSUME TypeOK, RunInv, AlarmInv, Mid, todo # {},
         NEW content \in {None} \cup Content, Settle(content),
         ~interrupted => (content = tree[path] /\ content # None) \/ (tree[path] = None /\ content = Pin[path])
  PROVE  AlarmInv'
<1> path \in Path /\ path \in todo /\ path \in Preimages(series[index])
  BY PathIsTodo DEF TypeOK, RunInv
<1>1. /\ UNCHANGED <<series, index, mode, spoiled, built, interrupted>>
      /\ pc' = "materialize" /\ todo' = todo \ {path}
      /\ problems' = (problems \/ content = None)
  BY DEF Settle
<1>2. \A p \in Path : tree'[p] = IF p = path /\ content # None THEN content ELSE tree[p]
  BY DEF Settle, TypeOK, Tree
<1>3. Mid' /\ pc # "ended" /\ Preimages(series[index]) \subseteq Path
  <2>1. DOMAIN series[index] \subseteq Path
    BY PatchType, SeriesAssumption DEF TypeOK, Mid
  <2> QED
    BY <1>1, <2>1 DEF Mid, Preimages
<1> SUFFICES ASSUME ~interrupted
             PROVE  /\ \A p \in Path \ spoiled : Level(p)'
                    /\ \A p \in Preimages(series[index]) \ (todo' \cup spoiled) :
                         tree'[p] # None \/ built[p] = None
                    /\ problems' => \E p \in Preimages(series[index]) :
                                      p \in spoiled \/ built[p] = None
  BY <1>1, <1>3 DEF AlarmInv, Preimages
<1>4. /\ \A p \in Path \ spoiled : Level(p)
      /\ \A p \in Preimages(series[index]) \ (todo \cup spoiled) :
           tree[p] # None \/ built[p] = None
      /\ problems => \E p \in Preimages(series[index]) : p \in spoiled \/ built[p] = None
  BY <1>3 DEF AlarmInv
<1>5. /\ path \in spoiled \/ Level(path)
      /\ content = None => tree[path] = None /\ Pin[path] = None
  BY <1>4
<1>6. content = None => path \in spoiled \/ built[path] = None
  BY <1>5 DEF Level
<1>7. ASSUME NEW p \in Path \ spoiled PROVE Level(p)'
  <2>1. CASE p # path \/ content = None \/ content = tree[path]
    <3>1. tree'[p] = tree[p] /\ Level(p)
      BY <1>2, <1>4, <2>1
    <3> QED
      BY <1>1, <1>3, <3>1 DEF Level, Preimages
  <2>2. CASE p = path /\ content = Pin[path] /\ content # None /\ tree[path] = None
    <3>1. tree'[p] = Pin[p] /\ (built[p] = None \/ built[p] = Pin[p])
      BY <1>2, <1>5, <2>2 DEF Level
    <3> QED
      BY <1>1, <1>3, <2>2, <3>1 DEF Level, Preimages
  <2> QED
    BY <2>1, <2>2
<1>8. ASSUME NEW p \in Preimages(series[index]) \ (todo' \cup spoiled)
      PROVE  tree'[p] # None \/ built[p] = None
  BY <1>1, <1>2, <1>3, <1>4, <1>6
<1> QED
  BY <1>1, <1>4, <1>6, <1>7, <1>8

(* A change that fits the full tree's file does the same to the sparse one.*)
LEMMA Alike ==
  ASSUME NEW p, NEW change, Fits(built[p], change),
         tree[p] = built[p] \/ (tree[p] = None /\ built[p] = Pin[p]),
         change.old # None => tree[p] # None
  PROVE  Fits(tree[p], change) /\ After(tree[p], change) = After(built[p], change)
<1>1. CASE tree[p] = built[p]
  BY <1>1
<1>2. CASE tree[p] # built[p]
  <2>1. tree[p] = None /\ change.old = None /\ built[p] \in {None, {}}
    BY <1>2 DEF Fits
  <2>2. Fits(tree[p], change)
    BY <2>1 DEF Fits
  <2> QED
    BY <2>1, <2>2 DEF After
<1> QED
  BY <1>1, <1>2

(* A patch that the full tree takes is taken by the sparse tree, if it     *)
(* touches no file of a refused one: no preimage of it was lost, so the    *)
(* sparse tree has them all.                                               *)
LEMMA TakenToo ==
  ASSUME TypeOK, RunInv, AlarmInv, ~interrupted, pc = "materialize", todo = {},
         DOMAIN series[index] \cap spoiled = {}, AllFit(Base, series[index])
  PROVE  ~problems /\ AllFit(tree, series[index])
<1> DEFINE patch == series[index]
<1>1. Mid /\ AllFit(built, patch)
  BY DEF Mid, RunInv, Base
<1>2. DOMAIN patch \subseteq Path
  BY PatchType, SeriesAssumption DEF TypeOK
<1>3. Preimages(patch) \subseteq DOMAIN patch
  BY DEF Preimages
<1>4. /\ \A p \in DOMAIN patch : Level(p)
      /\ \A p \in Preimages(patch) : tree[p] # None \/ built[p] = None
      /\ problems => \E p \in Preimages(patch) : built[p] = None
  BY <1>1, <1>2, <1>3 DEF AlarmInv
<1> HIDE DEF patch
<1>5. \A p \in Preimages(patch) : built[p] # None /\ tree[p] # None
  BY <1>1, <1>3, <1>4 DEF AllFit, Fits, Preimages
<1>6. \A p \in DOMAIN patch : tree[p] = built[p] \/ (tree[p] = None /\ built[p] = Pin[p])
  BY <1>4, <1>5 DEF Level, patch
<1>7. ASSUME NEW p \in DOMAIN patch PROVE Fits(tree[p], patch[p])
  <2>1. Fits(built[p], patch[p])
    BY <1>1 DEF AllFit
  <2>2. patch[p].old # None => tree[p] # None
    BY <1>5 DEF Preimages
  <2> QED
    BY <1>6, <2>1, <2>2, Alike
<1> QED
  BY <1>3, <1>4, <1>5, <1>7 DEF AllFit, patch

LEMMA AlarmApply ==
  ASSUME TypeOK, RunInv, AlarmInv, ApplyPatch
  PROVE  AlarmInv'
<1> DEFINE patch == series[index]
           fits  == ~problems /\ AllFit(tree, patch) /\ AllFit(Base, patch)
<1>1. /\ pc = "materialize" /\ pc' = "patch" /\ UNCHANGED <<series, mode, interrupted>>
      /\ todo = {} /\ tree' = AfterPatch(patch)
      /\ built' = IF mode = "isolated" THEN built ELSE Patched(built, patch)
      /\ spoiled' = IF mode = "isolated" \/ fits THEN spoiled ELSE spoiled \cup DOMAIN patch
  BY DEF ApplyPatch
<1>2. ~Mid' /\ Mid /\ (mode = "isolated" => spoiled' = {})
  BY <1>1 DEF Mid, AlarmInv
<1> SUFFICES ASSUME ~interrupted, mode = "series", NEW p \in Path \ spoiled'
             PROVE  Level(p)'
  BY <1>1, <1>2 DEF AlarmInv
<1>3. p \in Path /\ p \notin spoiled /\ Level(p) /\ (~fits => p \notin DOMAIN patch)
  BY <1>1, <1>2 DEF AlarmInv
<1>4. built' = Patched(built, patch) /\ (tree' = tree \/ tree' = Patched(tree, patch))
      /\ (fits => tree' = Patched(tree, patch))
  BY <1>1 DEF AfterPatch
<1>5. Preimages(patch) \subseteq DOMAIN patch
  BY DEF Preimages
<1>6. p \notin Preimages(patch) =>
        tree[p] = built[p] \/ (tree[p] = None /\ built[p] = Pin[p])
  BY <1>3 DEF Level
<1>7. CASE p \notin DOMAIN patch
  <2>1. tree'[p] = tree[p] /\ built'[p] = built[p]
    BY <1>3, <1>4, <1>7, PatchedFile
  <2> QED
    BY <1>5, <1>6, <1>7, <2>1 DEF Level
<1>8. CASE p \in DOMAIN patch
  <2>1. fits /\ tree' = Patched(tree, patch)
    BY <1>3, <1>4, <1>8
  <2>2. Fits(tree[p], patch[p]) /\ Fits(built[p], patch[p])
    BY <1>8, <2>1 DEF AllFit, Base
  <2>3. p \in Preimages(patch) => tree[p] # None /\ built[p] # None
    BY <2>2 DEF Fits, Preimages
  <2>4. tree[p] = built[p] \/ (tree[p] = None /\ built[p] = Pin[p])
    BY <1>3, <1>6, <2>3 DEF Level
  <2>5. After(tree[p], patch[p]) = After(built[p], patch[p])
    <3>1. patch[p].old # None => tree[p] # None
      BY <2>2 DEF Fits
    <3> HIDE DEF patch
    <3> QED
      BY <2>2, <2>4, <3>1, Alike
  <2>6. tree'[p] = After(tree[p], patch[p]) /\ built'[p] = After(built[p], patch[p])
    BY <1>3, <1>4, <1>8, <2>1, <2>2, PatchedFile
  <2> QED
    BY <2>5, <2>6 DEF Level
<1> QED
  BY <1>7, <1>8

LEMMA AlarmStep ==
  ASSUME TypeOK, RunInv, CacheInv, AlarmInv, [Next]_vars PROVE AlarmInv'
<1>1. ASSUME NEW m \in {"series", "isolated"}, NEW off \in BOOLEAN, Begin(m, off)
      PROVE AlarmInv'
  BY <1>1 DEF Begin, AlarmInv, Mid, Level, NoFiles
<1>2. CASE NextPatch
  <2>1. /\ UNCHANGED <<series, index, mode, spoiled, built, interrupted>>
        /\ pc = "patch" /\ pc' = "materialize" /\ problems' = FALSE
        /\ todo' = Preimages(series[index])
        /\ (mode = "series" /\ tree' = tree) \/ (mode = "isolated" /\ tree' = NoFiles)
    BY <1>2 DEF NextPatch, TypeOK
  <2>2. \A p \in Path \ spoiled : ~interrupted => Level(p)'
    <3>1. CASE mode = "series" /\ tree' = tree
      BY <2>1, <3>1 DEF AlarmInv, Level, Mid
    <3>2. CASE mode = "isolated" /\ tree' = NoFiles
      BY <2>1, <3>2 DEF RunInv, Level, NoFiles
    <3> QED
      BY <2>1, <3>1, <3>2
  <2> QED
    BY <2>1, <2>2 DEF AlarmInv, Preimages
<1>3. CASE Summary
  BY <1>3, AlarmEnd DEF Summary, End, run
<1>4. CASE Materialize
  <2> Mid /\ todo # {} /\ path \in Path
    BY <1>4, PathIsTodo DEF Materialize, TypeOK, Mid
  <2>1. tree[path] \in {None} \cup Content /\ cache[path] \in {None, ABSENT} \cup Content
    BY DEF TypeOK, Tree
  <2>2. CASE tree[path] # None
    BY <1>4, <2>1, <2>2, AlarmSettle DEF Materialize
  <2>3. CASE tree[path] = None /\ cache[path] # None
    <3>1. DEFINE content == IF cache[path] = ABSENT THEN None ELSE cache[path]
    <3>2. content \in {None} \cup Content /\ Settle(content)
      BY <1>4, <2>1, <2>3 DEF Materialize
    <3>3. ~interrupted => content = Pin[path]
      BY <2>3, NoneIsNoContent, PinAssumption DEF CacheInv, CacheIsThePin, Tree
    <3> HIDE DEF content
    <3> QED
      BY <2>3, <3>2, <3>3, AlarmSettle
  <2>4. CASE tree[path] = None /\ cache[path] = None /\ offline
    BY <1>4, <2>4, AlarmEnd DEF Materialize, End, run
  <2>5. CASE tree[path] = None /\ cache[path] = None /\ ~offline
    BY <1>4, <2>5, AlarmGoto DEF Materialize
  <2> QED
    BY <2>2, <2>3, <2>4, <2>5
<1>5. CASE FetchFromSrc
  <2>1. Mid
    BY <1>5 DEF FetchFromSrc, Mid
  <2>2. CASE End(None) /\ UNCHANGED interrupted
    BY <2>2, AlarmEnd DEF End, run
  <2>3. CASE \E label \in {"src", "write", "deps"} : Goto(label)
    BY <2>1, <2>3, AlarmGoto
  <2> QED
    BY <1>5, <2>2, <2>3 DEF FetchFromSrc, Retry
<1>6. CASE LoadDepMap
  <2>1. Mid
    BY <1>6 DEF LoadDepMap, Mid
  <2>2. CASE End(None) /\ UNCHANGED interrupted
    BY <2>2, AlarmEnd DEF End, run
  <2>3. CASE \E label \in {"subrepo", "write_deps"} : Goto(label)
    BY <2>1, <2>3, AlarmGoto
  <2> QED
    BY <1>6, <2>2, <2>3 DEF LoadDepMap
<1>7. CASE WriteDeps
  BY <1>7, AlarmGoto DEF WriteDeps, Mid
<1>8. CASE FetchSubrepo
  <2> Mid /\ todo # {} /\ tree[path] = None /\ dep_map # None /\ ~Serves(None, path)
    BY <1>8, PathIsTodo DEF FetchSubrepo, TypeOK, RunInv, Fetching, Mid
  <2>1. CASE Settle(None) /\
             (Resolve(path, dep_map) = None \/ ~Serves(Resolve(path, dep_map), path))
    <3>1. ~interrupted => Pin[path] = None
      BY <2>1 DEF CacheInv, Serves
    <3> QED
      BY <2>1, <3>1, AlarmSettle
  <2>2. CASE Goto("write")
    BY <2>2, AlarmGoto
  <2>3. CASE End(None) /\ UNCHANGED interrupted
    BY <2>3, AlarmEnd DEF End, run
  <2> QED
    BY <1>8, <2>1, <2>2, <2>3 DEF FetchSubrepo
<1>9. CASE Write
  <2>1. Mid /\ todo # {} /\ tree[path] = None /\ Settle(Pin[path])
    BY <1>9 DEF Write, TypeOK, RunInv, Fetching, Mid
  <2>2. Pin[path] \in {None} \cup Content
    BY <2>1, PathIsTodo, PinAssumption DEF TypeOK, Tree
  <2> QED
    BY <2>1, <2>2, AlarmSettle
<1>10. CASE ApplyPatch
  BY <1>10, AlarmApply
<1>11. CASE Interrupt
  BY <1>11, AlarmEnd DEF Interrupt, End, run
<1>12. CASE UNCHANGED vars
  BY <1>12 DEF vars, run, AlarmInv, Level, Mid, Preimages
<1> QED
  BY <1>1, <1>2, <1>3, <1>4, <1>5, <1>6, <1>7, <1>8, <1>9, <1>10, <1>11, <1>12 DEF Next
-----------------------------------------------------------------------------
LEMMA IInvInit == Init => IInv
<1> SUFFICES ASSUME Init PROVE RunInv /\ CacheInv /\ PassInv /\ AlarmInv
  BY TypeInit DEF IInv
<1> QED
  BY NoneIsNoContent
     DEF Init, RunInv, CacheInv, CacheIsThePin, PassInv, AlarmInv, Below, Level, Mid,
         Fetching, NoFiles

LEMMA Invariance == Spec => []IInv
<1>1. IInv /\ [Next]_vars => IInv'
  BY TypeStep, RunStep, CacheStep, PassStep, AlarmStep DEF IInv
<1> QED
  BY <1>1, IInvInit, PTL DEF Spec

(* What the cache holds is what the pin has, or that it has nothing there, *)
(* however many requests failed: a failure is never taken for a 404.       *)
THEOREM SoundCache == Spec => []CacheIsThePin
<1>1. IInv => CacheIsThePin
  BY DEF IInv, CacheInv
<1> QED
  BY <1>1, Invariance, PTL

(* A plain series that the validator passed applies to the full tree, even *)
(* with a cache cut short by interrupted runs.                             *)
THEOREM PassesApply == Spec => []PassApplies
<1>1. IInv => PassApplies
  BY DEF IInv, RunInv, PassInv, PassApplies
<1> QED
  BY <1>1, Invariance, PTL

(* A patch that is reported as failed fails on the full tree, in the       *)
(* series as long as it shares no file with an earlier one that was        *)
(* refused, and on its own always; unless an interrupted run damaged the   *)
(* cache.                                                                  *)
THEOREM AlarmsAreReal == Spec => AlarmIsReal
<1>1. IInv /\ [Next]_vars =>
        [Alarm /\ ~interrupted /\ DOMAIN series[index] \cap spoiled = {}
           => ~AllFit(Base, series[index])]_vars
  <2> SUFFICES ASSUME IInv, Next, Alarm, ~interrupted,
                      DOMAIN series[index] \cap spoiled = {}, AllFit(Base, series[index])
               PROVE  FALSE
    OBVIOUS
  <2>1. index \in Nat \ {0} /\ index' = index + 1
    BY SeriesAssumption DEF IInv, TypeOK, Alarm
  <2>2. index' # index /\ index' # 1
    BY <2>1
  <2>3. ApplyPatch
    BY <2>2 DEF Next, Begin, NextPatch, Summary, Materialize, FetchFromSrc, Retry, LoadDepMap,
                WriteDeps, FetchSubrepo, Write, Interrupt, Settle, End, Goto, run
  <2> QED
    BY <2>3, TakenToo DEF IInv, Alarm, ApplyPatch
<1> QED
  BY <1>1, Invariance, PTL DEF Spec, AlarmIsReal
-----------------------------------------------------------------------------
(* Where the sparse tree and the full tree part: a series is orderly if it *)
(* adds a file only where there is none, at the pin or after a deletion,   *)
(* and changes a file it has deleted only after it has added it again.     *)
Orderly ==
  \A i \in 1 .. Len(series) :
    /\ \A p \in Adds(series[i]) :
         Pin[p] = None \/ \E j \in 1 .. i - 1 : p \in Deletes(series[j])
    /\ \A p \in Preimages(series[i]), j \in 1 .. i - 1 :
         p \in Deletes(series[j]) =>
           \E k \in j + 1 .. i - 1 : p \in Adds(series[k])

Untouched(p) == \A j \in 1 .. index - 1 : p \notin DOMAIN series[j]

Gone(p) ==
  \E j \in 1 .. index - 1 :
    /\ p \in Deletes(series[j])
    /\ \A k \in j + 1 .. index - 1 : p \notin Adds(series[k])

(* The same file, one not fetched yet, or one deleted from both.           *)
Same(p) ==
  \/ tree[p] # None /\ tree[p] = built[p]
  \/ tree[p] = None /\ built[p] = Pin[p] /\ Untouched(p)
  \/ tree[p] = None /\ built[p] = None /\ Gone(p)

ExactInv ==
  Orderly /\ ~interrupted /\ mode = "series" /\ ~failures =>
    /\ applies
    /\ pc # "ended" => \A p \in Path : Same(p)

LEMMA ExactKept ==
  ASSUME ExactInv, UNCHANGED <<series, index, mode, failures, applies, tree, built>>,
         pc = "ended" => pc' = "ended", ~interrupted' => ~interrupted
  PROVE  ExactInv'
BY DEF ExactInv, Same, Untouched, Gone, Orderly, Adds, Deletes, Preimages

(* A preimage is fetched as it is at the pin, and the full tree has it so  *)
(* still: an orderly series does not ask for a file it has deleted.        *)
LEMMA ExactSettle ==
  ASSUME TypeOK, RunInv, ExactInv, Mid, todo # {},
         NEW content \in {None} \cup Content, Settle(content),
         ~interrupted => (content = tree[path] /\ content # None)
                           \/ (tree[path] = None /\ content = Pin[path])
  PROVE  ExactInv'
<1> path \in Path /\ path \in Preimages(series[index])
  BY PathIsTodo DEF TypeOK, RunInv
<1>1. /\ UNCHANGED <<series, index, mode, failures, applies, built, interrupted>>
      /\ pc # "ended" /\ pc' # "ended"
  BY DEF Settle, Mid
<1>2. \A p \in Path : tree'[p] = IF p = path /\ content # None THEN content ELSE tree[p]
  BY DEF Settle, TypeOK, Tree
<1> SUFFICES ASSUME Orderly, ~interrupted, mode = "series", ~failures
             PROVE  applies /\ \A p \in Path : Same(p)'
  BY <1>1 DEF ExactInv, Orderly, Adds, Deletes, Preimages
<1>3. applies /\ \A p \in Path : Same(p)
  BY <1>1 DEF ExactInv
<1>4. ~Gone(path)
  <2>1. index \in 1 .. Len(series)
    BY SeriesAssumption DEF TypeOK, Mid
  <2> QED
    BY <2>1 DEF Gone, Orderly
<1>5. ASSUME NEW p \in Path PROVE Same(p)'
  <2>1. CASE tree'[p] = tree[p]
    BY <1>1, <1>3, <2>1 DEF Same, Untouched, Gone
  <2>2. CASE p = path /\ tree[p] = None /\ content = Pin[p] /\ tree'[p] = content /\ content # None
    BY <1>1, <1>3, <1>4, <2>2 DEF Same
  <2> QED
    BY <1>2, <2>1, <2>2
<1> QED
  BY <1>3, <1>5

(* A patch that fits the one tree fits the other, with the same outcome.   *)
LEMMA ExactApply ==
  ASSUME TypeOK, RunInv, ExactInv, ApplyPatch
  PROVE  ExactInv'
<1> DEFINE patch == series[index]
<1>1. /\ pc = "materialize" /\ pc' = "patch" /\ UNCHANGED <<series, mode, interrupted>>
      /\ index' = index + 1
      /\ failures' = (failures \/ problems \/ ~AllFit(tree, patch)) /\ tree' = AfterPatch(patch)
      /\ applies' = (applies /\ AllFit(Base, patch))
      /\ built' = IF mode = "isolated" THEN built ELSE Patched(built, patch)
  BY DEF ApplyPatch
<1> SUFFICES ASSUME Orderly, ~interrupted, mode = "series", ~failures'
             PROVE  applies' /\ \A p \in Path : Same(p)'
  BY <1>1 DEF ExactInv, Orderly, Adds, Deletes, Preimages
<1>2. /\ ~failures /\ ~problems /\ AllFit(tree, patch)
      /\ tree' = Patched(tree, patch) /\ built' = Patched(built, patch)
      /\ applies' = (applies /\ AllFit(built, patch))
  BY <1>1 DEF AfterPatch, Base
<1>3. applies /\ \A p \in Path : Same(p)
  BY <1>1, <1>2 DEF ExactInv
<1>4. index \in 1 .. Len(series) /\ index \in Nat
  BY <1>1, SeriesAssumption DEF TypeOK
<1>5. DOMAIN patch \subseteq Path
  BY <1>4, PatchType DEF TypeOK
<1>6. /\ \A p \in Adds(patch) :
           Pin[p] = None \/ \E j \in 1 .. index - 1 : p \in Deletes(series[j])
      /\ \A p \in Preimages(patch) : ~Gone(p)
  BY <1>4 DEF Orderly, Gone
<1>7. \A p \in Path : p \in Deletes(patch) => Gone(p)'
  <2> SUFFICES ASSUME NEW p \in Path, p \in Deletes(patch) PROVE Gone(p)'
    OBVIOUS
  <2>1. /\ index \in 1 .. index' - 1 /\ p \in Deletes(series'[index])
        /\ \A k \in index + 1 .. index' - 1 : p \notin Adds(series'[k])
    BY <1>1, <1>4
  <2> QED
    BY <2>1 DEF Gone, Deletes, Adds
<1>8. \A p \in Path : p \notin DOMAIN patch =>
        (Untouched(p) => Untouched(p)') /\ (Gone(p) => Gone(p)')
  <2> SUFFICES ASSUME NEW p \in Path, p \notin DOMAIN patch
               PROVE  (Untouched(p) => Untouched(p)') /\ (Gone(p) => Gone(p)')
    OBVIOUS
  <2>1. \A j \in 1 .. index' - 1 : j \in 1 .. index - 1 \/ j = index
    BY <1>1, <1>4
  <2>2. Untouched(p) => Untouched(p)'
    BY <1>1, <2>1 DEF Untouched
  <2>3. ASSUME Gone(p) PROVE Gone(p)'
    <3>1. PICK j \in 1 .. index - 1 :
            /\ p \in Deletes(series[j])
            /\ \A k \in j + 1 .. index - 1 : p \notin Adds(series[k])
      BY <2>3 DEF Gone
    <3>2. j \in 1 .. index' - 1 /\ p \notin Adds(series[index])
      BY <1>1, <1>4 DEF Adds
    <3>3. \A k \in j + 1 .. index' - 1 : k \in j + 1 .. index - 1 \/ k = index
      BY <1>1, <1>4
    <3>4. \A k \in j + 1 .. index' - 1 : p \notin Adds(series'[k])
      BY <1>1, <3>1, <3>2, <3>3
    <3> QED
      BY <1>1, <3>1, <3>2, <3>4 DEF Gone, Deletes, Adds
  <2> QED
    BY <2>2, <2>3
<1> HIDE DEF patch
<1>9. ASSUME NEW p \in DOMAIN patch
      PROVE  /\ Fits(tree[p], patch[p]) /\ Fits(built[p], patch[p])
             /\ After(tree[p], patch[p]) = After(built[p], patch[p])
  <2>1. p \in Path /\ Fits(tree[p], patch[p]) /\ Same(p)
    BY <1>2, <1>3, <1>5, <1>9 DEF AllFit
  <2>2. tree[p] = built[p]
    <3>1. CASE p \in Preimages(patch)
      BY <1>6, <2>1, <3>1 DEF Fits, Preimages, Same
    <3>2. CASE p \in Adds(patch)
      <4>1. Untouched(p) => Pin[p] = None
        BY <1>6, <3>2 DEF Untouched, Deletes
      <4> QED
        BY <2>1, <4>1 DEF Same
    <3> QED
      BY <1>9, <3>1, <3>2 DEF Preimages, Adds
  <2> QED
    BY <2>1, <2>2
<1>10. applies'
  BY <1>2, <1>3, <1>9 DEF AllFit
<1>11. ASSUME NEW p \in Path PROVE Same(p)'
  <2>1. CASE p \in DOMAIN patch
    <3>1. tree'[p] = After(tree[p], patch[p]) /\ built'[p] = tree'[p]
      BY <1>2, <1>9, <2>1, PatchedFile
    <3>2. CASE p \in Deletes(patch)
      BY <1>7, <3>1, <3>2 DEF After, Deletes, Same
    <3>3. CASE p \notin Deletes(patch)
      <4>1. tree'[p] # None
        <5>1. /\ tree[p] \in {None} \cup Content /\ patch[p] \in Change
              /\ patch[p].new # None
          BY <1>4, <2>1, <3>3, PatchType DEF TypeOK, Tree, Deletes, patch
        <5>2. After(tree[p], patch[p]) \in Content
          BY <5>1 DEF After, Change, Content
        <5> QED
          BY <3>1, <5>2, NoneIsNoContent
      <4> QED
        BY <3>1, <4>1 DEF Same
    <3> QED
      BY <3>2, <3>3
  <2>2. CASE p \notin DOMAIN patch
    <3>1. tree'[p] = tree[p] /\ built'[p] = built[p] /\ Same(p)
      BY <1>2, <1>3, <2>2, PatchedFile
    <3> QED
      BY <1>8, <2>2, <3>1 DEF Same
  <2> QED
    BY <2>1, <2>2
<1> QED
  BY <1>10, <1>11

LEMMA ExactStep ==
  ASSUME TypeOK, RunInv, CacheInv, ExactInv, [Next]_vars PROVE ExactInv'
<1>1. ASSUME NEW m \in {"series", "isolated"}, NEW off \in BOOLEAN, Begin(m, off)
      PROVE ExactInv'
  <2>1. /\ index' = 1 /\ tree' = NoFiles /\ built' = Pin /\ applies' = TRUE
    BY <1>1 DEF Begin
  <2>2. \A p \in Path : Same(p)'
    BY <2>1 DEF Same, Untouched, NoFiles
  <2> QED
    BY <2>1, <2>2 DEF ExactInv
<1>2. CASE NextPatch
  <2>1. /\ pc = "patch" /\ UNCHANGED <<series, index, mode, failures, applies, built, interrupted>>
        /\ mode = "series" => tree' = tree
    BY <1>2 DEF NextPatch
  <2>2. CASE mode = "series"
    BY <2>1, <2>2, ExactKept
  <2>3. CASE mode # "series"
    BY <2>1, <2>3 DEF ExactInv
  <2> QED
    BY <2>2, <2>3
<1>3. CASE Summary
  BY <1>3, ExactKept DEF Summary, End, run
<1>4. CASE Materialize
  <2> Mid /\ todo # {} /\ path \in Path
    BY <1>4, PathIsTodo DEF Materialize, TypeOK, Mid
  <2>1. tree[path] \in {None} \cup Content /\ cache[path] \in {None, ABSENT} \cup Content
    BY DEF TypeOK, Tree
  <2>2. CASE tree[path] # None
    BY <1>4, <2>1, <2>2, ExactSettle DEF Materialize
  <2>3. CASE tree[path] = None /\ cache[path] # None
    <3>1. DEFINE content == IF cache[path] = ABSENT THEN None ELSE cache[path]
    <3>2. content \in {None} \cup Content /\ Settle(content)
      BY <1>4, <2>1, <2>3 DEF Materialize
    <3>3. ~interrupted => content = Pin[path]
      BY <2>3, NoneIsNoContent, PinAssumption DEF CacheInv, CacheIsThePin, Tree
    <3> HIDE DEF content
    <3> QED
      BY <2>3, <3>2, <3>3, ExactSettle
  <2>4. CASE tree[path] = None /\ cache[path] = None
    BY <1>4, <2>4, ExactKept DEF Materialize, End, Goto, run
  <2> QED
    BY <2>2, <2>3, <2>4
<1>5. CASE FetchFromSrc
  BY <1>5, ExactKept DEF FetchFromSrc, Retry, End, Goto, run
<1>6. CASE LoadDepMap
  BY <1>6, ExactKept DEF LoadDepMap, End, Goto, run
<1>7. CASE WriteDeps
  BY <1>7, ExactKept DEF WriteDeps, Goto, run
<1>8. CASE FetchSubrepo
  <2> Mid /\ todo # {} /\ tree[path] = None /\ dep_map # None /\ ~Serves(None, path)
    BY <1>8, PathIsTodo DEF FetchSubrepo, TypeOK, RunInv, Fetching, Mid
  <2>1. CASE Settle(None) /\
             (Resolve(path, dep_map) = None \/ ~Serves(Resolve(path, dep_map), path))
    <3>1. ~interrupted => Pin[path] = None
      BY <2>1 DEF CacheInv, Serves
    <3> QED
      BY <2>1, <3>1, ExactSettle
  <2>2. CASE Goto("write")
    BY <1>8, <2>2, ExactKept DEF FetchSubrepo, Goto, run
  <2>3. CASE End(None) /\ UNCHANGED interrupted
    BY <2>3, ExactKept DEF End, run
  <2> QED
    BY <1>8, <2>1, <2>2, <2>3 DEF FetchSubrepo
<1>9. CASE Write
  <2>1. Mid /\ todo # {} /\ tree[path] = None /\ Settle(Pin[path])
    BY <1>9 DEF Write, TypeOK, RunInv, Fetching, Mid
  <2>2. Pin[path] \in {None} \cup Content
    BY <2>1, PathIsTodo, PinAssumption DEF TypeOK, Tree
  <2> QED
    BY <2>1, <2>2, ExactSettle
<1>10. CASE ApplyPatch
  BY <1>10, ExactApply
<1>11. CASE Interrupt
  BY <1>11, ExactKept DEF Interrupt, End, run
<1>12. CASE UNCHANGED vars
  BY <1>12, ExactKept DEF vars, run
<1> QED
  BY <1>1, <1>2, <1>3, <1>4, <1>5, <1>6, <1>7, <1>8, <1>9, <1>10, <1>11, <1>12 DEF Next

(* What validate_patches.py:8-10 promises holds of every orderly series:   *)
(* unless a run was broken off, a series the validator passed applies to   *)
(* the full tree.  PassesApply has no such exception, but takes a series   *)
(* that deletes nothing.                                                   *)
THEOREM OrderlySeriesAsBuilt == Spec => [](~interrupted /\ Orderly => ValidatedAsBuilt)
<1>1. Init => ExactInv
  BY DEF Init, ExactInv
<1>2. IInv /\ ExactInv /\ [Next]_vars => ExactInv'
  BY ExactStep DEF IInv
<1>3. IInv /\ ExactInv => (~interrupted /\ Orderly => ValidatedAsBuilt)
  BY NoneIsNoContent DEF IInv, RunInv, ExactInv, ValidatedAsBuilt
<1> QED
  BY <1>1, <1>2, <1>3, Invariance, PTL DEF Spec
=============================================================================
