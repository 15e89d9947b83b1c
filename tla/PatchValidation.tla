--------------------------- MODULE PatchValidation ---------------------------
(***************************************************************************)
(* tools/validate_patches.py with tools/_deps.py: does the patch series    *)
(* apply to the pinned sources?  The series, or single patches, are tried  *)
(* on a sparse tree of files fetched from gitiles one by one, through a    *)
(* cache on disk that outlives the run.  The variables `built`, `applies`  *)
(* and `spoiled` follow what the same patches do to the full tree.         *)
(*                                                                         *)
(* A file is the set of its lines.  A patch is a function from the files   *)
(* it touches to what it wants there before and after; None is no file     *)
(* (--- /dev/null and +++ /dev/null).                                      *)
(***************************************************************************)
EXTENDS Integers, Sequences, SequencesExt

CONSTANTS
  Path,       \* files of the full tree, each a sequence of names
  Line,       \* lines of text
  Pin,        \* the full tree at chromium_version.txt
  Deps,       \* the directories DEPS takes from other repositories
  Series,     \* the series that may be in patches/series
  Faults,     \* "http": requests fail; "interrupt": runs are broken off
  FETCH_RETRIES,
  MaxRuns,    \* bound: runs of the tool
  ABSENT,     \* the marker file <path>.ABSENT
  Broken,     \* a DEPS file that does not execute
  None        \* no file, nothing cached

Content == SUBSET Line
Tree    == [Path -> {None} \cup Content]
Change  == [old : {None} \cup Content, new : {None} \cup Content]
IsPatch(patch) == DOMAIN patch \subseteq Path /\ patch \in [DOMAIN patch -> Change]

ASSUME PinAssumption == Pin \in Tree
ASSUME DepsAssumption == Deps \subseteq Seq(STRING)
ASSUME SeriesAssumption ==
  \A s \in Series : Len(s) \in Nat /\ \A i \in 1 .. Len(s) : IsPatch(s[i])
ASSUME FaultsAssumption == Faults \subseteq {"http", "interrupt"}
ASSUME RetriesAssumption == FETCH_RETRIES \in Nat \ {0} /\ MaxRuns \in Nat
ASSUME NoneAssumption ==
  /\ \A c \in Content : c # None /\ c # ABSENT
  /\ \A m \in SUBSET Deps : m # None /\ m # Broken
  /\ ABSENT # None /\ Broken # None /\ None \notin {0, 1}

VARIABLES
  series,     \* patches/series, or the patches named on the command line
  cache,      \* build/gitiles_cache/<version>: per file its bytes or ABSENT
  deps_file,  \* the same directory's DEPS
  mode, offline,   \* the command line
  pc, index, todo, \* where the run is: patch, preimages still to look at
  attempt,    \* _fetch_from_src: which try
  dep_map,    \* the fetcher's _dep_map
  tree,       \* the temporary sparse tree
  problems,   \* has this patch a problem?
  failures,   \* has any?
  result,     \* of the last run: exit status 0 or 1, or None if it broke off
  built, applies,  \* the full tree so far, and whether all patches fit
  spoiled,         \* files of the patches so far that one of the trees refused
  interrupted,     \* was a run ever broken off?
  runs

disk == <<cache, deps_file>>
run  == <<mode, offline, index, problems, failures, built, applies, spoiled>>
vars == <<series, disk, run, pc, todo, attempt, dep_map, tree, result,
          interrupted, runs>>

NoFiles == [p \in Path |-> None]

Init ==
  /\ series \in Series
  /\ cache = [p \in Path |-> None] /\ deps_file = None
  /\ mode = "series" /\ offline = FALSE
  /\ pc = "ended" /\ index = 1 /\ todo = {} /\ attempt = 1
  /\ dep_map = None /\ tree = NoFiles
  /\ problems = FALSE /\ failures = FALSE /\ result = None
  /\ built = Pin /\ applies = TRUE /\ spoiled = {}
  /\ interrupted = FALSE /\ runs = 0
-----------------------------------------------------------------------------
(* GNU patch -p1 --forward: what a change wants must be there, no file     *)
(* with content where it adds one, nothing left over where it deletes one. *)
Fits(content, change) ==
  IF change.old = None THEN content \in {None, {}}
  ELSE /\ content # None
       /\ change.old \subseteq content
       /\ change.new = None => content = change.old

After(content, change) ==
  IF change.new = None THEN None
  ELSE (IF content = None THEN {}
        ELSE IF change.old = None THEN content ELSE content \ change.old)
       \cup change.new

AllFit(files, patch) == \A p \in DOMAIN patch : Fits(files[p], patch[p])

(* The changes that fit are made, even when others are rejected.           *)
Patched(files, patch) ==
  [p \in Path |-> IF p \in DOMAIN patch /\ Fits(files[p], patch[p])
                  THEN After(files[p], patch[p]) ELSE files[p]]

(* The longest prefix wins.                                                *)
Resolve(path, map) ==
  LET prefixes == {d \in map : IsPrefix(d, path)} IN
  IF prefixes = {} THEN None
  ELSE CHOOSE d \in prefixes : \A e \in prefixes : Len(e) <= Len(d)

(* gitiles serves a file from the repository it lives in, and only there:  *)
(* None is chromium/src.                                                   *)
Serves(repo, p) == repo = Resolve(p, Deps) /\ Pin[p] # None

(* Mutated: files a patch adds are fetched as well.                        *)
PreimagesAll(patch) == DOMAIN patch

Preimages(patch) == {p \in DOMAIN patch : patch[p].old # None}
-----------------------------------------------------------------------------
Begin(m, off) ==
  /\ pc = "ended" /\ runs < MaxRuns
  /\ runs' = runs + 1
  /\ mode' = m /\ offline' = off
  /\ pc' = "patch" /\ index' = 1 /\ todo' = {} /\ attempt' = 1
  /\ dep_map' = None /\ tree' = NoFiles
  /\ problems' = FALSE /\ failures' = FALSE /\ result' = None
  /\ built' = Pin /\ applies' = TRUE /\ spoiled' = {}
  /\ UNCHANGED <<series, disk, interrupted>>

(* The next patch of the series; one named on its own gets a fresh tree.   *)
NextPatch ==
  /\ pc = "patch" /\ index <= Len(series)
  /\ pc' = "materialize"
  /\ todo' = Preimages(series[index])
  /\ problems' = FALSE
  /\ tree' = IF mode = "isolated" THEN NoFiles ELSE tree
  /\ UNCHANGED <<series, disk, mode, offline, index, failures, built, applies,
                 spoiled, attempt, dep_map, result, interrupted, runs>>

(* The run is over.  die and a traceback exit with 1 as well, but report   *)
(* no failed patch: result is None.                                        *)
End(status) ==
  /\ pc' = "ended" /\ result' = status
  /\ UNCHANGED <<series, run, todo, attempt, dep_map, tree, runs>>

Summary ==
  /\ pc = "patch" /\ index > Len(series)
  /\ End(IF failures THEN 1 ELSE 0)
  /\ UNCHANGED <<disk, interrupted>>

(* Preimages are looked at one by one.                                     *)
path == CHOOSE p \in todo : TRUE

Goto(label) ==
  /\ pc' = label
  /\ UNCHANGED <<series, run, todo, tree, result, interrupted, runs>>

(* The preimage's bytes go to the sparse tree, or it has none at the pin.  *)
Settle(content) ==
  /\ pc' = "materialize" /\ attempt' = 1
  /\ todo' = todo \ {path}
  /\ tree' = IF content = None THEN tree ELSE [tree EXCEPT ![path] = content]
  /\ problems' = (problems \/ content = None)
  /\ UNCHANGED <<series, mode, offline, index, failures, built, applies,
                 spoiled, dep_map, result, interrupted, runs>>

(* materialize and get, as long as no request is needed.                   *)
Materialize ==
  /\ pc = "materialize" /\ todo # {}
  /\ UNCHANGED disk
  /\ IF tree[path] # None THEN Settle(tree[path])
     ELSE IF cache[path] # None
     THEN Settle(IF cache[path] = ABSENT THEN None ELSE cache[path])
     ELSE IF offline THEN End(None) /\ UNCHANGED interrupted
     ELSE Goto("src") /\ UNCHANGED <<attempt, dep_map>>

(* Mutated: one try too many; and the last try ends like a 404.            *)
RetryPastLast ==
  IF attempt <= FETCH_RETRIES
  THEN Goto("src") /\ attempt' = attempt + 1 /\ UNCHANGED dep_map
  ELSE End(None) /\ UNCHANGED interrupted

RetryAbsent ==
  IF attempt < FETCH_RETRIES
  THEN Goto("src") /\ attempt' = attempt + 1 /\ UNCHANGED dep_map
  ELSE Goto("deps") /\ UNCHANGED <<attempt, dep_map>>

(* After an answer of 429, 500, 502 or 503, or none.                       *)
Retry ==
  IF attempt < FETCH_RETRIES
  THEN Goto("src") /\ attempt' = attempt + 1 /\ UNCHANGED dep_map
  ELSE End(None) /\ UNCHANGED interrupted

(* _fetch_from_src: found, 404, one of the failures that are tried again,  *)
(* or another.                                                             *)
FetchFromSrc ==
  /\ pc = "src"
  /\ UNCHANGED disk
  /\ \/ /\ Goto(IF Serves(None, path) THEN "write" ELSE "deps")
        /\ UNCHANGED <<attempt, dep_map>>
     \/ "http" \in Faults /\ Retry
     \/ "http" \in Faults /\ End(None) /\ UNCHANGED interrupted

(* load_dep_map, once a run: from the cached DEPS, executing which may     *)
(* raise, or from the network, with no second try.                         *)
LoadDepMap ==
  /\ pc = "deps"
  /\ UNCHANGED disk
  /\ \/ /\ dep_map # None
        /\ Goto("subrepo") /\ UNCHANGED <<attempt, dep_map>>
     \/ /\ dep_map = None /\ deps_file \notin {None, Broken}
        /\ Goto("subrepo") /\ dep_map' = deps_file /\ UNCHANGED attempt
     \/ /\ dep_map = None /\ deps_file = None
        /\ Goto("write_deps") /\ UNCHANGED <<attempt, dep_map>>
     \/ /\ dep_map = None
        /\ deps_file = Broken \/ (deps_file = None /\ "http" \in Faults)
        /\ End(None) /\ UNCHANGED interrupted

WriteDeps ==
  /\ pc = "write_deps"
  /\ deps_file' = Deps /\ dep_map' = Deps
  /\ Goto("subrepo") /\ UNCHANGED <<cache, attempt>>

(* fetch_subrepo_file; a path that no repository has is marked absent.     *)
FetchSubrepo ==
  /\ pc = "subrepo"
  /\ UNCHANGED deps_file
  /\ LET repo == Resolve(path, dep_map) IN
     \/ /\ repo # None /\ Serves(repo, path)
        /\ Goto("write") /\ UNCHANGED <<cache, attempt, dep_map>>
     \/ /\ repo = None \/ ~Serves(repo, path)
        /\ cache' = [cache EXCEPT ![path] = ABSENT]
        /\ Settle(None)
     \/ /\ repo # None /\ "http" \in Faults
        /\ End(None) /\ UNCHANGED <<cache, interrupted>>

Write ==
  /\ pc = "write"
  /\ cache' = [cache EXCEPT ![path] = Pin[path]]
  /\ Settle(Pin[path])
  /\ UNCHANGED deps_file

(* Mutated: a dry run in series mode too.                                  *)
AfterPatchDry(patch) == tree

(* run_patch, unless a preimage is absent; for a patch on its own it is a  *)
(* dry run.                                                                *)
AfterPatch(patch) ==
  IF problems \/ mode = "isolated" THEN tree ELSE Patched(tree, patch)

(* The full tree the patch is for: a patch on its own is for the pin.      *)
Base == IF mode = "isolated" THEN Pin ELSE built

(* Whatever comes of it, the next patch is tried.                          *)
ApplyPatch ==
  LET patch == series[index]
      fits  == ~problems /\ AllFit(tree, patch) /\ AllFit(Base, patch)
  IN
  /\ pc = "materialize" /\ todo = {}
  /\ pc' = "patch" /\ index' = index + 1
  /\ failures' = (failures \/ problems \/ ~AllFit(tree, patch))
  /\ tree' = AfterPatch(patch)
  /\ applies' = (applies /\ AllFit(Base, patch))
  /\ spoiled' = IF mode = "isolated" \/ fits THEN spoiled ELSE spoiled \cup DOMAIN patch
  /\ built' = IF mode = "isolated" THEN built ELSE Patched(built, patch)
  /\ UNCHANGED <<series, disk, mode, offline, problems, todo, attempt, dep_map,
                 result, interrupted, runs>>

(* The run is killed, or the disk is full: write_bytes and write_text have *)
(* emptied the file they write and may not have filled it again.           *)
Interrupt ==
  /\ "interrupt" \in Faults /\ pc # "ended"
  /\ interrupted' = TRUE
  /\ IF pc = "write" THEN \E part \in SUBSET Pin[path] :
       cache' = [cache EXCEPT ![path] = part] ELSE UNCHANGED cache
  /\ IF pc = "write_deps" THEN deps_file' \in {Broken} \cup SUBSET Deps
     ELSE UNCHANGED deps_file
  /\ End(None)

Next ==
  \/ \E m \in {"series", "isolated"}, off \in BOOLEAN : Begin(m, off)
  \/ NextPatch \/ Summary \/ Materialize
  \/ FetchFromSrc \/ LoadDepMap \/ WriteDeps \/ FetchSubrepo \/ Write
  \/ ApplyPatch \/ Interrupt

Spec == Init /\ [][Next]_vars
-----------------------------------------------------------------------------
TypeOK ==
  /\ series \in Series
  /\ cache \in [Path -> {None, ABSENT} \cup Content]
  /\ deps_file \in {None, Broken} \cup SUBSET Deps
  /\ mode \in {"series", "isolated"} /\ offline \in BOOLEAN
  /\ pc \in {"ended", "patch", "materialize", "src", "deps", "write_deps",
             "subrepo", "write"}
  /\ index \in 1 .. Len(series) + 1 /\ attempt \in 1 .. FETCH_RETRIES
  /\ todo \subseteq Path /\ tree \in Tree /\ built \in Tree /\ spoiled \subseteq Path
  /\ pc \notin {"ended", "patch"} => index <= Len(series)
  /\ pc \in {"src", "deps", "write_deps", "subrepo", "write"} => todo # {}
  /\ pc = "write" => Pin[path] # None
  /\ dep_map \in {None} \cup SUBSET Deps /\ (pc = "subrepo" => dep_map # None)
  /\ problems \in BOOLEAN /\ failures \in BOOLEAN /\ applies \in BOOLEAN
  /\ result \in {0, 1, None}
  /\ interrupted \in BOOLEAN /\ runs \in Nat

Adds(patch)    == {p \in DOMAIN patch : patch[p].old = None}
Deletes(patch) == {p \in DOMAIN patch : patch[p].new = None}

(* get: what the cache holds for a file is its bytes at the pin, or        *)
(* "absent" where the pin really has none, whatever requests failed and    *)
(* however often; provided that no run was broken off while writing.       *)
CacheIsThePin ==
  ~interrupted =>
    /\ \A p \in Path : cache[p] # None =>
         cache[p] = IF Pin[p] = None THEN ABSENT ELSE Pin[p]
    /\ deps_file \in {None, Deps}

(* Files cut short by interrupted runs, and sub-repositories lost with the *)
(* end of DEPS, can make validation fail, but never pass: a series that    *)
(* adds no file the pin has, and deletes none, applies to the full tree    *)
(* once the validator has passed it, whatever is in the cache.             *)
Plain ==
  \A i \in 1 .. Len(series) :
    /\ \A p \in Adds(series[i]) : Pin[p] = None
    /\ Deletes(series[i]) = {}

PassApplies == result = 0 /\ Plain => applies

(* This patch is reported as failed.                                       *)
Alarm == index' = index + 1 /\ (problems \/ ~AllFit(tree, series[index]))

(* A patch reported as failed fails on the full tree as well: on its own   *)
(* always, and in the series unless it touches a file of an earlier patch  *)
(* that was refused.  Only there can the two trees have parted; what such  *)
(* a patch left of itself, half applied or skipped, puts no other patch in *)
(* the wrong.  The cache must be sound.                                    *)
AlarmIsReal ==
  [][Alarm /\ ~interrupted /\ DOMAIN series[index] \cap spoiled = {}
       => ~AllFit(Base, series[index])]_vars

(* validate_patches.py:8-10: "patches are REALLY applied in sequence --    *)
(* so patches that stack on the same file are validated exactly as they    *)
(* will apply at build time".                                              *)
ValidatedAsBuilt == result = 0 /\ mode = "series" => applies
=============================================================================
