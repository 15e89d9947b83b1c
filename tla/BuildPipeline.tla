---------------------------- MODULE BuildPipeline ----------------------------
(***************************************************************************)
(* From the pinned Chromium archive to a package: tools/fetch.py,          *)
(* tools/apply_patches.py and the compiler as platforms/macos/build.sh and *)
(* platforms/windows/build.ps1 call them, over any number of attempts in   *)
(* the same build directory.                                               *)
(*                                                                         *)
(* Nothing runs concurrently; what is hard is what an attempt finds on     *)
(* disk.  Each command may break off half way: on its own (network, disk,  *)
(* a compiler error) or because the whole script is interrupted.  Then it  *)
(* is run again, perhaps after the checkout has moved to another pin.      *)
(***************************************************************************)
EXTENDS Integers, Sequences, FiniteSets

CONSTANTS
  Platform,    \* "macos": build.sh; "windows": build.ps1 -Package
  Pin,         \* the values of chromium_version.txt, as numbers
  Patch,
  Series,      \* for a pin, the patches in order; on macOS patches/series
               \* is followed by platforms/macos/patches/series
  Edits,       \* for a patch, the files it changes
  Creates,     \* for a patch, the files it adds
  File,        \* what the archive holds
  MaxAttempts, \* bound: how often the script is started
  MaxFaults,   \* bound: how many commands break off for no reason of their own
  New, Torn,   \* instead of a pin: made by a patch; broken off while extracted
  None         \* no such file; nothing linked; nothing packaged

Touches(p) == Edits[p] \cup Creates[p]
Path == File \cup UNION {Touches(p) : p \in Patch}

(* What a file is made of: the archive it comes from, or New if a patch    *)
(* made it, or Torn if extraction broke off inside it; and the patches     *)
(* that are in it.                                                         *)
Content == [base : Pin \cup {New, Torn}, patches : SUBSET Patch]
Tree == [Path -> Content \cup {None}]

ASSUME PlatformAssumption == Platform \in {"macos", "windows"}
ASSUME PinAssumption == Pin \subseteq Nat
ASSUME SeriesAssumption == Series \in [Pin -> Seq(Patch)]
ASSUME EditsAssumption == Edits \in [Patch -> SUBSET Path]
ASSUME CreatesAssumption == Creates \in [Patch -> SUBSET (Path \ File)]
ASSUME BoundsAssumption == MaxAttempts \in Nat /\ MaxFaults \in Nat
ASSUME NoneAssumption == None \notin Content /\ None \notin Tree

VARIABLES
  pin,       \* chromium_version.txt, downloads.ini and the series, in step
  cache,     \* the archives in build/download_cache, one name per pin
  src,       \* does build/src exist?
  tree,      \* what is in it
  pc,        \* the command the script is at
  n,         \* cmd_apply: the position in the series
  linked,    \* what the browser in out/Default was linked from
  package,   \* the last package made: the version on its label, its content
  attempts, faults,  \* how often the two bounds were drawn on
  fresh      \* history: there was no build/src when this attempt started

disk == <<cache, src, tree, linked, package>>
vars == <<pin, disk, pc, n, attempts, faults, fresh>>

Empty == [f \in Path |-> None]

Init ==
  /\ pin \in Pin
  /\ cache = [v \in Pin |-> "none"]
  /\ src = FALSE
  /\ tree = Empty
  /\ pc = "idle"
  /\ n = 1
  /\ linked = None
  /\ package = None
  /\ attempts = 0
  /\ faults = 0
  /\ fresh = FALSE
-----------------------------------------------------------------------------
Goto(command) == pc' = command /\ UNCHANGED <<pin, n, attempts, faults, fresh>>

(* Mutated: without set -e.                                                *)
AfterFailureGoOn(next) == next

(* A command exits with a status other than 0.  set -e stops build.sh; to  *)
(* PowerShell the status of a native command is no error.                  *)
AfterFailure(next) == IF Platform = "windows" THEN next ELSE "idle"

Fail(next) == Goto(AfterFailure(next))

(* A command breaks off, or the script is interrupted with it.             *)
BreakOff(next) ==
  /\ faults < MaxFaults
  /\ faults' = faults + 1
  /\ pc' \in {AfterFailure(next), "idle"}
  /\ UNCHANGED <<pin, n, attempts, fresh>>

Start ==
  /\ pc = "idle" /\ attempts < MaxAttempts
  /\ attempts' = attempts + 1
  /\ pc' = "retrieve" /\ n' = 1
  /\ fresh' = ~src
  /\ UNCHANGED <<pin, faults, disk>>

(* Mutated: a file that is there is taken to be the archive.               *)
RetrieveTrusting ==
  /\ pc = "retrieve"
  /\ cache' = [cache EXCEPT ![pin] = IF @ = "none" THEN "whole" ELSE @]
  /\ Goto("unpack")
  /\ UNCHANGED <<src, tree, linked, package>>

(* fetch.py retrieve: whatever is cached under the name is kept only if    *)
(* its hash is right.                                                      *)
Retrieve ==
  /\ pc = "retrieve"
  /\ cache' = [cache EXCEPT ![pin] = "whole"]
  /\ Goto("unpack")
  /\ UNCHANGED <<src, tree, linked, package>>

(* The server is not reached; the download stops and stays as it is; or it *)
(* ends with the wrong hash and is deleted.                                *)
RetrieveBreaks ==
  /\ pc = "retrieve" /\ cache[pin] # "whole"
  /\ \E left \in {cache[pin], "partial", "none"} : cache' = [cache EXCEPT ![pin] = left]
  /\ BreakOff("unpack")
  /\ UNCHANGED <<src, tree, linked, package>>

(* build.sh unpacks only if there is no build/src.                         *)
Skips == Platform = "macos" /\ src

Pristine(f) == [base |-> pin, patches |-> {}]

(* fetch.py unpack: verify again, then extract over what is there.         *)
Unpack ==
  /\ pc = "unpack"
  /\ \/ /\ Skips
        /\ Goto("apply") /\ UNCHANGED <<src, tree>>
     \/ /\ ~Skips /\ cache[pin] # "whole"
        /\ Fail("apply") /\ UNCHANGED <<src, tree>>
     \/ /\ ~Skips /\ cache[pin] = "whole"
        /\ src' = TRUE
        /\ tree' = [f \in Path |-> IF f \in File THEN Pristine(f) ELSE tree[f]]
        /\ Goto("apply")
  /\ UNCHANGED <<cache, linked, package>>

(* Some files are extracted, one perhaps not to its end.                   *)
UnpackBreaks ==
  /\ pc = "unpack" /\ ~Skips /\ cache[pin] = "whole"
  /\ src' = TRUE
  /\ \E done \in SUBSET File : \E torn \in {None} \cup (File \ done) :
       tree' = [f \in Path |-> IF f \in done THEN Pristine(f)
                               ELSE IF f = torn THEN [base |-> Torn, patches |-> {}]
                               ELSE tree[f]]
  /\ BreakOff("apply")
  /\ UNCHANGED <<cache, linked, package>>
-----------------------------------------------------------------------------
(* GNU patch -p1 --forward takes one file after the other; a file that is  *)
(* missing, already there, or patched before is rejected, the others are   *)
(* changed all the same.  On what the series was made for it always fits;  *)
(* on other content it may.                                                *)
Earlier(f, m) == {Series[pin][k] : k \in {j \in 1 .. m - 1 : f \in Touches(Series[pin][j])}}

MayFit(p, f) ==
  IF f \in Creates[p] THEN tree[f] = None
  ELSE tree[f] # None /\ p \notin tree[f].patches

MustFit(p, f) ==
  /\ MayFit(p, f)
  /\ f \in Creates[p] \/ tree[f] = [base |-> IF f \in File THEN pin ELSE New,
                                    patches |-> Earlier(f, n)]

Patched(p, fs) ==
  [f \in Path |->
     IF f \notin fs THEN tree[f]
     ELSE IF f \in Creates[p] THEN [base |-> New, patches |-> {p}]
     ELSE [base |-> tree[f].base, patches |-> tree[f].patches \cup {p}]]

Fitting(p) == {fs \in SUBSET Touches(p) :
                 \A f \in Touches(p) : /\ f \in fs => MayFit(p, f)
                                       /\ MustFit(p, f) => f \in fs}

Applying == pc = "apply" /\ src /\ n <= Len(Series[pin])

(* Mutated: with --keep-going, the failures only reported.                 *)
ApplyKeepGoing ==
  /\ Applying
  /\ \E fs \in Fitting(Series[pin][n]) : tree' = Patched(Series[pin][n], fs)
  /\ n' = n + 1
  /\ UNCHANGED <<pin, pc, attempts, faults, fresh>>
  /\ UNCHANGED <<cache, src, linked, package>>

(* Mutated: the position is advanced twice.                                *)
ApplySkips ==
  /\ Applying
  /\ \E fs \in Fitting(Series[pin][n]) : tree' = Patched(Series[pin][n], fs)
  /\ n' = n + 2
  /\ UNCHANGED <<pin, pc, attempts, faults, fresh>>
  /\ UNCHANGED <<cache, src, linked, package>>

(* cmd_apply: the next patch of the series; the first that does not fit    *)
(* everywhere is the last.                                                 *)
Apply ==
  /\ Applying
  /\ LET p == Series[pin][n]
     IN \E fs \in Fitting(p) :
          /\ tree' = Patched(p, fs)
          /\ IF fs = Touches(p)
             THEN n' = n + 1 /\ UNCHANGED <<pin, pc, attempts, faults, fresh>>
             ELSE Fail("build")
  /\ UNCHANGED <<cache, src, linked, package>>

ApplyEnds ==
  /\ pc = "apply" /\ ~Applying
  /\ IF src THEN Goto("build") ELSE Fail("build")
  /\ UNCHANGED disk

ApplyBreaks ==
  /\ Applying
  /\ \E fs \in Fitting(Series[pin][n]) : \E done \in SUBSET fs :
       tree' = Patched(Series[pin][n], done)
  /\ BreakOff("build")
  /\ UNCHANGED <<cache, src, linked, package>>
-----------------------------------------------------------------------------
(* The tree the series is meant to make of the archive of pin v.           *)
Patches(v, f) == {Series[v][k] : k \in {j \in 1 .. Len(Series[v]) : f \in Touches(Series[v][j])}}

Prepared(v) ==
  [f \in Path |->
     IF f \in File THEN [base |-> v, patches |-> Patches(v, f)]
     ELSE IF Patches(v, f) = {} THEN None
     ELSE [base |-> New, patches |-> Patches(v, f)]]

(* gn gen and ninja, or build.py, which looks for build/src first.  They   *)
(* need every file of the archive; what they make of a tree that is not as *)
(* it should be is up to them.                                             *)
Build ==
  /\ pc = "build" /\ src /\ \A f \in File : tree[f] # None
  /\ linked' = tree
  /\ Goto("package")
  /\ UNCHANGED <<cache, src, tree, package>>

BuildFails ==
  /\ pc = "build"
  /\ \/ (src => tree # Prepared(pin)) /\ Fail("package")
     \/ BreakOff("package")
  /\ UNCHANGED disk

(* create_dmg.sh and makensis pack the browser they find in out/Default,   *)
(* under the version the checkout names.                                   *)
Package ==
  /\ pc = "package"
  /\ package' = IF linked = None THEN package ELSE [label |-> pin, from |-> linked]
  /\ Goto("idle")
  /\ UNCHANGED <<cache, src, tree, linked>>

PackageBreaks == pc = "package" /\ BreakOff("idle") /\ UNCHANGED disk

(* Between attempts: BUILDING.md's advice after corruption, and a checkout *)
(* of the next pin.                                                        *)
DeleteSource ==
  /\ pc = "idle" /\ src
  /\ src' = FALSE /\ tree' = Empty /\ linked' = None
  /\ UNCHANGED <<pin, cache, package, pc, n, attempts, faults, fresh>>

MovePin ==
  /\ pc = "idle" /\ pin + 1 \in Pin
  /\ pin' = pin + 1
  /\ UNCHANGED <<disk, pc, n, attempts, faults, fresh>>

Script == Retrieve \/ Unpack \/ Apply \/ ApplyEnds \/ Build \/ Package

Next ==
  \/ Start \/ Script \/ BuildFails
  \/ RetrieveBreaks \/ UnpackBreaks \/ ApplyBreaks \/ PackageBreaks
  \/ DeleteSource \/ MovePin

Spec == Init /\ [][Next]_vars

(* A command that is running goes on; nobody has to start one.             *)
FairSpec == Spec /\ WF_vars(Script)
-----------------------------------------------------------------------------
(* Every variable has its type.                                            *)
TypeOK ==
  /\ pin \in Pin
  /\ cache \in [Pin -> {"none", "partial", "whole"}]
  /\ src \in BOOLEAN
  /\ tree \in Tree
  /\ pc \in {"idle", "retrieve", "unpack", "apply", "build", "package"}
  /\ n \in Nat
  /\ pc = "apply" => n <= Len(Series[pin]) + 1
  /\ linked \in Tree \cup {None}
  /\ package \in [label : Pin, from : Tree] \cup {None}
  /\ attempts \in 0 .. MaxAttempts
  /\ faults \in 0 .. MaxFaults
  /\ fresh \in BOOLEAN

(* No package leaves out a patch: whatever broke off, in which attempt, and *)
(* whatever an earlier attempt had left behind, the browser in the package *)
(* was linked from files that hold every patch of the series it is made by. *)
EveryPatchIn ==
  package # None =>
    \A k \in 1 .. Len(Series[package.label]) :
      \A f \in Touches(Series[package.label][k]) :
        /\ package.from[f] # None
        /\ Series[package.label][k] \in package.from[f].patches

(* A build from scratch is exact: what an attempt packages that found no    *)
(* build/src is the archive its label names with the whole series in it,   *)
(* nothing else, whatever earlier attempts left in the download cache, and *)
(* whatever breaks off in this one.                                        *)
FreshIsExact ==
  [][package' # package /\ fresh =>
       package' = [label |-> pin, from |-> Prepared(pin)]]_vars

(* Delete build/src and run again (BUILDING.md): from any state of the     *)
(* download cache, an attempt without further faults ends in the package   *)
(* that was wanted.                                                        *)
RerunRecovers ==
  (pc = "retrieve" /\ ~src /\ faults = MaxFaults)
    ~> (package = [label |-> pin, from |-> Prepared(pin)])

(* build.sh: fetch pinned Chromium, apply patches, build and package: what *)
(* is packaged is the pinned source under the pinned version.              *)
PackageIsThePin ==
  package # None => \A f \in File : package.from[f].base = package.label
=============================================================================
