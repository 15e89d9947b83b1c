------------------------- MODULE BuildPipelineProofs -------------------------
(***************************************************************************)
(* Why no package made by build.sh leaves out a patch, for every series,   *)
(* every archive and any number of attempts and faults.                    *)
(*                                                                         *)
(* EveryPatchIn is not inductive: that the linked browser holds every      *)
(* patch follows from where the script is.  HoldsSoFar adds that: while    *)
(* the series is applied the tree holds the patches before position n, at  *)
(* the compiler it holds all of them, and at the packager what was linked  *)
(* does.  Each of these needs the script to stop at a failure.             *)
(*                                                                         *)
(* A build from scratch is exact, FreshIsExact, by FreshSoFar: what the    *)
(* attempt has made so far is, file by file, what the patches before       *)
(* position n make of the archive.                                         *)
(***************************************************************************)
EXTENDS BuildPipeline, TLAPS

Holds(t, p) == \A f \in Touches(p) : t[f] # None /\ p \in t[f].patches

HoldsFirst(t, v, m) == \A k \in 1 .. Len(Series[v]) : k < m => Holds(t, Series[v][k])

HoldsAll(t, v) == \A k \in 1 .. Len(Series[v]) : Holds(t, Series[v][k])

Position ==
  /\ n >= 1
  /\ pc \in {"retrieve", "unpack"} => n = 1

HoldsSoFar ==
  /\ pc = "apply" => HoldsFirst(tree, pin, n)
  /\ pc = "build" => HoldsAll(tree, pin)
  /\ pc = "package" => linked # None /\ HoldsAll(linked, pin)
  /\ package # None => HoldsAll(package.from, package.label)

TypeInv == TypeOK /\ Position
-----------------------------------------------------------------------------
(* Only files of the tree are touched.                                     *)
LEMMA TouchesInPath == \A p \in Patch : Touches(p) \subseteq Path
  BY DEF Path

(* The patches of a series are patches, and each position names one.       *)
LEMMA SeriesType ==
  ASSUME NEW v \in Pin
  PROVE  /\ Series[v] \in Seq(Patch)
         /\ Len(Series[v]) \in Nat
         /\ \A k \in 1 .. Len(Series[v]) : Series[v][k] \in Patch
  BY SeriesAssumption

(* An empty tree, an extracted tree and a patched tree are trees.          *)
LEMMA EmptyType == Empty \in Tree
  BY DEF Empty, Tree

LEMMA PatchedType ==
  ASSUME tree \in Tree, NEW p \in Patch, NEW fs \in SUBSET Touches(p),
         \A f \in fs : MayFit(p, f)
  PROVE  Patched(p, fs) \in Tree
<1> SUFFICES ASSUME NEW f \in Path
             PROVE  (IF f \notin fs THEN tree[f]
                     ELSE IF f \in Creates[p] THEN [base |-> New, patches |-> {p}]
                     ELSE [base |-> tree[f].base, patches |-> tree[f].patches \cup {p}])
                      \in Content \cup {None}
  BY DEF Patched, Tree
<1>1. tree[f] \in Content \cup {None}
  BY DEF Tree
<1>2. CASE f \notin fs
  BY <1>1, <1>2
<1>3. CASE f \in fs /\ f \in Creates[p]
  BY <1>3 DEF Content
<1>4. CASE f \in fs /\ f \notin Creates[p]
  <2>1. tree[f] # None
    BY <1>4 DEF MayFit
  <2>2. tree[f] \in Content
    BY <1>1, <2>1
  <2>3. [base |-> tree[f].base, patches |-> tree[f].patches \cup {p}] \in Content
    BY <2>2 DEF Content
  <2> QED
    BY <1>4, <2>3
<1> QED
  BY <1>2, <1>3, <1>4

(* Whatever part of a patch is applied: the files it fits hold it, and no  *)
(* file loses a patch.                                                     *)
LEMMA PatchedHolds ==
  ASSUME tree \in Tree, NEW p \in Patch, NEW fs \in SUBSET Touches(p),
         \A f \in fs : MayFit(p, f)
  PROVE  /\ fs = Touches(p) => Holds(Patched(p, fs), p)
         /\ \A q \in Patch : Holds(tree, q) => Holds(Patched(p, fs), q)
<1>1. ASSUME NEW f \in Path
      PROVE  Patched(p, fs)[f] = IF f \notin fs THEN tree[f]
               ELSE IF f \in Creates[p] THEN [base |-> New, patches |-> {p}]
               ELSE [base |-> tree[f].base, patches |-> tree[f].patches \cup {p}]
  BY <1>1 DEF Patched
<1>2. ASSUME NEW f \in fs
      PROVE  Patched(p, fs)[f] # None /\ p \in Patched(p, fs)[f].patches
  <2>1. f \in Path
    BY TouchesInPath
  <2>2. Patched(p, fs)[f] \in Content \cup {None}
    BY <2>1, PatchedType DEF Tree
  <2>3. CASE f \in Creates[p]
    <3>1. [base |-> New, patches |-> {p}] \in Content
      BY DEF Content
    <3>2. Patched(p, fs)[f] = [base |-> New, patches |-> {p}]
      BY <1>1, <2>1, <2>3
    <3>3. p \in [base |-> New, patches |-> {p}].patches
      OBVIOUS
    <3> QED
      BY <3>1, <3>2, <3>3, NoneAssumption
  <2>4. CASE f \notin Creates[p]
    <3>1. tree[f] \in Content
      BY <2>1, <2>4 DEF MayFit, Tree
    <3>2. [base |-> tree[f].base, patches |-> tree[f].patches \cup {p}] \in Content
      BY <3>1 DEF Content
    <3>3. Patched(p, fs)[f] = [base |-> tree[f].base, patches |-> tree[f].patches \cup {p}]
      BY <1>1, <2>1, <2>4
    <3> QED
      BY <3>2, <3>3, NoneAssumption
  <2> QED
    BY <2>3, <2>4
<1>3. ASSUME NEW q \in Patch, Holds(tree, q), NEW f \in Touches(q)
      PROVE  Patched(p, fs)[f] # None /\ q \in Patched(p, fs)[f].patches
  <2>1. f \in Path
    BY TouchesInPath
  <2>2. tree[f] # None /\ q \in tree[f].patches
    BY <1>3 DEF Holds
  <2>3. CASE f \notin fs
    BY <1>1, <2>1, <2>2, <2>3
  <2>4. CASE f \in fs
    <3>1. f \notin Creates[p]
      BY <2>2, <2>4 DEF MayFit
    <3>2. Patched(p, fs)[f] = [base |-> tree[f].base, patches |-> tree[f].patches \cup {p}]
      BY <1>1, <2>1, <2>4, <3>1
    <3> QED
      BY <1>2, <2>2, <2>4, <3>2
  <2> QED
    BY <2>3, <2>4
<1>4. fs = Touches(p) => Holds(Patched(p, fs), p)
  BY <1>2 DEF Holds
<1> QED
  BY <1>3, <1>4 DEF Holds
-----------------------------------------------------------------------------
LEMMA TypeInit == Init => TypeInv
<1> SUFFICES ASSUME Init PROVE TypeInv
  OBVIOUS
<1>1. tree \in Tree /\ src \in BOOLEAN /\ linked \in Tree \cup {None}
  BY EmptyType DEF Init
<1>2. cache \in [Pin -> {"none", "partial", "whole"}]
  BY DEF Init
<1>3. attempts \in 0 .. MaxAttempts /\ faults \in 0 .. MaxFaults
  BY BoundsAssumption DEF Init
<1>4. fresh \in BOOLEAN
  BY DEF Init
<1> QED
  BY <1>1, <1>2, <1>3, <1>4 DEF Init, TypeInv, TypeOK, Position

LEMMA TypeStep == TypeInv /\ [Next]_vars => TypeInv'
<1> SUFFICES ASSUME TypeInv, [Next]_vars
             PROVE  TypeInv'
  OBVIOUS
<1> USE DEF TypeInv
<1>u. pin \in Pin /\ Len(Series[pin]) \in Nat
  BY SeriesType DEF TypeOK
<1>1. CASE Start
  BY <1>1, <1>u, BoundsAssumption DEF Start, TypeOK, Position, disk
<1>2. CASE Retrieve
  BY <1>2, <1>u DEF Retrieve, Goto, TypeOK, Position
<1>3. CASE Unpack
  <2>1. tree' \in Tree /\ src' \in BOOLEAN
    <3>1. CASE UNCHANGED <<src, tree>>
      BY <3>1 DEF TypeOK
    <3>2. CASE /\ src' = TRUE
               /\ tree' = [f \in Path |-> IF f \in File THEN Pristine(f) ELSE tree[f]]
      <4>1. \A f \in Path : Pristine(f) \in Content
        BY <1>u DEF Pristine, Content
      <4> QED
        BY <3>2, <4>1 DEF TypeOK, Tree
    <3> QED
      BY <1>3, <3>1, <3>2 DEF Unpack
  <2>2. UNCHANGED <<pin, cache, n, attempts, faults, fresh, linked, package>>
    BY <1>3 DEF Unpack, Goto, Fail
  <2>3. pc' \in {"apply", "idle"} /\ n = 1
    BY <1>3 DEF Unpack, Goto, Fail, AfterFailure, Position
  <2> QED
    BY <2>1, <2>2, <2>3, <1>u DEF TypeOK, Position
<1>4. CASE Apply
  <2> DEFINE p == Series[pin][n]
  <2>1. /\ p \in Patch /\ n <= Len(Series[pin]) /\ pc = "apply"
    BY <1>4, <1>u, SeriesType DEF Apply, Applying, TypeOK, Position
  <2>2. PICK fs \in Fitting(p) :
          /\ tree' = Patched(p, fs)
          /\ IF fs = Touches(p)
             THEN n' = n + 1 /\ UNCHANGED <<pin, pc, attempts, faults, fresh>>
             ELSE Fail("build")
    BY <1>4 DEF Apply
  <2>3. tree' \in Tree
    BY <2>1, <2>2, PatchedType DEF Fitting, TypeOK
  <2>4. UNCHANGED <<cache, src, linked, package>>
    BY <1>4 DEF Apply
  <2>5. \/ n' = n + 1 /\ UNCHANGED <<pin, pc, attempts, faults, fresh>>
        \/ pc' \in {"build", "idle"} /\ UNCHANGED <<pin, n, attempts, faults, fresh>>
    BY <2>2 DEF Fail, Goto, AfterFailure
  <2> QED
    BY <2>1, <2>3, <2>4, <2>5, <1>u DEF TypeOK, Position
<1>5. CASE ApplyEnds
  BY <1>5, <1>u DEF ApplyEnds, Goto, Fail, AfterFailure, TypeOK, Position, disk
<1>6. CASE Build
  BY <1>6, <1>u DEF Build, Goto, TypeOK, Position
<1>7. CASE Package
  BY <1>7, <1>u DEF Package, Goto, TypeOK, Position
<1>8. CASE BuildFails
  BY <1>8, <1>u, BoundsAssumption
     DEF BuildFails, Goto, Fail, BreakOff, AfterFailure, TypeOK, Position, disk
<1>9. CASE RetrieveBreaks
  <2>1. cache' \in [Pin -> {"none", "partial", "whole"}]
    BY <1>9 DEF RetrieveBreaks, TypeOK
  <2>2. pc' \in {"unpack", "idle"} /\ pc = "retrieve"
    BY <1>9 DEF RetrieveBreaks, BreakOff, AfterFailure
  <2> QED
    BY <1>9, <2>1, <2>2, <1>u, BoundsAssumption DEF RetrieveBreaks, BreakOff, TypeOK, Position
<1>10. CASE UnpackBreaks
  <2>1. tree' \in Tree
    <3>1. PICK done \in SUBSET File, torn \in {None} \cup File :
            tree' = [f \in Path |-> IF f \in done THEN Pristine(f)
                               ELSE IF f = torn THEN [base |-> Torn, patches |-> {}]
                               ELSE tree[f]]
      BY <1>10 DEF UnpackBreaks
    <3>2. \A f \in Path : Pristine(f) \in Content
      BY <1>u DEF Pristine, Content
    <3>3. [base |-> Torn, patches |-> {}] \in Content
      BY DEF Content
    <3> QED
      BY <3>1, <3>2, <3>3 DEF TypeOK, Tree
  <2>2. pc' \in {"apply", "idle"} /\ n = 1
    BY <1>10 DEF UnpackBreaks, BreakOff, AfterFailure, Position
  <2> QED
    BY <1>10, <2>1, <2>2, <1>u, BoundsAssumption DEF UnpackBreaks, BreakOff, TypeOK, Position
<1>11. CASE ApplyBreaks
  <2> DEFINE p == Series[pin][n]
  <2>1. p \in Patch
    BY <1>11, <1>u, SeriesType DEF ApplyBreaks, Applying, TypeOK, Position
  <2>2. PICK fs \in Fitting(p), done \in SUBSET Touches(p) :
          done \subseteq fs /\ tree' = Patched(p, done)
    BY <1>11 DEF ApplyBreaks, Fitting
  <2>3. tree' \in Tree
    BY <2>1, <2>2, PatchedType DEF Fitting, TypeOK
  <2>4. pc' \in {"build", "idle"}
    BY <1>11 DEF ApplyBreaks, BreakOff, AfterFailure
  <2> QED
    BY <1>11, <2>3, <2>4, <1>u, BoundsAssumption DEF ApplyBreaks, BreakOff, TypeOK, Position
<1>12. CASE PackageBreaks
  BY <1>12, <1>u, BoundsAssumption
     DEF PackageBreaks, BreakOff, AfterFailure, TypeOK, Position, disk
<1>13. CASE DeleteSource
  BY <1>13, <1>u, EmptyType DEF DeleteSource, TypeOK, Position
<1>14. CASE MovePin
  BY <1>14, <1>u DEF MovePin, TypeOK, Position, disk
<1>15. CASE UNCHANGED vars
  BY <1>15 DEF vars, disk, TypeOK, Position
<1> QED
  BY <1>1, <1>2, <1>3, <1>4, <1>5, <1>6, <1>7, <1>8, <1>9, <1>10, <1>11, <1>12,
     <1>13, <1>14, <1>15 DEF Next, Script

(* Every variable keeps its type; on both platforms.                       *)
THEOREM TypeCorrect == Spec => []TypeOK
<1>1. TypeInv => TypeOK
  BY DEF TypeInv
<1> QED
  BY TypeInit, TypeStep, <1>1, PTL DEF Spec
-----------------------------------------------------------------------------
LEMMA HoldsInit == Init => HoldsSoFar
  BY DEF Init, HoldsSoFar

(* build.sh stops: no command runs after one that failed or broke off.     *)
LEMMA MacosStops ==
  ASSUME Platform = "macos", NEW next
  PROVE  /\ Fail(next) => pc' = "idle"
         /\ BreakOff(next) => pc' = "idle"
  BY DEF Fail, BreakOff, Goto, AfterFailure

LEMMA HoldsStep ==
  ASSUME Platform = "macos"
  PROVE  TypeInv /\ HoldsSoFar /\ [Next]_vars => HoldsSoFar'
<1> SUFFICES ASSUME TypeInv, HoldsSoFar, [Next]_vars
             PROVE  HoldsSoFar'
  OBVIOUS
<1>u. pin \in Pin /\ Len(Series[pin]) \in Nat
  BY SeriesType DEF TypeInv, TypeOK
<1>p. ASSUME package' = package PROVE package' # None => HoldsAll(package'.from, package'.label)
  BY <1>p DEF HoldsSoFar
<1>i. ASSUME package' = package, pc' \in {"idle", "retrieve", "unpack"} PROVE HoldsSoFar'
  BY <1>p, <1>i DEF HoldsSoFar, HoldsAll, Holds
<1>1. CASE Start
  BY <1>1, <1>i DEF Start, disk
<1>2. CASE Retrieve
  BY <1>2, <1>i DEF Retrieve, Goto
<1>3. CASE Unpack
  <2>1. package' = package /\ pin' = pin /\ n' = 1
    BY <1>3 DEF Unpack, Goto, Fail, TypeInv, Position
  <2>2. pc' \in {"apply", "idle"}
    BY <1>3, MacosStops DEF Unpack, Goto
  <2>3. HoldsFirst(tree', pin', n')
    BY <2>1, <1>u DEF HoldsFirst
  <2> QED
    BY <2>1, <2>2, <2>3, <1>p DEF HoldsSoFar, HoldsAll, HoldsFirst, Holds
<1>4. CASE Apply
  <2> DEFINE p == Series[pin][n]
  <2>1. /\ n \in 1 .. Len(Series[pin]) /\ p \in Patch /\ pc = "apply"
    BY <1>4, <1>u, SeriesType DEF Apply, Applying, TypeInv, TypeOK, Position
  <2>2. PICK fs \in Fitting(p) :
          /\ tree' = Patched(p, fs)
          /\ IF fs = Touches(p)
             THEN n' = n + 1 /\ UNCHANGED <<pin, pc, attempts, faults, fresh>>
             ELSE Fail("build")
    BY <1>4 DEF Apply
  <2>3. package' = package
    BY <1>4 DEF Apply
  <2>4. CASE fs # Touches(p)
    BY <2>2, <2>3, <2>4, <1>i, MacosStops
  <2>5. CASE fs = Touches(p)
    <3>1. n' = n + 1 /\ pin' = pin /\ pc' = "apply"
      BY <2>1, <2>2, <2>5
    <3>2. /\ Holds(tree', p)
          /\ \A q \in Patch : Holds(tree, q) => Holds(tree', q)
      BY <2>1, <2>2, <2>5, PatchedHolds DEF Fitting, TypeInv, TypeOK
    <3>3. ASSUME NEW k \in 1 .. Len(Series[pin]), k < n + 1
          PROVE  Holds(tree', Series[pin][k])
      <4>1. CASE k = n
        BY <3>2, <4>1
      <4>2. CASE k # n
        <5>1. k < n
          BY <2>1, <3>3, <4>2
        <5>2. Holds(tree, Series[pin][k])
          BY <2>1, <5>1 DEF HoldsSoFar, HoldsFirst
        <5> QED
          BY <3>2, <5>2, <1>u, SeriesType
      <4> QED
        BY <4>1, <4>2
    <3>4. HoldsFirst(tree', pin', n')
      BY <3>1, <3>3 DEF HoldsFirst
    <3> QED
      BY <2>3, <3>1, <3>4, <1>p DEF HoldsSoFar, HoldsAll, HoldsFirst, Holds
  <2> QED
    BY <2>4, <2>5
<1>5. CASE ApplyEnds
  <2>1. package' = package /\ pin' = pin /\ tree' = tree
    BY <1>5 DEF ApplyEnds, Goto, Fail, disk
  <2>2. CASE ~src
    BY <1>5, <2>1, <2>2, <1>i, MacosStops DEF ApplyEnds
  <2>3. CASE src
    <3>1. pc = "apply" /\ n > Len(Series[pin]) /\ pc' = "build"
      BY <1>5, <2>3, <1>u DEF ApplyEnds, Applying, Goto, TypeInv, TypeOK
    <3>2. ASSUME NEW k \in 1 .. Len(Series[pin])
          PROVE  Holds(tree, Series[pin][k])
      BY <3>1, <1>u DEF HoldsSoFar, HoldsFirst, TypeInv, TypeOK
    <3>3. HoldsAll(tree', pin')
      BY <2>1, <3>2 DEF HoldsAll
    <3> QED
      BY <2>1, <3>1, <3>3, <1>p DEF HoldsSoFar, HoldsAll, Holds
  <2> QED
    BY <2>2, <2>3 DEF TypeInv, TypeOK
<1>6. CASE Build
  <2>1. /\ pc = "build" /\ pc' = "package" /\ pin' = pin
        /\ linked' = tree /\ package' = package
    BY <1>6 DEF Build, Goto
  <2>2. HoldsAll(linked', pin')
    BY <2>1 DEF HoldsSoFar
  <2>3. linked' # None
    BY <2>1, NoneAssumption DEF TypeInv, TypeOK
  <2> QED
    BY <2>1, <2>2, <2>3, <1>p DEF HoldsSoFar, HoldsAll, Holds
<1>7. CASE Package
  <2>1. pc = "package" /\ pc' = "idle" /\ linked # None /\ HoldsAll(linked, pin)
    BY <1>7 DEF Package, Goto, HoldsSoFar
  <2>2. package' = [label |-> pin, from |-> linked]
    BY <1>7, <2>1 DEF Package
  <2>3. HoldsAll(package'.from, package'.label)
    BY <2>1, <2>2
  <2> QED
    BY <2>1, <2>3 DEF HoldsSoFar, HoldsAll, Holds
<1>8. CASE BuildFails
  BY <1>8, <1>i, MacosStops DEF BuildFails, disk
<1>9. CASE RetrieveBreaks
  BY <1>9, <1>i, MacosStops DEF RetrieveBreaks
<1>10. CASE UnpackBreaks
  BY <1>10, <1>i, MacosStops DEF UnpackBreaks
<1>11. CASE ApplyBreaks
  BY <1>11, <1>i, MacosStops DEF ApplyBreaks
<1>12. CASE PackageBreaks
  BY <1>12, <1>i, MacosStops DEF PackageBreaks, disk
<1>13. CASE DeleteSource
  BY <1>13, <1>i DEF DeleteSource
<1>14. CASE MovePin
  BY <1>14, <1>i DEF MovePin, disk
<1>15. CASE UNCHANGED vars
  BY <1>15 DEF vars, disk, HoldsSoFar, HoldsFirst, HoldsAll, Holds
<1> QED
  BY <1>1, <1>2, <1>3, <1>4, <1>5, <1>6, <1>7, <1>8, <1>9, <1>10, <1>11, <1>12,
     <1>13, <1>14, <1>15 DEF Next, Script

(* Made by build.sh, no package leaves out a patch: neither after commands *)
(* that failed or were interrupted, nor on what earlier attempts left.     *)
THEOREM AllPatchesShip ==
  ASSUME Platform = "macos"
  PROVE  Spec => []EveryPatchIn
<1>1. Init => TypeInv /\ HoldsSoFar
  BY TypeInit, HoldsInit
<1>2. TypeInv /\ HoldsSoFar /\ [Next]_vars => (TypeInv /\ HoldsSoFar)'
  BY TypeStep, HoldsStep
<1>3. HoldsSoFar => EveryPatchIn
  BY DEF HoldsSoFar, EveryPatchIn, HoldsAll, Holds
<1> QED
  BY <1>1, <1>2, <1>3, PTL DEF Spec
-----------------------------------------------------------------------------
(* A build from scratch.  It is exact where the script stops at a failure; *)
(* and where it does not, if nothing fails: no command of its own, and no  *)
(* patch because the series was not made for the pin.                      *)

(* The patches of a series before position m that touch f, and the tree    *)
(* those patches make of the archive.                                      *)
First(v, f, m) == {Series[v][k] : k \in {j \in 1 .. m - 1 : f \in Touches(Series[v][j])}}

PreparedFirst(v, m) ==
  [f \in Path |->
     IF f \in File THEN [base |-> v, patches |-> First(v, f, m)]
     ELSE IF First(v, f, m) = {} THEN None
     ELSE [base |-> New, patches |-> First(v, f, m)]]

(* Each patch of the series adds files that are not there and edits files  *)
(* that are, and is in none of them already.                               *)
WellMade(v) ==
  \A k \in 1 .. Len(Series[v]) : \A f \in Touches(Series[v][k]) :
    IF f \in Creates[Series[v][k]] THEN First(v, f, k) = {}
    ELSE /\ f \in File \/ First(v, f, k) # {}
         /\ Series[v][k] \notin First(v, f, k)

StopsOrFits ==
  Platform = "macos" \/ (MaxFaults = 0 /\ \A v \in Pin : WellMade(v))

(* What an attempt that found no build/src has made so far.                *)
FreshSoFar ==
  /\ ~src => tree = Empty /\ linked = None
  /\ fresh =>
       /\ pc \in {"retrieve", "unpack"} => ~src
       /\ pc \in {"retrieve", "unpack", "apply", "build"} => linked = None
       /\ pc = "apply" /\ src => tree = PreparedFirst(pin, n)
       /\ pc = "build" /\ src => tree = Prepared(pin)
       /\ pc = "package" /\ linked # None => linked = Prepared(pin)

LEMMA FirstProperties ==
  ASSUME NEW v \in Pin, NEW f
  PROVE  /\ First(v, f, 1) = {}
         /\ First(v, f, Len(Series[v]) + 1) = Patches(v, f)
         /\ \A m \in 1 .. Len(Series[v]) :
              /\ First(v, f, m) \subseteq Patch
              /\ First(v, f, m + 1) = First(v, f, m) \cup
                   (IF f \in Touches(Series[v][m]) THEN {Series[v][m]} ELSE {})
<1>1. Len(Series[v]) \in Nat /\ \A k \in 1 .. Len(Series[v]) : Series[v][k] \in Patch
  BY SeriesType
<1>2. First(v, f, 1) = {}
  BY DEF First
<1>3. First(v, f, Len(Series[v]) + 1) = Patches(v, f)
  <2>1. (Len(Series[v]) + 1) - 1 = Len(Series[v])
    BY <1>1
  <2> QED
    BY <2>1 DEF First, Patches
<1>4. ASSUME NEW m \in 1 .. Len(Series[v])
      PROVE  /\ First(v, f, m) \subseteq Patch
             /\ First(v, f, m + 1) = First(v, f, m) \cup
                  (IF f \in Touches(Series[v][m]) THEN {Series[v][m]} ELSE {})
  <2>1. \A j : j \in 1 .. (m + 1) - 1 <=> j \in 1 .. m - 1 \/ j = m
    BY <1>1
  <2>2. \A j \in 1 .. m - 1 : j \in 1 .. Len(Series[v])
    BY <1>1
  <2>3. First(v, f, m) \subseteq Patch
    BY <1>1, <2>2 DEF First
  <2> QED
    BY <2>1, <2>3 DEF First
<1> QED
  BY <1>2, <1>3, <1>4

LEMMA PreparedIsLast ==
  ASSUME NEW v \in Pin
  PROVE  PreparedFirst(v, Len(Series[v]) + 1) = Prepared(v)
BY FirstProperties DEF PreparedFirst, Prepared

(* A record is not the value of a file that is not there.                  *)
LEMMA ContentIsSome ==
  ASSUME NEW b \in Pin \cup {New, Torn}, NEW P \in SUBSET Patch
  PROVE  [base |-> b, patches |-> P] # None
<1>1. [base |-> b, patches |-> P] \in Content
  BY DEF Content
<1> QED
  BY <1>1, NoneAssumption

(* Applied whole, the next patch makes of the tree so far the next one.    *)
LEMMA NextPatch ==
  ASSUME pin \in Pin, n \in 1 .. Len(Series[pin]), tree = PreparedFirst(pin, n),
         \A f \in Touches(Series[pin][n]) : MayFit(Series[pin][n], f)
  PROVE  Patched(Series[pin][n], Touches(Series[pin][n])) = PreparedFirst(pin, n + 1)
<1> DEFINE p == Series[pin][n]
<1>1. ASSUME NEW f \in Path
      PROVE  Patched(p, Touches(p))[f] = PreparedFirst(pin, n + 1)[f]
  <2> DEFINE P == First(pin, f, n)
             Q == First(pin, f, n + 1)
  <2>1. /\ P \in SUBSET Patch
        /\ Q = P \cup (IF f \in Touches(p) THEN {p} ELSE {})
    BY FirstProperties
  <2>2. tree[f] = IF f \in File THEN [base |-> pin, patches |-> P]
                  ELSE IF P = {} THEN None ELSE [base |-> New, patches |-> P]
    BY DEF PreparedFirst
  <2>3. PreparedFirst(pin, n + 1)[f] =
          IF f \in File THEN [base |-> pin, patches |-> Q]
          ELSE IF Q = {} THEN None ELSE [base |-> New, patches |-> Q]
    BY DEF PreparedFirst
  <2>4. Patched(p, Touches(p))[f] =
          IF f \notin Touches(p) THEN tree[f]
          ELSE IF f \in Creates[p] THEN [base |-> New, patches |-> {p}]
          ELSE [base |-> tree[f].base, patches |-> tree[f].patches \cup {p}]
    BY DEF Patched
  <2> HIDE DEF P, Q, p
  <2>5. CASE f \notin Touches(p)
    BY <2>1, <2>2, <2>3, <2>4, <2>5
  <2>6. CASE f \in Touches(p) /\ f \in Creates[p]
    <3>1. f \notin File
      <4>1. p \in Patch
        BY SeriesType DEF p
      <4> QED
        BY <2>6, <4>1, CreatesAssumption
    <3>2. tree[f] = None
      BY <2>6 DEF MayFit, p
    <3>3. P = {}
      BY <2>1, <2>2, <3>1, <3>2, ContentIsSome
    <3>4. Q = {p}
      BY <2>1, <2>6, <3>3
    <3> QED
      BY <2>3, <2>4, <2>6, <3>1, <3>4
  <2>7. CASE f \in Touches(p) /\ f \notin Creates[p]
    <3>1. tree[f] # None
      BY <2>7 DEF MayFit, p
    <3>2. Q = P \cup {p} /\ Q # {}
      BY <2>1, <2>7
    <3>3. Patched(p, Touches(p))[f] =
            [base |-> tree[f].base, patches |-> tree[f].patches \cup {p}]
      BY <2>4, <2>7
    <3>4. CASE f \in File
      BY <2>2, <2>3, <3>2, <3>3, <3>4
    <3>5. CASE f \notin File
      <4>1. tree[f] = [base |-> New, patches |-> P]
        BY <2>2, <3>1, <3>5
      <4> QED
        BY <2>3, <3>2, <3>3, <3>5, <4>1
    <3> QED
      BY <3>4, <3>5
  <2> QED
    BY <2>5, <2>6, <2>7
<1>2. /\ Patched(p, Touches(p)) = [f \in Path |-> Patched(p, Touches(p))[f]]
      /\ PreparedFirst(pin, n + 1) = [f \in Path |-> PreparedFirst(pin, n + 1)[f]]
  BY DEF Patched, PreparedFirst
<1> QED
  BY <1>1, <1>2, Zenon

(* A series made for the pin fits where it was applied from the first on.  *)
LEMMA AllFit ==
  ASSUME pin \in Pin, n \in 1 .. Len(Series[pin]), tree = PreparedFirst(pin, n),
         WellMade(pin), NEW fs \in Fitting(Series[pin][n])
  PROVE  fs = Touches(Series[pin][n])
<1> DEFINE p == Series[pin][n]
<1>1. ASSUME NEW f \in Touches(p) PROVE MustFit(p, f)
  <2> DEFINE P == First(pin, f, n)
  <2>1. p \in Patch /\ f \in Path
    BY SeriesType, TouchesInPath
  <2>2. P \in SUBSET Patch /\ P = Earlier(f, n)
    BY FirstProperties DEF First, Earlier
  <2>3. tree[f] = IF f \in File THEN [base |-> pin, patches |-> P]
                  ELSE IF P = {} THEN None ELSE [base |-> New, patches |-> P]
    BY <2>1 DEF PreparedFirst
  <2>4. IF f \in Creates[p] THEN P = {} ELSE (f \in File \/ P # {}) /\ p \notin P
    BY DEF WellMade
  <2> HIDE DEF P, p
  <2>5. CASE f \in Creates[p]
    <3>1. f \notin File
      BY <2>1, <2>5, CreatesAssumption
    <3> QED
      BY <2>3, <2>4, <2>5, <3>1 DEF MustFit, MayFit
  <2>6. CASE f \notin Creates[p]
    <3>1. tree[f] = [base |-> IF f \in File THEN pin ELSE New, patches |-> P]
      BY <2>3, <2>4, <2>6
    <3>2. tree[f] # None
      BY <2>2, <3>1, ContentIsSome
    <3>3. tree[f].patches = P
      BY <3>1
    <3> QED
      BY <2>2, <2>4, <2>6, <3>1, <3>2, <3>3 DEF MustFit, MayFit
  <2> QED
    BY <2>5, <2>6
<1> QED
  BY <1>1 DEF Fitting

LEMMA FreshInit == Init => FreshSoFar
  BY DEF Init, FreshSoFar

(* Where a failure stops the script, so it does when a command breaks off; *)
(* where it does not, nothing breaks off.                                  *)
LEMMA BreakOffStops ==
  ASSUME StopsOrFits, TypeInv, NEW next, BreakOff(next)
  PROVE  pc' = "idle" /\ UNCHANGED <<pin, n, fresh>>
<1>1. CASE Platform = "macos"
  BY <1>1 DEF BreakOff, AfterFailure
<1>2. CASE MaxFaults = 0
  BY <1>2 DEF BreakOff, TypeInv, TypeOK
<1> QED
  BY <1>1, <1>2 DEF StopsOrFits

LEMMA FreshStep ==
  ASSUME StopsOrFits
  PROVE  TypeInv /\ FreshSoFar /\ [Next]_vars => FreshSoFar'
<1> SUFFICES ASSUME TypeInv, FreshSoFar, [Next]_vars
             PROVE  FreshSoFar'
  OBVIOUS
<1>u. pin \in Pin /\ Len(Series[pin]) \in Nat /\ src \in BOOLEAN
  BY SeriesType DEF TypeInv, TypeOK
<1>e. ~src => tree = Empty /\ linked = None
  BY DEF FreshSoFar
<1>i. ASSUME pc' = "idle", (src' = src /\ tree' = tree /\ linked' = linked) \/ src' = TRUE
      PROVE  FreshSoFar'
  BY <1>i, <1>e DEF FreshSoFar
<1>b. ASSUME NEW next, BreakOff(next), UNCHANGED <<src, tree, linked>> \/ src' = TRUE
      PROVE  FreshSoFar'
  BY <1>b, <1>i, BreakOffStops
<1>f. ASSUME Platform = "macos", NEW next, Fail(next), UNCHANGED <<src, tree, linked>> \/ src' = TRUE
      PROVE  FreshSoFar'
  BY <1>f, <1>i DEF Fail, Goto, AfterFailure
<1>1. CASE Start
  <2>1. pc' = "retrieve" /\ fresh' = ~src /\ UNCHANGED <<src, tree, linked>>
    BY <1>1 DEF Start, disk
  <2> QED
    BY <2>1, <1>e DEF FreshSoFar
<1>2. CASE Retrieve
  <2>1. pc = "retrieve" /\ pc' = "unpack" /\ UNCHANGED <<src, tree, linked, fresh>>
    BY <1>2 DEF Retrieve, Goto
  <2> QED
    BY <2>1 DEF FreshSoFar
<1>3. CASE Unpack
  <2>1. pc = "unpack" /\ n = 1 /\ UNCHANGED <<pin, n, linked, fresh>>
    BY <1>3 DEF Unpack, Goto, Fail, TypeInv, Position
  <2>2. fresh => ~src /\ tree = Empty /\ linked = None
    BY <2>1 DEF FreshSoFar
  <2>3. CASE UNCHANGED <<src, tree>>
    <3>1. pc' \in {"apply", "idle"}
      BY <1>3 DEF Unpack, Goto, Fail, AfterFailure
    <3> QED
      BY <2>1, <2>2, <2>3, <3>1, <1>e DEF FreshSoFar
  <2>4. CASE /\ src' = TRUE
             /\ tree' = [f \in Path |-> IF f \in File THEN Pristine(f) ELSE tree[f]]
             /\ Goto("apply")
    <3>1. ASSUME fresh PROVE tree' = PreparedFirst(pin, 1)
      <4>1. tree' = [f \in Path |-> IF f \in File THEN [base |-> pin, patches |-> {}] ELSE None]
        BY <2>2, <2>4, <3>1 DEF Pristine, Empty
      <4>2. \A f \in Path : First(pin, f, 1) = {}
        BY <1>u, FirstProperties
      <4> QED
        BY <4>1, <4>2 DEF PreparedFirst
    <3>2. pc' = "apply"
      BY <2>4 DEF Goto
    <3> QED
      BY <2>1, <2>2, <2>4, <3>1, <3>2 DEF FreshSoFar
  <2> QED
    BY <1>3, <2>3, <2>4 DEF Unpack
<1>4. CASE Apply
  <2> DEFINE p == Series[pin][n]
  <2>1. /\ n \in 1 .. Len(Series[pin]) /\ pc = "apply" /\ src
        /\ UNCHANGED <<src, linked>>
    BY <1>4, <1>u DEF Apply, Applying, TypeInv, TypeOK, Position
  <2>2. PICK fs \in Fitting(p) :
          /\ tree' = Patched(p, fs)
          /\ IF fs = Touches(p)
             THEN n' = n + 1 /\ UNCHANGED <<pin, pc, attempts, faults, fresh>>
             ELSE Fail("build")
    BY <1>4 DEF Apply
  <2>3. fresh => tree = PreparedFirst(pin, n) /\ linked = None
    BY <2>1 DEF FreshSoFar
  <2>4. CASE fs = Touches(p)
    <3>1. \A f \in Touches(p) : MayFit(p, f)
      BY <2>4 DEF Fitting
    <3>2. ASSUME fresh PROVE tree' = PreparedFirst(pin', n')
      BY <3>1, <3>2, <2>1, <2>2, <2>3, <2>4, <1>u, NextPatch
    <3>3. pc' = "apply" /\ fresh' = fresh
      BY <2>1, <2>2, <2>4
    <3> QED
      BY <3>2, <3>3, <2>1, <2>3 DEF FreshSoFar
  <2>5. CASE fs # Touches(p)
    <3>1. Fail("build")
      BY <2>2, <2>5
    <3>2. CASE Platform = "macos"
      BY <3>1, <3>2, <2>1, <1>f
    <3>3. CASE WellMade(pin)
      <4>1. ~fresh
        BY <2>1, <2>3, <2>5, <3>3, <1>u, AllFit
      <4>2. ~fresh'
        BY <3>1, <4>1 DEF Fail, Goto
      <4> QED
        BY <4>2, <2>1 DEF FreshSoFar
    <3> QED
      BY <3>2, <3>3, <1>u DEF StopsOrFits
  <2> QED
    BY <2>4, <2>5
<1>5. CASE ApplyEnds
  <2>1. UNCHANGED <<pin, n, fresh, src, tree, linked>> /\ pc = "apply"
    BY <1>5 DEF ApplyEnds, Goto, Fail, disk
  <2>2. CASE ~src
    <3>1. pc' \in {"build", "idle"}
      BY <1>5, <2>2 DEF ApplyEnds, Fail, Goto, AfterFailure
    <3> QED
      BY <2>1, <2>2, <3>1, <1>e DEF FreshSoFar
  <2>3. CASE src
    <3>1. n = Len(Series[pin]) + 1 /\ pc' = "build"
      BY <1>5, <2>3, <1>u DEF ApplyEnds, Applying, Goto, TypeInv, TypeOK
    <3>2. fresh => tree = Prepared(pin) /\ linked = None
      BY <2>1, <2>3, <3>1, <1>u, PreparedIsLast DEF FreshSoFar
    <3> QED
      BY <2>1, <2>3, <3>1, <3>2 DEF FreshSoFar
  <2> QED
    BY <2>2, <2>3
<1>6. CASE Build
  <2>1. /\ pc = "build" /\ pc' = "package" /\ src /\ linked' = tree
        /\ UNCHANGED <<pin, n, fresh, src, tree>>
    BY <1>6 DEF Build, Goto
  <2>2. fresh => linked' = Prepared(pin)
    BY <2>1 DEF FreshSoFar
  <2> QED
    BY <2>1, <2>2 DEF FreshSoFar
<1>7. CASE Package
  BY <1>7, <1>i DEF Package, Goto
<1>8. CASE BuildFails
  <2>1. UNCHANGED <<src, tree, linked>> /\ pc = "build"
    BY <1>8 DEF BuildFails, disk
  <2>2. CASE BreakOff("package")
    BY <2>1, <2>2, <1>b
  <2>3. CASE (src => tree # Prepared(pin)) /\ Fail("package")
    <3>1. UNCHANGED <<pin, n, fresh>> /\ pc' \in {"package", "idle"}
      BY <2>3 DEF Fail, Goto, AfterFailure
    <3>2. fresh => ~src
      BY <2>1, <2>3 DEF FreshSoFar
    <3> QED
      BY <2>1, <3>1, <3>2, <1>e DEF FreshSoFar
  <2> QED
    BY <1>8, <2>2, <2>3 DEF BuildFails
<1>9. CASE RetrieveBreaks
  BY <1>9, <1>b DEF RetrieveBreaks
<1>10. CASE UnpackBreaks
  BY <1>10, <1>b DEF UnpackBreaks
<1>11. CASE ApplyBreaks
  BY <1>11, <1>u, <1>b DEF ApplyBreaks, Applying
<1>12. CASE PackageBreaks
  BY <1>12, <1>b DEF PackageBreaks, disk
<1>13. CASE DeleteSource
  BY <1>13 DEF DeleteSource, FreshSoFar
<1>14. CASE MovePin
  BY <1>14, <1>i DEF MovePin, disk
<1>15. CASE UNCHANGED vars
  BY <1>15 DEF vars, disk, FreshSoFar
<1> QED
  BY <1>1, <1>2, <1>3, <1>4, <1>5, <1>6, <1>7, <1>8, <1>9, <1>10, <1>11, <1>12,
     <1>13, <1>14, <1>15 DEF Next, Script

(* Only the packager makes a package.                                      *)
LEMMA FreshPackage ==
  ASSUME FreshSoFar, [Next]_vars, package' # package, fresh
  PROVE  package' = [label |-> pin, from |-> Prepared(pin)]
<1>1. Package
  BY DEF Next, Script, Start, Retrieve, Unpack, Apply, ApplyEnds, Build, BuildFails,
         RetrieveBreaks, UnpackBreaks, ApplyBreaks, PackageBreaks, DeleteSource,
         MovePin, disk, vars
<1>2. pc = "package" /\ linked # None /\ package' = [label |-> pin, from |-> linked]
  BY <1>1 DEF Package
<1> QED
  BY <1>2 DEF FreshSoFar

(* A build from scratch packages the archive its label names with the      *)
(* whole series in it: with build.sh whatever breaks off, with build.ps1   *)
(* if nothing does and the series was made for the pin.                    *)
THEOREM FreshBuildIsExact ==
  ASSUME StopsOrFits
  PROVE  Spec => FreshIsExact
<1>1. Init => TypeInv /\ FreshSoFar
  BY TypeInit, FreshInit
<1>2. TypeInv /\ FreshSoFar /\ [Next]_vars => (TypeInv /\ FreshSoFar)'
  BY TypeStep, FreshStep
<1>3. TypeInv /\ FreshSoFar /\ [Next]_vars =>
        [package' # package /\ fresh =>
           package' = [label |-> pin, from |-> Prepared(pin)]]_vars
  BY FreshPackage
<1> QED
  BY <1>1, <1>2, <1>3, PTL DEF Spec, FreshIsExact
=============================================================================
